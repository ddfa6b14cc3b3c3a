------------------------------ MODULE MCPaging ------------------------------
(* Small instances of Paging. *)
EXTENDS Paging

MCFilled == [id \in 1 .. MaxId |-> <<{"a"}, {"b"}, {"a", "b"}, {}, {"a"}>>[id]]
MCNameBytes == [c \in Columns |-> IF c = "a" THEN 3 ELSE 61]

\* Rows of at most two lengths: short, just under and just over a budget for two
\* rows, with and without a column name, for one row, and too long for any page.
MCTables ==
  {f \in [1 .. MaxId -> {200, 388, 389, 420, 778, 900}] :
     f[1] = f[2] /\ f[4] = f[5] /\ Cardinality({f[id] : id \in 1 .. MaxId}) <= 2}

\* Requests that reach the store in the order in which they came; and rows 1 and 3
\* of one request with row 2, of a later one, between them.
MCReceipts == {<<1, 2, 3, 4, 5>>, <<2, 3, 2, 4, 5>>}

\* The table has more rows than the larger limit, and MaxOffset less.
MCOptions == [limit : {2, 3}, includeEmpty : BOOLEAN]
=============================================================================
