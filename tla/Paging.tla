-------------------------------- MODULE Paging --------------------------------
(***************************************************************************)
(* `logal logs|spans|metrics --json` read page by page: query.Read under   *)
(* its row and byte budgets, the caller who follows next_offset, and the   *)
(* collector that inserts and removes rows between two pages.  A row is     *)
(* named by its order of insertion, which orders the rows of a snapshot as  *)
(* their SQLite ids do, also when ids repeat after a clear.                 *)
(***************************************************************************)
EXTENDS Integers, Sequences, FiniteSets, SequencesExt

CONSTANTS
  Initial,      \* ids in the table when the first page is read
  MaxId,        \* bound: last id that is inserted
  Columns,      \* the selected columns
  NameBytes,    \* NameBytes[c]: length of the quoted column name
  Filled,       \* Filled[id]: the columns of the row that are not empty
  Tables,       \* possible values of rowBytes
  Receipts,     \* possible values of received
  Options,      \* what the caller may ask for: --limit and --include-empty
  MaxBytes,     \* --max-bytes
  MaxOffset     \* 1000000 in the code

ASSUME PagingAssumption ==
  /\ Initial \subseteq 1 .. MaxId /\ Initial # {} /\ MaxId \in Nat
  /\ IsFiniteSet(Columns) /\ NameBytes \in [Columns -> Nat \ {0}]
  /\ Filled \in [1 .. MaxId -> SUBSET Columns]
  /\ Tables \subseteq [1 .. MaxId -> Nat \ {0}]
  /\ Receipts \subseteq [1 .. MaxId -> Nat]
  /\ Options \subseteq [limit : Nat \ {0}, includeEmpty : BOOLEAN]
  /\ \A o \in Options : o.limit <= 10000
  /\ MaxBytes \in Nat /\ 1024 <= MaxBytes /\ MaxBytes <= 16777216
  /\ MaxOffset \in Nat /\ MaxOffset <= 1000000

VARIABLES
  options, \* the caller's options, the same on every page
  rowBytes, \* rowBytes[id]: length of the row as JSON
  received, \* received[id]: when the exporter began to handle the row's request,
            \* before it waited for the writer: not in the order of the ids
  table,  \* ids in the table
  last,   \* the last id
  offset, \* --offset of the next page
  seen,   \* ids on the pages read so far
  phase,  \* the caller: "reading", "done", "capped" or "failed"
  page,   \* the last result
  \* history
  gone,   \* ids that were removed since the first page
  quiet   \* nothing was inserted or removed since the first page

fixed == <<options, rowBytes, received>>
vars  == <<fixed, table, last, offset, seen, phase, page, gone, quiet>>

NoPage == [ids |-> <<>>, cols |-> {}, reason |-> "none", next |-> 0]

Init ==
  /\ options \in Options
  /\ rowBytes \in Tables
  /\ received \in Receipts
  /\ table = Initial
  /\ last = Max(Initial)
  /\ offset = 0
  /\ seen = <<>>
  /\ phase = "reading"
  /\ page = NoPage
  /\ gone = {} /\ quiet = TRUE

-----------------------------------------------------------------------------
(* query.Read.                                                             *)

\* The names of a set of columns, each with its comma.
ColumnBytes[S \in SUBSET Columns] ==
  IF S = {} THEN 0
  ELSE LET c == CHOOSE x \in S : TRUE IN ColumnBytes[S \ {c}] + NameBytes[c] + 1

\* {"columns":[],"rows":[],"count":0,"truncated":false}, with the names if they
\* are known beforehand.
Header == 52 + (IF options.includeEmpty THEN ColumnBytes[Columns] - 1 ELSE 0)

\* Mutant of Reserve: nothing is set aside for the metadata.
NoReserve == 0

\* Metadata, commas and the final newline.
Reserve == 128

\* ORDER BY id DESC.
Newest(S) ==
  [i \in 1 .. Cardinality(S) |->
     CHOOSE id \in S : Cardinality({j \in S : j > id}) = i - 1]

\* The rows of the snapshot from the offset on.
Snapshot(o) == SubSeq(Newest(table), o + 1, Cardinality(table))

Visible(s) == IF options.includeEmpty THEN Columns ELSE UNION {Filled[id] : id \in ToSet(s)}

AllRowBytes(s) ==
  LET sum[i \in 0 .. Len(s)] == IF i = 0 THEN 0 ELSE sum[i - 1] + rowBytes[s[i]]
  IN  sum[Len(s)]

\* used after the rows of s.
Used(s) ==
  Header + Reserve + AllRowBytes(s) + Len(s)
    + (IF options.includeEmpty THEN 0 ELSE ColumnBytes[Visible(s)])

\* How many rows of s the loop appends before a limit stops it.
Taken(s) ==
  LET fits == {n \in 0 .. Len(s) : n <= options.limit /\ Used(SubSeq(s, 1, n)) <= MaxBytes}
  IN  CHOOSE n \in fits : \A m \in fits : m <= n

Reason(s, n) ==
  IF n = Len(s) THEN "none" ELSE IF n = options.limit THEN "row_limit" ELSE "byte_limit"

\* Mutant of Fails: a row that does not fit leaves an empty, truncated page.
FailsNever(s) == Header + Reserve > MaxBytes

\* "column names exceed output budget", "first row exceeds output budget".
Fails(s) ==
  \/ Header + Reserve > MaxBytes
  \/ s # <<>> /\ Used(SubSeq(s, 1, 1)) > MaxBytes

\* Mutant of NextOffset: the next page starts a whole limit later.
NextByLimit(n) == offset + options.limit

\* options.Offset + result.Count.
NextOffset(n) == offset + n

\* One invocation: Validate, OpenReadOnly, one SELECT in one snapshot, the loop.
ReadPage ==
  /\ phase = "reading"
  /\ LET s == Snapshot(offset)
         n == Taken(s)
         why == Reason(s, n)
     IN  \/ /\ offset > MaxOffset
            /\ phase' = "capped"
            /\ UNCHANGED <<offset, seen, page>>
         \/ /\ offset <= MaxOffset /\ Fails(s)
            /\ phase' = "failed"
            /\ UNCHANGED <<offset, seen, page>>
         \/ /\ offset <= MaxOffset /\ ~Fails(s)
            /\ page' = [ids |-> SubSeq(s, 1, n), cols |-> Visible(SubSeq(s, 1, n)),
                        reason |-> why, next |-> NextOffset(n)]
            /\ seen' = seen \o SubSeq(s, 1, n)
            /\ offset' = IF why = "none" THEN offset ELSE NextOffset(n)
            /\ phase' = IF why = "none" THEN "done" ELSE "reading"
  /\ UNCHANGED <<fixed, table, last, gone, quiet>>

\* The deadline ends the query: an error and no partial result.
Timeout ==
  /\ phase = "reading"
  /\ phase' = "failed"
  /\ UNCHANGED <<fixed, table, last, offset, seen, page, gone, quiet>>

-----------------------------------------------------------------------------
(* The collector.                                                          *)

\* A row is committed; it comes first.
Insert ==
  /\ phase = "reading" /\ offset > 0
  /\ last < MaxId
  /\ last' = last + 1
  /\ table' = table \cup {last + 1}
  /\ quiet' = FALSE
  /\ UNCHANGED <<fixed, offset, seen, phase, page, gone>>

\* Mutant of Oldest: the batch is taken without ORDER BY.
AnyRows(D) == TRUE

\* D are rows that were received no later than the others.
Oldest(D) == \A d \in D, k \in table \ D : received[d] <= received[k]

\* Retention and eviction remove the rows received first, a clear removes all.
Expire ==
  /\ phase = "reading" /\ offset > 0
  /\ \E D \in SUBSET table :
       /\ D # {} /\ Oldest(D)
       /\ table' = table \ D
       /\ gone' = gone \cup D
  /\ quiet' = FALSE
  /\ UNCHANGED <<fixed, last, offset, seen, phase, page>>

Next == ReadPage \/ Timeout \/ Insert \/ Expire

\* The caller goes on to the next page.
Spec == Init /\ [][Next]_vars /\ WF_vars(ReadPage)

-----------------------------------------------------------------------------
(* Properties.                                                             *)

Digits(n) == IF n < 10 THEN 1 ELSE IF n < 100 THEN 2 ELSE IF n < 1000 THEN 3
             ELSE IF n < 10000 THEN 4 ELSE IF n < 100000 THEN 5 ELSE 7

\* Length of a list of m elements of n bytes altogether, with its commas.
ListBytes(n, m) == 2 + n + (IF m = 0 THEN 0 ELSE m - 1)

\* The page as printResult encodes it, newline included.
Encoded(p) ==
  LET m == Len(p.ids)
  IN  48 + ListBytes(ColumnBytes[p.cols] - Cardinality(p.cols), Cardinality(p.cols))
         + ListBytes(AllRowBytes(p.ids), m)
         + Digits(m) - 1 + 1
         + (IF p.reason = "none" THEN 0
            ELSE -1 + (IF p.reason = "row_limit" THEN 32 ELSE 33) + 15 + Digits(p.next))

\* Read, printResult: whatever columns turn up in whatever order, the running
\* estimate covers the encoded result, so a page that Read built is printed.
PageFits == page # NoPage => Encoded(page) <= MaxBytes

\* A row with a greater id, received no later than row id, was removed.
Overtaken(id) == \E j \in gone : j > id /\ received[j] <= received[id]

\* Read: following next_offset to the end shows every row that was there from
\* the first page to the last, whatever was inserted and expired meanwhile, unless
\* a row that had come to the exporter before it and to the store after it, or
\* with it, expired: that is the only way in which a row that stays is missed
\* ("Ingestion, retention, and relative time windows can shift their boundaries").
\* If nothing changed the pages are the table, in order, each row once.
PagesShowTheTable ==
  /\ phase = "done" => \A id \in table \cap Initial : id \in ToSet(seen) \/ Overtaken(id)
  /\ quiet => IsPrefix(seen, Newest(Initial))

\* Read: a truncated page has rows, so the caller gets to an end.
PagingEnds == <>(phase # "reading")
=============================================================================
