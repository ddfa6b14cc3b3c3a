----------------------------- MODULE MCPayload -----------------------------
(* Small instances of Payload. *)
EXTENDS Payload

A == <<"a">>
Huge == <<"huge">>
Token == <<"token">>
Prefixed == <<"db", "_", "password">>
Namespaced == <<"http", ".", "api", "-", "key">>
Count == <<"token", "_", "count">>

MCKeys == <<A, Prefixed, Namespaced, Huge, Token, Count>>

Lists(S, n) == UNION {[1 .. m -> S] : m \in 0 .. n}
MapsOf(K, V, n) == {Map(s) : s \in Lists({Entry(k, v) : k \in K, v \in V}, n)}
SlicesOf(V, n) == {Slice(s) : s \in Lists(V, n)}

\* Every place, with each key above each kind of value.
AnyPlace == {<<"logs", "resource">>, <<"logs", "body">>, <<"spans", "scope">>,
  <<"spans", "record">>, <<"spans", "events">>, <<"spans", "links">>,
  <<"metrics", "metric">>, <<"metrics", "exemplars">>}

At(places, contents) ==
  {[signal |-> p[1], place |-> p[2], content |-> v] : p \in places, v \in contents}

Small == {Leaf("x"), Leaf("huge"), Map(<<>>), Slice(<<>>)}
Nested == MapsOf(ToSet(MCKeys), Small, 1) \cup SlicesOf(Small, 1)
Deep == MapsOf({A, Token}, Nested, 1)
         \cup MapsOf({A}, SlicesOf(Nested, 1), 1)
         \cup MapsOf({A}, MapsOf({A}, Nested, 1), 1)

LimitRecords == At(AnyPlace, Deep) \cup At({<<"logs", "body">>}, Nested \cup SlicesOf(Nested, 1))

\* Pairs that differ in order, nesting, a repeated key or a secret only.
Flat == MapsOf({A, Token, Count}, {Leaf("x"), Leaf("y")}, 2)
Wrapped == {Map(<<Entry(A, v)>>) : v \in Flat \cup SlicesOf({Leaf("x"), Leaf("y")}, 2)}
PairRecords == At({<<"logs", "body">>, <<"metrics", "exemplars">>}, Flat \cup Wrapped)

MCSessions == {<<r>> : r \in LimitRecords} \cup {<<r, q>> : r, q \in PairRecords}
=============================================================================
