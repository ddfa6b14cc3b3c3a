---------------------------- MODULE ExporterProofs ----------------------------
(***************************************************************************)
(* Proofs that the exporter's verdicts are true and that it commits only   *)
(* whole, acceptable requests, for any requests, any number of handlers    *)
(* and clients, and any failures.  The walk's invariant relates what the   *)
(* handler has summed and collected so far to the first parts of the       *)
(* request; the rest follows a verdict from the store to the client.       *)
(***************************************************************************)
EXTENDS Exporter, FiniteSetTheorems, SequenceTheorems, WellFoundedInduction, TLAPS

USE ExporterAssumption

-----------------------------------------------------------------------------
(* The running sum.  A property of all numbers up to a bound is proved by   *)
(* descent: the numbers that lack it would include each one's predecessor.  *)

\* A set of naturals with the predecessor of each of its members is empty.
LEMMA Descent ==
  ASSUME NEW N, N \subseteq Nat, \A n \in N : n - 1 \in N
  PROVE  N = {}
<1>. DEFINE R == {ss \in Nat \X Nat : ss[1] < ss[2]}
<1>1. IsWellFoundedOn(R, Nat)
  BY NatLessThanWellFounded, Zenon DEF OpToRel
<1>. HIDE DEF R
<1>. SUFFICES ASSUME N # {} PROVE FALSE
  OBVIOUS
<1>2. PICK n \in N : \A m \in N : <<m, n>> \notin R
  BY <1>1, WFMin, Zenon
<1>3. n \in Nat /\ n - 1 \in Nat /\ n - 1 \in N
  BY <1>2
<1>4. <<n - 1, n>> \in R
  BY <1>3 DEF R
<1>. QED BY <1>2, <1>3, <1>4

\* f is the sum of a, up to n.
Sums(f, a, n) ==
  /\ f \in [0 .. n -> Nat] /\ f[0] = 0
  /\ \A i \in 1 .. n : f[i] = f[i - 1] + a[i]

\* Every sequence of numbers has its running sum.
LEMMA SumExists ==
  ASSUME NEW k \in Nat, NEW a \in [1 .. k -> Nat]
  PROVE  \E f : Sums(f, a, k)
<1>. DEFINE Has(n) == \E f : Sums(f, a, n)
            N == {n \in 0 .. k : ~Has(n)}
<1>1. ASSUME NEW n \in N PROVE n - 1 \in N
  <2>1. n \in 0 .. k /\ ~Has(n)
    OBVIOUS
  <2>2. n # 0
    <3>. DEFINE f == [i \in 0 .. 0 |-> 0]
    <3>1. Sums(f, a, 0)
      BY DEF Sums
    <3>2. Has(0)
      BY <3>1
    <3>. QED BY <2>1, <3>2
  <2>3. n \in 1 .. k /\ n - 1 \in 0 .. k
    BY <2>1, <2>2
  <2>4. ASSUME NEW g, Sums(g, a, n - 1) PROVE FALSE
    <3>. DEFINE f == [i \in 0 .. n |-> IF i = n THEN g[n - 1] + a[n] ELSE g[i]]
    <3>1. g \in [0 .. n - 1 -> Nat] /\ g[0] = 0 /\ a[n] \in Nat /\ g[n - 1] \in Nat
      BY <2>3, <2>4 DEF Sums
    <3>2. f \in [0 .. n -> Nat]
      BY <2>3, <3>1
    <3>3. f[n] = g[n - 1] + a[n] /\ \A i \in 0 .. n - 1 : f[i] = g[i]
      BY <2>3
    <3>. HIDE DEF f
    <3>4. f[0] = 0
      BY <2>3, <3>1, <3>3
    <3>5. ASSUME NEW i \in 1 .. n PROVE f[i] = f[i - 1] + a[i]
      <4>1. CASE i = n
        BY <2>3, <3>3, <4>1
      <4>2. CASE i # n
        <5>1. i \in 1 .. n - 1 /\ i \in 0 .. n - 1 /\ i - 1 \in 0 .. n - 1
          BY <2>3, <4>2
        <5>2. g[i] = g[i - 1] + a[i]
          BY <2>4, <5>1 DEF Sums
        <5>. QED BY <3>3, <5>1, <5>2
      <4>. QED BY <4>1, <4>2
    <3>6. Sums(f, a, n)
      BY <3>2, <3>4, <3>5 DEF Sums
    <3>. QED BY <2>1, <3>6
  <2>. QED BY <2>3, <2>4
<1>2. N \subseteq Nat
  OBVIOUS
<1>3. k \notin N
  <2>. HIDE DEF N
  <2>1. N = {}
    BY <1>1, <1>2, Descent
  <2>. QED BY <2>1
<1>. QED BY <1>3

\* What RunningBytes computes.
LEMMA RunningSum ==
  ASSUME NEW r \in Requests
  PROVE  /\ Len(Parts[r]) \in Nat /\ DOMAIN Parts[r] = 1 .. Len(Parts[r])
         /\ \A i \in DOMAIN Parts[r] : Parts[r][i] \in Part
         /\ RunningBytes(r) \in [0 .. Len(Parts[r]) -> Nat]
         /\ RunningBytes(r)[0] = 0
         /\ \A i \in 1 .. Len(Parts[r]) :
              RunningBytes(r)[i] = RunningBytes(r)[i - 1] + Parts[r][i].bytes
<1>. DEFINE k == Len(Parts[r])
            a == [i \in 1 .. k |-> Parts[r][i].bytes]
<1>1. k \in Nat /\ DOMAIN Parts[r] = 1 .. k /\ \A i \in 1 .. k : Parts[r][i] \in Part
  BY LenProperties, ElementOfSeq
<1>. HIDE DEF k
<1>2. a \in [1 .. k -> Nat] /\ \A i \in 1 .. k : a[i] = Parts[r][i].bytes
  BY <1>1 DEF Part
<1>. HIDE DEF a
<1>. DEFINE P(f) == f = [n \in 0 .. k |-> IF n = 0 THEN 0 ELSE f[n - 1] + Parts[r][n].bytes]
<1>3. \E g : P(g)
  <2>1. PICK f : Sums(f, a, k)
    BY <1>1, <1>2, SumExists
  <2>2. ASSUME NEW n \in 0 .. k
        PROVE  f[n] = IF n = 0 THEN 0 ELSE f[n - 1] + Parts[r][n].bytes
    <3>1. CASE n = 0
      BY <2>1, <3>1 DEF Sums
    <3>2. CASE n # 0
      <4>1. n \in 1 .. k
        BY <1>1, <3>2
      <4>2. f[n] = f[n - 1] + a[n]
        BY <2>1, <4>1 DEF Sums
      <4>. QED BY <1>2, <3>2, <4>1, <4>2
    <3>. QED BY <3>1, <3>2
  <2>3. f \in [0 .. k -> Nat]
    BY <2>1 DEF Sums
  <2>4. P(f)
    BY <2>2, <2>3
  <2>. QED BY <2>4
<1>4. RunningBytes(r) = CHOOSE f : P(f)
  BY DEF RunningBytes, k
<1>. HIDE DEF P
<1>5. P(RunningBytes(r))
  BY <1>3, <1>4
<1>. DEFINE s == RunningBytes(r)
<1>6. s = [n \in 0 .. k |-> IF n = 0 THEN 0 ELSE s[n - 1] + Parts[r][n].bytes]
  BY <1>5 DEF P
<1>. HIDE DEF s
<1>7. s[0] = 0
  <2>1. 0 \in 0 .. k
    BY <1>1
  <2>. QED BY <1>6, <2>1
<1>8. ASSUME NEW i \in 1 .. k PROVE s[i] = s[i - 1] + Parts[r][i].bytes
  <2>1. i \in 0 .. k /\ i # 0
    BY <1>1
  <2>. QED BY <1>6, <2>1
<1>9. \A i \in 0 .. k : s[i] \in Nat
  <2>. DEFINE N == {n \in 0 .. k : s[n] \notin Nat}
  <2>1. ASSUME NEW n \in N PROVE n - 1 \in N
    <3>1. n \in 0 .. k /\ s[n] \notin Nat
      OBVIOUS
    <3>2. n \in 1 .. k /\ n - 1 \in 0 .. k
      BY <1>1, <1>7, <3>1
    <3>3. s[n] = s[n - 1] + Parts[r][n].bytes /\ Parts[r][n].bytes \in Nat
      BY <1>1, <1>8, <3>2 DEF Part
    <3>. QED BY <3>1, <3>2, <3>3
  <2>2. N \subseteq Nat
    BY <1>1
  <2>3. N = {}
    <3>. HIDE DEF N
    <3>. QED BY <2>1, <2>2, Descent
  <2>. QED BY <2>3
<1>10. s \in [0 .. k -> Nat]
  BY <1>6, <1>9
<1>. QED BY <1>1, <1>7, <1>8, <1>10 DEF s, k

\* The sum does not fall.
LEMMA RunningSumGrows ==
  ASSUME NEW r \in Requests, NEW i \in 0 .. Len(Parts[r])
  PROVE  RunningBytes(r)[i] <= SumBytes(r)
<1>. DEFINE k == Len(Parts[r])
            s == RunningBytes(r)
            N == {n \in 0 .. k : i <= n /\ ~(s[i] <= s[n])}
<1>1. /\ k \in Nat /\ s \in [0 .. k -> Nat] /\ i \in 0 .. k
      /\ \A n \in 1 .. k : s[n] = s[n - 1] + Parts[r][n].bytes /\ Parts[r][n].bytes \in Nat
  BY RunningSum DEF Part
<1>. HIDE DEF s, k
<1>2. ASSUME NEW n \in N PROVE n - 1 \in N
  <2>1. n \in 0 .. k /\ i <= n /\ ~(s[i] <= s[n]) /\ s[i] \in Nat /\ s[n] \in Nat
    BY <1>1
  <2>2. n # i
    BY <2>1
  <2>3. n \in 1 .. k /\ n - 1 \in 0 .. k /\ i <= n - 1
    BY <1>1, <2>1, <2>2
  <2>4. s[n] = s[n - 1] + Parts[r][n].bytes /\ Parts[r][n].bytes \in Nat /\ s[n - 1] \in Nat
    BY <1>1, <2>3
  <2>. QED BY <2>1, <2>3, <2>4
<1>3. N \subseteq Nat
  BY <1>1
<1>4. N = {}
  <2>. HIDE DEF N
  <2>. QED BY <1>2, <1>3, Descent
<1>5. k \in 0 .. k /\ i <= k
  BY <1>1
<1>6. s[i] <= s[k]
  BY <1>4, <1>5
<1>. QED BY <1>6 DEF s, k, SumBytes

-----------------------------------------------------------------------------
(* The inductive invariant.                                                *)

Handler ==
  [at : {"off", "count", "walk", "insert", "answer"}, r : Requests \cup {Null}, i : Nat,
   bytes : Nat, batch : SUBSET STRING, live : BOOLEAN,
   code : {Null, "OK", "InvalidArgument", "Canceled", "Unavailable"}]

TypeInv ==
  /\ client \in [Requests -> Calls \cup {"idle", "acked", "rejected"}]
  /\ call \in [Calls -> Handler]
  /\ ever \in [Signals -> SUBSET STRING]
  /\ rows \in [Signals -> SUBSET STRING]
  /\ req \in [Calls -> {Null} \cup [sig : Signals, batch : SUBSET STRING]]
  /\ ans \in [Calls -> {"none", "ok", "conflict", "error"}]

\* The rows of the records before part n.
Taken(r, n) == {Parts[r][j].row : j \in {k \in Recs(r) : k < n}}

\* The two verdicts: everything was stored; nothing can ever be stored.
Stored(r) == Rows(r) \subseteq ever[Signal[r]]
Contradicted(r) == T!Conflicts(Signal[r], Rows(r), ever[Signal[r]] \cup Rows(r))
Good(r) == Acceptable(r) /\ Stored(r)
Bad(r) == ~Acceptable(r) \/ Contradicted(r)

\* A walk has summed, collected and validated the parts before c.i.
Walked(c) ==
  /\ ~TooMany(c.r)
  /\ c.i \in 1 .. Len(Parts[c.r]) + 1
  /\ c.bytes = RunningBytes(c.r)[c.i - 1] /\ c.bytes <= MaxBytes
  /\ c.batch = Taken(c.r, c.i)
  /\ \A j \in 1 .. c.i - 1 : Parts[c.r][j].valid

\* What a handler in each of its states knows of its request.
HandlerInv(h) ==
  /\ call[h].at # "off" => call[h].r \in Requests
  /\ call[h].at = "count" => call[h].bytes = 0 /\ call[h].batch = {}
  /\ call[h].at = "walk" => Walked(call[h])
  /\ call[h].at = "insert" =>
       /\ Acceptable(call[h].r)
       /\ req[h] = [sig |-> Signal[call[h].r], batch |-> Rows(call[h].r)]
       /\ ans[h] = "ok" => Stored(call[h].r)
       /\ ans[h] = "conflict" => Contradicted(call[h].r)
  /\ call[h].at # "insert" => req[h] = Null /\ ans[h] = "none"
  /\ call[h].at = "answer" =>
       /\ call[h].code = "OK" => Good(call[h].r)
       /\ call[h].code = "InvalidArgument" => Bad(call[h].r)

\* A client waits for a handler of its own request, or has a true verdict.
ClientInv(r) ==
  /\ client[r] \in Calls => call[client[r]].at # "off" /\ call[client[r]].r = r
  /\ client[r] = "acked" => Good(r)
  /\ client[r] = "rejected" => Bad(r)

IInv ==
  /\ TypeInv
  /\ \A s \in Signals : rows[s] \subseteq ever[s]
  /\ \A h \in Calls : HandlerInv(h)
  /\ \A r \in Requests : ClientInv(r)

-----------------------------------------------------------------------------
(* Facts about requests.                                                   *)

\* The numbers of metrics and of records are numbers, so that a request that is
\* not too long keeps both limits.
LEMMA CountsAreLimits ==
  ASSUME NEW r \in Requests
  PROVE  ~TooMany(r) <=> /\ Cardinality(Descriptors(r)) <= MaxDescriptors
                         /\ Cardinality(Recs(r)) <= MaxCount
<1>0. Len(Parts[r]) \in Int /\ 1 \in Int
  BY RunningSum
<1>1. IsFiniteSet(1 .. Len(Parts[r]))
  BY <1>0, FS_Interval, Zenon
<1>2. Recs(r) \subseteq 1 .. Len(Parts[r]) /\ Descriptors(r) \subseteq 1 .. Len(Parts[r])
  BY RunningSum DEF Recs, Descriptors
<1>3. IsFiniteSet(Recs(r)) /\ IsFiniteSet(Descriptors(r))
  BY <1>1, <1>2, FS_Subset
<1>4. Cardinality(Recs(r)) \in Nat /\ Cardinality(Descriptors(r)) \in Nat
  BY <1>3, FS_CardinalityType
<1>. QED BY <1>4 DEF TooMany

\* Rows are strings.
LEMMA RowsAreStrings ==
  ASSUME NEW r \in Requests PROVE Rows(r) \subseteq STRING
BY RunningSum DEF Rows, Recs, Part

\* The first part of a request: nothing summed, nothing collected.
LEMMA WalkStarts ==
  ASSUME NEW r \in Requests, NEW c, c.r = r, c.i = 1, c.bytes = 0, c.batch = {},
         ~TooMany(r)
  PROVE  Walked(c)
<1>1. Taken(r, 1) = {}
  BY RunningSum DEF Taken, Recs
<1>. QED BY <1>1, RunningSum DEF Walked

\* One more part that is not broken.
LEMMA WalkGoesOn ==
  ASSUME NEW r \in Requests, NEW c, NEW d, c.r = r, Walked(c), c.i <= Len(Parts[r]),
         c.i \in Nat, c.bytes \in Nat,
         ~Broken(Parts[r][c.i], c.bytes),
         d.r = r, d.i = c.i + 1, d.bytes = c.bytes + Parts[r][c.i].bytes,
         d.batch = c.batch \cup IF Parts[r][c.i].kind = "record" THEN {Parts[r][c.i].row} ELSE {}
  PROVE  Walked(d)
<1>. DEFINE i == c.i
<1>1. i \in 1 .. Len(Parts[r]) /\ Len(Parts[r]) \in Nat /\ i \in DOMAIN Parts[r]
  <2>1. i \in 1 .. Len(Parts[r]) + 1
    BY DEF Walked
  <2>. QED BY <2>1, RunningSum
<1>2. d.i \in 1 .. Len(Parts[r]) + 1
  BY <1>1
<1>3. d.bytes = RunningBytes(r)[d.i - 1]
  <2>1. RunningBytes(r)[i] = RunningBytes(r)[i - 1] + Parts[r][i].bytes
    BY <1>1, RunningSum
  <2>2. d.i - 1 = i
    BY <1>1
  <2>. QED BY <2>1, <2>2 DEF Walked
<1>4. d.bytes <= MaxBytes
  BY DEF Broken, Fits
<1>5. d.batch = Taken(r, d.i)
  <2>1. {k \in Recs(r) : k < d.i} =
          {k \in Recs(r) : k < i} \cup IF Parts[r][i].kind = "record" THEN {i} ELSE {}
    <3>0. /\ \A k \in Recs(r) : k \in Int
          /\ i \in Int /\ d.i = i + 1 /\ (i \in Recs(r) <=> Parts[r][i].kind = "record")
      BY <1>1, RunningSum DEF Recs
    <3>. QED BY <3>0
  <2>2. c.batch = Taken(r, i)
    BY DEF Walked
  <2>. QED BY <2>1, <2>2 DEF Taken
<1>6. ASSUME NEW j \in 1 .. d.i - 1 PROVE Parts[r][j].valid
  <2>1. j \in 1 .. i - 1 \/ j = i
    BY <1>1
  <2>. QED BY <2>1 DEF Walked, Broken
<1>. QED BY <1>2, <1>3, <1>4, <1>5, <1>6 DEF Walked

\* A broken part makes the request unacceptable.
LEMMA BrokenMeansBad ==
  ASSUME NEW r \in Requests, NEW c, c.r = r, Walked(c), c.i <= Len(Parts[r]),
         c.i \in Nat, c.bytes \in Nat, Broken(Parts[r][c.i], c.bytes)
  PROVE  ~Acceptable(r)
<1>. DEFINE i == c.i
<1>1. /\ i \in 1 .. Len(Parts[r]) /\ i \in DOMAIN Parts[r] /\ i \in 0 .. Len(Parts[r])
      /\ Len(Parts[r]) \in 0 .. Len(Parts[r])
  <2>1. i \in 1 .. Len(Parts[r]) + 1
    BY DEF Walked
  <2>. QED BY <2>1, RunningSum
<1>2. CASE ~Parts[r][i].valid
  BY <1>1, <1>2 DEF Acceptable
<1>3. CASE ~(c.bytes + Parts[r][i].bytes <= MaxBytes)
  <2>1. RunningBytes(r)[i] = c.bytes + Parts[r][i].bytes
    BY <1>1, RunningSum DEF Walked
  <2>2. RunningBytes(r)[i] <= SumBytes(r)
    BY <1>1, RunningSumGrows
  <2>3. RunningBytes(r)[i] \in Nat /\ SumBytes(r) \in Nat
    BY <1>1, RunningSum DEF SumBytes
  <2>. QED BY <1>3, <2>1, <2>2, <2>3 DEF Acceptable
<1>. QED BY <1>2, <1>3 DEF Broken, Fits

\* A walk past the last part has everything, and everything is acceptable.
LEMMA WalkEnds ==
  ASSUME NEW r \in Requests, NEW c, c.r = r, Walked(c), ~(c.i <= Len(Parts[r])), c.i \in Nat
  PROVE  Acceptable(r) /\ c.batch = Rows(r)
<1>1. Len(Parts[r]) \in Nat /\ DOMAIN Parts[r] = 1 .. Len(Parts[r])
  BY RunningSum
<1>2. c.i = Len(Parts[r]) + 1 /\ c.i - 1 = Len(Parts[r])
  <2>1. c.i \in 1 .. Len(Parts[r]) + 1
    BY DEF Walked
  <2>. DEFINE k == Len(Parts[r])
              i == c.i
  <2>2. k \in Nat /\ i \in 1 .. k + 1 /\ ~(i <= k)
    BY <1>1, <2>1
  <2>. HIDE DEF k, i
  <2>3. i = k + 1 /\ i - 1 = k
    BY <2>2
  <2>. QED BY <2>3 DEF k, i
<1>3. SumBytes(r) <= MaxBytes /\ \A j \in DOMAIN Parts[r] : Parts[r][j].valid
  BY <1>1, <1>2 DEF Walked, SumBytes
<1>4. {k \in Recs(r) : k < c.i} = Recs(r)
  BY <1>1, <1>2 DEF Recs
<1>5. c.batch = Rows(r)
  BY <1>4 DEF Walked, Taken, Rows
<1>6. ~TooMany(r)
  BY DEF Walked
<1>. QED BY <1>3, <1>5, <1>6, CountsAreLimits DEF Acceptable

\* What was stored stays stored, and what contradicts it goes on to.
LEMMA VerdictsLast ==
  ASSUME NEW r \in Requests, \A s \in Signals : ever[s] \subseteq ever'[s]
  PROVE  /\ Stored(r) => Stored(r)'
         /\ Contradicted(r) => Contradicted(r)'
         /\ Good(r) => Good(r)'
         /\ Bad(r) => Bad(r)'
<1>1. Signal[r] \in Signals
  OBVIOUS
<1>2. Stored(r) => Stored(r)'
  BY <1>1 DEF Stored
<1>3. Contradicted(r) => Contradicted(r)'
  BY <1>1 DEF Contradicted, T!Conflicts
<1>. QED BY <1>2, <1>3 DEF Good, Bad

-----------------------------------------------------------------------------
(* The invariant is inductive.                                             *)

\* A handler whose own state did not change keeps what it knows.
LEMMA HandlerFrame ==
  ASSUME NEW h \in Calls, HandlerInv(h), \A s \in Signals : ever[s] \subseteq ever'[s],
         call'[h].at = call[h].at, call'[h].r = call[h].r, call'[h].i = call[h].i,
         call'[h].bytes = call[h].bytes, call'[h].batch = call[h].batch,
         call'[h].code = call[h].code, req'[h] = req[h], ans'[h] = ans[h]
  PROVE  HandlerInv(h)'
<1>1. CASE call[h].at = "off"
  BY <1>1 DEF HandlerInv
<1>2. CASE call[h].at # "off"
  <2>1. PICK r \in Requests : call[h].r = r
    BY <1>2 DEF HandlerInv
  <2>2. /\ Stored(r) => Stored(r)'
        /\ Contradicted(r) => Contradicted(r)'
        /\ Good(r) => Good(r)'
        /\ Bad(r) => Bad(r)'
    BY VerdictsLast
  <2>3. Walked(call[h]) => Walked(call'[h])
    BY DEF Walked
  <2>. QED BY <1>2, <2>1, <2>2, <2>3 DEF HandlerInv, Good, Bad, Stored, Contradicted
<1>. QED BY <1>1, <1>2

\* A client that goes on waiting for a handler of its request, or keeps its verdict.
LEMMA ClientFrame ==
  ASSUME NEW r \in Requests, ClientInv(r), client'[r] = client[r],
         \A s \in Signals : ever[s] \subseteq ever'[s],
         client[r] \in Calls => /\ call'[client[r]].at # "off"
                                /\ call'[client[r]].r = call[client[r]].r
  PROVE  ClientInv(r)'
<1>1. (Good(r) => Good(r)') /\ (Bad(r) => Bad(r)')
  BY VerdictsLast
<1>. QED BY <1>1 DEF ClientInv

\* Init: nobody is at work.
LEMMA InitInv == Init => IInv
<1>. SUFFICES ASSUME Init PROVE IInv
  OBVIOUS
<1>. USE DEF Init, T!Init, T!Callers
<1>1. TypeInv
  BY DEF TypeInv, Handler, Off
<1>2. \A s \in Signals : rows[s] \subseteq ever[s]
  OBVIOUS
<1>3. ASSUME NEW h \in Calls PROVE HandlerInv(h)
  BY DEF HandlerInv, Off
<1>4. ASSUME NEW r \in Requests PROVE ClientInv(r)
  BY DEF ClientInv
<1>. QED BY <1>1, <1>2, <1>3, <1>4 DEF IInv

\* A step that changes only handler h, which goes on with its request: the rest of
\* the invariant follows from what h knows then.
LEMMA OneHandlerMoves ==
  ASSUME IInv, TypeInv', NEW h \in Calls, HandlerInv(h)',
         \A g \in Calls \ {h} : call'[g] = call[g] /\ req'[g] = req[g] /\ ans'[g] = ans[g],
         call'[h].at # "off", call'[h].r = call[h].r,
         UNCHANGED client,
         \A s \in Signals : ever[s] \subseteq ever'[s] /\ rows'[s] \subseteq ever'[s]
  PROVE  IInv'
<1>1. ASSUME NEW g \in Calls PROVE HandlerInv(g)'
  <2>1. CASE g = h
    BY <2>1
  <2>2. CASE g # h
    BY <2>2, HandlerFrame DEF IInv
  <2>. QED BY <2>1, <2>2
<1>2. ASSUME NEW r \in Requests PROVE ClientInv(r)'
  <2>1. ClientInv(r)
    BY DEF IInv
  <2>2. ASSUME client[r] \in Calls
        PROVE  call'[client[r]].at # "off" /\ call'[client[r]].r = call[client[r]].r
    <3>1. CASE client[r] = h
      BY <3>1
    <3>2. CASE client[r] # h
      BY <2>1, <2>2, <3>2 DEF ClientInv
    <3>. QED BY <3>1, <3>2
  <2>. QED BY <2>1, <2>2, ClientFrame
<1>. QED BY <1>1, <1>2 DEF IInv

\* Send
LEMMA SendInv == ASSUME IInv, NEW r \in Requests, NEW h \in Calls, Send(r, h) PROVE IInv'
<1>. USE DEF Send, store
<1>. DEFINE new == [Off EXCEPT !.at = "count", !.r = r]
<1>1. /\ new.at = "count" /\ new.r = r /\ new.bytes = 0 /\ new.batch = {}
      /\ new \in Handler
  BY DEF Off, Handler
<1>. HIDE DEF new
<1>2. call'[h] = new /\ \A g \in Calls \ {h} : call'[g] = call[g]
  BY DEF IInv, TypeInv, new
<1>3. TypeInv'
  BY <1>1 DEF IInv, TypeInv, new
<1>4. ASSUME NEW g \in Calls PROVE HandlerInv(g)'
  <2>1. CASE g = h
    BY <1>1, <1>2, <2>1 DEF IInv, HandlerInv
  <2>2. CASE g # h
    <3>1. HandlerInv(g) /\ call'[g] = call[g] /\ req'[g] = req[g] /\ ans'[g] = ans[g]
      BY <1>2, <2>2 DEF IInv
    <3>. QED BY <3>1, HandlerFrame
  <2>. QED BY <2>1, <2>2
<1>5. ASSUME NEW q \in Requests PROVE ClientInv(q)'
  <2>1. ClientInv(q)
    BY DEF IInv
  <2>2. CASE q = r
    <3>1. client'[q] = h
      BY <2>2 DEF IInv, TypeInv
    <3>. QED BY <1>1, <1>2, <2>2, <3>1 DEF ClientInv
  <2>3. CASE q # r
    <3>1. client'[q] = client[q]
      BY <2>3 DEF IInv, TypeInv
    <3>2. client[q] \in Calls => client[q] # h
      BY <2>1 DEF ClientInv
    <3>3. client[q] \in Calls => /\ call'[client[q]].at # "off"
                                 /\ call'[client[q]].r = call[client[q]].r
      BY <1>2, <2>1, <3>2 DEF ClientInv
    <3>. QED BY <2>1, <3>1, <3>3, ClientFrame
  <2>. QED BY <2>2, <2>3
<1>. QED BY <1>3, <1>4, <1>5 DEF IInv

\* GiveUp
LEMMA GiveUpInv == ASSUME IInv, NEW r \in Requests, GiveUp(r) PROVE IInv'
<1>. USE DEF GiveUp, store
<1>1. ASSUME NEW g \in Calls
      PROVE  /\ call'[g] \in Handler
             /\ call'[g].at = call[g].at /\ call'[g].r = call[g].r /\ call'[g].i = call[g].i
             /\ call'[g].bytes = call[g].bytes /\ call'[g].batch = call[g].batch
             /\ call'[g].code = call[g].code
  <2>1. call[g] \in Handler /\ DOMAIN call = Calls
    BY DEF IInv, TypeInv
  <2>2. call'[g] = call[g] \/ call'[g] = [call[g] EXCEPT !.live = FALSE]
    BY <2>1
  <2>3. CASE call'[g] = call[g]
    BY <2>1, <2>3
  <2>4. CASE call'[g] = [call[g] EXCEPT !.live = FALSE]
    BY <2>1, <2>4 DEF Handler
  <2>. QED BY <2>2, <2>3, <2>4
<1>2. DOMAIN call' = Calls /\ call' = [g \in Calls |-> call'[g]]
  BY DEF IInv, TypeInv
<1>3. client' \in [Requests -> Calls \cup {"idle", "acked", "rejected"}]
  BY DEF IInv, TypeInv
<1>4. TypeInv'
  BY <1>1, <1>2, <1>3 DEF IInv, TypeInv
<1>5. ASSUME NEW g \in Calls PROVE HandlerInv(g)'
  BY <1>1, HandlerFrame DEF IInv
<1>6. ASSUME NEW q \in Requests PROVE ClientInv(q)'
  <2>1. ClientInv(q)
    BY DEF IInv
  <2>2. CASE q = r
    <3>1. client'[q] = "idle"
      BY <2>2 DEF IInv, TypeInv
    <3>. QED BY <3>1 DEF ClientInv
  <2>3. CASE q # r
    <3>1. client'[q] = client[q]
      BY <2>3 DEF IInv, TypeInv
    <3>2. client[q] \in Calls => /\ call'[client[q]].at # "off"
                                 /\ call'[client[q]].r = call[client[q]].r
      BY <1>1, <2>1 DEF ClientInv
    <3>. QED BY <2>1, <3>1, <3>2, ClientFrame
  <2>. QED BY <2>2, <2>3
<1>. QED BY <1>4, <1>5, <1>6 DEF IInv

\* Receive
LEMMA ReceiveInv == ASSUME IInv, NEW h \in Calls, Receive(h) PROVE IInv'
<1>. USE DEF Receive, store
<1>1. Off \in Handler /\ Off.at = "off"
  BY DEF Off, Handler
<1>2. call'[h] = Off /\ \A g \in Calls \ {h} : call'[g] = call[g]
  BY DEF IInv, TypeInv
<1>3. client' \in [Requests -> Calls \cup {"idle", "acked", "rejected"}]
  BY DEF IInv, TypeInv
<1>4. TypeInv'
  BY <1>1, <1>3 DEF IInv, TypeInv
<1>5. ASSUME NEW g \in Calls PROVE HandlerInv(g)'
  <2>1. CASE g = h
    BY <1>1, <1>2, <2>1 DEF IInv, HandlerInv
  <2>2. CASE g # h
    <3>1. HandlerInv(g) /\ call'[g] = call[g] /\ req'[g] = req[g] /\ ans'[g] = ans[g]
      BY <1>2, <2>2 DEF IInv
    <3>. QED BY <3>1, HandlerFrame
  <2>. QED BY <2>1, <2>2
<1>6. ASSUME NEW q \in Requests PROVE ClientInv(q)'
  <2>1. ClientInv(q) /\ HandlerInv(h)
    BY DEF IInv
  <2>2. CASE client[q] # h
    <3>1. client'[q] = client[q]
      BY <2>2
    <3>2. client[q] \in Calls => /\ call'[client[q]].at # "off"
                                 /\ call'[client[q]].r = call[client[q]].r
      BY <1>2, <2>1, <2>2 DEF ClientInv
    <3>. QED BY <2>1, <3>1, <3>2, ClientFrame
  <2>3. CASE client[q] = h
    <3>1. call[h].r = q
      BY <2>1, <2>3 DEF ClientInv
    <3>2. /\ call[h].code = "OK" => Good(q)
          /\ call[h].code = "InvalidArgument" => Bad(q)
      BY <2>1, <3>1 DEF HandlerInv
    <3>3. (Good(q) => Good(q)') /\ (Bad(q) => Bad(q)')
      BY VerdictsLast
    <3>4. \/ client'[q] = "acked" /\ call[h].code = "OK"
          \/ client'[q] = "rejected" /\ call[h].code = "InvalidArgument"
          \/ client'[q] = "idle"
      BY <2>3
    <3>. QED BY <3>2, <3>3, <3>4 DEF ClientInv
  <2>. QED BY <2>2, <2>3
<1>. QED BY <1>4, <1>5, <1>6 DEF IInv

\* Answer: the handler has its code, the rest of its state and the store stay.
LEMMA AnswerInv ==
  ASSUME IInv, NEW h \in Calls, NEW code \in {"OK", "InvalidArgument", "Canceled", "Unavailable"},
         Answer(h, code), UNCHANGED <<client, faults, ever, up, rows>>,
         call[h].at # "off",
         req' \in [Calls -> {Null} \cup [sig : Signals, batch : SUBSET STRING]],
         ans' \in [Calls -> {"none", "ok", "conflict", "error"}],
         \A g \in Calls \ {h} : req'[g] = req[g] /\ ans'[g] = ans[g],
         req'[h] = Null, ans'[h] = "none",
         code = "OK" => Good(call[h].r),
         code = "InvalidArgument" => Bad(call[h].r)
  PROVE  IInv'
<1>. DEFINE new == [call[h] EXCEPT !.at = "answer", !.code = code]
<1>1. HandlerInv(h) /\ call[h] \in Handler /\ DOMAIN call = Calls
  BY DEF IInv, TypeInv
<1>2. new \in Handler /\ new.at = "answer" /\ new.code = code /\ new.r = call[h].r
  BY <1>1 DEF Handler
<1>3. call' = [call EXCEPT ![h] = new]
  BY <1>1 DEF Answer
<1>. HIDE DEF new
<1>4. call'[h] = new /\ \A g \in Calls \ {h} : call'[g] = call[g]
  BY <1>1, <1>3
<1>5. TypeInv'
  BY <1>2, <1>3 DEF IInv, TypeInv
<1>6. PICK r \in Requests : call[h].r = r
  BY <1>1 DEF HandlerInv
<1>7. (Good(r) => Good(r)') /\ (Bad(r) => Bad(r)')
  BY VerdictsLast
<1>8. (code = "OK" => Good(r)') /\ (code = "InvalidArgument" => Bad(r)')
  BY <1>6, <1>7
<1>9. HandlerInv(h)'
  BY <1>2, <1>4, <1>6, <1>8 DEF HandlerInv, Good, Bad, Stored, Contradicted
<1>10. \A s \in Signals : ever[s] \subseteq ever'[s] /\ rows'[s] \subseteq ever'[s]
  BY DEF IInv
<1>. QED BY <1>2, <1>4, <1>5, <1>9, <1>10, OneHandlerMoves

\* CheckCount
LEMMA CheckCountInv == ASSUME IInv, NEW h \in Calls, CheckCount(h) PROVE IInv'
<1>. USE DEF CheckCount, store
<1>1. /\ HandlerInv(h) /\ call[h] \in Handler /\ DOMAIN call = Calls
      /\ req[h] = Null /\ ans[h] = "none"
      /\ req \in [Calls -> {Null} \cup [sig : Signals, batch : SUBSET STRING]]
      /\ ans \in [Calls -> {"none", "ok", "conflict", "error"}]
  BY DEF IInv, TypeInv, HandlerInv
<1>2. PICK r \in Requests : call[h].r = r
  BY <1>1 DEF HandlerInv
<1>3. CASE TooMany(r)
  <2>1. ~Acceptable(r)
    BY <1>3, CountsAreLimits DEF Acceptable
  <2>2. Answer(h, "InvalidArgument") /\ Bad(call[h].r)
    BY <1>2, <1>3, <2>1 DEF Bad
  <2>. QED BY <1>1, <2>2, AnswerInv
<1>4. CASE ~TooMany(r)
  <2>. DEFINE new == [call[h] EXCEPT !.at = "walk", !.i = 1]
  <2>1. /\ new \in Handler /\ new.at = "walk" /\ new.i = 1 /\ new.r = r
        /\ new.bytes = call[h].bytes /\ new.batch = call[h].batch
    BY <1>1, <1>2 DEF Handler
  <2>2. call' = [call EXCEPT ![h] = new]
    BY <1>1, <1>2, <1>4
  <2>. HIDE DEF new
  <2>3. call'[h] = new /\ \A g \in Calls \ {h} : call'[g] = call[g]
    BY <1>1, <2>2
  <2>4. TypeInv'
    BY <2>1, <2>2 DEF IInv, TypeInv
  <2>5. Walked(new)
    <3>1. new.bytes = 0 /\ new.batch = {} /\ ~TooMany(r)
      BY <1>1, <1>2, <1>4, <2>1 DEF HandlerInv
    <3>. QED BY <2>1, <3>1, WalkStarts
  <2>6. HandlerInv(h)'
    BY <1>1, <2>1, <2>3, <2>5 DEF HandlerInv
  <2>7. \A s \in Signals : ever[s] \subseteq ever'[s] /\ rows'[s] \subseteq ever'[s]
    BY DEF IInv
  <2>. QED BY <1>2, <2>1, <2>3, <2>4, <2>6, <2>7, OneHandlerMoves
<1>. QED BY <1>3, <1>4

\* Walk
LEMMA WalkInv == ASSUME IInv, NEW h \in Calls, Walk(h) PROVE IInv'
<1>. USE DEF store
<1>1. /\ HandlerInv(h) /\ call[h] \in Handler /\ DOMAIN call = Calls /\ call[h].at = "walk"
      /\ req[h] = Null /\ ans[h] = "none" /\ Walked(call[h])
      /\ req \in [Calls -> {Null} \cup [sig : Signals, batch : SUBSET STRING]]
      /\ ans \in [Calls -> {"none", "ok", "conflict", "error"}]
      /\ UNCHANGED <<client, faults, ever, up, rows, req, ans>>
  BY DEF IInv, TypeInv, HandlerInv, Walk
<1>2. PICK r \in Requests : call[h].r = r
  BY <1>1 DEF HandlerInv
<1>. DEFINE p == Parts[call[h].r][call[h].i]
            new == [call[h] EXCEPT !.i = call[h].i + 1, !.bytes = call[h].bytes + p.bytes,
                       !.batch = call[h].batch \cup IF p.kind = "record" THEN {p.row} ELSE {}]
<1>3. \/ Answer(h, ContextError)
      \/ Broken(p, call[h].bytes) /\ Answer(h, "InvalidArgument")
      \/ ~Broken(p, call[h].bytes) /\ call' = [call EXCEPT ![h] = new]
  <2>. DEFINE next == [call EXCEPT ![h].i = @ + 1, ![h].bytes = @ + p.bytes,
                 ![h].batch = @ \cup IF p.kind = "record" THEN {p.row} ELSE {}]
  <2>1. \/ Answer(h, ContextError)
        \/ Broken(p, call[h].bytes) /\ Answer(h, "InvalidArgument")
        \/ ~Broken(p, call[h].bytes) /\ call' = next
    BY Zenon DEF Walk
  <2>. HIDE DEF p
  <2>2. next = [call EXCEPT ![h] = new]
    BY <1>1
  <2>. QED BY <2>1, <2>2, Zenon
<1>. HIDE DEF p
<1>7. /\ call[h].i <= Len(Parts[r]) /\ call[h].i \in Nat /\ call[h].bytes \in Nat
      /\ p = Parts[r][call[h].i]
  BY <1>1, <1>2 DEF Walk, Handler, p
<1>4. CASE Answer(h, ContextError)
  BY <1>1, <1>4, AnswerInv DEF ContextError
<1>5. CASE Broken(p, call[h].bytes) /\ Answer(h, "InvalidArgument")
  <2>1. ~Acceptable(r)
    BY <1>1, <1>2, <1>5, <1>7, BrokenMeansBad
  <2>2. Bad(call[h].r)
    BY <1>2, <2>1 DEF Bad
  <2>. QED BY <1>1, <1>5, <2>2, AnswerInv
<1>6. CASE ~Broken(p, call[h].bytes) /\ call' = [call EXCEPT ![h] = new]
  <2>1. p \in Part
    <3>1. call[h].i \in 1 .. Len(Parts[r]) + 1
      BY <1>1, <1>2 DEF Walked
    <3>2. call[h].i \in DOMAIN Parts[r]
      BY <1>7, <3>1, RunningSum
    <3>. QED BY <1>7, <3>2, RunningSum
  <2>2. /\ new.at = "walk" /\ new.r = r /\ new.i = call[h].i + 1
        /\ new.bytes = call[h].bytes + p.bytes
        /\ new.batch = call[h].batch \cup IF p.kind = "record" THEN {p.row} ELSE {}
    BY <1>1, <1>2 DEF Handler
  <2>3. new \in Handler
    <3>. DEFINE b == call[h].batch \cup IF p.kind = "record" THEN {p.row} ELSE {}
                i == call[h].i + 1
                n == call[h].bytes + p.bytes
    <3>1. b \in SUBSET STRING /\ i \in Nat /\ n \in Nat
      BY <1>1, <2>1 DEF Handler, Part
    <3>2. new = [call[h] EXCEPT !.i = i, !.bytes = n, !.batch = b]
      BY <1>1 DEF Handler
    <3>. HIDE DEF b, i, n, new
    <3>. QED BY <1>1, <3>1, <3>2 DEF Handler
  <2>. HIDE DEF new
  <2>4. call'[h] = new /\ \A g \in Calls \ {h} : call'[g] = call[g]
    BY <1>1, <1>6
  <2>5. TypeInv'
    BY <1>1, <1>6, <2>3 DEF IInv, TypeInv
  <2>6. Walked(new)
    BY <1>1, <1>2, <1>6, <1>7, <2>2, WalkGoesOn
  <2>7. HandlerInv(h)'
    BY <1>1, <2>2, <2>4, <2>6 DEF HandlerInv
  <2>8. \A s \in Signals : ever[s] \subseteq ever'[s] /\ rows'[s] \subseteq ever'[s]
    BY <1>1 DEF IInv
  <2>. QED BY <1>1, <1>2, <2>2, <2>4, <2>5, <2>7, <2>8, OneHandlerMoves
<1>. QED BY <1>3, <1>4, <1>5, <1>6

\* Insert
LEMMA InsertInv == ASSUME IInv, NEW h \in Calls, Insert(h) PROVE IInv'
<1>. USE DEF store
<1>1. /\ HandlerInv(h) /\ call[h] \in Handler /\ DOMAIN call = Calls /\ call[h].at = "walk"
      /\ ans[h] = "none" /\ Walked(call[h]) /\ DOMAIN req = Calls
      /\ UNCHANGED <<client, faults, ever, up, rows, ans>>
  BY DEF IInv, TypeInv, HandlerInv, Insert, T!Request
<1>2. PICK r \in Requests : call[h].r = r
  BY <1>1 DEF HandlerInv
<1>3. Acceptable(r) /\ call[h].batch = Rows(r)
  <2>1. call[h].i \in Nat /\ ~(call[h].i <= Len(Parts[r]))
    BY <1>1, <1>2, RunningSum DEF Insert, Handler
  <2>. QED BY <1>1, <1>2, <2>1, WalkEnds
<1>. DEFINE wanted == [sig |-> Signal[r], batch |-> Rows(r)]
<1>4. req' = [req EXCEPT ![h] = wanted]
  <2>1. PICK v : req' = [req EXCEPT ![h] = v]
    BY DEF Insert, T!Request
  <2>2. req'[h] = wanted
    BY <1>2, <1>3 DEF Insert
  <2>. QED BY <1>1, <2>1, <2>2
<1>5. wanted \in [sig : Signals, batch : SUBSET STRING]
  BY RowsAreStrings
<1>. HIDE DEF wanted
<1>6. req'[h] = wanted /\ \A g \in Calls \ {h} : req'[g] = req[g]
  BY <1>1, <1>4
<1>. DEFINE new == [call[h] EXCEPT !.at = "insert"]
<1>7. new \in Handler /\ new.at = "insert" /\ new.r = r
  BY <1>1, <1>2 DEF Handler
<1>8. call' = [call EXCEPT ![h] = new]
  BY <1>1 DEF Insert
<1>. HIDE DEF new
<1>9. call'[h] = new /\ \A g \in Calls \ {h} : call'[g] = call[g]
  BY <1>1, <1>8
<1>10. TypeInv'
  BY <1>1, <1>4, <1>5, <1>7, <1>8 DEF IInv, TypeInv
<1>11. HandlerInv(h)'
  BY <1>1, <1>3, <1>6, <1>7, <1>9 DEF HandlerInv, wanted
<1>12. \A s \in Signals : ever[s] \subseteq ever'[s] /\ rows'[s] \subseteq ever'[s]
  BY <1>1 DEF IInv
<1>. QED BY <1>1, <1>2, <1>6, <1>7, <1>9, <1>10, <1>11, <1>12, OneHandlerMoves

\* Finish
LEMMA FinishInv == ASSUME IInv, NEW h \in Calls, Finish(h) PROVE IInv'
<1>1. /\ HandlerInv(h) /\ DOMAIN call = Calls /\ call[h].at = "insert"
      /\ UNCHANGED <<client, faults, ever, up, rows>>
  BY DEF IInv, TypeInv, Finish, T!Reply
<1>2. PICK code \in ExportError(h) : Answer(h, code)
  BY DEF Finish
<1>3. /\ code \in {"OK", "InvalidArgument", "Canceled", "Unavailable"}
      /\ code = "OK" => ans[h] = "ok"
      /\ code = "InvalidArgument" => ans[h] = "conflict"
  BY <1>2 DEF ExportError, ContextError
<1>4. /\ code = "OK" => Good(call[h].r)
      /\ code = "InvalidArgument" => Bad(call[h].r)
  BY <1>1, <1>3 DEF HandlerInv, Good, Bad
<1>5. /\ req' \in [Calls -> {Null} \cup [sig : Signals, batch : SUBSET STRING]]
      /\ ans' \in [Calls -> {"none", "ok", "conflict", "error"}]
      /\ \A g \in Calls \ {h} : req'[g] = req[g] /\ ans'[g] = ans[g]
      /\ req'[h] = Null /\ ans'[h] = "none"
  BY DEF IInv, TypeInv, Finish, T!Reply
<1>. QED BY <1>1, <1>2, <1>3, <1>4, <1>5, AnswerInv

\* Serve: a decision is about the request of a handler that waits for it.
LEMMA DecisionIsForInsert ==
  ASSUME IInv, NEW h \in Calls, T!Pending(h)
  PROVE  /\ call[h].at = "insert" /\ call[h].r \in Requests /\ Acceptable(call[h].r)
         /\ req[h] = [sig |-> Signal[call[h].r], batch |-> Rows(call[h].r)]
         /\ req[h].sig = Signal[call[h].r] /\ req[h].batch = Rows(call[h].r)
         /\ Signal[call[h].r] \in Signals
<1>1. HandlerInv(h)
  BY DEF IInv
<1>2. call[h].at = "insert" /\ call[h].r \in Requests
  BY <1>1 DEF HandlerInv, T!Pending
<1>. QED BY <1>1, <1>2 DEF HandlerInv

\* What a commit adds to ever: all rows of one acceptable request.
LEMMA ServeAdds ==
  ASSUME IInv, NEW h \in Calls, Serve(h)
  PROVE  /\ T!Pending(h) /\ UNCHANGED <<client, call, faults, up, req>>
         /\ \A s \in Signals : /\ ever[s] \subseteq ever'[s] /\ rows'[s] \subseteq ever'[s]
                               /\ \/ ever'[s] = ever[s]
                                  \/ s = Signal[call[h].r] /\ ever'[s] = ever[s] \cup Rows(call[h].r)
         /\ \/ /\ ans' = [ans EXCEPT ![h] = "ok"]
               /\ Rows(call[h].r) \subseteq ever'[Signal[call[h].r]]
               /\ rows' = [rows EXCEPT ![Signal[call[h].r]] = @ \cup Rows(call[h].r)]
            \/ /\ ans' = [ans EXCEPT ![h] = "conflict"]
               /\ T!Conflicts(Signal[call[h].r], Rows(call[h].r),
                              rows[Signal[call[h].r]] \cup Rows(call[h].r))
               /\ rows' = rows
<1>1. T!Pending(h) /\ UNCHANGED <<client, call, faults, up, req>>
  BY DEF Serve, T!Store, T!Contradict, T!Decide
<1>2. PICK r \in Requests : call[h].r = r /\ req[h].sig = Signal[r] /\ req[h].batch = Rows(r)
  BY <1>1, DecisionIsForInsert
<1>3. /\ DOMAIN rows = Signals /\ Signal[r] \in Signals
      /\ \A s \in Signals : rows[s] \subseteq ever[s] /\ ever'[s] = ever[s] \cup rows'[s]
  BY DEF IInv, TypeInv, Serve
<1>4. CASE T!Store(h)
  <2>1. /\ rows' = [rows EXCEPT ![Signal[r]] = rows[Signal[r]] \cup Rows(r)]
        /\ ans' = [ans EXCEPT ![h] = "ok"]
    BY <1>2, <1>4 DEF T!Store, T!Decide
  <2>2. rows'[Signal[r]] = rows[Signal[r]] \cup Rows(r)
    BY <1>3, <2>1
  <2>3. \A s \in Signals : s # Signal[r] => rows'[s] = rows[s]
    BY <1>3, <2>1
  <2>4. ASSUME NEW s \in Signals
        PROVE  /\ ever[s] \subseteq ever'[s] /\ rows'[s] \subseteq ever'[s]
               /\ \/ ever'[s] = ever[s]
                  \/ s = Signal[r] /\ ever'[s] = ever[s] \cup Rows(r)
    <3>1. ever'[s] = ever[s] \cup rows'[s] /\ rows[s] \subseteq ever[s]
      BY <1>3
    <3>2. CASE s = Signal[r]
      <4>1. ever'[s] = ever[s] \cup Rows(r)
        BY <2>2, <3>1, <3>2
      <4>. QED BY <3>1, <3>2, <4>1
    <3>3. CASE s # Signal[r]
      BY <2>3, <3>1, <3>3
    <3>. QED BY <3>2, <3>3
  <2>5. Rows(r) \subseteq ever'[Signal[r]]
    BY <1>3, <2>2
  <2>. QED BY <1>1, <1>2, <2>1, <2>4, <2>5
<1>5. CASE T!Contradict(h)
  <2>1. /\ rows' = rows /\ ans' = [ans EXCEPT ![h] = "conflict"]
        /\ T!Conflicts(Signal[r], Rows(r), rows[Signal[r]] \cup Rows(r))
    BY <1>2, <1>5 DEF T!Contradict, T!Decide
  <2>2. \A s \in Signals : ever'[s] = ever[s] /\ rows'[s] \subseteq ever'[s]
    BY <1>3, <2>1
  <2>. QED BY <1>1, <1>2, <2>1, <2>2
<1>. QED BY <1>4, <1>5 DEF Serve

\* Serve
LEMMA ServeInv == ASSUME IInv, NEW h \in Calls, Serve(h) PROVE IInv'
<1>1. PICK r \in Requests :
        /\ call[h].r = r /\ call[h].at = "insert" /\ Acceptable(r) /\ Signal[r] \in Signals
        /\ req[h] = [sig |-> Signal[r], batch |-> Rows(r)]
  BY ServeAdds, DecisionIsForInsert
<1>2. /\ UNCHANGED <<client, call, faults, up, req>>
      /\ \A s \in Signals : ever[s] \subseteq ever'[s] /\ rows'[s] \subseteq ever'[s]
  BY ServeAdds
<1>3. \/ /\ ans' = [ans EXCEPT ![h] = "ok"] /\ Rows(r) \subseteq ever'[Signal[r]]
      \/ /\ ans' = [ans EXCEPT ![h] = "conflict"]
         /\ T!Conflicts(Signal[r], Rows(r), rows[Signal[r]] \cup Rows(r))
  BY <1>1, ServeAdds
<1>4. /\ DOMAIN ans = Calls /\ ans'[h] \in {"ok", "conflict"}
      /\ ans' \in [Calls -> {"none", "ok", "conflict", "error"}]
      /\ \A g \in Calls \ {h} : ans'[g] = ans[g]
      /\ ans'[h] = "ok" => Rows(r) \subseteq ever'[Signal[r]]
      /\ ans'[h] = "conflict" => T!Conflicts(Signal[r], Rows(r), rows[Signal[r]] \cup Rows(r))
  BY <1>3 DEF IInv, TypeInv
<1>5. ans'[h] = "conflict" => Contradicted(r)'
  <2>1. rows[Signal[r]] \subseteq ever'[Signal[r]]
    BY <1>1, <1>2 DEF IInv
  <2>. QED BY <1>4, <2>1 DEF Contradicted, T!Conflicts
<1>6. TypeInv'
  <2>1. rows' \in [Signals -> SUBSET STRING]
    <3>1. rows' = rows \/ rows' = [rows EXCEPT ![Signal[r]] = rows[Signal[r]] \cup Rows(r)]
      BY <1>1, ServeAdds
    <3>. QED BY <1>1, <3>1, RowsAreStrings DEF IInv, TypeInv
  <2>2. ever' \in [Signals -> SUBSET STRING]
    BY <2>1 DEF IInv, TypeInv, Serve
  <2>. QED BY <1>2, <1>4, <2>1, <2>2 DEF IInv, TypeInv
<1>7. HandlerInv(h)'
  BY <1>1, <1>2, <1>4, <1>5 DEF HandlerInv, Stored, Contradicted
<1>. QED BY <1>1, <1>2, <1>4, <1>6, <1>7, OneHandlerMoves

\* Refuse
LEMMA RefuseInv == ASSUME IInv, NEW h \in Calls, Refuse(h) PROVE IInv'
<1>1. /\ T!Pending(h) /\ UNCHANGED <<client, call, ever, up, rows, req>>
      /\ ans' = [ans EXCEPT ![h] = "error"]
  BY DEF Refuse, T!Refuse, T!Decide
<1>2. PICK r \in Requests :
        /\ call[h].r = r /\ call[h].at = "insert" /\ Acceptable(r)
        /\ req[h] = [sig |-> Signal[r], batch |-> Rows(r)]
  BY <1>1, DecisionIsForInsert
<1>3. /\ ans'[h] = "error" /\ \A g \in Calls \ {h} : ans'[g] = ans[g]
      /\ ans' \in [Calls -> {"none", "ok", "conflict", "error"}]
  BY <1>1 DEF IInv, TypeInv
<1>4. TypeInv'
  BY <1>1, <1>3 DEF IInv, TypeInv
<1>5. HandlerInv(h)'
  BY <1>1, <1>2, <1>3 DEF HandlerInv
<1>6. \A s \in Signals : ever[s] \subseteq ever'[s] /\ rows'[s] \subseteq ever'[s]
  BY <1>1 DEF IInv
<1>. QED BY <1>1, <1>2, <1>3, <1>4, <1>5, <1>6, OneHandlerMoves

\* Steps that leave clients, handlers and decisions alone and add no row.
LEMMA QuietInv ==
  ASSUME IInv, UNCHANGED <<client, call, ever, req, ans>>,
         rows' \in [Signals -> SUBSET STRING], \A s \in Signals : rows'[s] \subseteq rows[s]
  PROVE  IInv'
<1>1. TypeInv'
  BY DEF IInv, TypeInv
<1>2. ASSUME NEW h \in Calls PROVE HandlerInv(h)'
  <2>1. HandlerInv(h)
    BY DEF IInv
  <2>. QED BY <2>1, HandlerFrame
<1>3. ASSUME NEW r \in Requests PROVE ClientInv(r)'
  <2>1. ClientInv(r)
    BY DEF IInv
  <2>2. client[r] \in Calls => call'[client[r]].at # "off"
    BY <2>1 DEF ClientInv
  <2>. QED BY <2>1, <2>2, ClientFrame
<1>4. \A s \in Signals : rows'[s] \subseteq ever'[s]
  BY DEF IInv
<1>. QED BY <1>1, <1>2, <1>3, <1>4 DEF IInv

\* Background
LEMMA BackgroundInv == ASSUME IInv, Background PROVE IInv'
<1>1. UNCHANGED <<client, call, ever, req, ans>>
  BY DEF Background, T!Open, T!Close, T!Discard
<1>2. /\ rows' \in [Signals -> SUBSET STRING]
      /\ \A s \in Signals : rows'[s] \subseteq rows[s]
  <2>1. CASE rows' = rows
    BY <2>1 DEF IInv, TypeInv
  <2>2. CASE T!Discard
    BY <2>2 DEF T!Discard, IInv, TypeInv
  <2>. QED BY <2>1, <2>2 DEF Background, T!Open, T!Close
<1>. QED BY <1>1, <1>2, QuietInv

\* Stuttering changes nothing.
LEMMA StutterInv == ASSUME IInv, UNCHANGED vars PROVE IInv'
<1>1. /\ UNCHANGED <<client, call, ever, req, ans>>
      /\ rows' \in [Signals -> SUBSET STRING] /\ \A s \in Signals : rows'[s] \subseteq rows[s]
  BY DEF vars, store, IInv, TypeInv
<1>. QED BY <1>1, QuietInv

\* Every step of Next keeps the invariant.
LEMMA NextInv == IInv /\ [Next]_vars => IInv'
<1>. SUFFICES ASSUME IInv, [Next]_vars PROVE IInv'
  OBVIOUS
<1>1. ASSUME NEW r \in Requests, GiveUp(r) PROVE IInv'
  BY <1>1, GiveUpInv
<1>2. ASSUME NEW r \in Requests, NEW h \in Calls, Send(r, h) PROVE IInv'
  BY <1>2, SendInv
<1>3. ASSUME NEW h \in Calls,
             \/ CheckCount(h) \/ Walk(h) \/ Insert(h) \/ Finish(h) \/ Receive(h)
             \/ Serve(h) \/ Refuse(h)
      PROVE  IInv'
  BY <1>3, CheckCountInv, WalkInv, InsertInv, FinishInv, ReceiveInv, ServeInv, RefuseInv
<1>4. CASE Background
  BY <1>4, BackgroundInv
<1>5. CASE UNCHANGED vars
  BY <1>5, StutterInv
<1>. QED BY <1>1, <1>2, <1>3, <1>4, <1>5 DEF Next

\* IInv is an invariant of the exporter, its clients and the store.
THEOREM ExporterInvariance == Spec => []IInv
BY InitInv, NextInv, PTL DEF Spec

-----------------------------------------------------------------------------
(* What the exporter promises.                                             *)

\* Consume*, exportError: a client that got OK had all of an acceptable request
\* stored; InvalidArgument is told only about a request that is unacceptable or
\* contradicts stored spans, never because of a timeout, a refusal or a retry.
THEOREM TrueVerdicts == Spec => []VerdictIsTrue
<1>1. IInv => VerdictIsTrue
  BY DEF IInv, ClientInv, VerdictIsTrue, Good, Bad, Stored, Contradicted
<1>. QED BY <1>1, ExporterInvariance, PTL

\* Consume*: a step that commits anything commits all rows of one acceptable
\* request, whichever contexts end and whichever parts are invalid.
THEOREM WholeRequests == Spec => OnlyWholeRequests
<1>. DEFINE Whole ==
       \A s \in Signals : ever'[s] # ever[s] =>
         \E r \in Requests : /\ Signal[r] = s /\ Acceptable(r)
                             /\ ever'[s] = ever[s] \cup Rows(r)
<1>1. ASSUME IInv, [Next]_vars PROVE [Whole]_vars
  <2>1. ASSUME NEW h \in Calls, Serve(h) PROVE Whole
    <3>1. call[h].r \in Requests /\ Acceptable(call[h].r)
      BY <1>1, <2>1, ServeAdds, DecisionIsForInsert
    <3>. QED BY <1>1, <2>1, <3>1, ServeAdds
  <2>2. ASSUME ever' = ever PROVE Whole
    BY <2>2
  <2>3. ever' = ever \/ \E h \in Calls : Serve(h)
    BY <1>1 DEF Next, GiveUp, Send, CheckCount, Walk, Insert, Finish, Receive, Refuse,
       Background, vars
  <2>. QED BY <2>1, <2>2, <2>3
<1>. QED BY <1>1, ExporterInvariance, PTL DEF Spec, OnlyWholeRequests

-----------------------------------------------------------------------------
(* The end of every call.                                                  *)

\* How many steps a call has still before it, at most.
CallSteps(h) ==
  LET c == call[h] IN
  CASE c.at = "count"  -> Len(Parts[c.r]) + 5
    [] c.at = "walk"   -> Len(Parts[c.r]) + 5 - c.i
    [] c.at = "insert" -> IF ans[h] = "none" THEN 3 ELSE 2
    [] c.at = "answer" -> 1
    [] OTHER -> 0

CallStepsBounded ==
  \A h \in Calls :
    /\ CallSteps(h) \in Nat
    /\ call[h].at # "off" => CallSteps(h) <= Len(Parts[call[h].r]) + 5

\* A call that runs comes nearer to its end, or nothing happens to it but that
\* its context ends.
CallAdvances ==
  \A h \in Calls :
    call[h].at # "off" =>
      \/ CallSteps(h)' < CallSteps(h)
      \/ /\ ans'[h] = ans[h]
         /\ \A f \in {"at", "r", "i", "bytes", "batch", "code"} : call'[h][f] = call[h][f]

\* The number of steps left is a number, and bounded by the request.
LEMMA CallStepsIsNumber ==
  ASSUME IInv, NEW h \in Calls
  PROVE  /\ CallSteps(h) \in Nat
         /\ call[h].at # "off" => CallSteps(h) <= Len(Parts[call[h].r]) + 5
<1>1. CASE call[h].at = "off"
  BY <1>1 DEF CallSteps
<1>2. CASE call[h].at # "off"
  <2>1. /\ call[h].r \in Requests
        /\ call[h].at \in {"count", "walk", "insert", "answer"}
        /\ call[h].at = "walk" => call[h].i \in 1 .. Len(Parts[call[h].r]) + 1
    BY <1>2 DEF IInv, TypeInv, Handler, HandlerInv, Walked
  <2>. DEFINE k == Len(Parts[call[h].r])
              i == call[h].i
  <2>2. k \in Nat /\ (call[h].at = "walk" => i \in 1 .. k + 1)
    BY <2>1, RunningSum
  <2>3. CallSteps(h) = CASE call[h].at = "count"  -> k + 5
                         [] call[h].at = "walk"   -> k + 5 - i
                         [] call[h].at = "insert" -> IF ans[h] = "none" THEN 3 ELSE 2
                         [] call[h].at = "answer" -> 1
                         [] OTHER -> 0
    BY DEF CallSteps
  <2>. HIDE DEF k, i
  <2>4. CallSteps(h) \in Nat /\ CallSteps(h) <= k + 5
    BY <2>1, <2>2, <2>3
  <2>. QED BY <2>4 DEF k
<1>. QED BY <1>1, <1>2

\* The steps of a call itself.
LEMMA OwnStepAdvances ==
  ASSUME IInv, NEW h \in Calls, call[h].at # "off",
         \/ CheckCount(h) \/ Walk(h) \/ Insert(h) \/ Finish(h) \/ Receive(h)
         \/ Serve(h) \/ Refuse(h)
  PROVE  CallSteps(h)' < CallSteps(h)
<1>1. /\ call \in [Calls -> Handler] /\ ans \in [Calls -> {"none", "ok", "conflict", "error"}]
      /\ call[h] \in Handler /\ call[h].r \in Requests
      /\ call[h].at = "walk" => call[h].i \in 1 .. Len(Parts[call[h].r]) + 1
      /\ call[h].at # "insert" => req[h] = Null /\ ans[h] = "none"
  BY DEF IInv, TypeInv, HandlerInv, Walked
<1>2. Len(Parts[call[h].r]) \in Nat
  BY <1>1, RunningSum
<1>. HIDE DEF IInv
<1>3. ASSUME NEW code, Answer(h, code)
      PROVE  call'[h].at = "answer" /\ CallSteps(h)' = 1
  BY <1>1, <1>3 DEF Answer, CallSteps, Handler
<1>4. CASE CheckCount(h)
  <2>1. CASE \E code : Answer(h, code)
    BY <1>2, <1>3, <1>4, <2>1 DEF CheckCount, CallSteps
  <2>2. CASE call' = [call EXCEPT ![h] = [@ EXCEPT !.at = "walk", !.i = 1]]
    <3>1. call'[h].at = "walk" /\ call'[h].i = 1 /\ call'[h].r = call[h].r
      BY <1>1, <2>2 DEF Handler
    <3>. QED BY <1>2, <1>4, <3>1 DEF CheckCount, CallSteps
  <2>. QED BY <1>4, <2>1, <2>2 DEF CheckCount
<1>5. CASE Walk(h)
  <2>0. call[h].at = "walk" /\ call[h].i \in Nat /\ call[h].i <= Len(Parts[call[h].r])
    BY <1>1, <1>5 DEF Walk, Handler
  <2>. DEFINE k == Len(Parts[call[h].r])
              i == call[h].i
  <2>0a. k \in Nat /\ i \in Nat /\ i <= k /\ CallSteps(h) = k + 5 - i
    BY <1>2, <2>0 DEF CallSteps
  <2>1. CASE \E code : Answer(h, code)
    <3>1. CallSteps(h)' = 1
      BY <1>3, <2>1
    <3>. HIDE DEF k, i
    <3>. QED BY <2>0a, <3>1
  <2>2. CASE ~\E code : Answer(h, code)
    <3>. DEFINE p == Parts[call[h].r][call[h].i]
    <3>0. call' = [call EXCEPT ![h].i = @ + 1, ![h].bytes = @ + p.bytes,
                     ![h].batch = @ \cup IF p.kind = "record" THEN {p.row} ELSE {}]
      BY <1>5, <2>2 DEF Walk
    <3>1. call'[h].at = "walk" /\ call'[h].i = call[h].i + 1 /\ call'[h].r = call[h].r
      BY <1>1, <2>0, <3>0 DEF Handler
    <3>2. CallSteps(h)' = k + 5 - (i + 1)
      BY <3>1 DEF CallSteps
    <3>. HIDE DEF k, i
    <3>. QED BY <2>0a, <3>2
  <2>. QED BY <2>1, <2>2
<1>6. CASE Insert(h)
  <2>1. call'[h].at = "insert" /\ ans' = ans
    BY <1>1, <1>6 DEF Insert, T!Request, Handler
  <2>2. call[h].at = "walk" /\ CallSteps(h)' = 3
    BY <1>1, <1>6, <2>1 DEF Insert, CallSteps
  <2>. DEFINE k == Len(Parts[call[h].r])
              i == call[h].i
  <2>3. k \in Nat /\ i \in 1 .. k + 1 /\ CallSteps(h) = k + 5 - i
    BY <1>1, <1>2, <2>2 DEF CallSteps
  <2>. HIDE DEF k, i
  <2>. QED BY <2>2, <2>3
<1>7. CASE Finish(h)
  BY <1>3, <1>7 DEF Finish, T!Reply, CallSteps
<1>8. CASE Receive(h)
  <2>1. call'[h].at = "off"
    BY <1>1, <1>8 DEF Receive, Off
  <2>. QED BY <1>8, <2>1 DEF Receive, CallSteps
<1>9. CASE Serve(h) \/ Refuse(h)
  <2>1. /\ call' = call /\ req[h] # Null /\ ans[h] = "none"
        /\ ans'[h] \in {"ok", "conflict", "error"}
    BY <1>1, <1>9 DEF Serve, Refuse, T!Store, T!Contradict, T!Refuse, T!Decide, T!Pending
  <2>2. call[h].at = "insert"
    BY <1>1, <2>1
  <2>. QED BY <2>1, <2>2 DEF CallSteps
<1>. QED BY <1>4, <1>5, <1>6, <1>7, <1>8, <1>9

\* Nothing happens to a call in the steps of others but that its context ends.
LEMMA OthersLetTheCallBe ==
  ASSUME IInv, NEW h \in Calls, call[h].at # "off", [Next]_vars,
         ~(\/ CheckCount(h) \/ Walk(h) \/ Insert(h) \/ Finish(h) \/ Receive(h)
           \/ Serve(h) \/ Refuse(h))
  PROVE  /\ ans'[h] = ans[h]
         /\ \A f \in {"at", "r", "i", "bytes", "batch", "code"} : call'[h][f] = call[h][f]
<1>. DEFINE Kept == /\ ans'[h] = ans[h]
                    /\ \A f \in {"at", "r", "i", "bytes", "batch", "code"} :
                         call'[h][f] = call[h][f]
<1>1. /\ call \in [Calls -> Handler] /\ ans \in [Calls -> {"none", "ok", "conflict", "error"}]
      /\ client \in [Requests -> Calls \cup {"idle", "acked", "rejected"}]
  BY DEF IInv, TypeInv
<1>. HIDE DEF IInv
<1>2. ASSUME NEW r \in Requests, GiveUp(r) PROVE Kept
  <2>1. ans' = ans /\ call' = [call EXCEPT ![client[r]].live = FALSE] /\ client[r] \in Calls
    BY <1>2 DEF GiveUp, store
  <2>2. CASE h = client[r]
    <3>1. call'[h] = [call[h] EXCEPT !.live = FALSE]
      BY <1>1, <2>1, <2>2
    <3>. QED BY <1>1, <2>1, <3>1 DEF Handler
  <2>3. CASE h # client[r]
    BY <1>1, <2>1, <2>3
  <2>. QED BY <2>2, <2>3
<1>3. ASSUME NEW r \in Requests, NEW g \in Calls, Send(r, g) PROVE Kept
  <2>1. g # h /\ ans' = ans
    BY <1>3 DEF Send, store
  <2>. QED BY <1>1, <1>3, <2>1 DEF Send
<1>4. ASSUME NEW g \in Calls, g # h,
             CheckCount(g) \/ Walk(g) \/ Insert(g) \/ Finish(g) \/ Receive(g)
      PROVE  Kept
  <2>1. call'[h] = call[h]
    BY <1>1, <1>4 DEF CheckCount, Walk, Insert, Finish, Receive, Answer
  <2>2. ans'[h] = ans[h]
    BY <1>1, <1>4 DEF CheckCount, Walk, Insert, Finish, Receive, T!Request, T!Reply, store
  <2>. QED BY <2>1, <2>2
<1>5. ASSUME NEW g \in Calls, g # h, Serve(g) \/ Refuse(g) PROVE Kept
  BY <1>1, <1>5 DEF Serve, Refuse, T!Store, T!Contradict, T!Refuse, T!Decide
<1>6. CASE Background \/ UNCHANGED vars
  BY <1>6 DEF Background, T!Open, T!Close, T!Discard, vars, store
<1>7. CASE Next
  BY <1>2, <1>3, <1>4, <1>5, <1>6, <1>7 DEF Next
<1>. QED BY <1>6, <1>7

\* Consume*: a call takes at most as many steps as its request has parts, and five
\* more; nothing that clients, other calls, the store or the host do sets it back.
\* This is the safety part of EverySettled.
THEOREM CallsEnd ==
  Spec => []CallStepsBounded /\ [][CallAdvances]_vars
<1>1. IInv => CallStepsBounded
  BY CallStepsIsNumber DEF CallStepsBounded
<1>2. ASSUME IInv, [Next]_vars PROVE [CallAdvances]_vars
  <2>. HIDE DEF IInv
  <2>. QED BY <1>2, OwnStepAdvances, OthersLetTheCallBe DEF CallAdvances
<1>. QED BY <1>1, <1>2, ExporterInvariance, PTL DEF Spec
=============================================================================
