-------------------------- MODULE MetricRatesProofs --------------------------
(***************************************************************************)
(* Proofs that `logal metrics rate` reports what really was counted, and   *)
(* nothing twice, for any streams, any clock, any losses and delays and    *)
(* any window.  A point says what was counted between its start and its    *)
(* time (PointInv); the rest follows from the order in which the query     *)
(* looks at the points, whose last element before a point is the one LAG   *)
(* returns.                                                                *)
(***************************************************************************)
EXTENDS MetricRates, SequenceTheorems, WellFoundedInduction, TLAPS

USE RateAssumption

-----------------------------------------------------------------------------
(* What the counters and the points look like.                              *)

CounterInv ==
  /\ kind \in Kinds
  /\ clock \in 1 .. MaxTime
  /\ total \in [Series -> [Times -> Nat]]
  /\ begun \in [Series -> 1 .. clock]

\* A point with a value and a start tells what was counted in between.
PointInv ==
  \A p \in sent :
    /\ p.series \in Series /\ p.time \in 1 .. clock /\ p.start \in 0 .. p.time
    /\ p.value \in Int \cup {Null}
    /\ p.flags = 0 /\ p.value # Null /\ p.start # 0 =>
         p.value = total[p.series][p.time] - total[p.series][p.start]

\* Every row is an exported point.
RowInv == rows \in Seq([point : sent, received : Nat])

IInv == CounterInv /\ PointInv /\ RowInv

\* Counting goes on without a change to the past.
LEMMA AdvanceKeeps ==
  ASSUME IInv, Advance
  PROVE  IInv'
<1>1. PICK n \in [Series -> 0 .. MaxStep] :
        total' = [s \in Series |-> [total[s] EXCEPT ![clock + 1] = total[s][clock] + n[s]]]
  BY DEF Advance
<1>2. /\ clock' = clock + 1 /\ clock < MaxTime /\ clock \in 1 .. MaxTime
      /\ UNCHANGED <<kind, begun, sent, rows>>
  BY DEF Advance, IInv, CounterInv
<1>3. ASSUME NEW s \in Series
      PROVE  /\ total'[s] \in [Times -> Nat]
             /\ \A t \in 0 .. clock : total'[s][t] = total[s][t]
  <2>1. total[s] \in [Times -> Nat] /\ total[s][clock] + n[s] \in Nat
    BY <1>2, <1>3 DEF IInv, CounterInv, Times
  <2>2. total'[s] = [total[s] EXCEPT ![clock + 1] = total[s][clock] + n[s]]
    BY <1>1, <1>3
  <2>. QED BY <1>2, <2>1, <2>2 DEF Times
<1>4. CounterInv'
  <2>1. total' \in [Series -> [Times -> Nat]]
    BY <1>1, <1>3
  <2>2. begun' \in [Series -> 1 .. clock']
    BY <1>2 DEF IInv, CounterInv
  <2>. QED BY <1>2, <2>1, <2>2 DEF IInv, CounterInv, Series
<1>5. PointInv'
  <2> SUFFICES ASSUME NEW p \in sent
               PROVE  /\ p.series \in Series /\ p.time \in 1 .. clock' /\ p.start \in 0 .. p.time
                      /\ p.value \in Int \cup {Null}
                      /\ p.flags = 0 /\ p.value # Null /\ p.start # 0 =>
                           p.value = total'[p.series][p.time] - total'[p.series][p.start]
    BY <1>2 DEF PointInv, Series
  <2>1. /\ p.series \in Series /\ p.time \in 1 .. clock /\ p.start \in 0 .. p.time
        /\ p.value \in Int \cup {Null}
        /\ p.flags = 0 /\ p.value # Null /\ p.start # 0 =>
             p.value = total[p.series][p.time] - total[p.series][p.start]
    BY DEF IInv, PointInv
  <2>2. p.time \in 0 .. clock /\ p.start \in 0 .. clock /\ p.time \in 1 .. clock'
    BY <1>2, <2>1
  <2>3. /\ total'[p.series][p.time] = total[p.series][p.time]
        /\ total'[p.series][p.start] = total[p.series][p.start]
    BY <1>3, <2>1, <2>2
  <2>. QED BY <2>1, <2>2, <2>3
<1>6. RowInv'
  BY <1>2 DEF IInv, RowInv
<1>. QED BY <1>4, <1>5, <1>6 DEF IInv

\* A restarted process counts from now on.
LEMMA RestartKeeps ==
  ASSUME IInv, NEW s \in Series, Restart(s)
  PROVE  IInv'
<1>1. begun' = [begun EXCEPT ![s] = clock] /\ UNCHANGED <<kind, clock, total, sent, rows>>
  BY DEF Restart
<1>. QED BY <1>1 DEF IInv, CounterInv, PointInv, RowInv, Series

\* Every kind of point the SDK may export is a true one.
LEMMA ExportKeeps ==
  ASSUME IInv, NEW s \in Series, Export(s)
  PROVE  IInv'
<1>. DEFINE counted == total[s][clock] - total[s][begun[s]]
<1>1. UNCHANGED <<kind, clock, total, rows>> /\ begun' \in {begun, [begun EXCEPT ![s] = clock]}
  BY DEF Export
<1>2. PICK x \in {<<begun[s], counted, 0>>, <<0, counted, 0>>, <<begun[s], 0, 1>>, <<begun[s], Null, 0>>} :
        sent' = sent \cup {Point(s, x[1], x[2], x[3])}
  BY DEF Export
<1>3. /\ clock \in 1 .. MaxTime /\ begun[s] \in 1 .. clock /\ total[s] \in [Times -> Nat]
      /\ begun \in [Series -> 1 .. clock]
  BY DEF IInv, CounterInv
<1>4. counted \in Int
  BY <1>3 DEF Times
<1>. DEFINE p == Point(s, x[1], x[2], x[3])
<1>5. /\ p.series = s /\ p.time = clock /\ p.start = x[1] /\ p.value = x[2] /\ p.flags = x[3]
  BY DEF Point
<1>. HIDE DEF p, counted
<1>6. /\ x[1] \in {0, begun[s]} /\ x[2] \in Int \cup {Null}
      /\ x[3] = 0 /\ x[2] # Null => x[2] = counted
  BY <1>2, <1>4
<1>7. /\ p.series \in Series /\ p.time \in 1 .. clock /\ p.start \in 0 .. p.time
      /\ p.value \in Int \cup {Null}
      /\ p.flags = 0 /\ p.value # Null /\ p.start # 0 =>
           p.value = total[p.series][p.time] - total[p.series][p.start]
  BY <1>3, <1>5, <1>6 DEF counted
<1>8. PointInv'
  BY <1>1, <1>2, <1>7 DEF IInv, PointInv, Series, p
<1>9. begun' \in [Series -> 1 .. clock]
  BY <1>1, <1>3
<1>10. CounterInv'
  BY <1>1, <1>9 DEF IInv, CounterInv, Series
<1>11. RowInv'
  <2>1. rows \in Seq([point : sent, received : Nat])
    BY DEF IInv, RowInv
  <2>2. [point : sent, received : Nat] \subseteq [point : sent', received : Nat]
    BY <1>2
  <2>. QED BY <1>1, <2>1, <2>2, SeqMonotonic DEF RowInv
<1>. QED BY <1>8, <1>10, <1>11 DEF IInv

\* A stored point becomes the last row.
LEMMA StoreKeeps ==
  ASSUME IInv, NEW p \in sent, Store(p)
  PROVE  IInv'
<1>1. PICK now \in p.time .. clock : rows' = Append(rows, [point |-> p, received |-> now])
  BY DEF Store
<1>2. now \in Nat /\ UNCHANGED <<kind, clock, total, begun, sent>>
  BY <1>1 DEF IInv, CounterInv, PointInv, Store
<1>3. RowInv'
  BY <1>1, <1>2 DEF IInv, RowInv
<1>4. CounterInv' /\ PointInv'
  BY <1>2 DEF IInv, CounterInv, PointInv, Series
<1>. QED BY <1>3, <1>4 DEF IInv

\* Every reachable state satisfies the invariant: an exported point is true of
\* the counters for ever, and only exported points are stored.
THEOREM RatesInvariance == Spec => []IInv
<1>1. Init => IInv
  <2> SUFFICES ASSUME Init PROVE IInv
    OBVIOUS
  <2>1. CounterInv
    BY DEF Init, CounterInv, Series
  <2>2. PointInv /\ RowInv
    BY DEF Init, PointInv, RowInv
  <2>. QED BY <2>1, <2>2 DEF IInv
<1>2. IInv /\ [Next]_vars => IInv'
  <2>1. ASSUME IInv, UNCHANGED vars PROVE IInv'
    BY <2>1 DEF IInv, CounterInv, PointInv, RowInv, Series, vars
  <2>. QED BY <2>1, AdvanceKeeps, RestartKeeps, ExportKeeps, StoreKeeps DEF Next
<1>. QED BY <1>1, <1>2, PTL DEF Spec

-----------------------------------------------------------------------------
(* What LAG returns.                                                        *)

\* A set of naturals that is not empty has a least element.
LEMMA LeastNumber ==
  ASSUME NEW N, N \subseteq Nat, N # {}
  PROVE  \E n \in N : \A m \in N : n <= m
<1>. DEFINE R == {ss \in Nat \X Nat : ss[1] < ss[2]}
<1>1. IsWellFoundedOn(R, Nat)
  BY NatLessThanWellFounded, Zenon DEF OpToRel
<1>. HIDE DEF R
<1>2. PICK n \in N : \A m \in N : <<m, n>> \notin R
  BY <1>1, WFMin, Zenon
<1>3. ASSUME NEW m \in N PROVE ~ (m < n)
  BY <1>2 DEF R
<1>. QED BY <1>3

\* A bounded one has a greatest.
LEMMA GreatestNumber ==
  ASSUME NEW b \in Nat, NEW N, N \subseteq 0 .. b, N # {}
  PROVE  \E n \in N : \A m \in N : m <= n
<1>. DEFINE D == {b - n : n \in N}
<1>1. D \subseteq Nat /\ D # {}
  OBVIOUS
<1>. HIDE DEF D
<1>2. PICK d \in D : \A e \in D : d <= e
  BY <1>1, LeastNumber
<1>. USE DEF D
<1>3. PICK n \in N : d = b - n
  OBVIOUS
<1>4. ASSUME NEW m \in N PROVE m <= n
  <2>1. b - m \in D /\ m \in 0 .. b /\ n \in 0 .. b
    OBVIOUS
  <2>2. d <= b - m
    BY <1>2, <2>1
  <2>. QED BY <1>3, <2>1, <2>2
<1>. QED BY <1>4

\* The window's rows are rows of the table.
LEMMA WindowRows ==
  ASSUME NEW S \in Windows
  PROVE  S \subseteq DOMAIN rows
BY DEF Windows, Selected

\* What is known of a row.
LEMMA RowFacts ==
  ASSUME IInv, NEW id \in DOMAIN rows
  PROVE  /\ id \in 1 .. Len(rows) /\ Len(rows) \in Nat
         /\ At(id) \in sent /\ At(id).series \in Series
         /\ At(id).time \in 1 .. clock /\ At(id).start \in 0 .. At(id).time
         /\ clock \in 1 .. MaxTime /\ At(id).time \in Times /\ At(id).start \in Times
<1>1. id \in 1 .. Len(rows) /\ Len(rows) \in Nat /\ At(id) \in sent
  <2>1. rows \in Seq([point : sent, received : Nat])
    BY DEF IInv, RowInv
  <2>2. id \in 1 .. Len(rows) /\ Len(rows) \in Nat
    BY <2>1, LenProperties
  <2>3. rows[id] \in [point : sent, received : Nat]
    BY <2>1, <2>2, ElementOfSeq
  <2>. QED BY <2>2, <2>3 DEF At
<1>2. At(id).series \in Series /\ At(id).time \in 1 .. clock /\ At(id).start \in 0 .. At(id).time
  BY <1>1 DEF IInv, PointInv
<1>3. clock \in 1 .. MaxTime
  BY DEF IInv, CounterInv
<1>. QED BY <1>1, <1>2, <1>3 DEF Times

\* LAG returns the last of the earlier rows of the stream.
LEMMA PreviousIsLast ==
  ASSUME IInv, NEW S \in Windows, NEW id \in S, HasPrevious(S, id)
  PROVE  /\ Previous(S, id) \in Earlier(S, id)
         /\ \A j \in Earlier(S, id) : j = Previous(S, id) \/ Before(j, Previous(S, id))
<1>. DEFINE E == Earlier(S, id)
            N == {At(i).time : i \in E}
<1>1. E \subseteq DOMAIN rows /\ E # {}
  BY WindowRows DEF Earlier, HasPrevious
<1>. HIDE DEF E
<1>2. \A i \in E : /\ i \in 1 .. Len(rows) /\ Len(rows) \in Nat
                   /\ At(i).time \in 1 .. clock /\ clock \in Nat
  BY <1>1, RowFacts
<1>3. clock \in Nat /\ Len(rows) \in Nat
  BY <1>1, <1>2
<1>4. N \subseteq 0 .. clock /\ N # {}
  BY <1>1, <1>2
<1>. HIDE DEF N
<1>5. PICK t \in N : \A u \in N : u <= t
  BY <1>3, <1>4, GreatestNumber
<1>. DEFINE L == {i \in E : At(i).time = t}
<1>6. L \subseteq 0 .. Len(rows) /\ L # {}
  BY <1>1, <1>2, <1>5 DEF N
<1>. HIDE DEF L
<1>7. PICK k \in L : \A m \in L : m <= k
  BY <1>3, <1>6, GreatestNumber
<1>8. k \in E /\ At(k).time = t
  BY <1>7 DEF L
<1>9. ASSUME NEW j \in E PROVE j = k \/ Before(j, k)
  <2>1. At(j).time \in N
    BY <1>9 DEF N
  <2>2. At(j).time <= t
    BY <1>5, <2>1
  <2>3. At(j).time = t => j <= k
    BY <1>7, <1>9 DEF L
  <2>. QED BY <1>2, <1>8, <1>9, <2>2, <2>3 DEF Before
<1>. QED BY <1>8, <1>9 DEF E, Previous

\* No earlier row of the stream is later than the one LAG returns.
LEMMA PreviousBound ==
  ASSUME IInv, NEW S \in Windows, NEW i \in S, NEW j \in S, SameStream(i, j), Before(i, j)
  PROVE  /\ HasPrevious(S, j) /\ Previous(S, j) \in S /\ SameStream(Previous(S, j), j)
         /\ At(i).time <= At(Previous(S, j)).time
<1>1. i \in Earlier(S, j) /\ HasPrevious(S, j)
  BY DEF Earlier, HasPrevious
<1>2. Previous(S, j) \in Earlier(S, j) /\ (i = Previous(S, j) \/ Before(i, Previous(S, j)))
  BY <1>1, PreviousIsLast
<1>3. Previous(S, j) \in S /\ SameStream(Previous(S, j), j)
  BY <1>2 DEF Earlier
<1>4. At(i).time \in 1 .. clock /\ At(Previous(S, j)).time \in 1 .. clock
  BY <1>3, WindowRows, RowFacts
<1>. QED BY <1>1, <1>2, <1>3, <1>4 DEF Before

-----------------------------------------------------------------------------
(* The theorems.                                                            *)

\* A point with a value and a start says what was counted in between.
LEMMA PointIsTrue ==
  ASSUME IInv, NEW id \in DOMAIN rows, HasValue(id), At(id).start # 0
  PROVE  /\ At(id).value \in Int
         /\ At(id).value = total[At(id).series][At(id).time] - total[At(id).series][At(id).start]
         /\ total[At(id).series][At(id).time] \in Nat /\ total[At(id).series][At(id).start] \in Nat
<1>1. /\ At(id) \in sent /\ At(id).series \in Series
      /\ At(id).time \in Times /\ At(id).start \in Times
  BY RowFacts
<1>2. At(id).flags = 0 /\ At(id).value # Null
  BY DEF HasValue
<1>3. /\ At(id).value \in Int
      /\ At(id).value = total[At(id).series][At(id).time] - total[At(id).series][At(id).start]
  BY <1>1, <1>2 DEF IInv, PointInv
<1>. QED BY <1>1, <1>3 DEF IInv, CounterInv

\* A reported delta is what really was counted in its interval.
THEOREM TrueRates == Spec => []RatesAreTrue
<1>1. ASSUME IInv, NEW S \in Windows, NEW id \in S, Rated(S, id)
      PROVE  DeltaValue(S, id) = total[At(id).series][At(id).time]
                                   - total[At(id).series][IntervalStart(S, id)]
  <2>1. id \in DOMAIN rows /\ HasValue(id) /\ At(id).start # 0
    BY <1>1, WindowRows DEF Rated, Usable
  <2>2. /\ At(id).value \in Int
        /\ At(id).value = total[At(id).series][At(id).time] - total[At(id).series][At(id).start]
        /\ total[At(id).series][At(id).time] \in Nat /\ total[At(id).series][At(id).start] \in Nat
    BY <1>1, <2>1, PointIsTrue
  <2>3. CASE KindOf(id) = "delta"
    BY <2>2, <2>3 DEF DeltaValue, IntervalStart
  <2>4. CASE KindOf(id) # "delta"
    <3>. DEFINE q == Previous(S, id)
    <3>1. HasPrevious(S, id) /\ HasValue(q) /\ At(q).start = At(id).start
      BY <1>1, <2>4 DEF Rated, DeltaRated, CumulativeRated
    <3>2. q \in Earlier(S, id)
      BY <1>1, <3>1, PreviousIsLast
    <3>. HIDE DEF q
    <3>3. q \in DOMAIN rows /\ At(q).series = At(id).series
      BY <1>1, <3>2, WindowRows DEF Earlier, SameStream
    <3>4. /\ At(q).value \in Int
          /\ At(q).value = total[At(q).series][At(q).time] - total[At(q).series][At(q).start]
          /\ total[At(q).series][At(q).time] \in Nat
      BY <1>1, <2>1, <3>1, <3>3, PointIsTrue
    <3>5. DeltaValue(S, id) = At(id).value - At(q).value /\ IntervalStart(S, id) = At(q).time
      BY <2>4 DEF DeltaValue, IntervalStart, q
    <3>. QED BY <2>2, <3>1, <3>3, <3>4, <3>5
  <2>. QED BY <2>3, <2>4
<1>2. IInv => RatesAreTrue
  BY <1>1 DEF RatesAreTrue
<1>. QED BY <1>2, RatesInvariance, PTL

\* The rates of a stream cover disjoint times, and none covers a reported gap.
THEOREM DisjointRates == Spec => []IntervalsDisjoint
<1>1. ASSUME IInv, NEW S \in Windows, NEW i \in S, NEW j \in S, At(i).series = At(j).series, Rated(S, i)
      PROVE  /\ Rated(S, j) /\ Before(i, j) => At(i).time <= IntervalStart(S, j)
             /\ HasGap(S, j) => \/ At(i).time <= At(Previous(S, j)).time
                                \/ At(j).start <= IntervalStart(S, i)
  <2>1. SameStream(i, j) /\ SameStream(j, i) /\ KindOf(i) = KindOf(j)
    BY <1>1 DEF SameStream, KindOf
  <2>2. /\ i \in DOMAIN rows /\ j \in DOMAIN rows
        /\ i \in 1 .. Len(rows) /\ j \in 1 .. Len(rows) /\ Len(rows) \in Nat
        /\ At(i).time \in 1 .. clock /\ At(j).time \in 1 .. clock
        /\ At(i).start \in 0 .. At(i).time /\ At(j).start \in 0 .. At(j).time
    BY <1>1, WindowRows, RowFacts
  <2>3. ASSUME Rated(S, j), Before(i, j)
        PROVE  At(i).time <= IntervalStart(S, j)
    <3>1. HasPrevious(S, j) /\ Previous(S, j) \in S /\ At(i).time <= At(Previous(S, j)).time
      BY <1>1, <2>1, <2>3, PreviousBound
    <3>2. At(Previous(S, j)).time \in 1 .. clock
      BY <1>1, <3>1, WindowRows, RowFacts
    <3>3. CASE KindOf(j) = "delta"
      <4>1. At(Previous(S, j)).time <= At(j).start /\ IntervalStart(S, j) = At(j).start
        BY <2>3, <3>1, <3>3 DEF Rated, DeltaRated, CumulativeRated, IntervalStart
      <4>. QED BY <2>2, <3>1, <3>2, <4>1
    <3>4. CASE KindOf(j) # "delta"
      BY <3>1, <3>4 DEF IntervalStart
    <3>. QED BY <3>3, <3>4
  <2>4. ASSUME HasGap(S, j)
        PROVE  \/ At(i).time <= At(Previous(S, j)).time
               \/ At(j).start <= IntervalStart(S, i)
    <3>1. KindOf(i) = "delta" /\ IntervalStart(S, i) = At(i).start
      BY <2>1, <2>4 DEF HasGap, IntervalStart
    <3>2. i = j \/ Before(i, j) \/ Before(j, i)
      BY <2>2 DEF Before
    <3>3. CASE i = j
      BY <2>2, <3>1, <3>3
    <3>4. CASE Before(i, j)
      BY <1>1, <2>1, <3>4, PreviousBound
    <3>5. CASE Before(j, i)
      <4>1. /\ HasPrevious(S, i) /\ Previous(S, i) \in S
            /\ At(j).time <= At(Previous(S, i)).time
        BY <1>1, <2>1, <3>5, PreviousBound
      <4>2. At(Previous(S, i)).time \in 1 .. clock
        BY <1>1, <4>1, WindowRows, RowFacts
      <4>3. At(Previous(S, i)).time <= At(i).start
        BY <1>1, <3>1, <4>1 DEF Rated, DeltaRated, CumulativeRated
      <4>. QED BY <2>2, <3>1, <4>1, <4>2, <4>3
    <3>. QED BY <3>2, <3>3, <3>4, <3>5
  <2>. QED BY <2>3, <2>4
<1>2. IInv => IntervalsDisjoint
  BY <1>1 DEF IntervalsDisjoint
<1>. QED BY <1>2, RatesInvariance, PTL
=============================================================================
