----------------------------- MODULE PagingProofs -----------------------------
(***************************************************************************)
(* Proofs that a page that Read built fits its budget, and that the pages  *)
(* show the table, for any table, any columns and lengths, any budget and  *)
(* any rows that come and go between two pages.  The argument is by rank:   *)
(* the number of rows above a row is its place in the snapshot.  What is    *)
(* inserted never makes that number smaller, and what expires only if the   *)
(* row was overtaken on its way into the store.                             *)
(***************************************************************************)
EXTENDS Paging, FiniteSetTheorems, SequenceTheorems, WellFoundedInduction, TLAPS

\* What the proofs need of the constants.
LEMMA Constants ==
  /\ Initial \subseteq 1 .. MaxId /\ Initial # {} /\ MaxId \in Nat
  /\ IsFiniteSet(Columns) /\ NameBytes \in [Columns -> Nat]
  /\ Filled \in [1 .. MaxId -> SUBSET Columns]
  /\ \A t \in Tables : t \in [1 .. MaxId -> Nat]
  /\ \A o \in Options : o.limit \in Nat \ {0} /\ o.includeEmpty \in BOOLEAN
  /\ MaxBytes \in Nat /\ MaxOffset \in Nat
<1>. USE PagingAssumption
<1>1. NameBytes \in [Columns -> Nat]
  BY SMT
<1>2. ASSUME NEW t \in Tables PROVE t \in [1 .. MaxId -> Nat]
  BY SMT
<1>3. ASSUME NEW o \in Options PROVE o.limit \in Nat \ {0} /\ o.includeEmpty \in BOOLEAN
  BY SMT
<1>. QED BY <1>1, <1>2, <1>3, SMT

-----------------------------------------------------------------------------
(* Sums.  A property of all numbers up to a bound is proved by descent:     *)
(* the numbers that lack it would include each one's predecessor.           *)

\* A set of naturals with the predecessor of each of its members is empty.
LEMMA Descent ==
  ASSUME NEW N, N \subseteq Nat, \A n \in N : n - 1 \in N
  PROVE  N = {}
<1>. DEFINE R == {ss \in Nat \X Nat : ss[1] < ss[2]}
<1>1. IsWellFoundedOn(R, Nat)
  BY NatLessThanWellFounded, Zenon DEF OpToRel
<1>. HIDE DEF R
<1>. SUFFICES ASSUME N # {} PROVE FALSE
  OBVIOUS
<1>2. PICK n \in N : \A m \in N : <<m, n>> \notin R
  BY <1>1, WFMin, Zenon
<1>3. n \in Nat /\ n - 1 \in Nat /\ n - 1 \in N
  BY <1>2
<1>4. <<n - 1, n>> \in R
  BY <1>3 DEF R
<1>. QED BY <1>2, <1>3, <1>4

\* f is the sum of a, up to n.
Sums(f, a, n) ==
  /\ f \in [0 .. n -> Nat] /\ f[0] = 0
  /\ \A i \in 1 .. n : f[i] = f[i - 1] + a[i]

\* Every sequence of numbers has its running sum.
LEMMA SumExists ==
  ASSUME NEW k \in Nat, NEW a \in [1 .. k -> Nat]
  PROVE  \E f : Sums(f, a, k)
<1>. DEFINE Has(n) == \E f : Sums(f, a, n)
            N == {n \in 0 .. k : ~Has(n)}
<1>1. ASSUME NEW n \in N PROVE n - 1 \in N
  <2>1. n \in 0 .. k /\ ~Has(n)
    OBVIOUS
  <2>2. n # 0
    <3>. DEFINE f == [i \in 0 .. 0 |-> 0]
    <3>1. Sums(f, a, 0)
      BY DEF Sums
    <3>2. Has(0)
      BY <3>1
    <3>. QED BY <2>1, <3>2
  <2>3. n \in 1 .. k /\ n - 1 \in 0 .. k
    BY <2>1, <2>2
  <2>4. ASSUME NEW g, Sums(g, a, n - 1) PROVE FALSE
    <3>. DEFINE f == [i \in 0 .. n |-> IF i = n THEN g[n - 1] + a[n] ELSE g[i]]
    <3>1. g \in [0 .. n - 1 -> Nat] /\ g[0] = 0 /\ a[n] \in Nat /\ g[n - 1] \in Nat
      BY <2>3, <2>4 DEF Sums
    <3>2. f \in [0 .. n -> Nat]
      BY <2>3, <3>1
    <3>3. f[n] = g[n - 1] + a[n] /\ \A i \in 0 .. n - 1 : f[i] = g[i]
      BY <2>3
    <3>. HIDE DEF f
    <3>4. f[0] = 0
      BY <2>3, <3>1, <3>3
    <3>5. ASSUME NEW i \in 1 .. n PROVE f[i] = f[i - 1] + a[i]
      <4>1. CASE i = n
        BY <2>3, <3>3, <4>1
      <4>2. CASE i # n
        <5>1. i \in 1 .. n - 1 /\ i \in 0 .. n - 1 /\ i - 1 \in 0 .. n - 1
          BY <2>3, <4>2
        <5>2. g[i] = g[i - 1] + a[i]
          BY <2>4, <5>1 DEF Sums
        <5>. QED BY <3>3, <5>1, <5>2
      <4>. QED BY <4>1, <4>2
    <3>6. Sums(f, a, n)
      BY <3>2, <3>4, <3>5 DEF Sums
    <3>. QED BY <2>1, <3>6
  <2>. QED BY <2>3, <2>4
<1>2. N \subseteq Nat
  OBVIOUS
<1>3. k \notin N
  <2>. HIDE DEF N
  <2>1. N = {}
    BY <1>1, <1>2, Descent
  <2>. QED BY <2>1
<1>. QED BY <1>3

\* A function that satisfies the equation of a running sum is one.
LEMMA SumsAreNat ==
  ASSUME NEW k \in Nat, NEW a \in [1 .. k -> Nat], NEW s,
         s = [i \in 0 .. k |-> IF i = 0 THEN 0 ELSE s[i - 1] + a[i]]
  PROVE  Sums(s, a, k)
<1>1. s[0] = 0
  <2>1. 0 \in 0 .. k
    OBVIOUS
  <2>. QED BY <2>1
<1>2. ASSUME NEW i \in 1 .. k PROVE s[i] = s[i - 1] + a[i]
  <2>1. i \in 0 .. k /\ i # 0
    OBVIOUS
  <2>. QED BY <2>1
<1>. DEFINE N == {n \in 0 .. k : s[n] \notin Nat}
<1>3. ASSUME NEW n \in N PROVE n - 1 \in N
  <2>1. n \in 0 .. k /\ s[n] \notin Nat
    OBVIOUS
  <2>2. n \in 1 .. k /\ n - 1 \in 0 .. k
    BY <1>1, <2>1
  <2>3. s[n] = s[n - 1] + a[n] /\ a[n] \in Nat
    BY <1>2, <2>2
  <2>. QED BY <2>1, <2>2, <2>3
<1>4. N \subseteq Nat
  OBVIOUS
<1>5. N = {}
  <2>. HIDE DEF N
  <2>. QED BY <1>3, <1>4, Descent
<1>6. s \in [0 .. k -> Nat]
  BY <1>5
<1>. QED BY <1>1, <1>2, <1>6 DEF Sums

\* The bytes of a page's rows are a number, and no rows have no bytes.
LEMMA RowBytesType ==
  ASSUME rowBytes \in Tables, NEW s \in Seq(1 .. MaxId)
  PROVE  AllRowBytes(s) \in Nat /\ (Len(s) = 0 => AllRowBytes(s) = 0)
<1>. DEFINE k == Len(s)
            a == [i \in 1 .. k |-> rowBytes[s[i]]]
            P(f) == f = [i \in 0 .. k |-> IF i = 0 THEN 0 ELSE f[i - 1] + rowBytes[s[i]]]
<1>1. k \in Nat /\ \A i \in 1 .. k : s[i] \in 1 .. MaxId
  BY LenProperties, ElementOfSeq
<1>. HIDE DEF k
<1>2. a \in [1 .. k -> Nat] /\ \A i \in 1 .. k : a[i] = rowBytes[s[i]]
  BY <1>1, Constants
<1>. HIDE DEF a
<1>3. ASSUME NEW f
      PROVE  P(f) <=> f = [i \in 0 .. k |-> IF i = 0 THEN 0 ELSE f[i - 1] + a[i]]
  <2>1. ASSUME NEW i \in 0 .. k
        PROVE  (IF i = 0 THEN 0 ELSE f[i - 1] + rowBytes[s[i]])
                 = (IF i = 0 THEN 0 ELSE f[i - 1] + a[i])
    <3>1. i # 0 => i \in 1 .. k
      BY <1>1
    <3>. QED BY <1>2, <3>1
  <2>. QED BY <2>1
<1>4. PICK g : Sums(g, a, k)
  BY <1>1, <1>2, SumExists
<1>5. g = [i \in 0 .. k |-> IF i = 0 THEN 0 ELSE g[i - 1] + a[i]]
  <2>1. ASSUME NEW i \in 0 .. k PROVE g[i] = IF i = 0 THEN 0 ELSE g[i - 1] + a[i]
    <3>1. i # 0 => i \in 1 .. k
      BY <1>1
    <3>. QED BY <1>4, <3>1 DEF Sums
  <2>2. g \in [0 .. k -> Nat]
    BY <1>4 DEF Sums
  <2>. QED BY <2>1, <2>2
<1>6. P(g)
  BY <1>3, <1>5
<1>. DEFINE h == CHOOSE f : P(f)
<1>7. AllRowBytes(s) = h[k]
  BY DEF AllRowBytes, k
<1>. HIDE DEF P
<1>8. P(h)
  BY <1>6
<1>. HIDE DEF h
<1>9. Sums(h, a, k)
  BY <1>1, <1>2, <1>3, <1>8, SumsAreNat
<1>. QED BY <1>1, <1>7, <1>9 DEF Sums, k

-----------------------------------------------------------------------------
(* The names of columns.  ColumnBytes recurs on smaller sets, so descent is *)
(* on the size of the set.                                                  *)

Some(S) == CHOOSE c \in S : TRUE

\* Sets of columns are finite; without one member they are one smaller.
LEMMA ColumnSets ==
  ASSUME NEW S \in SUBSET Columns
  PROVE  /\ IsFiniteSet(S) /\ Cardinality(S) \in Nat /\ Cardinality(S) <= Cardinality(Columns)
         /\ Cardinality(S) = 0 <=> S = {}
         /\ S # {} => /\ Some(S) \in S /\ S \ {Some(S)} \in SUBSET Columns
                      /\ Cardinality(S \ {Some(S)}) = Cardinality(S) - 1
                      /\ NameBytes[Some(S)] \in Nat
<1>1. /\ IsFiniteSet(S) /\ Cardinality(S) \in Nat /\ Cardinality(Columns) \in Nat
      /\ Cardinality(S) <= Cardinality(Columns)
  BY Constants, FS_Subset, FS_CardinalityType
<1>2. Cardinality(S) = 0 <=> S = {}
  BY <1>1, FS_EmptySet
<1>3. S # {} => Some(S) \in S
  BY DEF Some
<1>4. S # {} => Cardinality(S \ {Some(S)}) = Cardinality(S) - 1
  BY <1>1, <1>3, FS_RemoveElement
<1>. QED BY <1>1, <1>2, <1>3, <1>4, Constants

\* f computes the length of the names of every set of at most n columns.
Names(f, n) ==
  /\ f \in [SUBSET Columns -> Nat]
  /\ \A S \in SUBSET Columns :
       Cardinality(S) <= n =>
         f[S] = IF S = {} THEN 0 ELSE f[S \ {Some(S)}] + NameBytes[Some(S)] + 1

\* There is such a function for all columns.
LEMMA NamesExist == \E f : Names(f, Cardinality(Columns))
<1>. DEFINE k == Cardinality(Columns)
            Has(n) == \E f : Names(f, n)
            N == {n \in 0 .. k : ~Has(n)}
<1>0. k \in Nat
  BY Constants, FS_CardinalityType
<1>. HIDE DEF k
<1>1. ASSUME NEW n \in N PROVE n - 1 \in N
  <2>1. n \in 0 .. k /\ ~Has(n)
    OBVIOUS
  <2>2. n # 0
    <3>. DEFINE f == [S \in SUBSET Columns |-> 0]
    <3>1. ASSUME NEW S \in SUBSET Columns, Cardinality(S) <= 0 PROVE S = {}
      <4>1. Cardinality(S) \in Nat /\ (Cardinality(S) = 0 <=> S = {})
        BY ColumnSets
      <4>. QED BY <3>1, <4>1
    <3>2. Names(f, 0)
      BY <3>1 DEF Names
    <3>3. Has(0)
      BY <3>2
    <3>. QED BY <2>1, <3>3
  <2>3. n \in 1 .. k /\ n - 1 \in 0 .. k
    BY <1>0, <2>1, <2>2
  <2>4. ASSUME NEW g, Names(g, n - 1) PROVE FALSE
    <3>. DEFINE New(S) == g[S \ {Some(S)}] + NameBytes[Some(S)] + 1
                f == [S \in SUBSET Columns |-> IF Cardinality(S) = n THEN New(S) ELSE g[S]]
    <3>1. ASSUME NEW S \in SUBSET Columns, Cardinality(S) = n PROVE New(S) \in Nat /\ S # {}
      <4>1. S # {}
        <5>1. Cardinality(S) = 0 <=> S = {}
          BY ColumnSets
        <5>. QED BY <2>3, <3>1, <5>1
      <4>2. S \ {Some(S)} \in SUBSET Columns /\ NameBytes[Some(S)] \in Nat
        BY <4>1, ColumnSets
      <4>3. g[S \ {Some(S)}] \in Nat
        BY <2>4, <4>2 DEF Names
      <4>. QED BY <4>1, <4>2, <4>3
    <3>2. ASSUME NEW S \in SUBSET Columns PROVE g[S] \in Nat
      BY <2>4 DEF Names
    <3>3. f \in [SUBSET Columns -> Nat]
      BY <3>1, <3>2
    <3>4. ASSUME NEW S \in SUBSET Columns
          PROVE  f[S] = IF Cardinality(S) = n THEN New(S) ELSE g[S]
      OBVIOUS
    <3>. HIDE DEF f
    <3>5. ASSUME NEW S \in SUBSET Columns, Cardinality(S) <= n
          PROVE  f[S] = IF S = {} THEN 0 ELSE f[S \ {Some(S)}] + NameBytes[Some(S)] + 1
      <4>. DEFINE T == S \ {Some(S)}
      <4>1. S # {} => /\ T \in SUBSET Columns /\ Cardinality(T) = Cardinality(S) - 1
                      /\ Cardinality(S) \in Nat
        BY ColumnSets
      <4>2. S # {} => f[T] = g[T]
        <5>1. ASSUME S # {} PROVE Cardinality(T) # n
          BY <2>3, <3>5, <4>1, <5>1
        <5>. HIDE DEF T
        <5>. QED BY <3>4, <4>1, <5>1
      <4>3. CASE Cardinality(S) = n
        BY <3>1, <3>4, <4>2, <4>3
      <4>4. CASE Cardinality(S) # n
        <5>1. Cardinality(S) <= n - 1
          <6>1. Cardinality(S) \in Nat
            BY ColumnSets
          <6>. QED BY <2>3, <3>5, <4>4, <6>1
        <5>2. g[S] = IF S = {} THEN 0 ELSE g[T] + NameBytes[Some(S)] + 1
          BY <2>4, <5>1 DEF Names
        <5>. QED BY <3>4, <4>2, <4>4, <5>2
      <4>. QED BY <4>3, <4>4
    <3>6. Names(f, n)
      BY <3>3, <3>5 DEF Names
    <3>. QED BY <2>1, <3>6
  <2>. QED BY <2>3, <2>4
<1>2. N \subseteq Nat
  BY <1>0
<1>3. N = {}
  <2>. HIDE DEF N
  <2>. QED BY <1>1, <1>2, Descent
<1>4. k \notin N
  BY <1>3
<1>. QED BY <1>0, <1>4 DEF k

\* The bytes of column names are a number, and none for no columns.
LEMMA ColumnBytesType ==
  /\ ColumnBytes \in [SUBSET Columns -> Nat]
  /\ ColumnBytes[{}] = 0
<1>. DEFINE P(f) == f = [S \in SUBSET Columns |->
                      IF S = {} THEN 0 ELSE f[S \ {Some(S)}] + NameBytes[Some(S)] + 1]
<1>1. PICK g : Names(g, Cardinality(Columns))
  BY NamesExist
<1>2. P(g)
  <2>1. ASSUME NEW S \in SUBSET Columns
        PROVE  g[S] = IF S = {} THEN 0 ELSE g[S \ {Some(S)}] + NameBytes[Some(S)] + 1
    <3>1. Cardinality(S) <= Cardinality(Columns)
      BY ColumnSets
    <3>. QED BY <1>1, <3>1 DEF Names
  <2>2. g \in [SUBSET Columns -> Nat]
    BY <1>1 DEF Names
  <2>. QED BY <2>1, <2>2
<1>. DEFINE h == CHOOSE f : P(f)
<1>3. ColumnBytes = h
  BY DEF ColumnBytes, Some
<1>. HIDE DEF P
<1>4. P(h)
  BY <1>2
<1>. HIDE DEF h
<1>5. h = [S \in SUBSET Columns |-> IF S = {} THEN 0 ELSE h[S \ {Some(S)}] + NameBytes[Some(S)] + 1]
  BY <1>4 DEF P
<1>6. h[{}] = 0
  BY <1>5
<1>7. ASSUME NEW S \in SUBSET Columns, S # {}
      PROVE  h[S] = h[S \ {Some(S)}] + NameBytes[Some(S)] + 1
  BY <1>5, <1>7
<1>. DEFINE N == {n \in Nat : \E S \in SUBSET Columns : Cardinality(S) = n /\ h[S] \notin Nat}
<1>8. ASSUME NEW n \in N PROVE n - 1 \in N
  <2>1. PICK S \in SUBSET Columns : Cardinality(S) = n /\ h[S] \notin Nat
    OBVIOUS
  <2>2. S # {}
    BY <1>6, <2>1
  <2>. DEFINE T == S \ {Some(S)}
  <2>3. T \in SUBSET Columns /\ Cardinality(T) = n - 1 /\ NameBytes[Some(S)] \in Nat
    BY <2>1, <2>2, ColumnSets
  <2>4. h[T] \notin Nat
    <3>1. h[S] = h[T] + NameBytes[Some(S)] + 1
      BY <1>7, <2>2
    <3>. HIDE DEF T
    <3>. QED BY <2>1, <2>3, <3>1
  <2>5. n - 1 \in Nat
    <3>. HIDE DEF T
    <3>1. Cardinality(T) \in Nat
      BY <2>3, ColumnSets
    <3>. QED BY <2>3, <3>1
  <2>. QED BY <2>3, <2>4, <2>5
<1>9. N = {}
  <2>1. N \subseteq Nat
    OBVIOUS
  <2>. HIDE DEF N
  <2>. QED BY <1>8, <2>1, Descent
<1>10. ASSUME NEW S \in SUBSET Columns PROVE h[S] \in Nat
  <2>1. Cardinality(S) \in Nat
    BY ColumnSets
  <2>. QED BY <1>9, <2>1
<1>11. h \in [SUBSET Columns -> Nat]
  BY <1>5, <1>10
<1>. QED BY <1>3, <1>6, <1>11

-----------------------------------------------------------------------------
(* Ranks.                                                                   *)

\* How many rows of S come before row id.
Above(S, id) == Cardinality({j \in S : j > id})

\* Every row has a rank below the size of the set, no two have the same.
LEMMA Ranks ==
  ASSUME NEW S, S \subseteq Nat, IsFiniteSet(S)
  PROVE  /\ \A id \in S : Above(S, id) \in 0 .. Cardinality(S) - 1
         /\ \A id \in S, q \in S : Above(S, id) = Above(S, q) => id = q
<1>. DEFINE Up(id) == {j \in S : j > id}
<1>1. Cardinality(S) \in Nat /\ \A id \in S : IsFiniteSet(Up(id)) /\ Cardinality(Up(id)) \in Nat
  BY FS_CardinalityType, FS_Subset
<1>2. ASSUME NEW id \in S PROVE Cardinality(Up(id)) < Cardinality(S)
  <2>1. Up(id) \in SUBSET S /\ id \notin Up(id)
    OBVIOUS
  <2>. HIDE DEF Up
  <2>2. Cardinality(Up(id)) <= Cardinality(S) /\ Cardinality(S) # Cardinality(Up(id))
    BY <2>1, FS_Subset
  <2>. QED BY <1>1, <2>2
<1>3. ASSUME NEW id \in S, NEW q \in S, id < q PROVE Cardinality(Up(q)) < Cardinality(Up(id))
  <2>1. Up(q) \in SUBSET Up(id) /\ q \notin Up(q) /\ q \in Up(id)
    <3>1. id \in Nat /\ q \in Nat
      OBVIOUS
    <3>2. ASSUME NEW j \in Up(q) PROVE j \in Up(id)
      BY <1>3, <3>1
    <3>3. q \notin Up(q) /\ q \in Up(id)
      BY <1>3, <3>1
    <3>. HIDE DEF Up
    <3>. QED BY <3>2, <3>3
  <2>. HIDE DEF Up
  <2>2. Cardinality(Up(q)) <= Cardinality(Up(id)) /\ Cardinality(Up(id)) # Cardinality(Up(q))
    BY <1>1, <2>1, FS_Subset
  <2>. QED BY <1>1, <2>2
<1>4. ASSUME NEW id \in S, NEW q \in S, Above(S, id) = Above(S, q) PROVE id = q
  <2>1. ~(id < q) /\ ~(q < id)
    BY <1>1, <1>3, <1>4 DEF Above
  <2>. QED BY <2>1
<1>. QED BY <1>1, <1>2, <1>4 DEF Above

\* Every rank is taken.
LEMMA RankTaken ==
  ASSUME NEW S, S \subseteq Nat, IsFiniteSet(S), NEW i \in 1 .. Cardinality(S)
  PROVE  \E id \in S : Above(S, id) = i - 1
<1>. DEFINE k == Cardinality(S)
            f == [id \in S |-> Above(S, id) + 1]
<1>1. k \in Nat /\ i \in 1 .. k
  BY FS_CardinalityType
<1>2. IsFiniteSet(1 .. k) /\ Cardinality(1 .. k) = k
  BY <1>1, FS_Interval
<1>3. ASSUME NEW id \in S PROVE f[id] = Above(S, id) + 1 /\ Above(S, id) \in Nat /\ f[id] \in 1 .. k
  <2>1. Above(S, id) \in 0 .. k - 1
    BY Ranks
  <2>. HIDE DEF k
  <2>2. Above(S, id) \in Nat /\ Above(S, id) + 1 \in 1 .. k
    BY <1>1, <2>1
  <2>. QED BY <2>2
<1>. HIDE DEF k
<1>4. f \in [S -> 1 .. k]
  BY <1>3
<1>5. ASSUME NEW id \in S, NEW q \in S, f[id] = f[q] PROVE id = q
  <2>1. Above(S, id) = Above(S, q)
    BY <1>3, <1>5
  <2>. QED BY <2>1, Ranks
<1>. HIDE DEF f
<1>6. f \in Injection(S, 1 .. k)
  BY <1>4, <1>5 DEF Injection, IsInjective
<1>7. f \in Surjection(S, 1 .. k)
  BY <1>2, <1>6, FS_Injection DEF k
<1>8. PICK id \in S : f[id] = i
  BY <1>1, <1>7 DEF Surjection
<1>9. Above(S, id) = i - 1
  BY <1>1, <1>3, <1>8
<1>. QED BY <1>9

\* Newest lists the rows by rank.
LEMMA NewestByRank ==
  ASSUME NEW S, S \subseteq Nat, IsFiniteSet(S)
  PROVE  /\ Cardinality(S) \in Nat
         /\ Newest(S) \in [1 .. Cardinality(S) -> S]
         /\ Newest(S) \in Seq(S) /\ Len(Newest(S)) = Cardinality(S)
         /\ \A i \in 1 .. Cardinality(S) : Above(S, Newest(S)[i]) = i - 1
         /\ \A id \in S : /\ Above(S, id) + 1 \in 1 .. Cardinality(S)
                          /\ Newest(S)[Above(S, id) + 1] = id
<1>. DEFINE k == Cardinality(S)
<1>1. k \in Nat
  BY FS_CardinalityType
<1>2. ASSUME NEW i \in 1 .. k
      PROVE  Newest(S)[i] \in S /\ Above(S, Newest(S)[i]) = i - 1
  <2>1. Newest(S)[i] = CHOOSE id \in S : Above(S, id) = i - 1
    BY DEF Newest, Above
  <2>2. \E id \in S : Above(S, id) = i - 1
    BY RankTaken
  <2>. QED BY <2>1, <2>2
<1>3. DOMAIN Newest(S) = 1 .. k
  BY Zenon DEF Newest
<1>4. Newest(S) \in [1 .. k -> S]
  <2>1. Newest(S) = [i \in 1 .. k |-> CHOOSE id \in S : Above(S, id) = i - 1]
    BY Zenon DEF Newest, Above
  <2>2. \A i \in 1 .. k : Newest(S)[i] = CHOOSE id \in S : Above(S, id) = i - 1
    BY <2>1, Zenon
  <2>3. \A i \in 1 .. k : (CHOOSE id \in S : Above(S, id) = i - 1) \in S
    BY <1>2, <2>2, Zenon
  <2>. QED BY <2>1, <2>3, Zenon
<1>5. Newest(S) \in Seq(S) /\ Len(Newest(S)) = k
  BY <1>1, <1>4
<1>6. ASSUME NEW id \in S PROVE Above(S, id) + 1 \in 1 .. k /\ Newest(S)[Above(S, id) + 1] = id
  <2>1. Above(S, id) \in 0 .. k - 1
    BY Ranks
  <2>2. Above(S, id) + 1 \in 1 .. k /\ Above(S, id) + 1 - 1 = Above(S, id)
    BY <1>1, <2>1
  <2>3. /\ Newest(S)[Above(S, id) + 1] \in S
        /\ Above(S, Newest(S)[Above(S, id) + 1]) = Above(S, id)
    <3>. DEFINE i == Above(S, id) + 1
    <3>1. i \in 1 .. k /\ i - 1 = Above(S, id)
      BY <1>1, <2>1, <2>2
    <3>. HIDE DEF i
    <3>2. Newest(S)[i] \in S /\ Above(S, Newest(S)[i]) = i - 1
      BY <1>2, <3>1
    <3>. QED BY <3>1, <3>2 DEF i
  <2>. QED BY <2>2, <2>3, Ranks
<1>. QED BY <1>1, <1>2, <1>4, <1>5, <1>6

\* A finite set of numbers has a greatest one.
LEMMA Greatest ==
  ASSUME NEW S, S \subseteq Nat, IsFiniteSet(S), S # {}
  PROVE  \E n \in S : \A m \in S : m <= n
<1>1. Cardinality(S) \in Nat /\ Cardinality(S) # 0
  BY FS_CardinalityType, FS_EmptySet
<1>2. PICK n \in S : Above(S, n) = 0
  <2>1. 1 \in 1 .. Cardinality(S)
    BY <1>1
  <2>2. PICK n \in S : Above(S, n) = 1 - 1
    BY <2>1, RankTaken
  <2>. QED BY <2>2
<1>3. {j \in S : j > n} = {}
  <2>1. IsFiniteSet({j \in S : j > n})
    BY FS_Subset
  <2>. QED BY <1>2, <2>1, FS_EmptySet DEF Above
<1>. QED BY <1>3

-----------------------------------------------------------------------------
(* The inductive invariant.                                                *)

TypeInv ==
  /\ options \in Options /\ rowBytes \in Tables
  /\ last \in 1 .. MaxId /\ Initial \subseteq 1 .. last /\ table \subseteq 1 .. last
  /\ offset \in Nat /\ seen \in Seq(1 .. MaxId)
  /\ phase \in {"reading", "done", "capped", "failed"} /\ quiet \in BOOLEAN

\* The last page was within the running estimate of its bytes.
PageInv ==
  page # NoPage =>
    /\ page.ids \in Seq(1 .. MaxId) /\ page.cols = Visible(page.ids)
    /\ page.reason \in {"none", "row_limit", "byte_limit"}
    /\ Used(page.ids) <= MaxBytes

\* The row has been seen, or another one that overtook it has expired.
Shown(id) == id \in ToSet(seen) \/ Overtaken(id)

\* Initial rows that lie before the offset have been shown, at the end all of them;
\* as long as nothing changes the pages are the first rows in order.
CoverInv ==
  /\ \A id \in table \cap Initial : Above(table, id) < offset => Shown(id)
  /\ phase = "done" => \A id \in table \cap Initial : Shown(id)
  /\ quiet => /\ table = Initial /\ Len(seen) <= Cardinality(Initial)
              /\ \A i \in 1 .. Len(seen) : seen[i] = Newest(Initial)[i]
              /\ phase = "reading" => offset = Len(seen)

IInv == TypeInv /\ PageInv /\ CoverInv

\* The estimate does not depend on anything that changes.
LEMMA SameEstimate ==
  ASSUME UNCHANGED <<options, rowBytes>>, NEW s
  PROVE  AllRowBytes(s)' = AllRowBytes(s) /\ Visible(s)' = Visible(s) /\ Used(s)' = Used(s)
<1>1. AllRowBytes(s)' = AllRowBytes(s)
  BY DEF AllRowBytes
<1>2. Visible(s)' = Visible(s)
  BY DEF Visible
<1>3. Header' = Header
  BY DEF Header
<1>. QED BY <1>1, <1>2, <1>3 DEF Used

\* What Used adds up.
LEMMA UsedParts ==
  ASSUME options \in Options, rowBytes \in Tables, NEW s \in Seq(1 .. MaxId)
  PROVE  /\ Visible(s) \in SUBSET Columns /\ ColumnBytes[Visible(s)] \in Nat
         /\ AllRowBytes(s) \in Nat /\ Len(s) \in Nat
         /\ Header + Reserve \in Int
         /\ Used(s) = 179 + AllRowBytes(s) + Len(s) + ColumnBytes[Visible(s)]
                        + IF options.includeEmpty THEN 0 ELSE 1
         /\ Len(s) = 0 => Used(s) = Header + Reserve
<1>1. Visible(s) \in SUBSET Columns
  <2>1. \A id \in ToSet(s) : id \in 1 .. MaxId
    <3>1. DOMAIN s = 1 .. Len(s) /\ \A i \in 1 .. Len(s) : s[i] \in 1 .. MaxId
      BY LenProperties, ElementOfSeq
    <3>. QED BY <3>1 DEF ToSet
  <2>. QED BY <2>1, Constants DEF Visible
<1>2. ColumnBytes[Visible(s)] \in Nat /\ ColumnBytes[Columns] \in Nat
  BY <1>1, ColumnBytesType
<1>3. AllRowBytes(s) \in Nat /\ (Len(s) = 0 => AllRowBytes(s) = 0) /\ Len(s) \in Nat
  BY RowBytesType, LenProperties
<1>4. Header + Reserve \in Int
  BY <1>2 DEF Header, Reserve
<1>5. CASE options.includeEmpty
  <2>1. Visible(s) = Columns
    BY <1>5 DEF Visible
  <2>2. Used(s) = 52 + (ColumnBytes[Columns] - 1) + 128 + AllRowBytes(s) + Len(s) + 0
    BY <1>5 DEF Used, Header, Reserve
  <2>3. Header + Reserve = 52 + (ColumnBytes[Columns] - 1) + 128
    BY <1>5 DEF Header, Reserve
  <2>. QED BY <1>1, <1>2, <1>3, <1>4, <1>5, <2>1, <2>2, <2>3
<1>6. CASE ~options.includeEmpty
  <2>1. ASSUME Len(s) = 0 PROVE ColumnBytes[Visible(s)] = 0
    <3>1. ToSet(s) = {}
      BY <2>1, LenProperties DEF ToSet
    <3>2. Visible(s) = {}
      BY <1>6, <3>1 DEF Visible
    <3>. QED BY <3>2, ColumnBytesType
  <2>. QED BY <1>1, <1>2, <1>3, <1>4, <1>6, <2>1 DEF Used, Header, Reserve
<1>. QED BY <1>5, <1>6

\* Numbers on a page have at most seven digits.
LEMMA DigitsBound ==
  ASSUME NEW n PROVE Digits(n) \in Nat /\ Digits(n) <= 7
BY SMT DEF Digits

\* The estimate covers the encoded page.
LEMMA EstimateCovers == TypeInv /\ PageInv => PageFits
<1>. SUFFICES ASSUME TypeInv, PageInv, page # NoPage PROVE Encoded(page) <= MaxBytes
  BY DEF PageFits
<1>. DEFINE ids == page.ids
            c == Cardinality(page.cols)
            b == ColumnBytes[page.cols]
            m == Len(ids)
            a == AllRowBytes(ids)
            d == Digits(m)
            e == Digits(page.next)
<1>1. /\ ids \in Seq(1 .. MaxId) /\ page.cols = Visible(ids) /\ Used(ids) <= MaxBytes
      /\ page.reason \in {"none", "row_limit", "byte_limit"}
  BY DEF PageInv
<1>2. /\ page.cols \in SUBSET Columns /\ b \in Nat /\ a \in Nat /\ m \in Nat
      /\ Used(ids) = 179 + a + m + b + IF options.includeEmpty THEN 0 ELSE 1
  BY <1>1, UsedParts DEF TypeInv
<1>3. c \in Nat
  BY <1>2, ColumnSets
<1>4. d \in Nat /\ d <= 7 /\ e \in Nat /\ e <= 7
  BY DigitsBound
<1>5. Encoded(page) = 48 + ListBytes(b - c, c) + ListBytes(a, m) + d - 1 + 1
        + (IF page.reason = "none" THEN 0
           ELSE -1 + (IF page.reason = "row_limit" THEN 32 ELSE 33) + 15 + e)
  BY DEF Encoded
<1>. HIDE DEF ids, c, b, m, a, d, e
<1>6. ListBytes(b - c, c) <= 2 + b /\ ListBytes(b - c, c) \in Int
  BY <1>2, <1>3 DEF ListBytes
<1>7. ListBytes(a, m) <= 2 + a + m /\ ListBytes(a, m) \in Int
  BY <1>2 DEF ListBytes
<1>8. Encoded(page) <= 179 + a + m + b
  BY <1>2, <1>4, <1>5, <1>6, <1>7
<1>9. 179 + a + m + b <= MaxBytes
  BY <1>1, <1>2, Constants
<1>10. Encoded(page) \in Int
  BY <1>2, <1>4, <1>5, <1>6, <1>7
<1>. QED BY <1>2, <1>8, <1>9, <1>10, Constants

-----------------------------------------------------------------------------
(* The invariant is inductive.                                             *)

\* The table is finite, and its rows are listed by rank.
LEMMA TableByRank ==
  ASSUME TypeInv
  PROVE  /\ table \subseteq Nat /\ IsFiniteSet(table) /\ Cardinality(table) \in Nat
         /\ Newest(table) \in [1 .. Cardinality(table) -> table]
         /\ \A id \in table : /\ Above(table, id) + 1 \in 1 .. Cardinality(table)
                              /\ Newest(table)[Above(table, id) + 1] = id
<1>1. table \subseteq Nat /\ IsFiniteSet(1 .. last)
  BY FS_Interval, Constants DEF TypeInv
<1>2. IsFiniteSet(table)
  BY <1>1, FS_Subset DEF TypeInv
<1>. QED BY <1>1, <1>2, NewestByRank

\* The snapshot from the offset on.
LEMMA SnapshotRows ==
  ASSUME TypeInv
  PROVE  LET s == Snapshot(offset) IN
         /\ s \in Seq(1 .. MaxId) /\ Len(s) \in Nat
         /\ Len(s) = IF offset < Cardinality(table) THEN Cardinality(table) - offset ELSE 0
         /\ \A i \in 1 .. Len(s) : s[i] = Newest(table)[offset + i]
<1>. DEFINE s == Snapshot(offset)
            t == Newest(table)
            k == Cardinality(table)
<1>1. k \in Nat /\ t \in [1 .. k -> table] /\ offset \in Nat /\ table \subseteq 1 .. MaxId
  BY TableByRank, Constants DEF TypeInv
<1>2. s = SubSeq(t, offset + 1, k)
  BY DEF Snapshot
<1>. HIDE DEF s, t, k
<1>3. offset + 1 \in Int /\ k \in Int /\ \A i \in offset + 1 .. k : t[i] \in 1 .. MaxId
  <2>1. ASSUME NEW i \in offset + 1 .. k PROVE t[i] \in 1 .. MaxId
    <3>1. i \in 1 .. k
      BY <1>1
    <3>2. t[i] \in table
      BY <1>1, <3>1
    <3>. QED BY <1>1, <3>2
  <2>. QED BY <1>1, <2>1
<1>4. /\ s \in Seq(1 .. MaxId)
      /\ Len(s) = IF offset + 1 <= k THEN k - (offset + 1) + 1 ELSE 0
      /\ \A i \in 1 .. k - (offset + 1) + 1 : s[i] = t[(offset + 1) + i - 1]
  BY <1>2, <1>3, SubSeqProperties
<1>5. Len(s) \in Nat /\ Len(s) = IF offset < k THEN k - offset ELSE 0
  BY <1>1, <1>4
<1>6. ASSUME NEW i \in 1 .. Len(s) PROVE s[i] = t[offset + i]
  <2>1. i \in 1 .. k - (offset + 1) + 1 /\ (offset + 1) + i - 1 = offset + i
    BY <1>1, <1>5
  <2>. QED BY <1>4, <2>1
<1>. QED BY <1>4, <1>5, <1>6 DEF s, t, k

\* The first n rows of a snapshot.
LEMMA FirstRows ==
  ASSUME NEW s \in Seq(1 .. MaxId), NEW n \in 0 .. Len(s)
  PROVE  /\ SubSeq(s, 1, n) \in Seq(1 .. MaxId) /\ Len(SubSeq(s, 1, n)) = n
         /\ \A i \in 1 .. n : SubSeq(s, 1, n)[i] = s[i]
<1>1. Len(s) \in Nat /\ \A i \in 1 .. Len(s) : s[i] \in 1 .. MaxId
  BY LenProperties, ElementOfSeq
<1>2. n \in Int /\ n >= 0 /\ \A i \in 1 .. n : s[i] \in 1 .. MaxId
  BY <1>1
<1>3. /\ SubSeq(s, 1, n) \in Seq(1 .. MaxId)
      /\ Len(SubSeq(s, 1, n)) = IF 1 <= n THEN n - 1 + 1 ELSE 0
      /\ \A i \in 1 .. n - 1 + 1 : SubSeq(s, 1, n)[i] = s[1 + i - 1]
  BY <1>2, SubSeqProperties
<1>4. ASSUME NEW i \in 1 .. n PROVE SubSeq(s, 1, n)[i] = s[i]
  <2>1. i \in 1 .. n - 1 + 1 /\ 1 + i - 1 = i
    BY <1>2
  <2>. QED BY <1>3, <2>1
<1>. QED BY <1>2, <1>3, <1>4

\* The loop stops at a number of rows that fit, and not before the first row.
LEMMA TakenFits ==
  ASSUME TypeInv, NEW s \in Seq(1 .. MaxId), ~Fails(s)
  PROVE  /\ Taken(s) \in 0 .. Len(s) /\ Used(SubSeq(s, 1, Taken(s))) <= MaxBytes
         /\ Len(s) > 0 => Taken(s) > 0
<1>. DEFINE fits == {n \in 0 .. Len(s) : n <= options.limit /\ Used(SubSeq(s, 1, n)) <= MaxBytes}
<1>1. Len(s) \in Nat /\ options.limit \in Nat
  BY LenProperties, Constants DEF TypeInv
<1>2. 0 \in fits
  <2>1. 0 \in 0 .. Len(s)
    BY <1>1
  <2>2. SubSeq(s, 1, 0) \in Seq(1 .. MaxId) /\ Len(SubSeq(s, 1, 0)) = 0
    BY <2>1, FirstRows
  <2>3. Used(SubSeq(s, 1, 0)) = Header + Reserve /\ Header + Reserve \in Int
    BY <2>2, UsedParts DEF TypeInv
  <2>4. Header + Reserve <= MaxBytes
    BY <2>3, Constants DEF Fails
  <2>. QED BY <1>1, <2>1, <2>3, <2>4
<1>3. fits \subseteq Nat /\ IsFiniteSet(fits)
  <2>1. fits \in SUBSET (0 .. Len(s)) /\ IsFiniteSet(0 .. Len(s))
    BY <1>1, FS_Interval
  <2>. HIDE DEF fits
  <2>2. IsFiniteSet(fits)
    BY <2>1, FS_Subset
  <2>. QED BY <1>1, <2>1, <2>2
<1>4. Taken(s) = CHOOSE n \in fits : \A m \in fits : m <= n
  BY DEF Taken
<1>5. \E n \in fits : \A m \in fits : m <= n
  <2>. HIDE DEF fits
  <2>. QED BY <1>2, <1>3, Greatest
<1>6. Taken(s) \in fits /\ \A m \in fits : m <= Taken(s)
  <2>. HIDE DEF fits
  <2>. QED BY <1>4, <1>5
<1>7. ASSUME Len(s) > 0 PROVE 1 \in fits
  <2>1. 1 \in 0 .. Len(s) /\ 1 <= options.limit
    BY <1>1, <1>7, Constants DEF TypeInv
  <2>2. s # <<>>
    BY <1>7, EmptySeq
  <2>3. SubSeq(s, 1, 1) \in Seq(1 .. MaxId)
    BY <2>1, FirstRows
  <2>4. Used(SubSeq(s, 1, 1)) \in Int
    <3>1. PICK x \in Seq(1 .. MaxId) : x = SubSeq(s, 1, 1)
      BY <2>3
    <3>2. /\ ColumnBytes[Visible(x)] \in Nat /\ AllRowBytes(x) \in Nat /\ Len(x) \in Nat
          /\ Used(x) = 179 + AllRowBytes(x) + Len(x) + ColumnBytes[Visible(x)]
                         + IF options.includeEmpty THEN 0 ELSE 1
      BY UsedParts DEF TypeInv
    <3>3. Used(x) \in Int
      BY <3>2
    <3>. QED BY <3>1, <3>3
  <2>5. Used(SubSeq(s, 1, 1)) <= MaxBytes
    BY <2>2, <2>4, Constants DEF Fails
  <2>. QED BY <2>1, <2>5
<1>8. ASSUME Len(s) > 0 PROVE Taken(s) > 0
  <2>1. 1 <= Taken(s) /\ Taken(s) \in Nat
    <3>. HIDE DEF fits
    <3>. QED BY <1>3, <1>6, <1>7, <1>8
  <2>. QED BY <2>1
<1>. QED BY <1>6, <1>8

\* Init
LEMMA InitInv == Init => IInv
<1>. SUFFICES ASSUME Init PROVE IInv
  OBVIOUS
<1>1. /\ last \in Initial /\ \A id \in Initial : id <= last
  <2>1. Initial \subseteq Nat /\ IsFiniteSet(1 .. MaxId)
    BY Constants, FS_Interval
  <2>2. IsFiniteSet(Initial)
    BY <2>1, Constants, FS_Subset
  <2>3. PICK n \in Initial : \A m \in Initial : m <= n
    BY <2>1, <2>2, Constants, Greatest
  <2>4. n \in Initial /\ \A m \in Initial : n >= m
    BY <2>1, <2>3
  <2>5. last = CHOOSE x \in Initial : \A y \in Initial : x >= y
    BY DEF Init, Max
  <2>6. last \in Initial /\ \A y \in Initial : last >= y
    BY <2>4, <2>5
  <2>. QED BY <2>1, <2>6
<1>2. TypeInv
  <2>1. last \in 1 .. MaxId /\ Initial \subseteq 1 .. last
    BY <1>1, Constants
  <2>. QED BY <2>1 DEF Init, TypeInv
<1>3. PageInv
  BY DEF Init, PageInv
<1>4. CoverInv
  <2>1. Cardinality(Initial) \in Nat /\ table = Initial
    BY <1>2, TableByRank DEF Init
  <2>2. \A id \in table : Above(table, id) + 1 \in 1 .. Cardinality(table)
    BY <1>2, TableByRank
  <2>3. ASSUME NEW id \in table PROVE ~(Above(table, id) < 0)
    <3>1. Above(table, id) \in Nat
      <4>1. IsFiniteSet({j \in table : j > id})
        BY <1>2, TableByRank, FS_Subset
      <4>. QED BY <4>1, FS_CardinalityType DEF Above
    <3>. QED BY <3>1
  <2>4. Len(seen) = 0 /\ offset = 0 /\ phase = "reading"
    BY DEF Init
  <2>. QED BY <2>1, <2>3, <2>4 DEF CoverInv
<1>. QED BY <1>2, <1>3, <1>4 DEF IInv

\* A step that reads nothing keeps the last page as it was.
LEMMA PageKept ==
  ASSUME PageInv, UNCHANGED <<options, rowBytes, page>> PROVE PageInv'
<1>. SUFFICES ASSUME page # NoPage
              PROVE  /\ page.ids \in Seq(1 .. MaxId) /\ page.cols = Visible(page.ids)'
                     /\ page.reason \in {"none", "row_limit", "byte_limit"}
                     /\ Used(page.ids)' <= MaxBytes
  BY DEF PageInv
<1>1. PICK ids : ids = page.ids
  OBVIOUS
<1>2. Visible(ids)' = Visible(ids) /\ Used(ids)' = Used(ids)
  BY SameEstimate
<1>. QED BY <1>1, <1>2 DEF PageInv

\* ReadPage
LEMMA ReadPageInv == ASSUME IInv, ReadPage PROVE IInv'
<1>. DEFINE s == Snapshot(offset)
            n == Taken(s)
            why == Reason(s, n)
            ids == SubSeq(s, 1, n)
<1>0. TypeInv /\ PageInv /\ CoverInv /\ phase = "reading" /\ UNCHANGED <<fixed, table, last, gone, quiet>>
  BY DEF IInv, ReadPage
<1>1. CASE phase' \in {"capped", "failed"} /\ UNCHANGED <<offset, seen, page>>
  <2>1. TypeInv'
    BY <1>0, <1>1 DEF TypeInv, fixed
  <2>2. PageInv'
    BY <1>0, <1>1, PageKept DEF fixed
  <2>3. CoverInv'
    BY <1>0, <1>1 DEF CoverInv, Shown, Overtaken, fixed
  <2>. QED BY <2>1, <2>2, <2>3 DEF IInv
<1>2. CASE /\ ~Fails(s)
           /\ page' = [ids |-> ids, cols |-> Visible(ids), reason |-> why, next |-> NextOffset(n)]
           /\ seen' = seen \o ids
           /\ offset' = IF why = "none" THEN offset ELSE NextOffset(n)
           /\ phase' = IF why = "none" THEN "done" ELSE "reading"
  <2>1. /\ s \in Seq(1 .. MaxId) /\ Len(s) \in Nat
        /\ Len(s) = IF offset < Cardinality(table) THEN Cardinality(table) - offset ELSE 0
        /\ \A i \in 1 .. Len(s) : s[i] = Newest(table)[offset + i]
    BY <1>0, SnapshotRows
  <2>. HIDE DEF s
  <2>2. n \in 0 .. Len(s) /\ n \in Nat /\ Used(ids) <= MaxBytes
    BY <1>0, <1>2, <2>1, TakenFits
  <2>3. why \in {"none", "row_limit", "byte_limit"} /\ (why = "none" => n = Len(s))
    BY DEF Reason
  <2>. HIDE DEF n, why
  <2>4. /\ ids \in Seq(1 .. MaxId) /\ Len(ids) = n
        /\ \A i \in 1 .. n : ids[i] = s[i]
    BY <2>1, <2>2, FirstRows
  <2>. HIDE DEF ids
  <2>5. /\ seen \in Seq(1 .. MaxId) /\ Len(seen) \in Nat /\ offset \in Nat /\ Cardinality(table) \in Nat
    BY <1>0, LenProperties, TableByRank DEF TypeInv
  <2>6. /\ seen' \in Seq(1 .. MaxId) /\ Len(seen') = Len(seen) + n
        /\ \A i \in 1 .. Len(seen) + n : seen'[i] = IF i <= Len(seen) THEN seen[i] ELSE ids[i - Len(seen)]
    <3>1. /\ seen \o ids \in Seq(1 .. MaxId) /\ Len(seen \o ids) = Len(seen) + Len(ids)
          /\ \A i \in 1 .. Len(seen) + Len(ids) :
               (seen \o ids)[i] = IF i <= Len(seen) THEN seen[i] ELSE ids[i - Len(seen)]
      BY <2>4, <2>5, ConcatProperties
    <3>. QED BY <1>2, <2>4, <3>1
  <2>7. /\ \A i \in 1 .. Len(seen) : seen'[i] = seen[i]
        /\ \A i \in 1 .. n : seen'[Len(seen) + i] = Newest(table)[offset + i]
    <3>1. ASSUME NEW i \in 1 .. Len(seen) PROVE seen'[i] = seen[i]
      <4>1. i \in 1 .. Len(seen) + n /\ i <= Len(seen)
        BY <2>2, <2>5
      <4>. QED BY <2>6, <4>1
    <3>2. ASSUME NEW i \in 1 .. n PROVE seen'[Len(seen) + i] = Newest(table)[offset + i]
      <4>. DEFINE j == Len(seen) + i
      <4>1. j \in 1 .. Len(seen) + n /\ ~(j <= Len(seen)) /\ j - Len(seen) = i
        BY <2>2, <2>5
      <4>. HIDE DEF j
      <4>2. seen'[j] = ids[i]
        BY <2>6, <4>1
      <4>3. i \in 1 .. Len(s)
        BY <2>1, <2>2
      <4>4. ids[i] = Newest(table)[offset + i]
        BY <2>1, <2>4, <4>3
      <4>. QED BY <4>2, <4>4 DEF j
    <3>. QED BY <3>1, <3>2
  <2>8. /\ ToSet(seen) \subseteq ToSet(seen')
        /\ \A i \in 1 .. n : Newest(table)[offset + i] \in ToSet(seen')
    <3>1. DOMAIN seen = 1 .. Len(seen) /\ DOMAIN seen' = 1 .. Len(seen) + n
      BY <2>5, <2>6, LenProperties
    <3>2. ASSUME NEW i \in 1 .. Len(seen) PROVE seen[i] \in ToSet(seen')
      <4>1. i \in 1 .. Len(seen) + n
        BY <2>2, <2>5
      <4>. QED BY <2>7, <3>1, <4>1 DEF ToSet
    <3>3. ASSUME NEW i \in 1 .. n PROVE Newest(table)[offset + i] \in ToSet(seen')
      <4>1. Len(seen) + i \in 1 .. Len(seen) + n
        BY <2>2, <2>5
      <4>. QED BY <2>7, <3>1, <4>1 DEF ToSet
    <3>4. ToSet(seen) \subseteq ToSet(seen')
      BY <3>1, <3>2 DEF ToSet
    <3>. QED BY <3>3, <3>4
  <2>9. NextOffset(n) = offset + n
    BY DEF NextOffset
  <2>10. TypeInv'
    BY <1>0, <1>2, <2>2, <2>5, <2>6, <2>9 DEF TypeInv, fixed
  <2>11. PageInv'
    <3>1. page'.ids = ids /\ page'.cols = Visible(ids) /\ page'.reason = why
      BY <1>2
    <3>2. PICK x : x = ids
      OBVIOUS
    <3>3. Visible(x)' = Visible(x) /\ Used(x)' = Used(x)
      BY <1>0, SameEstimate DEF fixed
    <3>. QED BY <2>2, <2>3, <2>4, <3>1, <3>2, <3>3 DEF PageInv
  <2>12. ASSUME NEW id \in table \cap Initial,
                Above(table, id) < offset + n \/ why = "none"
         PROVE  Shown(id)'
    <3>. DEFINE k == Above(table, id) + 1
    <3>1. k \in 1 .. Cardinality(table) /\ Newest(table)[k] = id /\ k - 1 = Above(table, id)
      BY <1>0, TableByRank, Ranks
    <3>. HIDE DEF k
    <3>2. CASE k - 1 < offset
      <4>1. Shown(id)
        BY <1>0, <3>1, <3>2 DEF CoverInv
      <4>2. UNCHANGED <<gone, received>>
        BY <1>0 DEF fixed
      <4>. QED BY <2>8, <4>1, <4>2 DEF Shown, Overtaken
    <3>3. CASE ~(k - 1 < offset)
      <4>1. k - offset \in 1 .. n /\ offset + (k - offset) = k
        BY <2>1, <2>2, <2>3, <2>5, <2>12, <3>1, <3>3
      <4>2. Newest(table)[offset + (k - offset)] \in ToSet(seen')
        BY <2>8, <4>1
      <4>. QED BY <3>1, <4>1, <4>2 DEF Shown
    <3>. QED BY <3>2, <3>3
  <2>13. ASSUME quiet
         PROVE  /\ table = Initial /\ Len(seen') <= Cardinality(Initial)
                /\ \A i \in 1 .. Len(seen') : seen'[i] = Newest(Initial)[i]
                /\ phase' = "reading" => offset' = Len(seen')
    <3>1. /\ table = Initial /\ offset = Len(seen)
          /\ Len(seen) <= Cardinality(Initial)
          /\ \A i \in 1 .. Len(seen) : seen[i] = Newest(Initial)[i]
      BY <1>0, <2>13 DEF CoverInv
    <3>2. Len(seen') <= Cardinality(Initial)
      BY <2>1, <2>2, <2>5, <2>6, <3>1
    <3>3. ASSUME NEW i \in 1 .. Len(seen') PROVE seen'[i] = Newest(Initial)[i]
      <4>1. CASE i <= Len(seen)
        <5>1. i \in 1 .. Len(seen)
          BY <2>5, <4>1
        <5>. QED BY <2>7, <3>1, <5>1
      <4>2. CASE ~(i <= Len(seen))
        <5>. DEFINE j == i - Len(seen)
        <5>1. j \in 1 .. n /\ Len(seen) + j = i /\ offset + j = i
          BY <2>2, <2>5, <2>6, <3>1, <4>2
        <5>. HIDE DEF j
        <5>2. seen'[Len(seen) + j] = Newest(table)[offset + j]
          BY <2>7, <5>1
        <5>. QED BY <3>1, <5>1, <5>2
      <4>. QED BY <4>1, <4>2
    <3>4. phase' = "reading" => offset' = Len(seen')
      BY <1>2, <2>6, <2>9, <3>1
    <3>. QED BY <3>1, <3>2, <3>3, <3>4
  <2>14. CoverInv'
    <3>1. ASSUME NEW id \in table \cap Initial, Above(table, id) < offset'
          PROVE  Shown(id)'
      <4>1. Above(table, id) < offset + n
        <5>1. offset' = offset \/ offset' = offset + n
          BY <1>2, <2>9
        <5>2. Above(table, id) + 1 \in 1 .. Cardinality(table) /\ Above(table, id) \in Int
          BY <1>0, TableByRank, Ranks
        <5>. QED BY <2>2, <2>5, <3>1, <5>1, <5>2
      <4>. QED BY <2>12, <4>1
    <3>2. ASSUME phase' = "done" PROVE \A id \in table \cap Initial : Shown(id)'
      BY <1>2, <2>12, <3>2
    <3>. QED BY <1>0, <2>13, <3>1, <3>2 DEF CoverInv
  <2>. QED BY <2>10, <2>11, <2>14 DEF IInv
<1>. QED BY <1>1, <1>2 DEF ReadPage

\* Timeout
LEMMA TimeoutInv == ASSUME IInv, Timeout PROVE IInv'
<1>1. TypeInv'
  BY DEF IInv, Timeout, TypeInv, fixed
<1>2. PageInv'
  BY PageKept DEF IInv, Timeout, fixed
<1>3. CoverInv'
  BY DEF IInv, Timeout, CoverInv, Shown, Overtaken, fixed
<1>. QED BY <1>1, <1>2, <1>3 DEF IInv

\* Insert: the new row is none of the first, and pushes every other one down.
LEMMA InsertInv == ASSUME IInv, Insert PROVE IInv'
<1>0. /\ TypeInv /\ CoverInv /\ phase = "reading" /\ last < MaxId /\ last' = last + 1
      /\ table' = table \cup {last + 1} /\ quiet' = FALSE
      /\ UNCHANGED <<options, rowBytes, received, offset, seen, phase, page, gone>>
  BY DEF IInv, Insert, fixed
<1>1. TypeInv'
  <2>1. last \in Nat /\ MaxId \in Nat /\ last \in 1 .. MaxId
    BY <1>0, Constants DEF TypeInv
  <2>2. last + 1 \in 1 .. MaxId /\ 1 .. last \subseteq 1 .. last + 1 /\ last + 1 \in 1 .. last + 1
    BY <1>0, <2>1
  <2>. QED BY <1>0, <2>2 DEF TypeInv
<1>2. PageInv'
  BY <1>0, PageKept DEF IInv
<1>3. ASSUME NEW id \in table' \cap Initial, Above(table', id) < offset PROVE Shown(id)
  <2>1. id \in table
    BY <1>0 DEF TypeInv
  <2>2. /\ IsFiniteSet({j \in table' : j > id}) /\ IsFiniteSet({j \in table : j > id})
        /\ Cardinality({j \in table : j > id}) <= Cardinality({j \in table' : j > id})
    <3>1. IsFiniteSet(table')
      BY <1>0, TableByRank, FS_AddElement
    <3>2. {j \in table' : j > id} \in SUBSET table'
      OBVIOUS
    <3>3. IsFiniteSet({j \in table' : j > id})
      BY <3>1, <3>2, FS_Subset
    <3>4. {j \in table : j > id} \in SUBSET {j \in table' : j > id}
      BY <1>0
    <3>. QED BY <3>3, <3>4, FS_Subset
  <2>3. Above(table, id) \in Nat /\ Above(table', id) \in Nat /\ Above(table, id) <= Above(table', id)
    BY <2>2, FS_CardinalityType DEF Above
  <2>4. Above(table, id) < offset
    BY <1>0, <1>3, <2>3 DEF TypeInv
  <2>. QED BY <1>0, <2>1, <2>4 DEF CoverInv
<1>4. CoverInv'
  BY <1>0, <1>3 DEF CoverInv, Shown, Overtaken
<1>. QED BY <1>1, <1>2, <1>4 DEF IInv

\* Expire: a row that stays keeps its rank, unless one of the rows above it goes,
\* which then was received no later.
LEMMA ExpireInv == ASSUME IInv, Expire PROVE IInv'
<1>0. /\ TypeInv /\ CoverInv /\ phase = "reading" /\ quiet' = FALSE
      /\ UNCHANGED <<options, rowBytes, received, last, offset, seen, phase, page>>
  BY DEF IInv, Expire, fixed
<1>1. PICK D \in SUBSET table : Oldest(D) /\ table' = table \ D /\ gone' = gone \cup D
  BY DEF Expire
<1>2. TypeInv'
  BY <1>0, <1>1 DEF TypeInv
<1>3. PageInv'
  BY <1>0, PageKept DEF IInv
<1>4. ASSUME NEW id \in table' \cap Initial, Above(table', id) < offset PROVE Shown(id)'
  <2>0. id \in table \ D
    BY <1>1
  <2>1. CASE \E d \in D : d > id
    <3>1. PICK d \in D : d > id
      BY <2>1
    <3>2. received[d] <= received[id]
      BY <1>1, <2>0, <3>1 DEF Oldest
    <3>. QED BY <1>0, <1>1, <3>1, <3>2 DEF Shown, Overtaken
  <2>2. CASE ~\E d \in D : d > id
    <3>1. {j \in table' : j > id} = {j \in table : j > id}
      BY <1>1, <2>2
    <3>2. Above(table, id) < offset
      BY <1>4, <3>1 DEF Above
    <3>3. Shown(id)
      BY <1>0, <2>0, <3>2 DEF CoverInv
    <3>. QED BY <1>0, <1>1, <3>3 DEF Shown, Overtaken
  <2>. QED BY <2>1, <2>2
<1>5. CoverInv'
  BY <1>0, <1>4 DEF CoverInv
<1>. QED BY <1>2, <1>3, <1>5 DEF IInv

\* IInv is an invariant of the pages, the caller and the collector.
THEOREM PagingInvariance == Spec => []IInv
<1>1. IInv /\ UNCHANGED vars => IInv'
  <2> SUFFICES ASSUME IInv, UNCHANGED vars PROVE IInv'
    OBVIOUS
  <2>1. TypeInv'
    BY DEF IInv, vars, fixed, TypeInv
  <2>2. PageInv'
    BY PageKept DEF IInv, vars, fixed
  <2>3. CoverInv'
    BY DEF IInv, vars, fixed, CoverInv, Shown, Overtaken
  <2>. QED BY <2>1, <2>2, <2>3 DEF IInv
<1>2. IInv /\ [Next]_vars => IInv'
  BY <1>1, ReadPageInv, TimeoutInv, InsertInv, ExpireInv DEF Next
<1>. QED BY <1>2, InitInv, PTL DEF Spec

-----------------------------------------------------------------------------
(* What the pages promise.                                                 *)

\* Read, printResult: the running estimate covers the encoded result, so that a
\* page that Read built within --max-bytes is printed within --max-bytes, whatever
\* columns its rows fill.
THEOREM PagesFit == Spec => []PageFits
BY EstimateCovers, PagingInvariance, PTL DEF IInv

\* Read, next_offset: following the offsets to the end shows every row that was
\* there from the first page to the last, but for one that was overtaken on its way
\* into the store by a row that expired meanwhile; if nothing changed, the pages
\* are the table in order, each row once.
THEOREM PagesAreTheTable == Spec => []PagesShowTheTable
<1>1. IInv => PagesShowTheTable
  <2> SUFFICES ASSUME IInv PROVE PagesShowTheTable
    OBVIOUS
  <2>1. phase = "done" => \A id \in table \cap Initial : id \in ToSet(seen) \/ Overtaken(id)
    BY DEF IInv, CoverInv, Shown
  <2>2. ASSUME quiet PROVE IsPrefix(seen, Newest(Initial))
    <3>. DEFINE t == Newest(Initial)
                k == Len(seen)
    <3>1. /\ table = Initial /\ k <= Cardinality(Initial)
          /\ \A i \in 1 .. k : seen[i] = t[i]
      BY <2>2 DEF IInv, CoverInv
    <3>2. /\ seen \in Seq(1 .. MaxId) /\ k \in Nat /\ Cardinality(Initial) \in Nat
          /\ \A i \in 1 .. k : seen[i] \in 1 .. MaxId
      BY <3>1, LenProperties, ElementOfSeq, TableByRank DEF IInv, TypeInv
    <3>3. Len(t) = Cardinality(Initial)
      BY <3>1, TableByRank, NewestByRank DEF IInv
    <3>. HIDE DEF t, k
    <3>4. SubSeq(seen, 1, k) = SubSeq(t, 1, k)
      <4>1. /\ SubSeq(seen, 1, k) \in Seq(1 .. MaxId)
            /\ Len(SubSeq(seen, 1, k)) = IF 1 <= k THEN k - 1 + 1 ELSE 0
            /\ \A i \in 1 .. k - 1 + 1 : SubSeq(seen, 1, k)[i] = seen[1 + i - 1]
        BY <3>2, SubSeqProperties
      <4>2. /\ SubSeq(t, 1, k) \in Seq(1 .. MaxId)
            /\ Len(SubSeq(t, 1, k)) = IF 1 <= k THEN k - 1 + 1 ELSE 0
            /\ \A i \in 1 .. k - 1 + 1 : SubSeq(t, 1, k)[i] = t[1 + i - 1]
        <5>1. \A i \in 1 .. k : t[i] \in 1 .. MaxId
          BY <3>1, <3>2
        <5>. QED BY <3>2, <5>1, SubSeqProperties
      <4>3. ASSUME NEW i \in 1 .. k PROVE SubSeq(seen, 1, k)[i] = SubSeq(t, 1, k)[i]
        <5>1. i \in 1 .. k - 1 + 1 /\ 1 + i - 1 = i
          BY <3>2
        <5>. QED BY <3>1, <4>1, <4>2, <5>1
      <4>4. Len(SubSeq(seen, 1, k)) = k /\ Len(SubSeq(t, 1, k)) = k
        BY <3>2, <4>1, <4>2
      <4>. QED BY <4>1, <4>2, <4>3, <4>4, SeqEqual
    <3>. QED BY <3>1, <3>3, <3>4 DEF IsPrefix, t, k
  <2>. QED BY <2>1, <2>2 DEF PagesShowTheTable
<1>. QED BY <1>1, PagingInvariance, PTL

\* A step that leaves the caller reading is a page that moves its offset forward,
\* from an offset within the cap, by the number of rows shown; or the collector's.
OffsetAdvances ==
  phase = "reading" /\ phase' = "reading" =>
    \/ offset' = offset + Len(page'.ids) /\ offset < offset' /\ offset <= MaxOffset
    \/ UNCHANGED <<offset, seen, page>>

\* Read, next_offset: a page that asks the caller to go on has shown at least one
\* row and moved the offset past it, whatever the budgets and whatever came and
\* went: a caller who follows next_offset reads at most MaxOffset + 1 such pages.
THEOREM TruncatedPagesAdvance == Spec => [][OffsetAdvances]_vars
<1>1. ASSUME IInv, ReadPage, phase' = "reading"
      PROVE  offset' = offset + Len(page'.ids) /\ offset < offset' /\ offset <= MaxOffset
  <2>. DEFINE s == Snapshot(offset)
              n == Taken(s)
              why == Reason(s, n)
              ids == SubSeq(s, 1, n)
  <2>1. /\ offset <= MaxOffset /\ ~Fails(s) /\ why # "none"
        /\ page'.ids = ids /\ offset' = NextOffset(n)
    BY <1>1 DEF ReadPage
  <2>2. TypeInv /\ offset \in Nat
    BY <1>1 DEF IInv, TypeInv
  <2>3. s \in Seq(1 .. MaxId) /\ Len(s) \in Nat
    BY <2>2, SnapshotRows
  <2>. HIDE DEF s
  <2>4. n \in 0 .. Len(s) /\ (Len(s) > 0 => n > 0)
    BY <2>1, <2>2, <2>3, TakenFits
  <2>5. n # Len(s)
    BY <2>1 DEF Reason
  <2>. HIDE DEF n, why
  <2>6. Len(ids) = n
    BY <2>3, <2>4, FirstRows
  <2>7. n > 0 /\ n \in Nat
    BY <2>3, <2>4, <2>5
  <2>. QED BY <2>1, <2>2, <2>6, <2>7 DEF NextOffset
<1>2. ASSUME IInv, [Next]_vars PROVE OffsetAdvances
  <2>1. CASE ReadPage
    BY <1>1, <1>2, <2>1 DEF OffsetAdvances
  <2>2. CASE Timeout \/ Insert \/ Expire \/ UNCHANGED vars
    BY <2>2 DEF OffsetAdvances, Timeout, Insert, Expire, vars
  <2>. QED BY <1>2, <2>1, <2>2 DEF Next
<1>. QED BY <1>2, PagingInvariance, PTL DEF Spec
=============================================================================
