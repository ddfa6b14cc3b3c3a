--------------------------- MODULE CapacityProofs ---------------------------
(***************************************************************************)
(* Proofs that the main file stays within its limit and that fresh rows    *)
(* are evicted only for lack of room, for every choice of the limits.      *)
(***************************************************************************)
EXTENDS Capacity, TLAPS

\* What the WAL owes the file: as long as frames are not copied the pages they
\* add are counted with the WAL, and once they all are the file is exact.
WalCovers ==
  /\ pin # NoReader => pin <= frames
  /\ frames = backfilled => file = Logical
  /\ Logical <= file + frames

Bound == HardLimit + (MaxGrow - Reserve)

SizesBounded == Logical < Bound /\ file < Bound

\* What the pressure loop has established when it reaches a label.
LoopKnows ==
  /\ pc \in {"truncate", "weigh", "evict"} => iteration < MaxPressure
  /\ pc \in {"weigh", "evict"} => frames = 0 /\ wal = 0
  /\ pc = "evict" => short \/ file >= HighWater \/ file + Reserve >= HardLimit
  /\ pc = "succeed" => file + wal + Reserve < HardLimit /\ wal < WalNotReady

Inv == SizesOK /\ WalCovers /\ SizesBounded /\ LoopKnows

-----------------------------------------------------------------------------
\* A commit of at least one frame keeps the WAL's types, and pins nothing less.
LEMMA CommitKeeps ==
  ASSUME Inv, NEW n \in Nat, n > 0, Commit(n), pin' = pin
  PROVE  /\ file' = file /\ frames' \in Nat /\ backfilled' \in 0..frames'
         /\ wal' \in Nat /\ frames' <= wal' /\ backfilled' < frames'
         /\ pin' # NoReader => pin' <= frames'
         /\ \/ frames' = frames + n
            \/ frames' = n /\ file = Logical
  BY SizesAssumption DEF Inv, SizesOK, WalCovers, Commit, AtLeast

\* A checkpoint that waits for nobody keeps the accounts.
LEMMA BackfillKeeps ==
  ASSUME Inv, Backfill, UNCHANGED <<rowVars, pin>>
  PROVE  /\ file' \in Nat /\ frames' = frames /\ wal' = wal /\ backfilled' \in 0..frames'
         /\ WalCovers' /\ SizesBounded'
  BY SizesAssumption
  DEF Inv, SizesOK, WalCovers, SizesBounded, Bound, Backfill, Copyable, AtLeast,
      rowVars, Logical, Live

\* Deleting rows moves pages to the free list.
LEMMA DeleteKeeps ==
  ASSUME Inv, NEW n \in Nat, n > 0, n <= Live, DeleteOldest(n), UNCHANGED pin
  PROVE  /\ fresh' \in Nat /\ stale' \in Nat /\ freelist' \in Nat
         /\ Logical' = Logical /\ Commit(n)
  BY DEF Inv, SizesOK, DeleteOldest, AtMost, Logical, Live

LEMMA SumIsNat == \A a, b \in Nat : a + b \in Nat
  OBVIOUS

LEMMA LogicalIsNat == Inv => Logical \in Nat /\ file \in Nat /\ frames \in Nat /\ wal \in Nat
  BY DEF Inv, SizesOK, Logical, Live

LEMMA InitInv == Init => Inv
  BY SizesAssumption
  DEF Init, Inv, SizesOK, WalCovers, SizesBounded, LoopKnows, Bound, Logical, Live

-----------------------------------------------------------------------------
LEMMA ExportInv ==
  ASSUME Inv, NEW n \in 1..MaxGrow, NEW f \in n..MaxFrames, Export(n, f)
  PROVE  Inv'
  <1>1. n \in Nat /\ f \in Nat /\ f > 0 /\ n <= f
    BY SizesAssumption
  <1>2. pin' = pin /\ Commit(f)
    BY DEF Export, outside
  <1>3. /\ file' = file /\ frames' \in Nat /\ backfilled' \in 0..frames'
        /\ wal' \in Nat /\ frames' <= wal' /\ backfilled' < frames'
        /\ pin' # NoReader => pin' <= frames'
        /\ \/ frames' = frames + f
           \/ frames' = f /\ file = Logical
    BY <1>1, <1>2, CommitKeeps
  <1>4. /\ fresh' \in Nat /\ stale' \in Nat /\ freelist' \in Nat
        /\ Logical' <= Logical + n
    BY <1>1 DEF Inv, SizesOK, Export, AtMost, Logical, Live
  <1>4a. Logical' \in Nat
    BY <1>4, SumIsNat, Zenon DEF Logical, Live
  <1>5. SizesOK'
    BY <1>3, <1>4 DEF Inv, SizesOK, Export, outside, pass, locals
  <1>6. WalCovers'
    <2>1. Logical \in Nat /\ file \in Nat /\ frames \in Nat
      BY LogicalIsNat
    <2>2. PICK l \in Nat, k \in Nat : l = Logical' /\ k = frames'
      BY <1>3, <1>4a
    <2>3. Logical <= file + frames
      BY DEF Inv, WalCovers
    <2>4. l <= file + k
      <3>1. k = frames + f \/ (k = f /\ file = Logical)
        BY <1>3, <2>2, Zenon
      <3>2. l <= Logical + n
        BY <1>4, <2>2, Zenon
      <3>. QED BY <1>1, <2>1, <2>3, <3>1, <3>2
    <2>5. frames' # backfilled'
      BY <1>3
    <2>. QED BY <1>3, <2>2, <2>4, <2>5 DEF WalCovers
  <1>7. SizesBounded'
    <2>1. Logical \in Nat /\ file \in Nat /\ frames \in Nat /\ wal \in Nat
      BY LogicalIsNat
    <2>1a. PICK l \in Nat : l = Logical'
      BY <1>4a
    <2>2. Logical <= file + wal
      BY <2>1 DEF Inv, SizesOK, WalCovers
    <2>3. file + wal + Reserve < HardLimit
      BY DEF Export, Admissible, Active
    <2>. QED BY <1>1, <1>3, <1>4, <2>1a, <2>1, <2>2, <2>3, SizesAssumption DEF Inv, SizesBounded, Bound
  <1>8. LoopKnows'
    BY DEF Export, pass, locals, LoopKnows
  <1>. QED BY <1>5, <1>6, <1>7, <1>8 DEF Inv

LEMMA OutsideInv ==
  ASSUME Inv, Age \/ BeginRead \/ EndRead \/ OthersChange
  PROVE  Inv'
  <1>1. CASE Age
    <2>1. Live' = Live /\ fresh' \in Nat /\ stale' \in Nat
      BY <1>1 DEF Age, Inv, SizesOK, Live
    <2>2. SizesOK'
      BY <1>1, <2>1 DEF Age, Inv, SizesOK, walVars, outside, pass, locals
    <2>3. Logical' = Logical
      BY <1>1, <2>1 DEF Age, Logical
    <2>. QED
      BY <1>1, <2>2, <2>3
      DEF Age, Inv, WalCovers, SizesBounded, Bound, LoopKnows, walVars, outside, pass, locals
  <1>2. CASE BeginRead \/ EndRead \/ OthersChange
    BY <1>2, SizesAssumption
    DEF BeginRead, EndRead, OthersChange, Inv, SizesOK, WalCovers, SizesBounded, Bound,
        LoopKnows, Logical, Live, rowVars, walVars, pass, locals
  <1>. QED BY <1>1, <1>2

LEMMA CheckpointInv ==
  ASSUME Inv, AutoCheckpoint \/ Passive \/ Truncate
  PROVE  Inv'
  <1>1. CASE AutoCheckpoint
    <2>1. Backfill /\ UNCHANGED <<rowVars, pin>>
      BY <1>1 DEF AutoCheckpoint, outside
    <2>2. /\ file' \in Nat /\ frames' = frames /\ wal' = wal /\ backfilled' \in 0..frames'
          /\ WalCovers' /\ SizesBounded'
      BY <2>1, BackfillKeeps
    <2>. QED BY <1>1, <2>2 DEF AutoCheckpoint, Inv, SizesOK, LoopKnows, rowVars, outside, pass, locals
  <1>2. CASE Passive
    <2>1. Backfill /\ UNCHANGED <<rowVars, pin>>
      BY <1>2 DEF Passive, outside
    <2>2. /\ file' \in Nat /\ frames' = frames /\ wal' = wal /\ backfilled' \in 0..frames'
          /\ WalCovers' /\ SizesBounded'
      BY <2>1, BackfillKeeps
    <2>. QED BY <1>2, <2>2 DEF Passive, Goto, Inv, SizesOK, LoopKnows, rowVars, outside, locals
  <1>3. CASE Truncate /\ Blocked
    <2>1. Backfill /\ UNCHANGED <<rowVars, pin>>
      BY <1>3 DEF Truncate, outside
    <2>2. /\ file' \in Nat /\ frames' = frames /\ wal' = wal /\ backfilled' \in 0..frames'
          /\ WalCovers' /\ SizesBounded'
      BY <2>1, BackfillKeeps
    <2>. QED
      BY <1>3, <2>2, SizesAssumption
      DEF Truncate, ReturnError, Goto, Inv, SizesOK, LoopKnows, rowVars, outside, locals
  <1>4. CASE Truncate /\ ~Blocked
    BY <1>4
    DEF Truncate, Blocked, Goto, Inv, SizesOK, WalCovers, SizesBounded, Bound, LoopKnows,
        Logical, Live, rowVars, outside, locals
  <1>. QED BY <1>1, <1>2, <1>3, <1>4

LEMMA DeletionInv ==
  ASSUME Inv, NEW n \in Nat, n > 0, n <= Live, DeleteOldest(n), UNCHANGED outside,
         pc' \in {"retain", "vacuum"}, iteration' \in 0..MaxPressure
  PROVE  Inv'
  <1>1. pin' = pin
    BY DEF outside
  <1>2. /\ fresh' \in Nat /\ stale' \in Nat /\ freelist' \in Nat
        /\ Logical' = Logical /\ Commit(n)
    BY <1>1, DeleteKeeps
  <1>3. /\ file' = file /\ frames' \in Nat /\ backfilled' \in 0..frames'
        /\ wal' \in Nat /\ frames' <= wal' /\ backfilled' < frames'
        /\ pin' # NoReader => pin' <= frames'
        /\ \/ frames' = frames + n
           \/ frames' = n /\ file = Logical
    BY <1>1, <1>2, CommitKeeps
  <1>4. SizesOK'
    BY <1>2, <1>3 DEF Inv, SizesOK, outside
  <1>5. WalCovers' /\ SizesBounded'
    <2>1. Logical \in Nat /\ file \in Nat /\ frames \in Nat
      BY LogicalIsNat
    <2>2. PICK k \in Nat : k = frames'
      BY <1>3
    <2>3. Logical <= file + k
      <3>1. k = frames + n \/ (k = n /\ file = Logical)
        BY <1>3, <2>2, Zenon
      <3>. QED BY <2>1, <3>1 DEF Inv, WalCovers
    <2>4. frames' # backfilled'
      BY <1>3
    <2>. QED BY <1>2, <1>3, <2>2, <2>3, <2>4 DEF Inv, WalCovers, SizesBounded, Bound
  <1>6. LoopKnows'
    BY DEF LoopKnows
  <1>. QED BY <1>4, <1>5, <1>6 DEF Inv

LEMMA RetainInv == ASSUME Inv, Retain PROVE Inv'
  <1>. DEFINE n == AtMost(stale, DeleteBatch)
  <1>1. n \in Nat /\ n <= Live
    BY SizesAssumption DEF Inv, SizesOK, AtMost, Live
  <1>2. pc' \in {"retain", "vacuum"} /\ UNCHANGED <<outside, locals, ready>>
    BY DEF Retain, Goto
  <1>3. CASE n = 0
    BY <1>2, <1>3
    DEF Retain, Inv, SizesOK, WalCovers, SizesBounded, Bound, LoopKnows, Logical, Live,
        rowVars, walVars, outside, locals
  <1>4. CASE n > 0
    <2>1. DeleteOldest(n)
      BY <1>4 DEF Retain
    <2>2. iteration' \in 0..MaxPressure
      BY <1>2 DEF Inv, SizesOK, locals
    <2>. HIDE DEF n
    <2>. QED BY <1>1, <1>2, <1>4, <2>1, <2>2, DeletionInv
  <1>. QED BY <1>1, <1>3, <1>4

LEMMA VacuumInv == ASSUME Inv, IncrementalVacuum PROVE Inv'
  <1>. DEFINE n == AtMost(freelist, VacuumBatch)
  <1>1. n \in Nat /\ n <= freelist
    BY SizesAssumption DEF Inv, SizesOK, AtMost
  <1>2. /\ freelist' = freelist - n
        /\ pc' \in {"passive", "look"} /\ UNCHANGED <<fresh, stale, outside, locals, ready>>
    BY DEF IncrementalVacuum, Goto
  <1>3. CASE n = 0
    BY <1>2, <1>3
    DEF IncrementalVacuum, Inv, SizesOK, WalCovers, SizesBounded, Bound, LoopKnows, Logical,
        Live, walVars, outside, locals
  <1>4. CASE n > 0
    <2>1. Commit(n) /\ pin' = pin
      BY <1>2, <1>4 DEF IncrementalVacuum, outside
    <2>. HIDE DEF n
    <2>2. /\ file' = file /\ frames' \in Nat /\ backfilled' \in 0..frames'
          /\ wal' \in Nat /\ frames' <= wal' /\ backfilled' < frames'
          /\ pin' # NoReader => pin' <= frames'
          /\ \/ frames' = frames + n
             \/ frames' = n /\ file = Logical
      BY <1>1, <1>4, <2>1, CommitKeeps
    <2>3. SizesOK'
      BY <1>1, <1>2, <2>2 DEF Inv, SizesOK, outside, locals
    <2>4. WalCovers' /\ SizesBounded'
      <3>1. Logical \in Nat /\ file \in Nat /\ frames \in Nat
        BY LogicalIsNat
      <3>2. PICK k \in Nat : k = frames'
        BY <2>2
      <3>3. Logical' = Logical - n
        BY <1>1, <1>2 DEF Inv, SizesOK, Logical, Live
      <3>4. Logical - n <= file + k
        <4>1. k = frames + n \/ (k = n /\ file = Logical)
          BY <2>2, <3>2, Zenon
        <4>. QED BY <1>1, <3>1, <4>1 DEF Inv, WalCovers
      <3>5. frames' # backfilled'
        BY <2>2
      <3>6. Logical - n < Bound
        BY <1>1, <3>1, SizesAssumption DEF Inv, SizesBounded, Bound
      <3>. QED BY <2>2, <3>2, <3>3, <3>4, <3>5, <3>6 DEF Inv, WalCovers, SizesBounded, Bound
    <2>5. LoopKnows'
      BY <1>2 DEF LoopKnows
    <2>. QED BY <2>3, <2>4, <2>5 DEF Inv
  <1>. QED BY <1>1, <1>3, <1>4

\* The steps of a pass that only look, and its ends.
LEMMA LookInv ==
  ASSUME Inv, Maintain \/ Look \/ Weigh \/ NothingToEvict \/ Publish \/ Timeout
  PROVE  Inv'
  <1>1. UNCHANGED <<rowVars, walVars, outside>>
    BY DEF Maintain, Look, Weigh, NothingToEvict, Publish, Timeout
  <1>2. WalCovers' /\ SizesBounded'
    BY <1>1 DEF Inv, WalCovers, SizesBounded, Bound, Logical, Live, rowVars, walVars, outside
  <1>3. SizesOK'
    BY <1>1, SizesAssumption
    DEF Inv, SizesOK, Maintain, Look, Weigh, NothingToEvict, Publish, Timeout, ReturnNil, ReturnError,
        EndPass, Goto, locals, rowVars, walVars, outside
  <1>4. LoopKnows'
    <2>1. CASE Maintain \/ NothingToEvict \/ Publish \/ Timeout
      BY <2>1 DEF Maintain, NothingToEvict, Publish, Timeout, ReturnError, EndPass, Goto, LoopKnows
    <2>2. CASE Look
      <3>1. CASE Relieved /\ ReturnNil
        BY <1>1, <3>1, SizesAssumption
        DEF Relieved, Pressure, Active, ReturnNil, Goto, LoopKnows, Inv, SizesOK, walVars
      <3>2. CASE ReturnError
        BY <3>2 DEF ReturnError, Goto, LoopKnows
      <3>3. CASE ~Exhausted /\ Goto("truncate") /\ UNCHANGED <<locals, ready>>
        BY <3>3, SizesAssumption DEF Exhausted, Goto, LoopKnows, Inv, SizesOK, locals
      <3>. QED BY <2>2, <3>1, <3>2, <3>3 DEF Look
    <2>3. CASE Weigh /\ Pressure
      <3>1. /\ pc' = "evict" /\ frames' = 0 /\ wal' = 0 /\ iteration' < MaxPressure
            /\ wal = 0 /\ file' = file /\ file \in Nat /\ Reserve \in Nat
        BY <1>1, <2>3, SizesAssumption
        DEF Weigh, ReturnNil, Goto, LoopKnows, Inv, SizesOK, walVars
      <3>2. short' = (FreeDisk < Floor + Reserve)
        BY <2>3 DEF Weigh
      <3>3. FreeDisk < Floor + Reserve \/ file >= HighWater \/ file + Reserve >= HardLimit
        BY <2>3, <3>1 DEF Pressure, Active
      <3>4. short' \/ file' >= HighWater \/ file' + Reserve >= HardLimit
        BY <3>1, <3>2, <3>3, Zenon
      <3>. QED BY <3>1, <3>4 DEF LoopKnows
    <2>4. CASE Weigh /\ ~Pressure
      BY <1>1, <2>4, SizesAssumption
      DEF Weigh, Pressure, Active, ReturnNil, Goto, LoopKnows, Inv, SizesOK, walVars
    <2>. QED BY <2>1, <2>2, <2>3, <2>4
  <1>. QED BY <1>2, <1>3, <1>4 DEF Inv

LEMMA EvictInv == ASSUME Inv, Evict PROVE Inv'
  <1>1. pc' = "vacuum" /\ iteration' \in 0..MaxPressure /\ UNCHANGED outside
    BY SizesAssumption DEF Evict, Goto, Inv, SizesOK, LoopKnows
  <1>2. CASE UNCHANGED <<rowVars, walVars>>
    BY <1>1, <1>2
    DEF Inv, SizesOK, WalCovers, SizesBounded, Bound, LoopKnows, Logical, Live, rowVars,
        walVars, outside
  <1>3. CASE Live > 0 /\ DeleteOldest(AtMost(Live, DeleteBatch))
    <2>1. AtMost(Live, DeleteBatch) \in Nat /\ AtMost(Live, DeleteBatch) > 0
          /\ AtMost(Live, DeleteBatch) <= Live
      BY <1>3, SizesAssumption DEF AtMost, Inv, SizesOK, Live
    <2>. QED BY <1>1, <1>3, <2>1, DeletionInv
  <1>. QED BY <1>2, <1>3 DEF Evict, EvictUnlessFree

LEMMA StutterInv == ASSUME Inv, UNCHANGED vars PROVE Inv'
  BY DEF vars, rowVars, walVars, outside, pass, locals, Inv, SizesOK, WalCovers, SizesBounded,
         Bound, LoopKnows, Logical, Live

\* Every step keeps the invariant.
LEMMA NextInv == Inv /\ [Next]_vars => Inv'
  BY ExportInv, OutsideInv, CheckpointInv, RetainInv, VacuumInv, LookInv, EvictInv, StutterInv
  DEF Next, MaintainStep

\* The inductive invariant holds throughout.
LEMMA Invariance == Spec => []Inv
  BY InitInv, NextInv, PTL DEF Spec

\* Every step keeps the flags and the label in their types.
LEMMA FlagsInv == FlagsOK /\ [Next]_vars => FlagsOK'
  <1>. SUFFICES ASSUME FlagsOK, [Next]_vars PROVE FlagsOK'
    OBVIOUS
  <1>. USE DEF FlagsOK
  <1>1. ASSUME NEW n \in 1..MaxGrow, NEW f \in n..MaxFrames, Export(n, f) PROVE FlagsOK'
    BY <1>1, Zenon DEF Export, outside, pass, locals
  <1>2. CASE Age \/ AutoCheckpoint
    BY <1>2, Zenon DEF Age, AutoCheckpoint, outside, pass, locals
  <1>3. CASE BeginRead \/ EndRead \/ OthersChange
    BY <1>3 DEF BeginRead, EndRead, OthersChange, pass, locals
  <1>4. CASE Maintain \/ Retain \/ IncrementalVacuum \/ Passive
    BY <1>4 DEF Maintain, Retain, IncrementalVacuum, Passive, Goto, outside, locals
  <1>5. CASE Look \/ Truncate \/ NothingToEvict \/ Publish \/ Timeout
    BY <1>5 DEF Look, Truncate, NothingToEvict, Publish, Timeout, ReturnNil, ReturnError, EndPass, Goto, outside, locals
  <1>6. CASE Weigh
    <2>1. CASE Pressure
      <3>1. /\ pc' = "evict" /\ slow' = slow /\ ready' = ready
            /\ short' = (FreeDisk < Floor + Reserve)
        BY <1>6, <2>1 DEF Weigh, Goto, outside
      <3>2. (FreeDisk < Floor + Reserve) \in BOOLEAN
        BY SMT
      <3>3. short' \in BOOLEAN
        BY <3>1, <3>2, Zenon
      <3>. QED BY <3>1, <3>3
    <2>2. CASE ~Pressure
      BY <1>6, <2>2 DEF Weigh, ReturnNil, Goto, outside, locals
    <2>. QED BY <2>1, <2>2
  <1>7. CASE Evict
    BY <1>7 DEF Evict, Goto, outside
  <1>8. CASE UNCHANGED vars
    BY <1>8, Zenon DEF vars, outside, pass, locals
  <1>. QED BY <1>1, <1>2, <1>3, <1>4, <1>5, <1>6, <1>7, <1>8 DEF Next, MaintainStep

-----------------------------------------------------------------------------
\* The sizes keep their types and the pressure loop its bound
\* (Maintain, admissionErrorLocked).
THEOREM TypeCorrect == Spec => []TypeOK
  <1>1. Init => FlagsOK
    BY Zenon DEF Init, FlagsOK
  <1>2. Inv => SizesOK
    BY DEF Inv
  <1>. QED BY Invariance, FlagsInv, <1>1, <1>2, PTL DEF Spec, TypeOK

\* For all limits and all behaviours of readers, checkpoints and maintenance,
\* the main file stays below the hard limit plus what one request adds beyond
\* its reserve (admissionErrorLocked).
THEOREM FileStaysBounded == Spec => []FileBounded
  <1>1. Inv => FileBounded
    BY DEF Inv, SizesBounded, Bound, FileBounded
  <1>. QED BY Invariance, <1>1, PTL

\* For all limits, Maintain evicts rows inside the retention window only when
\* the live rows alone are too many or the volume was short of space.
THEOREM EvictionIsForRoom == Spec => EvictsOnlyForRoom
  <1>. DEFINE A == pc = "evict" /\ pc' = "vacuum" /\ fresh' < fresh =>
                     /\ file = Live /\ wal = 0
                     /\ \/ Live >= HighWater
                        \/ Live + Reserve >= HardLimit
                        \/ short
  <1>1. ASSUME Inv, [Next]_vars PROVE [A]_vars
    <2>1. SUFFICES ASSUME pc = "evict", pc' = "vacuum", fresh' < fresh
                   PROVE  /\ file = Live /\ wal = 0
                          /\ \/ Live >= HighWater
                             \/ Live + Reserve >= HardLimit
                             \/ short
      BY Zenon
    <2>2. Evict
      BY <1>1, <2>1
      DEF Next, MaintainStep, Export, Age, AutoCheckpoint, BeginRead, EndRead, OthersChange,
          Maintain, Retain, IncrementalVacuum, Passive, Look, Truncate, Weigh, NothingToEvict,
          Publish, Timeout, EndPass, ReturnError, ReturnNil, Goto, pass, vars
    <2>3. freelist = 0
      BY <1>1, <2>1, <2>2 DEF Evict, EvictUnlessFree, rowVars, Inv, SizesOK
    <2>4. frames = 0 /\ backfilled = 0 /\ wal = 0 /\ file = Logical
      BY <1>1, <2>1 DEF Inv, SizesOK, WalCovers, LoopKnows
    <2>5. file = Live
      BY <1>1, <2>3, <2>4 DEF Logical, Live, Inv, SizesOK
    <2>. QED BY <1>1, <2>1, <2>4, <2>5 DEF Inv, LoopKnows
  <1>. QED BY Invariance, <1>1, PTL DEF Spec, EvictsOnlyForRoom

-----------------------------------------------------------------------------
\* A bound on the steps of the pass that are left: a full round of Retain is paid
\* for by the rows it deletes, a turn of the pressure loop by its iteration.
StepsLeft ==
  LET loop == 6 * (MaxPressure - iteration)
  IN  CASE pc = "retain"   -> Live + loop + 8
        [] pc = "vacuum"   -> loop + 7
        [] pc = "passive"  -> loop + 6
        [] pc = "look"     -> loop + 5
        [] pc = "truncate" -> loop + 4
        [] pc = "weigh"    -> loop + 3
        [] pc = "evict"    -> loop + 2
        [] pc \in {"succeed", "fail"} -> 1
        [] OTHER           -> 0

\* A step inside a pass is Maintain's and brings it nearer to its end, or comes
\* from outside and leaves Maintain where it is, with as many rows and pages.
PassAdvances ==
  pc # "idle" /\ pc' # "idle" =>
    \/ StepsLeft' < StepsLeft
    \/ StepsLeft' = StepsLeft /\ UNCHANGED <<pc, Live, freelist, walVars, locals>>

\* What admissionErrorLocked asks for besides readiness.
Roomy == Active + Reserve < HardLimit /\ FreeDisk >= Floor + Reserve /\ wal < WalNotReady

\* A pass fixes good news only where the next export would find room.  From there
\* to the deferred store of ready the sizes of the files stay as they were, so
\* another program that takes space is all that can come between; and nothing
\* else makes the store ready.
GoodNewsIsTrue ==
  /\ pc # "succeed" /\ pc' = "succeed" => Roomy'
  /\ pc = "succeed" /\ Roomy => Roomy' \/ others' > others
  /\ ~ready /\ ready' => pc = "succeed" /\ Active' + Reserve < HardLimit /\ wal' < WalNotReady

\* Retain deletes rows or is done; rows that pass the cutoff meanwhile count too.
LEMMA RetainAdvances ==
  ASSUME Inv, Retain
  PROVE  StepsLeft' < StepsLeft
<1>. DEFINE n    == AtMost(stale, DeleteBatch)
            loop == 6 * (MaxPressure - iteration)
<1>1. /\ n \in Nat /\ n <= stale /\ n <= Live /\ Live \in Nat /\ loop \in Nat
      /\ DeleteBatch \in Nat \ {0} /\ stale \in Nat /\ fresh \in Nat
  BY SizesAssumption DEF Inv, SizesOK, AtMost, Live
<1>2. StepsLeft = Live + loop + 8
  BY DEF Retain, StepsLeft
<1>3. CASE n = DeleteBatch
  <2>1. pc' = "retain" /\ iteration' = iteration /\ DeleteOldest(n)
    BY <1>1, <1>3 DEF Retain, Goto, locals
  <2>2. Live' = Live - n
    BY <1>1, <2>1 DEF DeleteOldest, AtMost, Live
  <2>3. StepsLeft' = Live' + loop + 8
    BY <2>1 DEF StepsLeft
  <2>. QED BY <1>1, <1>2, <1>3, <2>2, <2>3
<1>4. CASE n # DeleteBatch
  <2>1. pc' = "vacuum" /\ iteration' = iteration
    BY <1>4 DEF Retain, Goto, locals
  <2>2. StepsLeft' = loop + 7
    BY <2>1 DEF StepsLeft
  <2>. QED BY <1>1, <1>2, <2>2
<1>. QED BY <1>3, <1>4

\* The other steps of a pass.
LEMMA LoopAdvances ==
  ASSUME Inv, IncrementalVacuum \/ Passive \/ Look \/ Truncate \/ Weigh \/ Evict \/ NothingToEvict,
         pc' # "idle"
  PROVE  StepsLeft' < StepsLeft
<1>. DEFINE loop == 6 * (MaxPressure - iteration)
<1>1. iteration \in Nat /\ MaxPressure \in Nat /\ loop \in Nat
  BY SizesAssumption DEF Inv, SizesOK
<1>2. CASE Evict
  <2>1. pc = "evict" /\ pc' = "vacuum" /\ iteration' = iteration + 1
    BY <1>2 DEF Evict, Goto
  <2>2. StepsLeft = loop + 2 /\ StepsLeft' = 6 * (MaxPressure - (iteration + 1)) + 7
    BY <2>1 DEF StepsLeft
  <2>. QED BY <1>1, <2>2
<1>3. CASE IncrementalVacuum \/ Passive \/ Look \/ Truncate \/ Weigh \/ NothingToEvict
  <2>1. /\ iteration' = iteration
        /\ \/ pc = "vacuum" /\ pc' \in {"passive", "look"}
           \/ pc = "passive" /\ pc' = "look"
           \/ pc = "look" /\ pc' = "truncate"
           \/ pc = "truncate" /\ pc' = "weigh"
           \/ pc = "weigh" /\ pc' = "evict"
           \/ pc \in {"look", "truncate", "weigh", "evict"} /\ pc' \in {"succeed", "fail"}
    BY <1>3 DEF IncrementalVacuum, Passive, Look, Truncate, Weigh, NothingToEvict, ReturnNil,
                ReturnError, Goto, locals
  <2>2. StepsLeft \in Nat /\ (pc' \in {"succeed", "fail"} => StepsLeft' = 1 /\ StepsLeft > 1)
    BY <1>1, <2>1 DEF StepsLeft
  <2>. QED BY <1>1, <2>1, <2>2 DEF StepsLeft
<1>. QED BY <1>2, <1>3

\* Rows age, readers come and go and other programs use the volume meanwhile.
LEMMA OutsideLeavesPass ==
  ASSUME Inv, Age \/ BeginRead \/ EndRead \/ OthersChange \/ UNCHANGED vars
  PROVE  StepsLeft' = StepsLeft /\ UNCHANGED <<pc, Live, freelist, walVars, locals>>
<1>1. UNCHANGED <<pc, freelist, walVars, locals>>
  BY DEF Age, BeginRead, EndRead, OthersChange, vars, rowVars, pass
<1>2. Live' = Live
  BY DEF Age, BeginRead, EndRead, OthersChange, vars, rowVars, Live, Inv, SizesOK
<1>. QED BY <1>1, <1>2 DEF StepsLeft, locals

\* Maintain: every step of a pass lowers a bound that nothing from outside can
\* raise.  However busy readers, exports' leftovers and other programs keep it,
\* the pass ends after at most Live + 6 * MaxPressure + 8 steps.
THEOREM PassEnds == Spec => [](StepsLeft \in Nat) /\ [][PassAdvances]_vars
<1>0. ASSUME Inv PROVE StepsLeft \in Nat
  <2>1. Live \in Nat /\ MaxPressure - iteration \in Nat
    BY <1>0, SizesAssumption DEF Inv, SizesOK, Live
  <2>. HIDE DEF Live
  <2>. QED BY <2>1 DEF StepsLeft
<1>1. ASSUME Inv, [Next]_vars PROVE PassAdvances
  <2>. SUFFICES ASSUME pc # "idle", pc' # "idle"
                PROVE  \/ StepsLeft' < StepsLeft
                       \/ StepsLeft' = StepsLeft /\ UNCHANGED <<pc, Live, freelist, walVars, locals>>
    BY DEF PassAdvances
  <2>1. ~Maintain /\ ~AutoCheckpoint /\ ~Publish /\ ~Timeout
        /\ ~\E n \in 1..MaxGrow : \E f \in n..MaxFrames : Export(n, f)
    BY DEF Maintain, AutoCheckpoint, Publish, Timeout, EndPass, Goto, Export
  <2>. QED BY <1>1, <2>1, RetainAdvances, LoopAdvances, OutsideLeavesPass DEF Next, MaintainStep
<1>. QED BY <1>0, <1>1, Invariance, PTL DEF Spec

\* Maintain, admissionErrorLocked: the pass and the admission check look at the
\* same sizes with different conditions; the look that decides for recovery finds
\* room for the next export, and only another program can take it back before
\* the news is out, so recovery never announces files that are too large.
THEOREM RecoveryAdmits == Spec => [][GoodNewsIsTrue]_vars
<1>1. ASSUME Inv, [Next]_vars PROVE GoodNewsIsTrue
  <2>0. Active \in Nat /\ FreeDisk \in Nat
    BY <1>1, SizesAssumption DEF Inv, SizesOK, Active, FreeDisk
  <2>1. ASSUME pc # "succeed", pc' = "succeed" PROVE Roomy'
    <3>1. (Look /\ Relieved) \/ (Weigh /\ ~Pressure)
      BY <1>1, <2>1
      DEF Next, MaintainStep, Export, Age, AutoCheckpoint, BeginRead, EndRead, OthersChange,
          Maintain, Retain, IncrementalVacuum, Passive, Look, Truncate, Weigh, Evict,
          NothingToEvict, Publish, Timeout, EndPass, ReturnError, ReturnNil, Goto, pass, vars
    <3>2. ~Pressure /\ (Relieved \/ pc = "weigh")
      BY <3>1 DEF Relieved, Weigh
    <3>3. wal < WalNotReady
      BY <1>1, <3>2, SizesAssumption DEF Relieved, Inv, LoopKnows
    <3>4. UNCHANGED <<walVars, others>>
      BY <3>1 DEF Look, Weigh, outside
    <3>5. Active' = Active /\ FreeDisk' = FreeDisk /\ wal' = wal
      BY <3>4 DEF walVars, Active, FreeDisk
    <3>. HIDE DEF FreeDisk, Active
    <3>. QED BY <2>0, <3>2, <3>3, <3>5, SizesAssumption DEF Pressure, Roomy
  <2>2. ASSUME pc = "succeed" PROVE UNCHANGED <<file, wal>>
    BY <1>1, <2>2
    DEF Next, MaintainStep, Export, Age, AutoCheckpoint, BeginRead, EndRead, OthersChange,
        Maintain, Retain, IncrementalVacuum, Passive, Look, Truncate, Weigh, Evict,
        NothingToEvict, Publish, Timeout, walVars, vars
  <2>3. ASSUME pc = "succeed", Roomy, ~(others' > others) PROVE Roomy'
    <3>1. others \in Nat /\ others' \in Nat
      BY <1>1, NextInv, SizesAssumption DEF Inv, SizesOK
    <3>2. Active' = Active /\ wal' = wal
      BY <2>2, <2>3 DEF Active
    <3>2a. PICK a \in Nat, o \in Nat, p \in Nat : a = Active /\ o = others /\ p = others'
      BY <2>0, <3>1
    <3>2b. FreeDisk = (IF a + o <= DiskSize THEN DiskSize - a - o ELSE 0)
      BY <3>2a DEF FreeDisk
    <3>2c. FreeDisk' = (IF a + p <= DiskSize THEN DiskSize - a - p ELSE 0)
      BY <3>2, <3>2a DEF FreeDisk
    <3>2d. p <= o
      BY <2>3, <3>2a
    <3>. HIDE DEF FreeDisk
    <3>3. FreeDisk' >= FreeDisk
      BY <3>2b, <3>2c, <3>2d, SizesAssumption
    <3>4. FreeDisk' \in Nat
      BY <3>2c, SizesAssumption
    <3>. HIDE DEF Active
    <3>. QED BY <2>0, <2>3, <3>2, <3>3, <3>4, SizesAssumption DEF Roomy
  <2>4. ASSUME ~ready, ready'
        PROVE  pc = "succeed" /\ Active' + Reserve < HardLimit /\ wal' < WalNotReady
    <3>1. Publish /\ pc = "succeed"
      BY <1>1, <2>4
      DEF Next, MaintainStep, Export, Age, AutoCheckpoint, BeginRead, EndRead, OthersChange,
          Maintain, Retain, IncrementalVacuum, Passive, Look, Truncate, Weigh, Evict,
          NothingToEvict, Publish, Timeout, EndPass, ReturnError, ReturnNil, Goto, pass, vars
    <3>. QED BY <1>1, <2>2, <3>1 DEF Inv, LoopKnows, Active
  <2>. QED BY <2>1, <2>3, <2>4 DEF GoodNewsIsTrue
<1>. QED BY <1>1, Invariance, PTL DEF Spec
=============================================================================
