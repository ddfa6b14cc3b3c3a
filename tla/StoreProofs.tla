----------------------------- MODULE StoreProofs -----------------------------
(***************************************************************************)
(* Proofs that every reachable state of Store satisfies IInv, and with it  *)
(* the safety properties of the store, for any number of goroutines,       *)
(* any finite tables and any bounds.  One lemma per action shows that it   *)
(* preserves IInv; inside it there is one step per part of IInv.           *)
(***************************************************************************)
EXTENDS StoreInvariant, FiniteSetTheorems, TLAPS

USE ThreadsAssumption, BoundsAssumption
USE DEF Signals, Callers, Threads, life, health, call, stored, tx, pass, env, vars,
        InsertInside, ClearInside, ViewInside, MaintInside, CloseInside, Inside,
        InsertLabels, ClearLabels, ViewLabels, MaintLabels, CloseLabels, Labels,
        InTx, UsesDB, Zero, Empty, Goto, Answer, Fault,
        IInv, TypeOK, ThreadsOK, MutexInv, LockInv

-----------------------------------------------------------------------------
(* Facts about the tables.                                                  *)

\* Removing D from a finite table S leaves the difference of their sizes.
LEMMA CardinalityRemoved ==
  ASSUME NEW S, IsFiniteSet(S), NEW D, D \subseteq S
  PROVE  /\ Cardinality(D) \in Nat
         /\ Cardinality(S \ D) = Cardinality(S) - Cardinality(D)
<1>1. IsFiniteSet(D)
  BY FS_Subset
<1>2. S \cap D = D
  OBVIOUS
<1>. QED BY <1>1, <1>2, FS_Difference, FS_CardinalityType

\* A row that contradicts nothing is in the table after its INSERT, and the
\* table has grown by RowsAffected.
LEMMA CardinalityInserted ==
  ASSUME NEW T, IsFiniteSet(T), NEW s, NEW r, ~Contradicts(T, s, r)
  PROVE  /\ T \cup Added(T, s, r) = T \cup {r}
         /\ RowsAffected(T, s, r) \in {0, 1}
         /\ Cardinality(T \cup Added(T, s, r)) = Cardinality(T) + RowsAffected(T, s, r)
<1>1. CASE \E q \in T : Key(s, q) = Key(s, r)
  <2>1. r \in T
    BY <1>1 DEF Contradicts
  <2>2. Added(T, s, r) = {} /\ T \cup {} = T /\ T \cup {r} = T
    BY <1>1, <2>1 DEF Added
  <2>. QED BY <2>2, FS_CardinalityType DEF RowsAffected
<1>2. CASE ~\E q \in T : Key(s, q) = Key(s, r)
  <2>1. r \notin T
    BY <1>2
  <2>2. Added(T, s, r) = {r}
    BY <1>2 DEF Added
  <2>. QED BY <2>1, <2>2, FS_AddElement DEF RowsAffected
<1>. QED BY <1>1, <1>2

\* A change to one table leaves a function on the signals, and the other tables.
LEMMA ImageChanged ==
  ASSUME TablesOK, NEW s \in Signals, NEW v, image' = [image EXCEPT ![s] = v]
  PROVE  /\ image' = [z \in Signals |-> image'[z]] /\ image'[s] = v
         /\ \A z \in Signals : z # s => image'[z] = image[z]
<1>1. image' = [z \in Signals |-> IF z = s THEN v ELSE image[z]]
  BY DEF TablesOK
<1>. QED BY <1>1

LEMMA ExpiredChanged ==
  ASSUME TablesOK, NEW s \in Signals, NEW v, expired' = [expired EXCEPT ![s] = v]
  PROVE  /\ expired' = [z \in Signals |-> expired'[z]] /\ expired'[s] = v
         /\ \A z \in Signals : z # s => expired'[z] = expired[z]
<1>1. expired' = [z \in Signals |-> IF z = s THEN v ELSE expired[z]]
  BY DEF TablesOK
<1>. QED BY <1>1

\* Every table is finite, so its size is a number.
LEMMA FiniteTables ==
  ASSUME IInv, NEW s \in Signals
  PROVE  /\ IsFiniteSet(rows[s]) /\ IsFiniteSet(image[s])
         /\ Cardinality(rows[s]) \in Nat /\ Cardinality(image[s]) \in Nat
         /\ Cardinality(InitialRows[s]) \in Nat
<1>1. IsFiniteSet(rows[s]) /\ IsFiniteSet(image[s]) /\ IsFiniteSet(InitialRows[s])
  BY RecordsAssumption, FS_Subset DEF TablesOK
<1>. QED BY <1>1, FS_CardinalityType

\* A transaction belongs to the goroutine that holds the mutex.
LEMMA OneTransaction ==
  ASSUME IInv, NEW t \in Threads, pc[t] \in Inside
  PROVE  /\ holder = t
         /\ \A u \in Threads : u # t => pc[u] \notin Inside
OBVIOUS

\* The first of some tables is one of them.
LEMMA FirstVisited ==
  ASSUME NEW S \in SUBSET Signals, S # {}
  PROVE  First(S) \in S
<1>1. CASE "logs" \in S
  BY <1>1 DEF First
<1>2. CASE "logs" \notin S /\ "spans" \in S
  BY <1>2 DEF First
<1>3. CASE "logs" \notin S /\ "spans" \notin S
  <2>1. "metrics" \in S
    BY <1>3
  <2>. QED BY <1>3, <2>1 DEF First
<1>. QED BY <1>1, <1>2, <1>3

\* However a pass ends, its goroutine and its locals start over.
LEMMA NextTickKeeps ==
  ASSUME TypeOK, NextTick
  PROVE  /\ pc' \in [Threads -> Labels] /\ pc'[Maint] \in MaintLabels
         /\ \A t \in Callers \cup Closers : pc'[t] = pc[t]
         /\ ctx' \in [Callers \cup {Maint} -> BOOLEAN]
         /\ more' \in BOOLEAN /\ pressure' \in 0 .. MaxPressure
         /\ result' \in {"none", "ok", "budget", "failed"}
<1>1. /\ pc' \in [Threads -> Labels] /\ pc'[Maint] \in MaintLabels
      /\ \A t \in Callers \cup Closers : pc'[t] = pc[t]
  <2>1. CASE stopped
    BY <2>1 DEF NextTick
  <2>2. CASE ~stopped
    BY <2>2 DEF NextTick
  <2>. QED BY <2>1, <2>2
<1>2. ctx' \in [Callers \cup {Maint} -> BOOLEAN]
  BY DEF NextTick
<1>3. 0 \in 0 .. MaxPressure
  OBVIOUS
<1>. QED BY <1>1, <1>2, <1>3 DEF NextTick

\* DeleteRows, whoever chose D, keeps types and counters.
LEMMA DeleteRowsKeeps ==
  ASSUME IInv, image = rows, NEW D, \A s \in Signals : D[s] \subseteq rows[s], DeleteRows(D)
  PROVE  TablesOK' /\ CountersMatchRows' /\ image' = rows' /\ pend' = pend
<1>1. \A s \in Signals : /\ Cardinality(D[s]) \in Nat
                         /\ Cardinality(rows[s] \ D[s]) = Cardinality(rows[s]) - Cardinality(D[s])
  BY FiniteTables, CardinalityRemoved
<1>2. TablesOK'
  BY <1>1 DEF DeleteRows, CountDeleted, TablesOK
<1>3. CountersMatchRows'
  <2> SUFFICES ASSUME NEW s \in Signals
               PROVE  Cardinality(rows'[s])
                      = Cardinality(InitialRows[s]) + committed'[s] - deleted'[s]
    BY DEF CountersMatchRows
  <2>1. /\ rows'[s] = rows[s] \ D[s] /\ committed' = committed
        /\ deleted'[s] = deleted[s] + Cardinality(D[s])
    BY DEF DeleteRows, CountDeleted
  <2>2. /\ Cardinality(rows[s]) = Cardinality(InitialRows[s]) + committed[s] - deleted[s]
        /\ committed[s] \in Nat /\ deleted[s] \in Nat
    BY DEF TablesOK, TxInv, CountersMatchRows
  <2>3. /\ Cardinality(D[s]) \in Nat /\ Cardinality(rows[s]) \in Nat
        /\ Cardinality(InitialRows[s]) \in Nat
        /\ Cardinality(rows'[s]) = Cardinality(rows[s]) - Cardinality(D[s])
    BY <1>1, <2>1, FiniteTables
  <2>. QED BY <2>1, <2>2, <2>3
<1>. QED BY <1>2, <1>3 DEF DeleteRows

-----------------------------------------------------------------------------
(* Start and the mutex.                                                     *)

\* A successful Start opens the handle under the ownership lock; a failed one changes nothing.
LEMMA StartKeeps ==
  ASSUME IInv, Start
  PROVE  IInv'
<1>1. FlagsOK'
  BY DEF FlagsOK, Start
<1>2. ThreadsOK'
  BY DEF Start
<1>3. TablesOK'
  BY DEF TablesOK, Start
<1>4. LocalsOK'
  BY DEF LocalsOK, Start
<1>5. MutexInv'
  BY DEF JobInv, AnswerInv, LifeInv, StartInv, Start
<1>6. TxInv'
  BY DEF TablesOK, TxInv, IdleTxInv, InsertTxInv, ClearTxInv, CountersMatchRows, Start
<1>7. LifeInv'
  BY DEF FlagsOK, LifeInv, StartInv, CloseInv, NoUseAfterClose, OwnedWhileOpen, Done, Start
<1>8. HealthInv'
  BY DEF FlagsOK, LocalsOK, LifeInv, StartInv, CloseInv, HealthInv, PassInv, FaultNotMasked,
         HealthAgrees, Start
<1>. QED BY <1>1, <1>2, <1>3, <1>4, <1>5, <1>6, <1>7, <1>8

\* The permit goes to one waiting goroutine, and a new maintenance pass starts clean.
LEMMA AcquireKeeps ==
  ASSUME IInv, NEW t \in Threads, Acquire(t)
  PROVE  IInv'
<1>1. FlagsOK'
  BY DEF FlagsOK, Acquire, Entry
<1>2. ThreadsOK'
  BY DEF Acquire, Entry
<1>3. TablesOK'
  BY DEF TablesOK, Acquire, Entry
<1>4. LocalsOK'
  BY DEF LocalsOK, Acquire, Entry
<1>5. MutexInv'
  BY DEF JobInv, AnswerInv, Acquire, Entry
<1>6. TxInv'
  BY DEF TablesOK, TxInv, IdleTxInv, InsertTxInv, ClearTxInv, CountersMatchRows, Acquire, Entry
<1>7. LifeInv'
  BY DEF FlagsOK, LifeInv, StartInv, CloseInv, NoUseAfterClose, OwnedWhileOpen, Done, Acquire,
         Entry
<1>8. HealthInv'
  BY DEF FlagsOK, LocalsOK, LifeInv, StartInv, CloseInv, HealthInv, PassInv, FaultNotMasked,
         HealthAgrees, Acquire, Entry
<1>. QED BY <1>1, <1>2, <1>3, <1>4, <1>5, <1>6, <1>7, <1>8

\* A cancelled waiter leaves without the permit.
LEMMA LockAbortKeeps ==
  ASSUME IInv, NEW t \in Callers \cup {Maint}, LockAbort(t)
  PROVE  IInv'
<1>1. FlagsOK'
  BY DEF FlagsOK, LockAbort, GiveUp, NextTick
<1>2. ThreadsOK'
  <2>1. CASE t = Maint
    <3>1. NextTick /\ UNCHANGED <<job, answer>> /\ holder' \in {holder, Free}
      BY <2>1 DEF LockAbort, GiveUp
    <3>. QED BY <3>1, NextTickKeeps
  <2>2. CASE t # Maint
    BY <2>2 DEF LockAbort, GiveUp
  <2>. QED BY <2>1, <2>2
<1>3. TablesOK'
  BY DEF TablesOK, LockAbort, GiveUp, NextTick
<1>4. LocalsOK'
  <2>1. pressure' \in 0 .. MaxPressure /\ more' \in BOOLEAN /\ result' \in {"none", "ok", "budget", "failed"}
    <3>1. CASE t = Maint
      BY <3>1, NextTickKeeps DEF LockAbort, GiveUp
    <3>2. CASE t # Maint
      BY <3>2 DEF LocalsOK, LockAbort, GiveUp
    <3>. QED BY <3>1, <3>2
  <2>. QED BY <2>1 DEF LocalsOK, LockAbort
<1>5. MutexInv'
  BY DEF JobInv, AnswerInv, LockAbort, GiveUp, NextTick
<1>6. TxInv'
  BY DEF TablesOK, TxInv, IdleTxInv, InsertTxInv, ClearTxInv, CountersMatchRows, LockAbort,
         GiveUp, NextTick
<1>7. LifeInv'
  BY DEF FlagsOK, LifeInv, StartInv, CloseInv, NoUseAfterClose, OwnedWhileOpen, Done,
         LockAbort, GiveUp, NextTick
<1>8. HealthInv'
  BY DEF FlagsOK, LocalsOK, LifeInv, StartInv, CloseInv, HealthInv, PassInv, FaultNotMasked,
         HealthAgrees, LockAbort, GiveUp, NextTick
<1>. QED BY <1>1, <1>2, <1>3, <1>4, <1>5, <1>6, <1>7, <1>8

\* A cancelled winner gives the permit back.
LEMMA RecheckAbortKeeps ==
  ASSUME IInv, NEW t \in Callers \cup {Maint}, RecheckAbort(t)
  PROVE  IInv'
<1>1. FlagsOK'
  BY DEF FlagsOK, RecheckAbort, Entry, GiveBack, GiveUp, NextTick
<1>2. ThreadsOK'
  <2>1. CASE t = Maint
    <3>1. NextTick /\ UNCHANGED <<job, answer>> /\ holder' \in {holder, Free}
      BY <2>1 DEF RecheckAbort, Entry, GiveBack, GiveUp
    <3>. QED BY <3>1, NextTickKeeps
  <2>2. CASE t # Maint
    BY <2>2 DEF RecheckAbort, Entry, GiveBack, GiveUp
  <2>. QED BY <2>1, <2>2
<1>3. TablesOK'
  BY DEF TablesOK, RecheckAbort, Entry, GiveBack, GiveUp, NextTick
<1>4. LocalsOK'
  <2>1. pressure' \in 0 .. MaxPressure /\ more' \in BOOLEAN /\ result' \in {"none", "ok", "budget", "failed"}
    <3>1. CASE t = Maint
      BY <3>1, NextTickKeeps DEF RecheckAbort, Entry, GiveBack, GiveUp
    <3>2. CASE t # Maint
      BY <3>2 DEF LocalsOK, RecheckAbort, Entry, GiveBack, GiveUp
    <3>. QED BY <3>1, <3>2
  <2>. QED BY <2>1 DEF LocalsOK, RecheckAbort, Entry, GiveBack
<1>5. MutexInv'
  BY DEF JobInv, AnswerInv, RecheckAbort, Entry, GiveBack, GiveUp, NextTick
<1>6. TxInv'
  BY DEF TablesOK, TxInv, IdleTxInv, InsertTxInv, ClearTxInv, CountersMatchRows, RecheckAbort,
         Entry, GiveBack, GiveUp, NextTick
<1>7. LifeInv'
  BY DEF FlagsOK, LifeInv, StartInv, CloseInv, NoUseAfterClose, OwnedWhileOpen, Done,
         RecheckAbort, Entry, GiveBack, GiveUp, NextTick
<1>8. HealthInv'
  BY DEF FlagsOK, LocalsOK, LifeInv, StartInv, CloseInv, HealthInv, PassInv, FaultNotMasked,
         HealthAgrees, RecheckAbort, Entry, GiveBack, GiveUp, NextTick
<1>. QED BY <1>1, <1>2, <1>3, <1>4, <1>5, <1>6, <1>7, <1>8

\* Unlock frees the mutex, and the caller forgets its batch.
LEMMA ReturnKeeps ==
  ASSUME IInv, NEW t \in Callers, Return(t)
  PROVE  IInv'
<1>1. TypeOK'
  BY DEF FlagsOK, TablesOK, LocalsOK, Return
<1>2. MutexInv'
  BY DEF JobInv, AnswerInv, Return
<1>3. TxInv'
  BY DEF TablesOK, TxInv, IdleTxInv, InsertTxInv, ClearTxInv, CountersMatchRows, Return
<1>4. LifeInv'
  BY DEF FlagsOK, LifeInv, StartInv, CloseInv, NoUseAfterClose, OwnedWhileOpen, Done, Return
<1>5. HealthInv'
  BY DEF FlagsOK, LocalsOK, LifeInv, StartInv, CloseInv, HealthInv, PassInv, FaultNotMasked,
         HealthAgrees, Return
<1>. QED BY <1>1, <1>2, <1>3, <1>4, <1>5

\* The end of a context changes nothing else.
LEMMA CancelKeeps ==
  ASSUME IInv, NEW t \in Callers, Cancel(t)
  PROVE  IInv'
<1>1. TypeOK'
  BY DEF FlagsOK, TablesOK, LocalsOK, Cancel
<1>2. MutexInv'
  BY DEF JobInv, AnswerInv, Cancel
<1>3. TxInv'
  BY DEF TablesOK, TxInv, IdleTxInv, InsertTxInv, ClearTxInv, CountersMatchRows, Cancel
<1>4. LifeInv'
  BY DEF FlagsOK, LifeInv, StartInv, CloseInv, NoUseAfterClose, OwnedWhileOpen, Done, Cancel
<1>5. HealthInv'
  BY DEF FlagsOK, LocalsOK, LifeInv, StartInv, CloseInv, HealthInv, PassInv, FaultNotMasked,
         HealthAgrees, Cancel
<1>. QED BY <1>1, <1>2, <1>3, <1>4, <1>5

-----------------------------------------------------------------------------
(* The insert calls.                                                        *)

\* A new export brings its batch along.
LEMMA InsertKeeps ==
  ASSUME IInv, NEW t \in Exporters, NEW s \in Signals, NEW b \in SUBSET Records[s], Insert(t, s, b)
  PROVE  IInv'
<1>1. TypeOK'
  <2>1. [sig |-> s, batch |-> b] \in Jobs
    BY DEF Jobs
  <2>. QED BY <2>1 DEF FlagsOK, TablesOK, LocalsOK, Insert
<1>2. MutexInv'
  <2>1. [sig |-> s, batch |-> b] \in Jobs
    BY DEF Jobs
  <2>. QED BY <2>1 DEF JobInv, AnswerInv, Insert
<1>3. TxInv'
  BY DEF TablesOK, TxInv, IdleTxInv, InsertTxInv, ClearTxInv, CountersMatchRows, Insert
<1>4. LifeInv'
  BY DEF FlagsOK, LifeInv, StartInv, CloseInv, NoUseAfterClose, OwnedWhileOpen, Done, Insert
<1>5. HealthInv'
  BY DEF FlagsOK, LocalsOK, LifeInv, StartInv, CloseInv, HealthInv, PassInv, FaultNotMasked,
         HealthAgrees, Insert
<1>. QED BY <1>1, <1>2, <1>3, <1>4, <1>5

\* The look at ready decides nothing that the invariant relies on.
LEMMA InsertCheckKeeps ==
  ASSUME IInv, NEW t \in Exporters, InsertCheck(t)
  PROVE  IInv'
<1>1. TypeOK'
  BY DEF FlagsOK, TablesOK, LocalsOK, InsertCheck
<1>2. MutexInv'
  BY DEF JobInv, AnswerInv, InsertCheck
<1>3. TxInv'
  BY DEF TablesOK, TxInv, IdleTxInv, InsertTxInv, ClearTxInv, CountersMatchRows, InsertCheck
<1>4. LifeInv'
  BY DEF FlagsOK, LifeInv, StartInv, CloseInv, NoUseAfterClose, OwnedWhileOpen, Done,
         InsertCheck
<1>5. HealthInv'
  BY DEF FlagsOK, LocalsOK, LifeInv, StartInv, CloseInv, HealthInv, PassInv, FaultNotMasked,
         HealthAgrees, InsertCheck
<1>. QED BY <1>1, <1>2, <1>3, <1>4, <1>5

\* An admitted export finds the handle open and has its whole batch before it.
LEMMA AdmitKeeps ==
  ASSUME IInv, NEW t \in Exporters, Admit(t)
  PROVE  IInv'
<1>1. FlagsOK'
  BY DEF FlagsOK, Admit, Admissible
<1>2. ThreadsOK'
  BY DEF Admit, Admissible
<1>3. TablesOK'
  BY DEF TablesOK, Admit, Admissible
<1>4. LocalsOK'
  BY DEF LocalsOK, JobInv, Jobs, Admit, Admissible
<1>5. MutexInv'
  BY DEF JobInv, AnswerInv, Admit, Admissible
<1>6. TxInv'
  <2>1. job[t] \in Jobs /\ holder = t
    BY DEF JobInv, Admit
  <2>2. CASE Admissible
    <3>1. pc' = [pc EXCEPT ![t] = "insert"] /\ work' = job[t].batch /\ image = rows /\ pend = Zero
      BY <2>2 DEF Admit, TxInv, IdleTxInv
    <3>2. \A u \in Threads : u # t => pc'[u] \notin InTx
      BY <2>1, <3>1
    <3>. QED BY <2>1, <3>1, <3>2, FiniteTables
         DEF Admit, TxInv, IdleTxInv, InsertTxInv, ClearTxInv, CountersMatchRows, TablesOK
  <2>3. CASE ~Admissible
    BY <2>1, <2>3 DEF Admit, TxInv, IdleTxInv, InsertTxInv, ClearTxInv, CountersMatchRows
  <2>. QED BY <2>2, <2>3
<1>7. LifeInv'
  BY DEF FlagsOK, LifeInv, StartInv, CloseInv, NoUseAfterClose, OwnedWhileOpen, Done, Admit,
         Admissible
<1>8. HealthInv'
  BY DEF FlagsOK, LocalsOK, LifeInv, StartInv, CloseInv, HealthInv, PassInv, FaultNotMasked,
         HealthAgrees, Admit, Admissible
<1>. QED BY <1>1, <1>2, <1>3, <1>4, <1>5, <1>6, <1>7, <1>8

\* One record is added and counted, or the batch is rolled back.
LEMMA InsertRecordKeeps ==
  ASSUME IInv, NEW t \in Exporters, NEW r, InsertRecord(t, r)
  PROVE  IInv'
<1> DEFINE s == job[t].sig
           T == image[s] \cup Added(image[s], s, r)
<1>1. /\ job[t] \in Jobs /\ s \in Signals /\ holder = t
      /\ r \in work /\ r \in Records[s]
      /\ \A u \in Threads : u # t => pc[u] \notin InTx
  BY DEF InsertRecord, JobInv, Jobs, TxInv, InsertTxInv
<1>2. CASE Contradicts(image[s], s, r)
  <2>1. /\ Goto(t, "unlock") /\ Rollback(t, "conflict")
        /\ UNCHANGED <<life, health, holder, ctx, job, pass, env>>
    BY <1>2 DEF InsertRecord
  <2>2. TypeOK'
    BY <1>1, <2>1 DEF Rollback, FlagsOK, TablesOK, LocalsOK
  <2>3. MutexInv'
    BY <1>1, <2>1 DEF Rollback, JobInv, AnswerInv
  <2>4. TxInv'
    BY <1>1, <2>1 DEF Rollback, TxInv, IdleTxInv, InsertTxInv, ClearTxInv, CountersMatchRows
  <2>5. LifeInv'
    BY <1>1, <2>1 DEF Rollback, LifeInv, StartInv, CloseInv, NoUseAfterClose, OwnedWhileOpen, Done
  <2>6. HealthInv'
    <3>1. pc[t] = "insert" /\ UNCHANGED <<life, health, holder, pass>>
      BY <2>1 DEF InsertRecord
    <3>2. \A u \in Threads : pc[u] = "lower" <=> pc'[u] = "lower"
      BY <1>1, <2>1, <3>1
    <3>3. pc'[Maint] = pc[Maint] /\ \A u \in Threads : pc[u] # "lower"
      BY <1>1, <2>1, <3>1
    <3>. QED BY <1>1, <3>1, <3>2, <3>3 DEF HealthInv, PassInv, FaultNotMasked, HealthAgrees
  <2>. QED BY <2>2, <2>3, <2>4, <2>5, <2>6
<1>3. CASE ~Contradicts(image[s], s, r)
  <2>1. /\ image' = [image EXCEPT ![s] = T]
        /\ pend' = [pend EXCEPT ![s] = @ + RowsAffected(image[s], s, r)]
        /\ work' = work \ {r}
        /\ UNCHANGED <<life, health, holder, pc, call, stored, tables, pass, env>>
    BY <1>3 DEF InsertRecord, Write
  <2>2. /\ T = image[s] \cup {r}
        /\ RowsAffected(image[s], s, r) \in {0, 1}
        /\ Cardinality(T) = Cardinality(image[s]) + RowsAffected(image[s], s, r)
    <3>1. IsFiniteSet(image[s])
      BY <1>1, FiniteTables
    <3>. QED BY <1>3, <3>1, CardinalityInserted
  <2> HIDE DEF T
  <2>3. TypeOK'
    <3>1. T \subseteq Records[s]
      BY <1>1, <2>2 DEF TablesOK
    <3>2. TablesOK'
      <4>1. image' = [z \in Signals |-> image'[z]] /\ image'[s] = T
            /\ \A z \in Signals : z # s => image'[z] = image[z]
        <5>1. TablesOK
          OBVIOUS
        <5>. HIDE DEF IInv, Signals
        <5>. QED BY <1>1, <2>1, <5>1, ImageChanged
      <4>2. pend' \in [Signals -> Nat]
        BY <1>1, <2>1, <2>2 DEF TablesOK
      <4>. QED BY <2>1, <3>1, <4>1, <4>2 DEF TablesOK
    <3>3. LocalsOK'
      BY <2>1 DEF LocalsOK
    <3>. QED BY <2>1, <3>2, <3>3 DEF FlagsOK
  <2>4. MutexInv'
    BY <2>1 DEF JobInv, AnswerInv
  <2>5. /\ image'[s] = image[s] \cup {r}
        /\ Cardinality(image'[s]) = Cardinality(image[s]) + RowsAffected(image[s], s, r)
        /\ pend'[s] = pend[s] + RowsAffected(image[s], s, r)
        /\ \A z \in Signals : z # s => image'[z] = image[z] /\ pend'[z] = pend[z]
    BY <1>1, <2>1, <2>2 DEF TablesOK
  <2>6. InsertTxInv'
    <3>1. /\ work \subseteq job[t].batch /\ job[t].batch \ work \subseteq image[s]
          /\ \A z \in Signals : rows[z] \subseteq image[z] /\ Cardinality(image[z]) = Cardinality(rows[z]) + pend[z]
      BY DEF InsertRecord, TxInv, InsertTxInv
    <3>2. \A z \in Signals : rows[z] \subseteq image'[z] /\ Cardinality(image'[z]) = Cardinality(rows[z]) + pend'[z]
      <4> SUFFICES ASSUME NEW z \in Signals
                   PROVE  /\ rows[z] \subseteq image'[z]
                          /\ Cardinality(image'[z]) = Cardinality(rows[z]) + pend'[z]
        OBVIOUS
      <4>1. pend[z] \in Nat /\ Cardinality(rows[z]) \in Nat
        BY FiniteTables DEF TablesOK
      <4>2. CASE z = s
        <5>1. rows[s] \subseteq image'[s]
          BY <1>1, <2>5, <3>1
        <5>2. /\ Cardinality(image'[s]) = Cardinality(rows[s]) + pend[s] + RowsAffected(image[s], s, r)
              /\ RowsAffected(image[s], s, r) \in Nat
          BY <1>1, <2>2, <2>5, <3>1
        <5>3. pend[s] \in Nat /\ Cardinality(rows[s]) \in Nat
          BY <4>1, <4>2
        <5>4. Cardinality(image'[s]) = Cardinality(rows[s]) + pend'[s]
          BY <2>5, <5>2, <5>3
        <5>. QED BY <4>2, <5>1, <5>4
      <4>3. CASE z # s
        BY <2>5, <3>1, <4>3
      <4>. QED BY <4>2, <4>3
    <3>. QED BY <1>1, <2>1, <2>5, <3>1, <3>2 DEF InsertTxInv
  <2>7. TxInv'
    BY <1>1, <2>1, <2>6 DEF InsertRecord, TxInv, IdleTxInv, ClearTxInv, CountersMatchRows
  <2>8. LifeInv' /\ HealthInv'
    BY <2>1 DEF LifeInv, StartInv, CloseInv, NoUseAfterClose, OwnedWhileOpen, Done, HealthInv, PassInv,
         FaultNotMasked, HealthAgrees
  <2>. QED BY <2>3, <2>4, <2>7, <2>8
<1>. QED BY <1>2, <1>3

\* The committed rows are those the transaction counted.
LEMMA InsertCommitKeeps ==
  ASSUME IInv, NEW t \in Exporters, InsertCommit(t)
  PROVE  IInv'
<1>0. /\ holder = t /\ job[t] \in Jobs
      /\ \A u \in Threads : u # t => pc[u] \notin Inside
      /\ job[t].batch \subseteq image[job[t].sig]
      /\ \A s \in Signals : /\ rows[s] \subseteq image[s]
                            /\ Cardinality(image[s]) = Cardinality(rows[s]) + pend[s]
  BY DEF InsertCommit, JobInv, TxInv, InsertTxInv
<1>1. FlagsOK'
  BY DEF FlagsOK, InsertCommit
<1>2. ThreadsOK'
  BY DEF InsertCommit
<1>3. TablesOK'
  BY <1>0 DEF TablesOK, InsertCommit
<1>4. LocalsOK'
  BY DEF LocalsOK, InsertCommit
<1>5. MutexInv'
  BY <1>0 DEF JobInv, AnswerInv, InsertCommit
<1>6. TxInv'
  <2>1. CountersMatchRows'
    BY <1>0, FiniteTables DEF InsertCommit, TablesOK, TxInv, CountersMatchRows
  <2>. QED BY <1>0, <2>1 DEF InsertCommit, TxInv, IdleTxInv, InsertTxInv, ClearTxInv
<1>7. LifeInv'
  BY DEF FlagsOK, LifeInv, StartInv, CloseInv, NoUseAfterClose, OwnedWhileOpen, Done,
         InsertCommit
<1>8. HealthInv'
  BY DEF FlagsOK, LocalsOK, LifeInv, StartInv, CloseInv, HealthInv, PassInv, FaultNotMasked,
         HealthAgrees, InsertCommit
<1>. QED BY <1>1, <1>2, <1>3, <1>4, <1>5, <1>6, <1>7, <1>8

\* A failed transaction leaves the tables and the counters alone.
LEMMA TxFailsKeeps ==
  ASSUME IInv, NEW t \in Exporters \cup Clearers, TxFails(t)
  PROVE  IInv'
<1>1. FlagsOK'
  BY DEF FlagsOK, TxFails, Rollback, RecordError
<1>2. ThreadsOK'
  BY DEF TxFails, Rollback, RecordError
<1>3. TablesOK'
  BY DEF TablesOK, TxFails, Rollback, RecordError
<1>4. LocalsOK'
  BY DEF LocalsOK, TxFails, Rollback, RecordError
<1>5. MutexInv'
  BY DEF JobInv, AnswerInv, TxFails, Rollback, RecordError
<1>6. TxInv'
  BY DEF TablesOK, TxInv, IdleTxInv, InsertTxInv, ClearTxInv, CountersMatchRows, TxFails,
         Rollback, RecordError
<1>7. LifeInv'
  BY DEF FlagsOK, LifeInv, StartInv, CloseInv, NoUseAfterClose, OwnedWhileOpen, Done, TxFails,
         Rollback, RecordError
<1>8. HealthInv'
  BY DEF FlagsOK, LocalsOK, LifeInv, StartInv, CloseInv, HealthInv, PassInv, FaultNotMasked,
         HealthAgrees, TxFails, Rollback, RecordError
<1>. QED BY <1>1, <1>2, <1>3, <1>4, <1>5, <1>6, <1>7, <1>8

\* ready falls behind a lastError that is already set.
LEMMA LowerReadyKeeps ==
  ASSUME IInv, NEW t \in Exporters \cup Clearers \cup {Maint}, LowerReady(t)
  PROVE  IInv'
<1>0. pc[t] = "lower" /\ Goto(t, IF t = Maint THEN "mUnlock" ELSE "unlock")
  BY DEF LowerReady
<1>0a. /\ ready' = FALSE /\ unverified' \in BOOLEAN
       /\ UNCHANGED <<phase, db, owned, closing, stopped, lastError>>
  BY DEF FlagsOK, LowerReady
<1>0b. FlagsOK'
  BY <1>0a DEF FlagsOK
<1>0c. TablesOK'
  BY DEF TablesOK, LowerReady
<1>0d. LocalsOK'
  BY DEF LocalsOK, LowerReady
<1>1. FlagsOK' /\ TablesOK' /\ LocalsOK'
  BY <1>0b, <1>0c, <1>0d
<1>2. ThreadsOK'
  BY DEF LowerReady
<1>3. MutexInv'
  BY DEF JobInv, AnswerInv, LowerReady
<1>4. TxInv'
  BY DEF TablesOK, TxInv, IdleTxInv, InsertTxInv, ClearTxInv, CountersMatchRows, LowerReady
<1>5. LifeInv'
  BY DEF FlagsOK, LifeInv, StartInv, CloseInv, NoUseAfterClose, OwnedWhileOpen, Done, LowerReady
<1>6. HealthInv'
  BY DEF FlagsOK, LocalsOK, LifeInv, StartInv, CloseInv, HealthInv, PassInv, FaultNotMasked,
         HealthAgrees, LowerReady
<1>. QED BY <1>1, <1>2, <1>3, <1>4, <1>5, <1>6

-----------------------------------------------------------------------------
(* Clear and Snapshot.                                                      *)

\* A clear or a snapshot goes to the mutex.
LEMMA CallLockedKeeps ==
  ASSUME IInv, NEW t \in Clearers \cup Viewers, CallLocked(t)
  PROVE  IInv'
<1>1. TypeOK'
  BY DEF FlagsOK, TablesOK, LocalsOK, CallLocked
<1>2. MutexInv'
  BY DEF JobInv, AnswerInv, CallLocked
<1>3. TxInv'
  BY DEF TablesOK, TxInv, IdleTxInv, InsertTxInv, ClearTxInv, CountersMatchRows, CallLocked
<1>4. LifeInv'
  BY DEF FlagsOK, LifeInv, StartInv, CloseInv, NoUseAfterClose, OwnedWhileOpen, Done,
         CallLocked
<1>5. HealthInv'
  BY DEF FlagsOK, LocalsOK, LifeInv, StartInv, CloseInv, HealthInv, PassInv, FaultNotMasked,
         HealthAgrees, CallLocked
<1>. QED BY <1>1, <1>2, <1>3, <1>4, <1>5

\* A clear that goes ahead finds the handle open.
LEMMA ClearCheckKeeps ==
  ASSUME IInv, NEW t \in Clearers, ClearCheck(t)
  PROVE  IInv'
<1>1. TypeOK'
  BY DEF FlagsOK, TablesOK, LocalsOK, ClearCheck
<1>2. MutexInv'
  BY DEF JobInv, AnswerInv, ClearCheck
<1>3. TxInv'
  BY DEF TablesOK, TxInv, IdleTxInv, InsertTxInv, ClearTxInv, CountersMatchRows, ClearCheck
<1>4. LifeInv'
  BY DEF FlagsOK, LifeInv, StartInv, CloseInv, NoUseAfterClose, OwnedWhileOpen, Done,
         ClearCheck
<1>5. HealthInv'
  BY DEF FlagsOK, LocalsOK, LifeInv, StartInv, CloseInv, HealthInv, PassInv, FaultNotMasked,
         HealthAgrees, ClearCheck
<1>. QED BY <1>1, <1>2, <1>3, <1>4, <1>5

\* One table is emptied and its rows counted.
LEMMA ClearTableKeeps ==
  ASSUME IInv, NEW t \in Clearers, ClearTable(t)
  PROVE  IInv'
<1>0. /\ First(tables) \in tables /\ holder = t
      /\ \A u \in Threads : u # t => pc[u] \notin Inside
  <2>1. First(tables) \in tables
    BY FirstVisited DEF ClearTable, LocalsOK
  <2>2. pc[t] = "clear"
    BY DEF ClearTable
  <2>. QED BY <2>1, <2>2, OneTransaction
<1>1. FlagsOK'
  BY DEF FlagsOK, ClearTable, Write, First
<1>2. ThreadsOK'
  BY DEF ClearTable, Write, First
<1>3. TablesOK'
  <2>. DEFINE f == First(tables)
  <2>0. f \in Signals
    BY <1>0 DEF LocalsOK
  <2>1. image' = [image EXCEPT ![f] = {}] /\ UNCHANGED <<rows, expired>>
    BY DEF ClearTable, Write
  <2>. HIDE DEF f
  <2>3. /\ image' = [s \in Signals |-> image'[s]] /\ image'[f] = {}
        /\ \A s \in Signals : s # f => image'[s] = image[s]
    <3>1. TablesOK
      OBVIOUS
    <3>. HIDE DEF IInv, Signals
    <3>. QED BY <2>0, <2>1, <3>1, ImageChanged
  <2>2. pend' \in [Signals -> Nat] /\ UNCHANGED <<committed, deleted>>
    BY <1>0, FiniteTables DEF TablesOK, ClearTable, Write
  <2>4. \A s \in Signals : image'[s] \subseteq Records[s]
    BY <2>3 DEF TablesOK
  <2>. QED BY <2>1, <2>2, <2>3, <2>4 DEF TablesOK
<1>4. LocalsOK'
  BY DEF LocalsOK, ClearTable, Write
<1>5. MutexInv'
  BY DEF JobInv, AnswerInv, ClearTable, Write, First
<1>6. TxInv'
  <2>1. ClearTxInv'
    BY <1>0 DEF ClearTable, Write, TablesOK, LocalsOK, TxInv, ClearTxInv
  <2>. QED BY <1>0, <2>1 DEF ClearTable, Write, TxInv, IdleTxInv, InsertTxInv, CountersMatchRows
<1>7. LifeInv'
  BY DEF FlagsOK, LifeInv, StartInv, CloseInv, NoUseAfterClose, OwnedWhileOpen, Done,
         ClearTable, Write, First
<1>8. HealthInv'
  BY DEF FlagsOK, LocalsOK, LifeInv, StartInv, CloseInv, HealthInv, PassInv, FaultNotMasked,
         HealthAgrees, ClearTable, Write, First
<1>. QED BY <1>1, <1>2, <1>3, <1>4, <1>5, <1>6, <1>7, <1>8

\* The committed clear empties exactly what it counted.
LEMMA ClearCommitKeeps ==
  ASSUME IInv, NEW t \in Clearers, ClearCommit(t)
  PROVE  IInv'
<1>1. TypeOK'
  BY DEF FlagsOK, TablesOK, LocalsOK, ClearCommit
<1>2. MutexInv'
  BY DEF JobInv, AnswerInv, ClearCommit
<1>3. TxInv'
  <2>1. /\ holder = t
        /\ \A u \in Threads : u # t => pc[u] \notin Inside
        /\ \A s \in Signals : image[s] = {} /\ pend[s] = Cardinality(rows[s])
    BY DEF ClearCommit, TxInv, ClearTxInv
  <2>2. CountersMatchRows'
    BY <2>1, FiniteTables, FS_EmptySet DEF ClearCommit, TablesOK, TxInv, CountersMatchRows
  <2>. QED BY <2>1, <2>2 DEF ClearCommit, TxInv, IdleTxInv, InsertTxInv, ClearTxInv
<1>4. LifeInv'
  BY DEF FlagsOK, LifeInv, StartInv, CloseInv, NoUseAfterClose, OwnedWhileOpen, Done,
         ClearCommit
<1>5. HealthInv'
  BY DEF FlagsOK, LocalsOK, LifeInv, StartInv, CloseInv, HealthInv, PassInv, FaultNotMasked,
         HealthAgrees, ClearCommit
<1>. QED BY <1>1, <1>2, <1>3, <1>4, <1>5

\* A snapshot changes nothing.
LEMMA ViewKeeps ==
  ASSUME IInv, NEW t \in Viewers, View(t)
  PROVE  IInv'
<1>1. TypeOK'
  BY DEF FlagsOK, TablesOK, LocalsOK, View
<1>2. MutexInv'
  BY DEF JobInv, AnswerInv, View
<1>3. TxInv'
  BY DEF TablesOK, TxInv, IdleTxInv, InsertTxInv, ClearTxInv, CountersMatchRows, View
<1>4. LifeInv'
  BY DEF FlagsOK, LifeInv, StartInv, CloseInv, NoUseAfterClose, OwnedWhileOpen, Done, View
<1>5. HealthInv'
  BY DEF FlagsOK, LocalsOK, LifeInv, StartInv, CloseInv, HealthInv, PassInv, FaultNotMasked,
         HealthAgrees, View
<1>. QED BY <1>1, <1>2, <1>3, <1>4, <1>5

-----------------------------------------------------------------------------
(* Maintenance.                                                             *)

\* A new pass begins.
LEMMA TickKeeps ==
  ASSUME IInv, Tick
  PROVE  IInv'
<1>1. TypeOK'
  BY DEF FlagsOK, TablesOK, LocalsOK, Tick
<1>2. MutexInv'
  BY DEF JobInv, AnswerInv, Tick
<1>3. TxInv'
  BY DEF TablesOK, TxInv, IdleTxInv, InsertTxInv, ClearTxInv, CountersMatchRows, Tick
<1>4. LifeInv'
  BY DEF FlagsOK, LifeInv, StartInv, CloseInv, NoUseAfterClose, OwnedWhileOpen, Done, Tick
<1>5. HealthInv'
  BY DEF FlagsOK, LocalsOK, LifeInv, StartInv, CloseInv, HealthInv, PassInv, FaultNotMasked,
         HealthAgrees, Tick
<1>. QED BY <1>1, <1>2, <1>3, <1>4, <1>5

\* The pass runs out of time.
LEMMA TimeoutKeeps ==
  ASSUME IInv, Timeout
  PROVE  IInv'
<1>1. TypeOK'
  BY DEF FlagsOK, TablesOK, LocalsOK, Timeout
<1>2. MutexInv'
  BY DEF JobInv, AnswerInv, Timeout
<1>3. TxInv'
  BY DEF TablesOK, TxInv, IdleTxInv, InsertTxInv, ClearTxInv, CountersMatchRows, Timeout
<1>4. LifeInv'
  BY DEF FlagsOK, LifeInv, StartInv, CloseInv, NoUseAfterClose, OwnedWhileOpen, Done, Timeout
<1>5. HealthInv'
  BY DEF FlagsOK, LocalsOK, LifeInv, StartInv, CloseInv, HealthInv, PassInv, FaultNotMasked,
         HealthAgrees, Timeout
<1>. QED BY <1>1, <1>2, <1>3, <1>4, <1>5

\* The loop ends on the stop channel.
LEMMA StopLoopKeeps ==
  ASSUME IInv, StopLoop
  PROVE  IInv'
<1>1. TypeOK'
  BY DEF FlagsOK, TablesOK, LocalsOK, StopLoop
<1>2. MutexInv'
  BY DEF JobInv, AnswerInv, StopLoop
<1>3. TxInv'
  BY DEF TablesOK, TxInv, IdleTxInv, InsertTxInv, ClearTxInv, CountersMatchRows, StopLoop
<1>4. LifeInv'
  BY DEF FlagsOK, LifeInv, StartInv, CloseInv, NoUseAfterClose, OwnedWhileOpen, Done, StopLoop
<1>5. HealthInv'
  BY DEF FlagsOK, LocalsOK, LifeInv, StartInv, CloseInv, HealthInv, PassInv, FaultNotMasked,
         HealthAgrees, StopLoop
<1>. QED BY <1>1, <1>2, <1>3, <1>4, <1>5

\* A pass that goes ahead finds the handle open.
LEMMA MaintainOpenKeeps ==
  ASSUME IInv, MaintainOpen
  PROVE  IInv'
<1>1. TypeOK'
  BY DEF FlagsOK, TablesOK, LocalsOK, MaintainOpen, Conclude
<1>2. MutexInv'
  BY DEF JobInv, AnswerInv, MaintainOpen, Conclude
<1>3. TxInv'
  BY DEF TablesOK, TxInv, IdleTxInv, InsertTxInv, ClearTxInv, CountersMatchRows, MaintainOpen,
         Conclude
<1>4. LifeInv'
  BY DEF FlagsOK, LifeInv, StartInv, CloseInv, NoUseAfterClose, OwnedWhileOpen, Done,
         MaintainOpen, Conclude
<1>5. HealthInv'
  BY DEF FlagsOK, LocalsOK, LifeInv, StartInv, CloseInv, HealthInv, PassInv, FaultNotMasked,
         HealthAgrees, MaintainOpen, Conclude
<1>. QED BY <1>1, <1>2, <1>3, <1>4, <1>5

\* A retention round deletes and counts expired rows.
LEMMA RetainKeeps ==
  ASSUME IInv, Retain
  PROVE  IInv'
<1>0. TablesOK' /\ CountersMatchRows' /\ image' = rows' /\ pend' = pend /\ pend = Zero
  <2>1. image = rows /\ pend = Zero
    BY DEF Retain, TxInv, IdleTxInv
  <2>2. PICK D \in SUBSET expired[First(tables)] :
          DeleteRows([z \in Signals |-> IF z = First(tables) THEN D ELSE {}])
    BY DEF Retain
  <2>3. \A s \in Signals : [z \in Signals |-> IF z = First(tables) THEN D ELSE {}][s] \subseteq rows[s]
    BY DEF TablesOK
  <2>. QED BY <2>1, <2>2, <2>3, DeleteRowsKeeps
<1>1. FlagsOK'
  BY DEF FlagsOK, Retain, DeleteRows, CountDeleted, AtMostRound, First
<1>2. ThreadsOK'
  BY DEF Retain, DeleteRows, CountDeleted, AtMostRound, First
<1>3. TablesOK'
  BY <1>0
<1>4. LocalsOK'
  BY DEF LocalsOK, Retain, DeleteRows, First
<1>5. MutexInv'
  BY DEF JobInv, AnswerInv, Retain, DeleteRows, CountDeleted, AtMostRound, First
<1>6. TxInv'
  BY <1>0 DEF Retain, TxInv, IdleTxInv, InsertTxInv, ClearTxInv
<1>7. LifeInv'
  BY DEF FlagsOK, LifeInv, StartInv, CloseInv, NoUseAfterClose, OwnedWhileOpen, Done, Retain,
         DeleteRows, CountDeleted, AtMostRound, First
<1>8. HealthInv'
  BY DEF FlagsOK, LocalsOK, LifeInv, StartInv, CloseInv, HealthInv, PassInv, FaultNotMasked,
         HealthAgrees, Retain, DeleteRows, CountDeleted, AtMostRound, First
<1>. QED BY <1>1, <1>2, <1>3, <1>4, <1>5, <1>6, <1>7, <1>8

\* The pressure loop goes on only while iterations are left.
LEMMA PressureKeeps ==
  ASSUME IInv, Pressure
  PROVE  IInv'
<1>1. TypeOK'
  BY DEF FlagsOK, TablesOK, LocalsOK, Pressure, Conclude, IteratedEnough
<1>2. MutexInv'
  BY DEF JobInv, AnswerInv, Pressure, Conclude, IteratedEnough
<1>3. TxInv'
  BY DEF TablesOK, TxInv, IdleTxInv, InsertTxInv, ClearTxInv, CountersMatchRows, Pressure,
         Conclude, IteratedEnough
<1>4. LifeInv'
  BY DEF FlagsOK, LifeInv, StartInv, CloseInv, NoUseAfterClose, OwnedWhileOpen, Done, Pressure,
         Conclude, IteratedEnough
<1>5. HealthInv'
  BY DEF FlagsOK, LocalsOK, LifeInv, StartInv, CloseInv, HealthInv, PassInv, FaultNotMasked,
         HealthAgrees, Pressure, Conclude, IteratedEnough
<1>. QED BY <1>1, <1>2, <1>3, <1>4, <1>5

\* An eviction deletes and counts rows.
LEMMA EvictKeeps ==
  ASSUME IInv, Evict
  PROVE  IInv'
<1>0. TablesOK' /\ CountersMatchRows' /\ image' = rows' /\ pend' = pend /\ pend = Zero
  <2>1. image = rows /\ pend = Zero
    BY DEF Evict, TxInv, IdleTxInv
  <2>2. CASE UNCHANGED <<stored, image, pend, work>>
    BY <2>1, <2>2 DEF TablesOK, TxInv, CountersMatchRows
  <2>3. CASE \E D \in EvictionBatches : DeleteRows(D)
    BY <2>1, <2>3, DeleteRowsKeeps DEF EvictionBatches
  <2>. QED BY <2>2, <2>3 DEF Evict
<1>a. \A s \in Signals : UNCHANGED <<committed, work>>
  BY DEF Evict, DeleteRows
<1>1. FlagsOK'
  BY DEF FlagsOK, Evict
<1>2. ThreadsOK'
  BY DEF Evict, Conclude
<1>3. TablesOK'
  BY <1>0
<1>4. LocalsOK'
  <2>1. pressure' \in 0 .. MaxPressure
    <3>1. pressure' = pressure \/ pressure' = pressure + 1
      BY DEF Evict, Conclude
    <3>2. pressure \in 0 .. MaxPressure /\ pressure < MaxPressure
      BY DEF LocalsOK, HealthInv, PassInv, Evict
    <3>. QED BY <3>1, <3>2
  <2>. QED BY <1>a, <2>1 DEF LocalsOK, Evict, Conclude
<1>5. MutexInv'
  BY DEF JobInv, AnswerInv, Evict, Conclude
<1>6. TxInv'
  BY <1>0 DEF Evict, Conclude, TxInv, IdleTxInv, InsertTxInv, ClearTxInv
<1>7. LifeInv'
  BY DEF FlagsOK, LifeInv, StartInv, CloseInv, NoUseAfterClose, OwnedWhileOpen, Done, Evict,
         Conclude, DeleteRows, CountDeleted, EvictionBatches
<1>8. HealthInv'
  BY DEF FlagsOK, LocalsOK, LifeInv, StartInv, CloseInv, HealthInv, PassInv, FaultNotMasked,
         HealthAgrees, Evict, Conclude, DeleteRows, CountDeleted, EvictionBatches
<1>. QED BY <1>1, <1>2, <1>3, <1>4, <1>5, <1>6, <1>7, <1>8

\* A failing pass has only its result to publish.
LEMMA MaintainFailsKeeps ==
  ASSUME IInv, MaintainFails
  PROVE  IInv'
<1>1. TypeOK'
  BY DEF FlagsOK, TablesOK, LocalsOK, MaintainFails, Conclude
<1>2. MutexInv'
  BY DEF JobInv, AnswerInv, MaintainFails, Conclude
<1>3. TxInv'
  BY DEF TablesOK, TxInv, IdleTxInv, InsertTxInv, ClearTxInv, CountersMatchRows, MaintainFails,
         Conclude
<1>4. LifeInv'
  BY DEF FlagsOK, LifeInv, StartInv, CloseInv, NoUseAfterClose, OwnedWhileOpen, Done,
         MaintainFails, Conclude
<1>5. HealthInv'
  BY DEF FlagsOK, LocalsOK, LifeInv, StartInv, CloseInv, HealthInv, PassInv, FaultNotMasked,
         HealthAgrees, MaintainFails, Conclude
<1>. QED BY <1>1, <1>2, <1>3, <1>4, <1>5

\* A result is published while the writer is still held.
LEMMA PublishKeeps ==
  ASSUME IInv, Publish
  PROVE  IInv'
<1>1. FlagsOK'
  BY DEF FlagsOK, Publish, RecordError, ForgetError
<1>2. ThreadsOK'
  BY DEF Publish, RecordError, ForgetError
<1>3. TablesOK'
  BY DEF TablesOK, Publish, RecordError, ForgetError
<1>4. LocalsOK'
  BY DEF LocalsOK, Publish, RecordError, ForgetError
<1>5. MutexInv'
  BY DEF JobInv, AnswerInv, Publish, RecordError, ForgetError
<1>6. TxInv'
  BY DEF TablesOK, TxInv, IdleTxInv, InsertTxInv, ClearTxInv, CountersMatchRows, Publish,
         RecordError, ForgetError
<1>7. LifeInv'
  BY DEF FlagsOK, LifeInv, StartInv, CloseInv, NoUseAfterClose, OwnedWhileOpen, Done, Publish,
         RecordError, ForgetError
<1>8. HealthInv'
  BY DEF FlagsOK, LocalsOK, LifeInv, StartInv, CloseInv, HealthInv, PassInv, FaultNotMasked,
         HealthAgrees, Publish, RecordError, ForgetError
<1>. QED BY <1>1, <1>2, <1>3, <1>4, <1>5, <1>6, <1>7, <1>8

\* ready is raised only when no failure is unverified.
LEMMA RaiseKeeps ==
  ASSUME IInv, Raise
  PROVE  IInv'
<1>1. TypeOK'
  BY DEF FlagsOK, TablesOK, LocalsOK, Raise, RaiseReady
<1>2. MutexInv'
  BY DEF JobInv, AnswerInv, Raise, RaiseReady
<1>3. TxInv'
  BY DEF TablesOK, TxInv, IdleTxInv, InsertTxInv, ClearTxInv, CountersMatchRows, Raise,
         RaiseReady
<1>4. LifeInv'
  BY DEF FlagsOK, LifeInv, StartInv, CloseInv, NoUseAfterClose, OwnedWhileOpen, Done, Raise,
         RaiseReady
<1>5. HealthInv'
  BY DEF FlagsOK, LocalsOK, LifeInv, StartInv, CloseInv, HealthInv, PassInv, FaultNotMasked,
         HealthAgrees, Raise, RaiseReady
<1>. QED BY <1>1, <1>2, <1>3, <1>4, <1>5

\* The pass ends and the loop goes on or exits.
LEMMA MaintainUnlockKeeps ==
  ASSUME IInv, MaintainUnlock
  PROVE  IInv'
<1>1. FlagsOK'
  BY DEF FlagsOK, MaintainUnlock, NextTick
<1>2. ThreadsOK'
  BY DEF MaintainUnlock, NextTick
<1>3. TablesOK'
  BY DEF TablesOK, MaintainUnlock, NextTick
<1>4. LocalsOK'
  <2>1. pressure' \in 0 .. MaxPressure
    BY DEF MaintainUnlock, NextTick
  <2>. QED BY <2>1 DEF LocalsOK, MaintainUnlock, NextTick
<1>5. MutexInv'
  BY DEF JobInv, AnswerInv, MaintainUnlock, NextTick
<1>6. TxInv'
  BY DEF TablesOK, TxInv, IdleTxInv, InsertTxInv, ClearTxInv, CountersMatchRows,
         MaintainUnlock, NextTick
<1>7. LifeInv'
  BY DEF FlagsOK, LifeInv, StartInv, CloseInv, NoUseAfterClose, OwnedWhileOpen, Done,
         MaintainUnlock, NextTick
<1>8. HealthInv'
  BY DEF FlagsOK, LocalsOK, LifeInv, StartInv, CloseInv, HealthInv, PassInv, FaultNotMasked,
         HealthAgrees, MaintainUnlock, NextTick
<1>. QED BY <1>1, <1>2, <1>3, <1>4, <1>5, <1>6, <1>7, <1>8

-----------------------------------------------------------------------------
(* Shutdown and the environment.                                            *)

\* closing comes before everything else.
LEMMA ShutdownKeeps ==
  ASSUME IInv, NEW t \in Closers, Shutdown(t)
  PROVE  IInv'
<1>1. TypeOK'
  BY DEF FlagsOK, TablesOK, LocalsOK, Shutdown
<1>2. MutexInv'
  BY DEF JobInv, AnswerInv, Shutdown
<1>3. TxInv'
  BY DEF TablesOK, TxInv, IdleTxInv, InsertTxInv, ClearTxInv, CountersMatchRows, Shutdown
<1>4. LifeInv'
  BY DEF FlagsOK, LifeInv, StartInv, CloseInv, NoUseAfterClose, OwnedWhileOpen, Done, Shutdown
<1>5. HealthInv'
  BY DEF FlagsOK, LocalsOK, LifeInv, StartInv, CloseInv, HealthInv, PassInv, FaultNotMasked,
         HealthAgrees, Shutdown
<1>. QED BY <1>1, <1>2, <1>3, <1>4, <1>5

\* ready is lowered under closing.
LEMMA ShutdownUnreadyKeeps ==
  ASSUME IInv, NEW t \in Closers, ShutdownUnready(t)
  PROVE  IInv'
<1>1. FlagsOK'
  BY DEF FlagsOK, ShutdownUnready
<1>2. ThreadsOK'
  BY DEF ShutdownUnready
<1>3. TablesOK'
  BY DEF TablesOK, ShutdownUnready
<1>4. LocalsOK'
  BY DEF LocalsOK, ShutdownUnready
<1>5. MutexInv'
  BY DEF JobInv, AnswerInv, ShutdownUnready
<1>6. TxInv'
  BY DEF TablesOK, TxInv, IdleTxInv, InsertTxInv, ClearTxInv, CountersMatchRows,
         ShutdownUnready
<1>7. LifeInv'
  BY DEF FlagsOK, LifeInv, StartInv, CloseInv, NoUseAfterClose, OwnedWhileOpen, Done,
         ShutdownUnready
<1>8. HealthInv'
  BY DEF FlagsOK, LocalsOK, LifeInv, StartInv, CloseInv, HealthInv, PassInv, FaultNotMasked,
         HealthAgrees, ShutdownUnready
<1>. QED BY <1>1, <1>2, <1>3, <1>4, <1>5, <1>6, <1>7, <1>8

\* The maintenance goroutine is told to stop.
LEMMA ShutdownOnceKeeps ==
  ASSUME IInv, NEW t \in Closers, ShutdownOnce(t)
  PROVE  IInv'
<1>1. TypeOK'
  <2>1. stopped' \in BOOLEAN /\ ctx' \in [Callers \cup {Maint} -> BOOLEAN]
    <3>1. CASE stopped
      BY <3>1 DEF FlagsOK, ShutdownOnce, StopMaintenance
    <3>2. CASE ~stopped
      <4>1. stopped' = TRUE /\ ctx' = [ctx EXCEPT ![Maint] = TRUE]
        BY <3>2 DEF ShutdownOnce, StopMaintenance
      <4>2. ctx \in [Callers \cup {Maint} -> BOOLEAN]
        OBVIOUS
      <4>. QED BY ONLY <4>1, <4>2
    <3>. QED BY <3>1, <3>2
  <2>. QED BY <2>1 DEF FlagsOK, TablesOK, LocalsOK, ShutdownOnce
<1>2. MutexInv'
  BY DEF JobInv, AnswerInv, ShutdownOnce, StopMaintenance
<1>3. TxInv'
  BY DEF TablesOK, TxInv, IdleTxInv, InsertTxInv, ClearTxInv, CountersMatchRows, ShutdownOnce,
         StopMaintenance
<1>4. LifeInv'
  BY DEF FlagsOK, LifeInv, StartInv, CloseInv, NoUseAfterClose, OwnedWhileOpen, Done,
         ShutdownOnce, StopMaintenance
<1>5. HealthInv'
  BY DEF FlagsOK, LocalsOK, LifeInv, StartInv, CloseInv, HealthInv, PassInv, FaultNotMasked,
         HealthAgrees, ShutdownOnce, StopMaintenance
<1>. QED BY <1>1, <1>2, <1>3, <1>4, <1>5

\* Shutdown goes on once the goroutine has exited.
LEMMA ShutdownWaitKeeps ==
  ASSUME IInv, NEW t \in Closers, ShutdownWait(t)
  PROVE  IInv'
<1>1. TypeOK'
  BY DEF FlagsOK, TablesOK, LocalsOK, ShutdownWait
<1>2. MutexInv'
  BY DEF JobInv, AnswerInv, ShutdownWait
<1>3. TxInv'
  BY DEF TablesOK, TxInv, IdleTxInv, InsertTxInv, ClearTxInv, CountersMatchRows, ShutdownWait
<1>4. LifeInv'
  BY DEF FlagsOK, LifeInv, StartInv, CloseInv, NoUseAfterClose, OwnedWhileOpen, Done,
         ShutdownWait
<1>5. HealthInv'
  BY DEF FlagsOK, LocalsOK, LifeInv, StartInv, CloseInv, HealthInv, PassInv, FaultNotMasked,
         HealthAgrees, ShutdownWait
<1>. QED BY <1>1, <1>2, <1>3, <1>4, <1>5

\* The handle is closed by the goroutine that holds the mutex.
LEMMA ShutdownCloseKeeps ==
  ASSUME IInv, NEW t \in Closers, ShutdownClose(t)
  PROVE  IInv'
<1>1. FlagsOK'
  BY DEF FlagsOK, ShutdownClose, CloseHandle
<1>2. ThreadsOK'
  BY DEF ShutdownClose, CloseHandle
<1>3. TablesOK'
  BY DEF TablesOK, ShutdownClose, CloseHandle
<1>4. LocalsOK'
  BY DEF LocalsOK, ShutdownClose, CloseHandle
<1>5. MutexInv'
  BY DEF JobInv, AnswerInv, ShutdownClose, CloseHandle
<1>6. TxInv'
  BY DEF TablesOK, TxInv, IdleTxInv, InsertTxInv, ClearTxInv, CountersMatchRows, ShutdownClose,
         CloseHandle
<1>7. LifeInv'
  BY DEF FlagsOK, LifeInv, StartInv, CloseInv, NoUseAfterClose, OwnedWhileOpen, Done,
         ShutdownClose, CloseHandle
<1>8. HealthInv'
  BY DEF FlagsOK, LocalsOK, LifeInv, StartInv, CloseInv, HealthInv, PassInv, FaultNotMasked,
         HealthAgrees, ShutdownClose, CloseHandle
<1>. QED BY <1>1, <1>2, <1>3, <1>4, <1>5, <1>6, <1>7, <1>8

\* The ownership lock goes after the handle.
LEMMA ShutdownReleaseKeeps ==
  ASSUME IInv, NEW t \in Closers, ShutdownRelease(t)
  PROVE  IInv'
<1>1. FlagsOK'
  BY DEF FlagsOK, ShutdownRelease
<1>2. ThreadsOK'
  BY DEF ShutdownRelease
<1>3. TablesOK'
  BY DEF TablesOK, ShutdownRelease
<1>4. LocalsOK'
  BY DEF LocalsOK, ShutdownRelease
<1>5. MutexInv'
  BY DEF JobInv, AnswerInv, ShutdownRelease
<1>6. TxInv'
  BY DEF TablesOK, TxInv, IdleTxInv, InsertTxInv, ClearTxInv, CountersMatchRows,
         ShutdownRelease
<1>7. LifeInv'
  BY DEF FlagsOK, LifeInv, StartInv, CloseInv, NoUseAfterClose, OwnedWhileOpen, Done,
         ShutdownRelease
<1>8. HealthInv'
  BY DEF FlagsOK, LocalsOK, LifeInv, StartInv, CloseInv, HealthInv, PassInv, FaultNotMasked,
         HealthAgrees, ShutdownRelease
<1>. QED BY <1>1, <1>2, <1>3, <1>4, <1>5, <1>6, <1>7, <1>8

\* Rows expire where they are.
LEMMA AgeKeeps ==
  ASSUME IInv, NEW s \in Signals, NEW r \in Records[s], Age(s, r)
  PROVE  IInv'
<1>1. FlagsOK'
  BY DEF FlagsOK, Age
<1>2. ThreadsOK'
  BY DEF Age
<1>3. TablesOK'
  <2>1. /\ expired' = [expired EXCEPT ![s] = expired[s] \cup {r}]
        /\ UNCHANGED <<rows, image, pend, committed, deleted>>
    BY DEF Age
  <2>2. /\ expired' = [q \in Signals |-> expired'[q]] /\ expired'[s] = expired[s] \cup {r}
        /\ \A q \in Signals : q # s => expired'[q] = expired[q]
    <3>1. TablesOK
      OBVIOUS
    <3>. HIDE DEF IInv, Signals
    <3>. QED BY <2>1, <3>1, ExpiredChanged
  <2>3. \A q \in Signals : expired'[q] \subseteq rows[q]
    BY <2>2 DEF TablesOK, Age
  <2>. QED BY <2>1, <2>2, <2>3 DEF TablesOK
<1>4. LocalsOK'
  BY DEF LocalsOK, Age
<1>5. MutexInv'
  BY DEF JobInv, AnswerInv, Age
<1>6. TxInv'
  BY DEF TablesOK, TxInv, IdleTxInv, InsertTxInv, ClearTxInv, CountersMatchRows, Age
<1>7. LifeInv'
  BY DEF FlagsOK, LifeInv, StartInv, CloseInv, NoUseAfterClose, OwnedWhileOpen, Done, Age
<1>8. HealthInv'
  BY DEF FlagsOK, LocalsOK, LifeInv, StartInv, CloseInv, HealthInv, PassInv, FaultNotMasked,
         HealthAgrees, Age
<1>. QED BY <1>1, <1>2, <1>3, <1>4, <1>5, <1>6, <1>7, <1>8

\* The disk is not the invariant's business.
LEMMA DiskChangesKeeps ==
  ASSUME IInv, DiskChanges
  PROVE  IInv'
<1>1. TypeOK'
  BY DEF FlagsOK, TablesOK, LocalsOK, DiskChanges
<1>2. MutexInv'
  BY DEF JobInv, AnswerInv, DiskChanges
<1>3. TxInv'
  BY DEF TablesOK, TxInv, IdleTxInv, InsertTxInv, ClearTxInv, CountersMatchRows, DiskChanges
<1>4. LifeInv'
  BY DEF FlagsOK, LifeInv, StartInv, CloseInv, NoUseAfterClose, OwnedWhileOpen, Done,
         DiskChanges
<1>5. HealthInv'
  BY DEF FlagsOK, LocalsOK, LifeInv, StartInv, CloseInv, HealthInv, PassInv, FaultNotMasked,
         HealthAgrees, DiskChanges
<1>. QED BY <1>1, <1>2, <1>3, <1>4, <1>5

-----------------------------------------------------------------------------
(* The invariant, and what follows from it.                                 *)

\* The state before Start.
LEMMA InitEstablishes ==
  ASSUME Init
  PROVE  IInv
<1>1. FlagsOK /\ LocalsOK
  <2>1. 0 \in 0 .. MaxPressure /\ 0 \in 0 .. MaxCalls /\ 0 \in 0 .. MaxFaults
    OBVIOUS
  <2>. QED BY <2>1 DEF Init, FlagsOK, LocalsOK
<1>2. ThreadsOK
  BY DEF Init
<1>3. TablesOK
  BY RecordsAssumption, InitialRowsAssumption DEF Init, TablesOK
<1>4. MutexInv
  BY DEF Init, JobInv, AnswerInv
<1>5. TxInv
  <2>1. CountersMatchRows
    <3> SUFFICES ASSUME NEW s \in Signals
                 PROVE  Cardinality(InitialRows[s]) = Cardinality(InitialRows[s]) + 0 - 0
      BY DEF Init, CountersMatchRows
    <3>1. IsFiniteSet(InitialRows[s])
      BY RecordsAssumption, FS_Subset
    <3>. QED BY <3>1, FS_CardinalityType
  <2>. QED BY <2>1 DEF Init, TxInv, IdleTxInv, InsertTxInv, ClearTxInv
<1>6. LifeInv
  BY DEF Init, LifeInv, StartInv, CloseInv, NoUseAfterClose, OwnedWhileOpen
<1>7. HealthInv
  BY DEF Init, HealthInv, PassInv, FaultNotMasked, HealthAgrees
<1>. QED BY <1>1, <1>2, <1>3, <1>4, <1>5, <1>6, <1>7

\* A step that changes nothing keeps the invariant.
LEMMA StutterKeeps ==
  ASSUME IInv, UNCHANGED vars
  PROVE  IInv'
<1>1. TypeOK'
  BY DEF FlagsOK, TablesOK, LocalsOK
<1>2. MutexInv'
  BY DEF JobInv, AnswerInv
<1>3. TxInv'
  BY DEF TxInv, IdleTxInv, InsertTxInv, ClearTxInv, CountersMatchRows
<1>4. LifeInv'
  BY DEF LifeInv, StartInv, CloseInv, NoUseAfterClose, OwnedWhileOpen, Done
<1>5. HealthInv'
  BY DEF HealthInv, PassInv, FaultNotMasked, HealthAgrees
<1>. QED BY <1>1, <1>2, <1>3, <1>4, <1>5

\* No step of any goroutine or of the environment breaks the invariant.
LEMMA NextKeeps ==
  ASSUME IInv, [Next]_vars
  PROVE  IInv'
<1> USE DEF Next
<1>1. CASE Start
  BY <1>1, StartKeeps
<1>2. CASE \E t \in Exporters, s \in Signals : \E b \in SUBSET Records[s] : Insert(t, s, b)
  BY <1>2, InsertKeeps
<1>3. CASE \E t \in Clearers \cup Viewers : CallLocked(t)
  BY <1>3, CallLockedKeeps
<1>4. CASE \E t \in Exporters : InsertStep(t)
  BY <1>4, InsertCheckKeeps, AdmitKeeps, InsertCommitKeeps, TxFailsKeeps, InsertRecordKeeps,
     LowerReadyKeeps DEF InsertStep
<1>5. CASE \E t \in Clearers : ClearStep(t)
  BY <1>5, ClearCheckKeeps, ClearTableKeeps, ClearCommitKeeps, TxFailsKeeps, LowerReadyKeeps
     DEF ClearStep
<1>6. CASE \E t \in Viewers : View(t)
  BY <1>6, ViewKeeps
<1>7. CASE \E t \in Callers : Return(t) \/ Cancel(t)
  BY <1>7, ReturnKeeps, CancelKeeps
<1>8. CASE \E t \in Threads : Acquire(t)
  BY <1>8, AcquireKeeps
<1>9. CASE \E t \in Callers \cup {Maint} : LockAbort(t) \/ RecheckAbort(t)
  BY <1>9, LockAbortKeeps, RecheckAbortKeeps
<1>10. CASE MaintainStep \/ Timeout
  BY <1>10, TickKeeps, StopLoopKeeps, MaintainOpenKeeps, RetainKeeps, PressureKeeps, EvictKeeps,
     MaintainFailsKeeps, PublishKeeps, RaiseKeeps, MaintainUnlockKeeps, TimeoutKeeps,
     LowerReadyKeeps DEF MaintainStep
<1>11. CASE \E t \in Closers : Shutdown(t) \/ ShutdownStep(t)
  BY <1>11, ShutdownKeeps, ShutdownUnreadyKeeps, ShutdownOnceKeeps, ShutdownWaitKeeps,
     ShutdownCloseKeeps, ShutdownReleaseKeeps DEF ShutdownStep
<1>12. CASE \E s \in Signals : \E r \in Records[s] : Age(s, r)
  BY <1>12, AgeKeeps
<1>13. CASE DiskChanges
  BY <1>13, DiskChangesKeeps
<1>14. CASE Terminated \/ UNCHANGED vars
  BY <1>14, StutterKeeps DEF Terminated
<1>. QED BY <1>1, <1>2, <1>3, <1>4, <1>5, <1>6, <1>7, <1>8, <1>9, <1>10, <1>11, <1>12, <1>13, <1>14

\* Every reachable state of the store satisfies the inductive invariant.
THEOREM Invariance == Spec => []IInv
<1>1. Init => IInv
  BY InitEstablishes
<1>2. IInv /\ [Next]_vars => IInv'
  BY NextKeeps
<1>. QED BY <1>1, <1>2, PTL DEF Spec

\* TypeOK: every variable keeps its type.
THEOREM TypeCorrect == Spec => []TypeOK
<1>1. IInv => TypeOK
  BY DEF IInv
<1>. QED BY <1>1, Invariance, PTL

\* No goroutine runs SQL on a handle that Shutdown has closed, and the process
\* owns the database file as long as the handle is open.
THEOREM HandleSafety == Spec => [](NoUseAfterClose /\ OwnedWhileOpen)
<1>1. IInv => NoUseAfterClose /\ OwnedWhileOpen
  BY DEF LifeInv
<1>. QED BY <1>1, Invariance, PTL

\* Once a Shutdown has returned, nothing of the store is left running or open.
THEOREM ShutdownFinality == Spec => []ShutdownIsFinal
<1>1. ASSUME IInv PROVE ShutdownIsFinal
  <2> SUFFICES ASSUME NEW t \in Closers, pc[t] = "done"
               PROVE  pc[Maint] \in {"idle", "exited"} /\ ~db /\ ~owned /\ image = rows
    BY DEF ShutdownIsFinal
  <2>1. Done /\ ~db /\ ~owned
    BY <1>1 DEF LifeInv, CloseInv
  <2>2. pc[Maint] \in {"idle", "exited"}
    BY <1>1, <2>1 DEF Done, LifeInv, StartInv
  <2>3. \A u \in Threads : pc[u] \notin InTx
    BY <1>1, <2>1 DEF LifeInv, NoUseAfterClose
  <2>. QED BY <1>1, <2>1, <2>2, <2>3 DEF TxInv, IdleTxInv
<1>. QED BY <1>1, Invariance, PTL

\* The lifetime counters account for every row of every table.
THEOREM CountersAreExact == Spec => []CountersMatchRows
<1>1. IInv => CountersMatchRows
  BY DEF TxInv
<1>. QED BY <1>1, Invariance, PTL

\* An acknowledged export is in its table, record by record, at the moment the
\* call returns.
THEOREM AcknowledgedIsStored == Spec => []AckMeansStored
<1>1. IInv => AckMeansStored
  BY DEF AnswerInv, AckMeansStored
<1>. QED BY <1>1, Invariance, PTL

\* No maintenance pass masks a storage failure that was recorded after it began,
\* and ready and lastError agree while the store runs, except between the two
\* stores of the goroutine that is changing both.
THEOREM HealthIsHonest == Spec => [](FaultNotMasked /\ HealthAgrees)
<1>1. IInv => FaultNotMasked /\ HealthAgrees
  BY DEF HealthInv
<1>. QED BY <1>1, Invariance, PTL

-----------------------------------------------------------------------------
(* The refinement of Telemetry.  First, TelemetryInv is invariant too.       *)

\* A request that an exporter has in hand is not the absence of one.
LEMMA JobIsSome ==
  ASSUME NEW j \in Jobs
  PROVE  j # Null /\ j.sig \in Signals /\ j.batch \subseteq Records[j.sig]
<1>1. PICK s \in Signals : j \in [sig : {s}, batch : SUBSET Records[s]]
  BY DEF Jobs
<1>2. j = [sig |-> s, batch |-> j.batch] /\ j.batch \in SUBSET Records[s]
  BY <1>1
<1>. QED BY <1>2, RecordsAssumption

\* A step that leaves the calls of exporters and clearers, and the tables, as
\* they are is invisible to them.
LEMMA Invisible ==
  ASSUME IInv, TelemetryInv, UNCHANGED <<job, rows, image, work>>,
         \A c \in Exporters \cup Clearers : pc'[c] = pc[c] /\ answer'[c] = answer[c]
  PROVE  TelemetryInv' /\ Wanted' = Wanted /\ Told' = Told
<1>1. CallInv'
  BY DEF TelemetryInv, CallInv
<1>2. BatchInv'
  BY DEF TelemetryInv, BatchInv
<1>3. Wanted' = Wanted /\ Told' = Told
  BY DEF Wanted, Told
<1>. QED BY <1>1, <1>2, <1>3 DEF TelemetryInv

\* Whatever else happens, a step that touches neither the calls nor the open
\* transaction of an exporter keeps TelemetryInv.
LEMMA OutsideTransactions ==
  ASSUME IInv, TelemetryInv, CallInv', \A t \in Exporters : pc'[t] # "insert"
  PROVE  TelemetryInv'
BY DEF TelemetryInv, BatchInv

\* Two functions that agree but for one argument.
LEMMA SameElsewhere ==
  ASSUME NEW D, NEW f, NEW g, f = [d \in D |-> f[d]], g = [d \in D |-> g[d]],
         NEW c \in D, \A d \in D : d # c => g[d] = f[d]
  PROVE  g = [f EXCEPT ![c] = g[c]]
OBVIOUS

\* The refined state after a decision, a request or a reply of one caller.
LEMMA OneCallerMoves ==
  ASSUME IInv, NEW c \in Exporters \cup Clearers,
         \A d \in Exporters \cup Clearers : d # c => pc'[d] = pc[d],
         \A d \in Exporters : d # c => job'[d] = job[d],
         \A d \in Exporters \cup Clearers : d # c => answer'[d] = answer[d]
  PROVE  /\ Wanted' = [Wanted EXCEPT ![c] = Wanted'[c]]
         /\ Told' = [Told EXCEPT ![c] = answer'[c]]
<1>1. ASSUME NEW d \in Exporters \cup Clearers, d # c
      PROVE  Wanted'[d] = Wanted[d] /\ Told'[d] = Told[d]
  BY <1>1 DEF Wanted, Told
<1>2. /\ Wanted = [d \in Exporters \cup Clearers |-> Wanted[d]]
      /\ Wanted' = [d \in Exporters \cup Clearers |-> Wanted'[d]]
  BY DEF Wanted
<1>3. /\ Told = [d \in Exporters \cup Clearers |-> Told[d]]
      /\ Told' = [d \in Exporters \cup Clearers |-> Told'[d]]
      /\ Told'[c] = answer'[c]
  BY DEF Told
<1>4. Wanted' = [Wanted EXCEPT ![c] = Wanted'[c]]
  BY <1>1, <1>2, SameElsewhere
<1>5. Told' = [Told EXCEPT ![c] = answer'[c]]
  <2>1. Told' = [Told EXCEPT ![c] = Told'[c]]
    BY <1>1, <1>3, SameElsewhere
  <2>. QED BY <1>3, <2>1
<1>. QED BY <1>4, <1>5

\* A caller whose answer is not known yet is pending in the abstract store.
LEMMA IsPending ==
  ASSUME IInv, TelemetryInv, NEW c \in Exporters \cup Clearers,
         pc[c] \notin {"idle", "lower", "unlock", "return"}
  PROVE  Abstract!Pending(c) /\ Told[c] = "none"
<1>1. Told[c] = "none"
  BY DEF TelemetryInv, CallInv, Told
<1>2. Wanted[c] # Null
  <2>1. CASE c \in Exporters
    BY <2>1, JobIsSome DEF JobInv, Wanted
  <2>2. CASE c \in Clearers
    BY <2>2, NullAssumption DEF Wanted
  <2>. QED BY <2>1, <2>2
<1>. QED BY <1>1, <1>2 DEF Abstract!Pending

\* Every step of the store is one of the abstract store, or invisible to it.
AbstractStep == Abstract!Next \/ UNCHANGED <<db, rows, Wanted, Told>>

\* Invisible steps with the handle untouched.
LEMMA InvisibleStep ==
  ASSUME IInv, TelemetryInv, UNCHANGED <<db, job, rows, image, work>>,
         \A c \in Exporters \cup Clearers : pc'[c] = pc[c] /\ answer'[c] = answer[c]
  PROVE  TelemetryInv' /\ AbstractStep
BY Invisible DEF AbstractStep

\* A call that ends with an error before its commit is refused.
LEMMA Refused ==
  ASSUME IInv, TelemetryInv, NEW c \in Exporters \cup Clearers,
         pc[c] \notin {"idle", "lower", "unlock", "return"},
         NEW l \in {"lower", "unlock", "return"}, Goto(c, l), Answer(c, "error"),
         UNCHANGED <<db, job, rows>>,
         UNCHANGED <<image, work>> \/ pc[c] \in Inside
  PROVE  TelemetryInv' /\ AbstractStep
<1>1. CallInv'
  BY DEF TelemetryInv, CallInv
<1>2. BatchInv'
  <2>1. ASSUME NEW t \in Exporters, pc'[t] = "insert"
        PROVE  t # c /\ pc[t] = "insert" /\ UNCHANGED <<image, work>>
    BY <2>1
  <2>. QED BY <2>1 DEF TelemetryInv, BatchInv
<1>3. Abstract!Refuse(c)
  <2>1. Wanted'[c] = Wanted[c]
    BY DEF Wanted
  <2>2. Wanted' = Wanted
    <3>1. Wanted' = [Wanted EXCEPT ![c] = Wanted[c]]
      BY <2>1, OneCallerMoves
    <3>2. Wanted = [d \in Exporters \cup Clearers |-> Wanted[d]]
      BY DEF Wanted
    <3>. QED BY <3>1, <3>2
  <2>3. Told' = [Told EXCEPT ![c] = "error"]
    BY OneCallerMoves
  <2>. QED BY <2>2, <2>3, IsPending DEF Abstract!Refuse, Abstract!Decide
<1>. QED BY <1>1, <1>2, <1>3 DEF TelemetryInv, AbstractStep, Abstract!Next, Abstract!Callers

\* Start opens the abstract store, or fails unseen.
LEMMA StartRefines ==
  ASSUME IInv, TelemetryInv, Start
  PROVE  TelemetryInv' /\ AbstractStep
<1>1. TelemetryInv' /\ Wanted' = Wanted /\ Told' = Told
  BY Invisible DEF Start
<1>2. CASE phase' = "started"
  <2>1. Abstract!Open
    BY <1>1, <1>2 DEF Abstract!Open, Start, LifeInv, StartInv, FlagsOK
  <2>. QED BY <1>1, <2>1 DEF AbstractStep, Abstract!Next
<1>3. CASE phase' # "started"
  BY <1>1, <1>3 DEF AbstractStep, Start
<1>. QED BY <1>2, <1>3

\* Waiting for the permit and getting it is invisible.
LEMMA AcquireRefines ==
  ASSUME IInv, TelemetryInv, NEW t \in Threads, Acquire(t)
  PROVE  TelemetryInv' /\ AbstractStep
<1>1. pc[t] = "lock" /\ pc' = [pc EXCEPT ![t] = Entry(t)]
  BY DEF Acquire
<1>2. Entry(t) \notin {"idle", "insert", "lower", "unlock", "return"}
  BY DEF Entry
<1>3. UNCHANGED <<db, job, answer, rows, image, work>>
  BY DEF Acquire
<1>4. CallInv'
  BY <1>1, <1>2, <1>3 DEF TelemetryInv, CallInv
<1>5. BatchInv'
  BY <1>1, <1>2, <1>3 DEF TelemetryInv, BatchInv
<1>6. Wanted' = Wanted /\ Told' = Told
  BY <1>1, <1>2, <1>3 DEF Wanted, Told
<1>. QED BY <1>3, <1>4, <1>5, <1>6 DEF TelemetryInv, AbstractStep

\* A caller that gives up on the mutex is refused; a pass that does is unseen.
LEMMA AbortRefines ==
  ASSUME IInv, TelemetryInv, NEW t \in Callers \cup {Maint}, LockAbort(t) \/ RecheckAbort(t)
  PROVE  TelemetryInv' /\ AbstractStep
<1>1. /\ pc[t] \notin {"idle", "lower", "unlock", "return"}
      /\ UNCHANGED <<db, job, rows, image, work>> /\ GiveUp(t)
  BY DEF LockAbort, RecheckAbort, Entry
<1>2. CASE t \in Exporters \cup Clearers
  <2>1. Goto(t, "return") /\ Answer(t, "error")
    BY <1>1, <1>2 DEF GiveUp
  <2>. QED BY <1>1, <1>2, <2>1, Refused
<1>3. CASE t \notin Exporters \cup Clearers
  <2>1. \A c \in Exporters \cup Clearers : pc'[c] = pc[c] /\ answer'[c] = answer[c]
    <3>1. CASE t = Maint
      BY <1>1, <3>1, NextTickKeeps DEF GiveUp
    <3>2. CASE t # Maint
      BY <1>1, <1>3, <3>2 DEF GiveUp
    <3>. QED BY <3>1, <3>2
  <2>. QED BY <1>1, <2>1, InvisibleStep
<1>. QED BY <1>2, <1>3

\* A returning export or clear replies; a returning snapshot is unseen.
LEMMA ReturnRefines ==
  ASSUME IInv, TelemetryInv, NEW t \in Callers, Return(t)
  PROVE  TelemetryInv' /\ AbstractStep
<1>1. /\ pc[t] \in {"unlock", "return"} /\ pc' = [pc EXCEPT ![t] = "idle"]
      /\ answer' = [answer EXCEPT ![t] = "none"]
      /\ job' = [e \in Exporters |-> IF e = t THEN Null ELSE job[e]]
      /\ UNCHANGED <<db, rows, image, work>>
  BY DEF Return
<1>2. CallInv'
  BY <1>1 DEF TelemetryInv, CallInv
<1>3. BatchInv'
  BY <1>1 DEF TelemetryInv, BatchInv
<1>4. CASE t \in Exporters \cup Clearers
  <2>1. Wanted'[t] = Null
    BY <1>1, <1>4 DEF Wanted
  <2>2. Wanted' = [Wanted EXCEPT ![t] = Null] /\ Told' = [Told EXCEPT ![t] = "none"]
    BY <1>1, <1>4, <2>1, OneCallerMoves
  <2>3. Told[t] # "none"
    BY <1>1, <1>4 DEF TelemetryInv, CallInv, Told
  <2>4. Abstract!Reply(t)
    BY <1>1, <2>2, <2>3 DEF Abstract!Reply
  <2>. QED BY <1>2, <1>3, <1>4, <2>4
       DEF TelemetryInv, AbstractStep, Abstract!Next, Abstract!Callers
<1>5. CASE t \notin Exporters \cup Clearers
  <2>1. Wanted' = Wanted /\ Told' = Told
    BY <1>1, <1>5 DEF Wanted, Told
  <2>. QED BY <1>1, <1>2, <1>3, <2>1 DEF TelemetryInv, AbstractStep
<1>. QED BY <1>4, <1>5

\* A new export is a request of the abstract store.
LEMMA InsertRefines ==
  ASSUME IInv, TelemetryInv, NEW t \in Exporters, NEW s \in Signals, NEW b \in SUBSET Records[s],
         Insert(t, s, b)
  PROVE  TelemetryInv' /\ AbstractStep
<1>1. /\ pc[t] = "idle" /\ pc' = [pc EXCEPT ![t] = "check"]
      /\ job' = [job EXCEPT ![t] = [sig |-> s, batch |-> b]]
      /\ UNCHANGED <<db, answer, rows, image, work>>
  BY DEF Insert
<1>2. CallInv'
  BY <1>1 DEF TelemetryInv, CallInv
<1>3. BatchInv'
  BY <1>1 DEF TelemetryInv, BatchInv
<1>4. Wanted[t] = Null /\ Wanted'[t] = [sig |-> s, batch |-> b] /\ Told' = Told
  BY <1>1 DEF TelemetryInv, CallInv, Wanted, Told
<1>5. Wanted' = [Wanted EXCEPT ![t] = [sig |-> s, batch |-> b]]
  BY <1>1, <1>4, OneCallerMoves
<1>6. Abstract!Request(t)
  BY <1>1, <1>4, <1>5 DEF Abstract!Request
<1>. QED BY <1>2, <1>3, <1>6 DEF TelemetryInv, AbstractStep, Abstract!Next, Abstract!Callers

\* So is a clear; a snapshot is unseen.
LEMMA CallLockedRefines ==
  ASSUME IInv, TelemetryInv, NEW t \in Clearers \cup Viewers, CallLocked(t)
  PROVE  TelemetryInv' /\ AbstractStep
<1>1. /\ pc[t] = "idle" /\ pc' = [pc EXCEPT ![t] = "lock"]
      /\ UNCHANGED <<db, job, answer, rows, image, work>>
  BY DEF CallLocked
<1>2. CASE t \in Viewers
  BY <1>1, <1>2, InvisibleStep
<1>3. CASE t \in Clearers
  <2>1. CallInv'
    BY <1>1, <1>3 DEF TelemetryInv, CallInv
  <2>2. BatchInv'
    BY <1>1 DEF TelemetryInv, BatchInv
  <2>3. Wanted[t] = Null /\ Wanted'[t] = "clear" /\ Told' = Told
    BY <1>1, <1>3 DEF Wanted, Told
  <2>4. Wanted' = [Wanted EXCEPT ![t] = "clear"]
    BY <1>1, <1>3, <2>3, OneCallerMoves
  <2>5. Abstract!Request(t)
    BY <1>1, <1>3, <2>3, <2>4 DEF Abstract!Request
  <2>. QED BY <1>3, <2>1, <2>2, <2>5 DEF TelemetryInv, AbstractStep, Abstract!Next, Abstract!Callers
<1>. QED BY <1>2, <1>3

\* Neither look at ready changes anything the abstract store knows.
LEMMA InsertCheckRefines ==
  ASSUME IInv, TelemetryInv, NEW t \in Exporters, InsertCheck(t)
  PROVE  TelemetryInv' /\ AbstractStep
<1>1. pc[t] = "check" /\ UNCHANGED <<db, job, rows, image, work>>
  BY DEF InsertCheck
<1>2. CASE ready
  <2>1. pc' = [pc EXCEPT ![t] = "lock"] /\ answer' = answer
    BY <1>2 DEF InsertCheck
  <2>2. CallInv' /\ BatchInv'
    BY <1>1, <2>1 DEF TelemetryInv, CallInv, BatchInv
  <2>3. Wanted' = Wanted /\ Told' = Told
    BY <1>1, <2>1 DEF Wanted, Told
  <2>. QED BY <1>1, <2>2, <2>3 DEF TelemetryInv, AbstractStep
<1>3. CASE ~ready
  <2>1. Goto(t, "return") /\ Answer(t, "error")
    BY <1>3 DEF InsertCheck
  <2>. QED BY <1>1, <2>1, Refused
<1>. QED BY <1>2, <1>3

\* The transaction begins with the whole batch to visit.
LEMMA AdmitRefines ==
  ASSUME IInv, TelemetryInv, NEW t \in Exporters, Admit(t)
  PROVE  TelemetryInv' /\ AbstractStep
<1>1. pc[t] = "admit" /\ UNCHANGED <<db, job, rows, image>>
  BY DEF Admit
<1>2. CASE Admissible
  <2>1. pc' = [pc EXCEPT ![t] = "insert"] /\ work' = job[t].batch /\ answer' = answer
    BY <1>2 DEF Admit
  <2>2. CallInv'
    BY <1>1, <2>1 DEF TelemetryInv, CallInv
  <2>3. BatchInv'
    <3>1. \A u \in Threads : pc[u] \notin InTx
      BY <1>1
    <3>2. image = rows /\ rows = [z \in Signals |-> rows[z]]
      BY <3>1 DEF TxInv, IdleTxInv, TablesOK
    <3>3. ASSUME NEW u \in Exporters, pc'[u] = "insert"
          PROVE  u = t
      BY <1>1, <2>1, <3>1, <3>3
    <3>4. job'[t].batch \ work' = {}
      BY <1>1, <2>1
    <3>5. image' = [rows' EXCEPT ![job'[t].sig] = @ \cup {}]
      <4>1. \A s \in Signals : rows[s] \cup {} = rows[s]
        OBVIOUS
      <4>. QED BY <1>1, <3>2, <4>1
    <3>. QED BY <3>3, <3>4, <3>5 DEF BatchInv
  <2>4. Wanted' = Wanted /\ Told' = Told
    BY <1>1, <2>1 DEF Wanted, Told
  <2>. QED BY <1>1, <2>2, <2>3, <2>4 DEF TelemetryInv, AbstractStep
<1>3. CASE ~Admissible
  <2>1. Goto(t, "unlock") /\ Answer(t, "error") /\ work' = work
    BY <1>3 DEF Admit
  <2>. QED BY <1>1, <2>1, Refused
<1>. QED BY <1>2, <1>3

\* The open transaction of exporter t, spelled out.
LEMMA OpenBatch ==
  ASSUME IInv, TelemetryInv, NEW t \in Exporters, pc[t] = "insert", NEW s, s = job[t].sig,
         NEW done, done = job[t].batch \ work
  PROVE  /\ s \in Signals /\ job[t].batch \subseteq Records[s] /\ work \subseteq job[t].batch /\ db
         /\ image = [rows EXCEPT ![s] = @ \cup done] /\ image[s] = rows[s] \cup done
         /\ \A r \in done, q \in rows[s] \cup done : Key(s, r) = Key(s, q) => r = q
         /\ \A u \in Exporters : pc[u] = "insert" => u = t
<1>1. s \in Signals /\ job[t].batch \subseteq Records[s]
  BY JobIsSome DEF JobInv
<1>2. work \subseteq job[t].batch /\ db
  BY DEF TxInv, InsertTxInv, LifeInv, NoUseAfterClose
<1>3. /\ image = [rows EXCEPT ![s] = @ \cup done]
      /\ \A r \in done, q \in rows[s] \cup done : Key(s, r) = Key(s, q) => r = q
  BY DEF TelemetryInv, BatchInv
<1>4. image[s] = rows[s] \cup done
  BY <1>1, <1>3 DEF TablesOK
<1>5. \A u \in Exporters : pc[u] = "insert" => u = t
  BY OneTransaction
<1>. QED BY <1>1, <1>2, <1>3, <1>4, <1>5

\* A visited record is unseen until the commit; a conflict is decided at once.
LEMMA InsertRecordRefines ==
  ASSUME IInv, TelemetryInv, NEW t \in Exporters, NEW r \in work, InsertRecord(t, r)
  PROVE  TelemetryInv' /\ AbstractStep
<1>. DEFINE s == job[t].sig
            done == job[t].batch \ work
<1>1. pc[t] = "insert" /\ UNCHANGED <<db, job>>
  BY DEF InsertRecord
<1>. HIDE DEF s, done
<1>2. /\ s \in Signals /\ job[t].batch \subseteq Records[s] /\ work \subseteq job[t].batch /\ db
      /\ image = [rows EXCEPT ![s] = @ \cup done] /\ image[s] = rows[s] \cup done
      /\ \A p \in done, q \in rows[s] \cup done : Key(s, p) = Key(s, q) => p = q
      /\ \A u \in Exporters : pc[u] = "insert" => u = t
  BY <1>1, OpenBatch DEF s, done
<1>3. CASE Contradicts(image[s], s, r)
  <2>1. Goto(t, "unlock") /\ Rollback(t, "conflict")
    BY <1>3 DEF InsertRecord, s
  <2>2. /\ pc' = [pc EXCEPT ![t] = "unlock"] /\ answer' = [answer EXCEPT ![t] = "conflict"]
        /\ rows' = rows
    BY <2>1 DEF Rollback
  <2>3. CallInv'
    BY <1>1, <2>2 DEF TelemetryInv, CallInv
  <2>4. \A u \in Exporters : pc'[u] # "insert"
    BY <1>2, <2>2
  <2>5. Wanted[t] = job[t] /\ Wanted' = Wanted
    BY <1>1, <2>2 DEF Wanted
  <2>6. Told' = [Told EXCEPT ![t] = "conflict"]
    BY <1>1, <2>2, OneCallerMoves
  <2>7. Abstract!Conflicts(s, job[t].batch, rows[s] \cup job[t].batch)
    <3>1. PICK q \in image[s] : Key(s, q) = Key(s, r) /\ q # r
      BY <1>3 DEF Contradicts
    <3>2. q \in rows[s] \cup job[t].batch /\ r \in job[t].batch
      BY <1>2 DEF done
    <3>. QED BY <3>1, <3>2 DEF Abstract!Conflicts, Abstract!Key, Key
  <2>8. Abstract!Contradict(t)
    BY <1>1, <1>2, <2>2, <2>5, <2>6, <2>7, IsPending DEF Abstract!Contradict, Abstract!Decide, s
  <2>. QED BY <2>3, <2>4, <2>8, OutsideTransactions DEF AbstractStep, Abstract!Next, Abstract!Callers
<1>4. CASE ~Contradicts(image[s], s, r)
  <2>1. /\ image' = [image EXCEPT ![s] = @ \cup Added(@, s, r)] /\ work' = work \ {r}
        /\ UNCHANGED <<pc, answer, rows>>
    BY <1>4 DEF InsertRecord, Write, s
  <2>2. image[s] \cup Added(image[s], s, r) = image[s] \cup {r}
    BY <1>4 DEF Contradicts, Added
  <2>. DEFINE more1 == done \cup {r}
  <2>3. job'[t].batch \ work' = more1 /\ job'[t].sig = s
    BY <1>1, <1>2, <2>1 DEF done, s
  <2>4. image' = [rows' EXCEPT ![s] = @ \cup more1]
    <3>1. image' = [image EXCEPT ![s] = (rows[s] \cup done) \cup {r}]
      BY <1>2, <2>1, <2>2
    <3>2. (rows[s] \cup done) \cup {r} = rows[s] \cup more1
      OBVIOUS
    <3>3. image' = [[rows EXCEPT ![s] = rows[s] \cup done] EXCEPT ![s] = rows[s] \cup more1]
      BY <1>2, <3>1, <3>2
    <3>. QED BY <1>2, <2>1, <3>3 DEF TablesOK
  <2>5. ASSUME NEW p \in more1, NEW q \in rows[s] \cup more1, Key(s, p) = Key(s, q)
        PROVE  p = q
    <3>1. \A x \in rows[s] \cup done : Key(s, x) = Key(s, r) => x = r
      BY <1>2, <1>4 DEF Contradicts
    <3>. QED BY <1>2, <2>5, <3>1
  <2>6. BatchInv'
    <3>1. \A u \in Exporters : pc'[u] = "insert" => u = t
      BY <1>2, <2>1
    <3>2. \A p \in more1, q \in rows'[s] \cup more1 : Key(s, p) = Key(s, q) => p = q
      BY <2>1, <2>5
    <3>. HIDE DEF more1
    <3>3. ASSUME NEW u \in Exporters, pc'[u] = "insert"
          PROVE  LET z == job'[u].sig
                     d == job'[u].batch \ work'
                 IN  /\ image' = [rows' EXCEPT ![z] = @ \cup d]
                     /\ \A p \in d, q \in rows'[z] \cup d : Key(z, p) = Key(z, q) => p = q
      <4>1. u = t /\ job'[u].sig = s /\ job'[u].batch \ work' = more1
        BY <2>3, <3>1, <3>3
      <4>2. image' = [rows' EXCEPT ![job'[u].sig] = @ \cup (job'[u].batch \ work')]
        BY <2>4, <4>1
      <4>3. \A p \in job'[u].batch \ work', q \in rows'[job'[u].sig] \cup (job'[u].batch \ work') :
              Key(job'[u].sig, p) = Key(job'[u].sig, q) => p = q
        BY <3>2, <4>1
      <4>. QED BY <4>2, <4>3
    <3>. QED BY <3>3 DEF BatchInv, Key
  <2>7. CallInv' /\ Wanted' = Wanted /\ Told' = Told
    BY <1>1, <2>1 DEF TelemetryInv, CallInv, Wanted, Told
  <2>. QED BY <1>1, <2>1, <2>6, <2>7 DEF TelemetryInv, AbstractStep
<1>. QED BY <1>3, <1>4

\* The commit stores the batch as a whole.
LEMMA InsertCommitRefines ==
  ASSUME IInv, TelemetryInv, NEW t \in Exporters, InsertCommit(t)
  PROVE  TelemetryInv' /\ AbstractStep
<1>. DEFINE s == job[t].sig
            b == job[t].batch
            done == job[t].batch \ work
<1>1. /\ pc[t] = "insert" /\ work = {} /\ rows' = image /\ UNCHANGED <<db, job>>
      /\ pc' = [pc EXCEPT ![t] = "unlock"] /\ answer' = [answer EXCEPT ![t] = "ok"]
  BY DEF InsertCommit
<1>2. done = b
  BY <1>1
<1>. HIDE DEF s, b, done
<1>3. /\ s \in Signals /\ db /\ image = [rows EXCEPT ![s] = @ \cup b]
      /\ \A p \in b, q \in rows[s] \cup b : Key(s, p) = Key(s, q) => p = q
      /\ \A u \in Exporters : pc[u] = "insert" => u = t
  <2>1. /\ s \in Signals /\ db /\ image = [rows EXCEPT ![s] = @ \cup done]
        /\ \A p \in done, q \in rows[s] \cup done : Key(s, p) = Key(s, q) => p = q
        /\ \A u \in Exporters : pc[u] = "insert" => u = t
    <3>1. pc[t] = "insert" /\ s = job[t].sig /\ done = job[t].batch \ work
      BY <1>1 DEF s, done
    <3>2. /\ s \in Signals /\ job[t].batch \subseteq Records[s] /\ work \subseteq job[t].batch /\ db
          /\ image = [rows EXCEPT ![s] = @ \cup done] /\ image[s] = rows[s] \cup done
          /\ \A p \in done, q \in rows[s] \cup done : Key(s, p) = Key(s, q) => p = q
          /\ \A u \in Exporters : pc[u] = "insert" => u = t
      BY <3>1, OpenBatch DEF s, done
    <3>. QED BY <3>2
  <2>. QED BY <1>2, <2>1
<1>4. CallInv'
  BY <1>1 DEF TelemetryInv, CallInv
<1>5. \A u \in Exporters : pc'[u] # "insert"
  BY <1>1, <1>3
<1>6. Wanted[t] = job[t] /\ Wanted' = Wanted
  BY <1>1 DEF Wanted
<1>7. Told' = [Told EXCEPT ![t] = "ok"]
  BY <1>1, OneCallerMoves
<1>8. ~Abstract!Conflicts(s, b, rows[s] \cup b)
  BY <1>3 DEF Abstract!Conflicts, Abstract!Key, Key
<1>9. Abstract!Store(t)
  BY <1>1, <1>3, <1>6, <1>7, <1>8, IsPending DEF Abstract!Store, Abstract!Decide, s, b
<1>. QED BY <1>4, <1>5, <1>9, OutsideTransactions DEF AbstractStep, Abstract!Next, Abstract!Callers

\* A failed transaction of an export or a clear is a refusal.
LEMMA TxFailsRefines ==
  ASSUME IInv, TelemetryInv, NEW t \in Exporters \cup Clearers, TxFails(t)
  PROVE  TelemetryInv' /\ AbstractStep
<1>1. /\ pc[t] \in InTx /\ Answer(t, "error") /\ UNCHANGED <<db, job, rows>>
      /\ \E l \in {"lower", "unlock"} : Goto(t, l)
  BY DEF TxFails, Rollback, RecordError
<1>. QED BY <1>1, Refused

\* When the refusal is made known in ready is of no concern to the abstract store.
LEMMA LowerReadyRefines ==
  ASSUME IInv, TelemetryInv, NEW t \in Exporters \cup Clearers \cup {Maint}, LowerReady(t)
  PROVE  TelemetryInv' /\ AbstractStep
<1>1. /\ pc[t] = "lower" /\ UNCHANGED <<db, job, answer, rows, image, work>>
      /\ \E l \in {"mUnlock", "unlock"} : Goto(t, l) /\ (t # Maint => l = "unlock")
  BY DEF LowerReady
<1>2. CallInv'
  BY <1>1 DEF TelemetryInv, CallInv
<1>3. BatchInv'
  BY <1>1 DEF TelemetryInv, BatchInv
<1>4. Wanted' = Wanted /\ Told' = Told
  BY <1>1 DEF Wanted, Told
<1>. QED BY <1>1, <1>2, <1>3, <1>4 DEF TelemetryInv, AbstractStep

\* Clear's checks begin its transaction unseen, or refuse it.
LEMMA ClearCheckRefines ==
  ASSUME IInv, TelemetryInv, NEW t \in Clearers, ClearCheck(t)
  PROVE  TelemetryInv' /\ AbstractStep
<1>1. pc[t] = "clearCheck" /\ UNCHANGED <<db, job, rows, image, work>>
  BY DEF ClearCheck
<1>2. CASE pc' = [pc EXCEPT ![t] = "clear"] /\ answer' = answer
  <2>1. CallInv' /\ BatchInv'
    BY <1>1, <1>2 DEF TelemetryInv, CallInv, BatchInv
  <2>2. Wanted' = Wanted /\ Told' = Told
    BY <1>1, <1>2 DEF Wanted, Told
  <2>. QED BY <1>1, <2>1, <2>2 DEF TelemetryInv, AbstractStep
<1>3. CASE Goto(t, "unlock") /\ Answer(t, "error")
  BY <1>1, <1>3, Refused
<1>. QED BY <1>2, <1>3 DEF ClearCheck

\* An emptied table is unseen until the commit.
LEMMA ClearTableRefines ==
  ASSUME IInv, TelemetryInv, NEW t \in Clearers, ClearTable(t)
  PROVE  TelemetryInv' /\ AbstractStep
<1>1. pc[t] = "clear" /\ UNCHANGED <<db, pc, job, answer, rows>>
  BY DEF ClearTable, Write
<1>2. \A u \in Exporters : pc'[u] # "insert"
  BY <1>1
<1>3. CallInv' /\ Wanted' = Wanted /\ Told' = Told
  BY <1>1 DEF TelemetryInv, CallInv, Wanted, Told
<1>. QED BY <1>1, <1>2, <1>3, OutsideTransactions DEF AbstractStep

\* The commit of a clear empties all tables at once.
LEMMA ClearCommitRefines ==
  ASSUME IInv, TelemetryInv, NEW t \in Clearers, ClearCommit(t)
  PROVE  TelemetryInv' /\ AbstractStep
<1>1. /\ pc[t] = "clear" /\ tables = {} /\ rows' = image /\ UNCHANGED <<db, job>>
      /\ pc' = [pc EXCEPT ![t] = "unlock"] /\ answer' = [answer EXCEPT ![t] = "ok"]
  BY DEF ClearCommit
<1>2. \A u \in Exporters : pc'[u] # "insert"
  BY <1>1
<1>3. CallInv'
  BY <1>1 DEF TelemetryInv, CallInv
<1>4. db /\ \A s \in Signals : image[s] = {}
  BY <1>1 DEF TxInv, ClearTxInv, LifeInv, NoUseAfterClose
<1>5. rows' = [s \in Signals |-> {}]
  BY <1>1, <1>4 DEF TablesOK
<1>6. Wanted' = Wanted
  BY <1>1 DEF Wanted
<1>7. Told' = [Told EXCEPT ![t] = "ok"]
  BY <1>1, OneCallerMoves
<1>8. Abstract!ClearAll(t)
  BY <1>1, <1>4, <1>5, <1>6, <1>7, IsPending DEF Abstract!ClearAll, Abstract!Decide
<1>. QED BY <1>2, <1>3, <1>8, OutsideTransactions DEF AbstractStep, Abstract!Next, Abstract!Callers

\* Deleted rows are discarded by the abstract store.
LEMMA DeletedIsDiscarded ==
  ASSUME IInv, TelemetryInv, pc[Maint] \in {"retain", "evict"}, NEW D, DeleteRows(D),
         UNCHANGED <<db, job, answer>>,
         \A c \in Exporters \cup Clearers : pc'[c] = pc[c]
  PROVE  TelemetryInv' /\ AbstractStep
<1>1. \A u \in Exporters : pc'[u] # "insert"
  OBVIOUS
<1>2. CallInv' /\ Wanted' = Wanted /\ Told' = Told
  BY DEF TelemetryInv, CallInv, Wanted, Told
<1>3. db /\ rows' = [s \in Signals |-> rows[s] \ D[s]]
  BY DEF LifeInv, NoUseAfterClose, DeleteRows
<1>4. rows' \in [Signals -> SUBSET UNION {rows[s] : s \in Signals}]
  BY <1>3
<1>5. Abstract!Discard
  BY <1>2, <1>3, <1>4 DEF Abstract!Discard
<1>. QED BY <1>1, <1>2, <1>5, OutsideTransactions DEF AbstractStep, Abstract!Next

\* One round of retention.
LEMMA RetainRefines ==
  ASSUME IInv, TelemetryInv, Retain
  PROVE  TelemetryInv' /\ AbstractStep
<1>1. /\ pc[Maint] = "retain" /\ UNCHANGED <<db, job, answer>>
      /\ \A c \in Exporters \cup Clearers : pc'[c] = pc[c]
  BY DEF Retain
<1>2. PICK D : DeleteRows(D)
  BY DEF Retain
<1>. QED BY <1>1, <1>2, DeletedIsDiscarded

\* One iteration of the pressure loop.
LEMMA EvictRefines ==
  ASSUME IInv, TelemetryInv, Evict
  PROVE  TelemetryInv' /\ AbstractStep
<1>1. /\ pc[Maint] = "evict" /\ UNCHANGED <<db, job, answer>>
      /\ \A c \in Exporters \cup Clearers : pc'[c] = pc[c]
  BY DEF Evict, Conclude
<1>2. CASE UNCHANGED <<rows, image, work>>
  BY <1>1, <1>2, InvisibleStep
<1>3. CASE \E D : DeleteRows(D)
  BY <1>1, <1>3, DeletedIsDiscarded
<1>. QED BY <1>2, <1>3 DEF Evict

\* The other steps of maintenance, and Timeout, are unseen.
LEMMA MaintainRefines ==
  ASSUME IInv, TelemetryInv, MaintainStep \/ Timeout
  PROVE  TelemetryInv' /\ AbstractStep
<1>1. CASE Tick \/ StopLoop \/ MaintainOpen \/ Pressure \/ MaintainFails \/ Publish \/ Raise \/ Timeout
  BY <1>1, InvisibleStep
     DEF Tick, StopLoop, MaintainOpen, Pressure, MaintainFails, Publish, Raise, Timeout, Conclude,
         RecordError, ForgetError
<1>2. CASE MaintainUnlock
  <2>1. \A c \in Exporters \cup Clearers : pc'[c] = pc[c]
    BY <1>2, NextTickKeeps DEF MaintainUnlock
  <2>. QED BY <1>2, <2>1, InvisibleStep DEF MaintainUnlock
<1>. QED BY <1>1, <1>2, RetainRefines, EvictRefines, LowerReadyRefines DEF MaintainStep

\* Shutdown closes the abstract store when it closes the handle, if it is open.
LEMMA ShutdownRefines ==
  ASSUME IInv, TelemetryInv, NEW t \in Closers, Shutdown(t) \/ ShutdownStep(t)
  PROVE  TelemetryInv' /\ AbstractStep
<1>1. /\ UNCHANGED <<job, answer, rows, image, work>>
      /\ \A c \in Exporters \cup Clearers : pc'[c] = pc[c]
  BY DEF Shutdown, ShutdownStep, ShutdownUnready, ShutdownOnce, StopMaintenance, ShutdownWait,
         ShutdownClose, ShutdownRelease
<1>2. TelemetryInv' /\ Wanted' = Wanted /\ Told' = Told
  BY <1>1, Invisible
<1>3. CASE UNCHANGED db
  BY <1>1, <1>2, <1>3 DEF AbstractStep
<1>4. CASE ShutdownClose(t) /\ db
  <2>1. Abstract!Close
    BY <1>1, <1>2, <1>4 DEF ShutdownClose, CloseHandle, Abstract!Close
  <2>. QED BY <1>2, <2>1 DEF AbstractStep, Abstract!Next
<1>5. CASE ShutdownClose(t) /\ ~db
  BY <1>1, <1>2, <1>5 DEF ShutdownClose, CloseHandle, AbstractStep, FlagsOK
<1>. QED BY <1>3, <1>4, <1>5
     DEF Shutdown, ShutdownStep, ShutdownUnready, ShutdownOnce, StopMaintenance, ShutdownWait,
         ShutdownRelease

\* Every step of the store is a step of the abstract one, or invisible.
LEMMA NextRefines ==
  ASSUME IInv, TelemetryInv, [Next]_vars
  PROVE  TelemetryInv' /\ AbstractStep
<1>1. CASE Start
  BY <1>1, StartRefines
<1>2. CASE \E t \in Exporters, s \in Signals : \E b \in SUBSET Records[s] : Insert(t, s, b)
  BY <1>2, InsertRefines
<1>3. CASE \E t \in Clearers \cup Viewers : CallLocked(t)
  BY <1>3, CallLockedRefines
<1>4. CASE \E t \in Exporters : InsertStep(t)
  BY <1>4, InsertCheckRefines, AdmitRefines, InsertRecordRefines, InsertCommitRefines, TxFailsRefines,
     LowerReadyRefines DEF InsertStep
<1>5. CASE \E t \in Clearers : ClearStep(t)
  BY <1>5, ClearCheckRefines, ClearTableRefines, ClearCommitRefines, TxFailsRefines,
     LowerReadyRefines DEF ClearStep
<1>6. CASE \E t \in Viewers : View(t)
  BY <1>6, InvisibleStep DEF View
<1>7. CASE \E t \in Callers : Return(t)
  BY <1>7, ReturnRefines
<1>8. CASE \E t \in Callers : Cancel(t)
  BY <1>8, InvisibleStep DEF Cancel
<1>9. CASE \E t \in Threads : Acquire(t)
  BY <1>9, AcquireRefines
<1>10. CASE \E t \in Callers \cup {Maint} : LockAbort(t) \/ RecheckAbort(t)
  BY <1>10, AbortRefines
<1>11. CASE MaintainStep \/ Timeout
  BY <1>11, MaintainRefines
<1>12. CASE \E t \in Closers : Shutdown(t) \/ ShutdownStep(t)
  BY <1>12, ShutdownRefines
<1>13. CASE (\E s \in Signals : \E r \in Records[s] : Age(s, r)) \/ DiskChanges \/ Terminated
            \/ UNCHANGED vars
  BY <1>13, InvisibleStep DEF Age, DiskChanges, Terminated
<1>. QED BY <1>1, <1>2, <1>3, <1>4, <1>5, <1>6, <1>7, <1>8, <1>9, <1>10, <1>11, <1>12, <1>13 DEF Next

\* The store implements Telemetry: to its callers, exports and clears take
\* effect at one instant, whatever fails, waits or runs beside them.
THEOREM Refinement == Spec => ImplementsTelemetry
<1>1. Init => TelemetryInv /\ Abstract!Init
  <2> SUFFICES ASSUME Init PROVE TelemetryInv /\ Abstract!Init
    OBVIOUS
  <2>1. TelemetryInv
    BY DEF Init, TelemetryInv, CallInv, BatchInv
  <2>2. Abstract!Init
    BY DEF Init, Abstract!Init, Abstract!Callers, Wanted, Told
  <2>. QED BY <2>1, <2>2
<1>2. IInv /\ TelemetryInv /\ [Next]_vars => TelemetryInv' /\ [Abstract!Next]_(Abstract!vars)
  BY NextRefines DEF AbstractStep, Abstract!vars
<1>. QED BY <1>1, <1>2, Invariance, PTL DEF Spec, ImplementsTelemetry, Abstract!Spec

-----------------------------------------------------------------------------
(* Shutdown and the maintenance goroutine: nobody waits in a circle.        *)

\* A step that leaves the maintenance goroutine and the stop channel alone.
LEMMA StopFrame ==
  ASSUME StopInv, UNCHANGED <<phase, stopped>>, pc'[Maint] = pc[Maint], ctx[Maint] => ctx'[Maint],
         \A t \in Closers : pc'[t] = pc[t] \/ pc'[t] \in {"idle", "unready", "once"} \/ stopped
  PROVE  StopInv' /\ MaintenanceWindsDown
<1>1. Stage(pc'[Maint]) = Stage(pc[Maint]) /\ Stage(pc[Maint]) \in Nat
  BY DEF Stage
<1>. HIDE DEF IInv
<1>. QED BY <1>1 DEF StopInv, MaintenanceWindsDown

\* A caller's own steps are of no concern to Shutdown.
LEMMA StopCalls ==
  ASSUME IInv, StopInv, NEW t \in Callers,
         \/ InsertStep(t) \/ ClearStep(t) \/ View(t) \/ Return(t) \/ Cancel(t)
         \/ LockAbort(t) \/ RecheckAbort(t) \/ CallLocked(t)
         \/ \E s \in Signals : \E b \in SUBSET Records[s] : t \in Exporters /\ Insert(t, s, b)
  PROVE  StopInv' /\ MaintenanceWindsDown
<1>1. UNCHANGED <<phase, stopped>>
  BY DEF InsertStep, ClearStep, InsertCheck, Admit, InsertCommit, TxFails, LowerReady, InsertRecord,
         ClearCheck, ClearTable, ClearCommit, View, Return, Cancel, LockAbort, RecheckAbort,
         CallLocked, Insert
<1>2. \/ UNCHANGED pc
      \/ \E l : pc' = [pc EXCEPT ![t] = l]
  BY DEF InsertStep, ClearStep, InsertCheck, Admit, InsertCommit, TxFails, RecordError, LowerReady,
         InsertRecord, Rollback,
         ClearCheck, ClearTable, ClearCommit, View, Return, Cancel, LockAbort, RecheckAbort,
         GiveUp, CallLocked, Insert
<1>3. \/ UNCHANGED ctx
      \/ \E b : ctx' = [ctx EXCEPT ![t] = b]
  BY DEF InsertStep, ClearStep, InsertCheck, Admit, InsertCommit, TxFails, RecordError, LowerReady,
         InsertRecord, Rollback,
         ClearCheck, ClearTable, ClearCommit, View, Return, Cancel, LockAbort, RecheckAbort,
         GiveUp, CallLocked, Insert
<1>4. pc'[Maint] = pc[Maint] /\ ctx'[Maint] = ctx[Maint] /\ \A u \in Closers : pc'[u] = pc[u]
  BY <1>2, <1>3
<1>. QED BY <1>1, <1>4, StopFrame

\* The maintenance goroutine moves towards its exit; its last pass, if there is
\* one, has an ended context from the start.
LEMMA StopMaintains ==
  ASSUME IInv, StopInv,
         MaintainStep \/ Timeout \/ LockAbort(Maint) \/ RecheckAbort(Maint) \/ Acquire(Maint)
  PROVE  StopInv' /\ MaintenanceWindsDown
<1>1. UNCHANGED <<phase, stopped>>
  BY DEF MaintainStep, Tick, StopLoop, MaintainOpen, Retain, Pressure, Evict, MaintainFails,
         Publish, LowerReady, Raise, MaintainUnlock, Timeout, LockAbort, RecheckAbort, Acquire
<1>2. \/ UNCHANGED pc
      \/ \E l : pc' = [pc EXCEPT ![Maint] = l]
  BY DEF MaintainStep, Tick, StopLoop, MaintainOpen, Retain, Pressure, Evict, MaintainFails,
         Publish, RecordError, LowerReady, Raise, MaintainUnlock, Timeout, LockAbort, RecheckAbort,
         Acquire, Conclude,
         GiveUp, NextTick
<1>3. \A u \in Closers : pc'[u] = pc[u]
  BY <1>2
<1>4. CASE Tick
  <2>1. pc[Maint] = "select" /\ pc'[Maint] = "lock" /\ ctx'[Maint] = stopped
    BY <1>4 DEF Tick
  <2>2. Stage("select") = 3 /\ Stage("lock") = 2
    BY DEF Stage
  <2>. QED BY <1>1, <1>3, <2>1, <2>2 DEF StopInv, MaintenanceWindsDown
<1>5. CASE StopLoop \/ MaintainUnlock \/ LockAbort(Maint) \/ RecheckAbort(Maint)
  <2>1. stopped => pc'[Maint] = "exited"
    <3>1. StopLoop \/ NextTick
      BY <1>5 DEF MaintainUnlock, LockAbort, RecheckAbort, GiveUp
    <3>2. ASSUME stopped PROVE Goto(Maint, "exited")
      BY <3>1, <3>2 DEF StopLoop, NextTick
    <3>. QED BY <3>2
  <2>2. Stage("exited") = 0 /\ Stage(pc[Maint]) \in Nat
    BY DEF Stage
  <2>. QED BY <1>1, <1>3, <2>1, <2>2 DEF StopInv, MaintenanceWindsDown
<1>6. CASE \/ MaintainOpen \/ Retain \/ Pressure \/ Evict \/ MaintainFails \/ Publish \/ Raise
           \/ LowerReady(Maint) \/ Timeout \/ Acquire(Maint)
  <2>1. pc[Maint] \in MaintInside \cup {"lock"} /\ pc'[Maint] \in MaintInside \cup {pc[Maint]}
    <3>1. CASE MaintainOpen \/ Pressure \/ Evict \/ MaintainFails
      BY <3>1 DEF MaintainOpen, Pressure, Evict, MaintainFails, Conclude
    <3>2. CASE Raise \/ LowerReady(Maint) \/ Timeout
      BY <3>2 DEF Raise, LowerReady, Timeout
    <3>5. CASE Publish
      <4>1. pc[Maint] = "publish" /\ \E l \in {"lower", "mUnlock", "raise"} : Goto(Maint, l)
        BY <3>5 DEF Publish, RecordError
      <4>. QED BY <4>1
    <3>3. CASE Retain
      BY <3>3 DEF Retain
    <3>4. CASE Acquire(Maint)
      BY <3>4 DEF Acquire, Entry
    <3>. QED BY <1>6, <3>1, <3>2, <3>3, <3>4, <3>5
  <2>2. ctx[Maint] => ctx'[Maint]
    BY <1>6 DEF MaintainOpen, Retain, Pressure, Evict, MaintainFails, Publish, LowerReady, Raise,
                Timeout, Acquire
  <2>3. Stage(pc[Maint]) \in {1, 2} /\ Stage(pc'[Maint]) <= Stage(pc[Maint])
    BY <2>1 DEF Stage
  <2>. QED BY <1>1, <1>3, <2>2, <2>3 DEF StopInv, MaintenanceWindsDown
<1>. QED BY <1>4, <1>5, <1>6 DEF MaintainStep

\* Each step of Shutdown: it closes the channel before it waits.
LEMMA StopShutdown ==
  ASSUME IInv, StopInv, NEW t \in Closers, Shutdown(t) \/ ShutdownStep(t) \/ Acquire(t)
  PROVE  StopInv' /\ MaintenanceWindsDown
<1>0. CASE ShutdownOnce(t) /\ stopped
  BY <1>0, StopFrame DEF ShutdownOnce, StopMaintenance
<1>1. CASE ShutdownOnce(t) /\ ~stopped
  <2>1. stopped' /\ ctx'[Maint] /\ pc'[Maint] = pc[Maint] /\ phase' = phase /\ phase # "new"
    BY <1>1 DEF ShutdownOnce, StopMaintenance, LifeInv, StartInv
  <2>2. Stage(pc[Maint]) \in Nat
    BY DEF Stage
  <2>. QED BY <2>1, <2>2 DEF StopInv, MaintenanceWindsDown
<1>2. CASE Shutdown(t) \/ ShutdownUnready(t)
  BY <1>2, StopFrame DEF Shutdown, ShutdownUnready
<1>3. CASE ShutdownWait(t) \/ ShutdownClose(t) \/ ShutdownRelease(t) \/ Acquire(t)
  <2>0. UNCHANGED <<phase, stopped, ctx>> /\ \E l : Goto(t, l)
    BY <1>3 DEF ShutdownWait, ShutdownClose, ShutdownRelease, Acquire
  <2>1. /\ UNCHANGED <<phase, stopped, ctx>> /\ pc'[Maint] = pc[Maint]
        /\ \A u \in Closers : u # t => pc'[u] = pc[u]
    BY <2>0
  <2>2. stopped
    BY <1>3 DEF ShutdownWait, ShutdownClose, ShutdownRelease, Acquire, StopInv
  <2>. QED BY <2>1, <2>2, StopFrame
<1>. QED BY <1>0, <1>1, <1>2, <1>3 DEF ShutdownStep

\* No step of any goroutine or of the environment breaks StopInv or sends the
\* maintenance goroutine back once it has been told to stop.
LEMMA StopKeeps ==
  ASSUME IInv, StopInv, [Next]_vars
  PROVE  StopInv' /\ MaintenanceWindsDown
<1> USE DEF Next
<1>1. CASE Start
  <2>1. ~stopped' /\ ~stopped
    BY <1>1 DEF Start, StopInv
  <2>2. \A t \in Closers : pc[t] = "idle" /\ pc'[t] = pc[t]
    BY <1>1 DEF Start, LifeInv, StartInv
  <2>. QED BY <1>1, <2>1, <2>2 DEF Start, StopInv, MaintenanceWindsDown
<1>2. CASE \/ \E t \in Exporters, s \in Signals : \E b \in SUBSET Records[s] : Insert(t, s, b)
           \/ \E t \in Clearers \cup Viewers : CallLocked(t)
           \/ \E t \in Exporters : InsertStep(t)
           \/ \E t \in Clearers : ClearStep(t)
           \/ \E t \in Viewers : View(t)
           \/ \E t \in Callers : Return(t) \/ Cancel(t)
  BY <1>2, StopCalls
<1>3. CASE \E t \in Threads : Acquire(t)
  <2>1. PICK t \in Threads : Acquire(t)
    BY <1>3
  <2>2. CASE t \in Callers
    BY <2>1, <2>2, StopFrame DEF Acquire
  <2>. QED BY <2>1, <2>2, StopMaintains, StopShutdown
<1>4. CASE \E t \in Callers \cup {Maint} : LockAbort(t) \/ RecheckAbort(t)
  BY <1>4, StopCalls, StopMaintains
<1>5. CASE MaintainStep \/ Timeout
  BY <1>5, StopMaintains
<1>6. CASE \E t \in Closers : Shutdown(t) \/ ShutdownStep(t)
  BY <1>6, StopShutdown
<1>7. CASE (\E s \in Signals : \E r \in Records[s] : Age(s, r)) \/ DiskChanges \/ UNCHANGED vars
  BY <1>7, StopFrame DEF Age, DiskChanges
<1>. QED BY <1>1, <1>2, <1>3, <1>4, <1>5, <1>6, <1>7 DEF Terminated

LEMMA StopInvariance == Spec => []StopInv
<1>1. Init => StopInv
  BY DEF Init, StopInv, Stage
<1>2. IInv /\ StopInv /\ [Next]_vars => StopInv'
  BY StopKeeps
<1>. QED BY <1>1, <1>2, Invariance, PTL DEF Spec

\* Shutdown, maintenanceLoop: a Shutdown that waits for the maintenance goroutine
\* or for the mutex has told that goroutine to stop and holds nothing it needs,
\* and a pass that still runs has an ended context: no circle of waiting.
THEOREM ShutdownCannotDeadlock == Spec => []NoCircularWait
<1>1. ASSUME IInv, StopInv PROVE NoCircularWait
  <2>1. \A t \in Closers : pc[t] \in {"wait", "lock"} => stopped /\ holder # t
    BY <1>1 DEF StopInv
  <2>. QED BY <1>1, <2>1 DEF StopInv, NoCircularWait
<1>. QED BY <1>1, Invariance, StopInvariance, PTL

\* maintenanceLoop: after the stop channel is closed the goroutine never goes
\* back, so that it begins at most one more pass before it exits.
THEOREM AtMostOneMorePass == Spec => [][MaintenanceWindsDown]_vars
<1>1. IInv /\ StopInv /\ [Next]_vars => [MaintenanceWindsDown]_vars
  BY StopKeeps
<1>. QED BY <1>1, Invariance, StopInvariance, PTL DEF Spec

-----------------------------------------------------------------------------
(* The mutex is given back: every step of its holder lowers StepsLeft.      *)

\* There are three tables to visit.
LEMMA ThreeSignals == IsFiniteSet(Signals) /\ Cardinality(Signals) = 3
<1>. DEFINE L  == {"logs"}
            LS == L \cup {"spans"}
<1>1. IsFiniteSet(L) /\ Cardinality(L) = 1
  BY FS_Singleton
<1>2. IsFiniteSet(LS) /\ Cardinality(LS) = 2
  <2>1. "spans" \notin L
    OBVIOUS
  <2>. HIDE DEF L
  <2>. QED BY <1>1, <2>1, FS_AddElement
<1>3. Signals = LS \cup {"metrics"} /\ "metrics" \notin LS
  OBVIOUS
<1>. HIDE DEF LS, Signals
<1>4. IsFiniteSet(LS \cup {"metrics"}) /\ Cardinality(LS \cup {"metrics"}) = 2 + 1
  BY <1>2, <1>3, FS_AddElement
<1>. QED BY <1>3, <1>4

\* The sets the holder walks through are finite, so their sizes are numbers.
LEMMA SizesAreNumbers ==
  ASSUME IInv
  PROVE  /\ \A s \in Signals : IsFiniteSet(expired[s]) /\ Cardinality(expired[s]) \in Nat
         /\ IsFiniteSet(tables) /\ Cardinality(tables) \in 0 .. 3
         /\ IsFiniteSet(work) /\ Cardinality(work) \in Nat
         /\ \A t \in Threads : IsFiniteSet(Batch(t)) /\ Cardinality(Batch(t)) \in Nat
         /\ ExpiredRows \in Nat
<1>1. \A s \in Signals : IsFiniteSet(Records[s]) /\ IsFiniteSet(expired[s])
  BY RecordsAssumption, FS_Subset DEF TablesOK
<1>2. tables \in SUBSET Signals
  BY DEF LocalsOK
<1>3. IsFiniteSet(tables) /\ Cardinality(tables) <= 3
  <2>. HIDE DEF Signals, IInv
  <2>. QED BY <1>2, ThreeSignals, FS_Subset
<1>4. Cardinality(tables) \in Nat
  BY <1>3, FS_CardinalityType
<1>5. IsFiniteSet(Records["logs"] \cup Records["spans"] \cup Records["metrics"])
  BY <1>1, FS_Union
<1>6. work \subseteq Records["logs"] \cup Records["spans"] \cup Records["metrics"]
  BY DEF LocalsOK
<1>7. IsFiniteSet(work)
  BY <1>5, <1>6, FS_Subset
<1>8. \A t \in Threads : IsFiniteSet(Batch(t))
  <2>1. TAKE t \in Threads
  <2>2. CASE t \in Exporters /\ job[t] # Null
    <3>1. job[t] \in Jobs /\ Batch(t) = job[t].batch
      BY <2>2 DEF Batch
    <3>2. PICK s \in Signals : job[t] \in [sig : {s}, batch : SUBSET Records[s]]
      BY <3>1 DEF Jobs
    <3>3. Batch(t) \subseteq Records[s]
      BY <3>1, <3>2
    <3>. QED BY <1>1, <3>3, FS_Subset
  <2>3. CASE ~(t \in Exporters /\ job[t] # Null)
    <3>1. Batch(t) = {}
      BY <2>3 DEF Batch
    <3>. QED BY <3>1, FS_EmptySet
  <2>. QED BY <2>2, <2>3
<1>9. \A s \in Signals : Cardinality(expired[s]) \in Nat
  BY <1>1, FS_CardinalityType
<1>10. ExpiredRows \in Nat
  BY <1>9 DEF ExpiredRows
<1>11. Cardinality(work) \in Nat /\ \A t \in Threads : Cardinality(Batch(t)) \in Nat
  BY <1>7, <1>8, FS_CardinalityType
<1>. QED BY <1>1, <1>3, <1>4, <1>7, <1>8, <1>9, <1>10, <1>11

\* The bound is a number wherever the holder is.
LEMMA StepsLeftIsNumber ==
  ASSUME IInv, NEW t \in Threads
  PROVE  StepsLeft(t) \in Nat
<1>1. /\ Cardinality(Batch(t)) \in Nat /\ Cardinality(work) \in Nat
      /\ Cardinality(tables) \in Nat /\ ExpiredRows \in Nat
  BY SizesAreNumbers
<1>2. MaxPressure - pressure \in Nat
  BY DEF LocalsOK
<1>. HIDE DEF IInv
<1>. QED BY <1>1, <1>2 DEF StepsLeft

\* A step of another goroutine leaves the holder's bound alone.
LEMMA HolderUndisturbed ==
  ASSUME IInv, NEW t \in Threads, pc'[t] = pc[t], UNCHANGED <<rows, image, pend, work, tables>>,
         t \in Exporters => job'[t] = job[t],
         t = Maint => UNCHANGED <<expired, pass>>
  PROVE  /\ StepsLeft(t)' = StepsLeft(t) /\ pc'[t] = pc[t]
         /\ UNCHANGED <<rows, image, pend, work, tables>>
<1>1. CASE t = Maint
  BY <1>1 DEF StepsLeft, ExpiredRows, Batch
<1>2. CASE t # Maint
  <2>1. pc[t] \notin {"open", "retain", "pressure", "evict"}
    BY <1>2
  <2>2. Batch(t)' = Batch(t)
    BY DEF Batch
  <2>. HIDE DEF IInv
  <2>. QED BY <2>1, <2>2 DEF StepsLeft
<1>. QED BY <1>1, <1>2

\* The first table of a walk is struck off: one less to visit.
LEMMA OneTableLess ==
  ASSUME IInv, tables # {}
  PROVE  /\ First(tables) \in tables
         /\ Cardinality(tables \ {First(tables)}) = Cardinality(tables) - 1
<1>1. First(tables) \in tables
  BY FirstVisited DEF LocalsOK
<1>2. IsFiniteSet(tables)
  BY SizesAreNumbers
<1>. HIDE DEF IInv
<1>. QED BY <1>1, <1>2, FS_RemoveElement

\* Exports: the record loop shrinks, and every way out of it leads to Unlock.
LEMMA InsertAdvances ==
  ASSUME IInv, NEW t \in Exporters,
         \/ Admit(t) \/ InsertCommit(t) \/ TxFails(t) \/ LowerReady(t)
         \/ \E r \in work : InsertRecord(t, r)
  PROVE  holder = t /\ StepsLeft(t)' < StepsLeft(t)
<1>1. holder = t
  BY DEF Admit, InsertCommit, TxFails, LowerReady, InsertRecord
<1>2. /\ Cardinality(Batch(t)) \in Nat /\ Cardinality(work) \in Nat
      /\ IsFiniteSet(work)
  BY SizesAreNumbers
<1>3. CASE Admit(t)
  <2>1. StepsLeft(t) = Cardinality(Batch(t)) + 3
    BY <1>3 DEF Admit, StepsLeft
  <2>2. job[t] # Null /\ Batch(t) = job[t].batch
    BY <1>3, RecordsAssumption DEF Admit, JobInv, Jobs, Batch
  <2>3. \/ pc'[t] = "insert" /\ work' = Batch(t)
        \/ pc'[t] = "unlock"
    BY <1>3, <2>2 DEF Admit
  <2>4. StepsLeft(t)' \in {Cardinality(Batch(t)) + 2, 0}
    BY <2>3 DEF StepsLeft
  <2>. HIDE DEF IInv
  <2>. QED BY <1>1, <1>2, <2>1, <2>4
<1>4. CASE InsertCommit(t) \/ TxFails(t) \/ \E r \in work : InsertRecord(t, r)
  <2>1. pc[t] = "insert" /\ StepsLeft(t) = Cardinality(work) + 2
    BY <1>4 DEF InsertCommit, TxFails, InsertRecord, StepsLeft
  <2>2. \/ pc'[t] \in {"lower", "unlock"}
        \/ pc'[t] = "insert" /\ \E r \in work : work' = work \ {r}
    <3>1. CASE InsertCommit(t) \/ TxFails(t)
      BY <2>1, <3>1 DEF InsertCommit, TxFails, RecordError, Rollback
    <3>2. CASE \E r \in work : InsertRecord(t, r)
      <4>1. PICK r \in work : InsertRecord(t, r)
        BY <3>2
      <4>2. \/ Goto(t, "unlock")
            \/ UNCHANGED pc /\ work' = work \ {r}
        BY <4>1 DEF InsertRecord, Rollback
      <4>. QED BY <2>1, <4>2
    <3>. QED BY <1>4, <3>1, <3>2
  <2>3. CASE pc'[t] \in {"lower", "unlock"}
    <3>1. StepsLeft(t)' \in {0, 1}
      BY <2>3 DEF StepsLeft
    <3>. QED BY <1>1, <1>2, <2>1, <3>1
  <2>4. CASE pc'[t] = "insert" /\ \E r \in work : work' = work \ {r}
    <3>1. StepsLeft(t)' = Cardinality(work') + 2
      BY <2>4 DEF StepsLeft
    <3>2. Cardinality(work') = Cardinality(work) - 1
      BY <1>2, <2>4, FS_RemoveElement
    <3>. HIDE DEF IInv
    <3>. QED BY <1>1, <1>2, <2>1, <3>1, <3>2
  <2>. QED BY <2>2, <2>3, <2>4
<1>5. CASE LowerReady(t)
  <2>1. pc[t] = "lower" /\ pc'[t] = "unlock"
    BY <1>5 DEF LowerReady
  <2>. HIDE DEF IInv
  <2>. QED BY <1>1, <2>1 DEF StepsLeft
<1>. QED BY <1>3, <1>4, <1>5

\* Clears and snapshots.
LEMMA ClearAdvances ==
  ASSUME IInv, NEW t \in Clearers \cup Viewers,
         \/ t \in Clearers /\ ClearStep(t)
         \/ t \in Viewers /\ View(t)
  PROVE  holder = t /\ StepsLeft(t)' < StepsLeft(t)
<1>1. holder = t
  BY DEF ClearStep, ClearCheck, ClearTable, ClearCommit, TxFails, LowerReady, View
<1>2. Cardinality(tables) \in 0 .. 3
  BY SizesAreNumbers
<1>3. CASE View(t) /\ t \in Viewers
  <2>1. pc[t] = "view" /\ pc'[t] = "unlock"
    BY <1>3 DEF View
  <2>. HIDE DEF IInv
  <2>. QED BY <1>1, <2>1 DEF StepsLeft
<1>4. CASE ClearCheck(t) /\ t \in Clearers
  <2>1. pc[t] = "clearCheck" /\ \/ pc'[t] = "clear" /\ tables' = Signals
                                \/ pc'[t] = "unlock"
    BY <1>4 DEF ClearCheck
  <2>2. StepsLeft(t) = 6 /\ StepsLeft(t)' \in {Cardinality(Signals) + 2, 0}
    BY <2>1 DEF StepsLeft
  <2>. HIDE DEF IInv, Signals
  <2>. QED BY <1>1, <2>2, ThreeSignals
<1>5. CASE (ClearTable(t) \/ ClearCommit(t) \/ TxFails(t)) /\ t \in Clearers
  <2>1. pc[t] = "clear" /\ \/ pc'[t] \in {"lower", "unlock"}
                           \/ /\ pc'[t] = "clear" /\ tables # {}
                              /\ tables' = tables \ {First(tables)}
    BY <1>5 DEF ClearTable, ClearCommit, TxFails, RecordError, Rollback
  <2>2. tables # {} => Cardinality(tables \ {First(tables)}) = Cardinality(tables) - 1
    BY OneTableLess
  <2>. HIDE DEF IInv
  <2>3. StepsLeft(t) = Cardinality(tables) + 2
    BY <2>1 DEF StepsLeft
  <2>4. CASE pc'[t] \in {"lower", "unlock"}
    <3>1. StepsLeft(t)' \in {0, 1}
      BY <2>4 DEF StepsLeft
    <3>. QED BY <1>1, <1>2, <2>3, <3>1
  <2>5. CASE pc'[t] = "clear" /\ tables # {} /\ tables' = tables \ {First(tables)}
    <3>1. StepsLeft(t)' = Cardinality(tables \ {First(tables)}) + 2
      BY <2>5 DEF StepsLeft
    <3>. QED BY <1>1, <1>2, <2>2, <2>3, <2>5, <3>1
  <2>. QED BY <2>1, <2>4, <2>5
<1>6. CASE LowerReady(t) /\ t \in Clearers
  <2>1. pc[t] = "lower" /\ pc'[t] = "unlock"
    BY <1>6 DEF LowerReady
  <2>. HIDE DEF IInv
  <2>. QED BY <1>1, <2>1 DEF StepsLeft
<1>. QED BY <1>3, <1>4, <1>5, <1>6 DEF ClearStep

\* A round of Retain that removes D leaves that many fewer rows to expire.
LEMMA ExpiredShrinks ==
  ASSUME IInv, NEW s \in Signals, NEW D \in SUBSET expired[s],
         DeleteRows([z \in Signals |-> IF z = s THEN D ELSE {}])
  PROVE  ExpiredRows' = ExpiredRows - Cardinality(D)
<1>1. /\ expired'[s] = expired[s] \ D
      /\ \A z \in Signals : z # s => expired'[z] = expired[z]
  BY DEF DeleteRows
<1>2. \A z \in Signals : IsFiniteSet(expired[z]) /\ Cardinality(expired[z]) \in Nat
  BY SizesAreNumbers
<1>. HIDE DEF IInv
<1>3. /\ Cardinality(D) \in Nat
      /\ Cardinality(expired[s] \ D) = Cardinality(expired[s]) - Cardinality(D)
  <2>. HIDE DEF Signals
  <2>. QED BY <1>2, CardinalityRemoved
<1>. DEFINE c(z) == Cardinality(expired[z])
            d(z) == Cardinality(expired'[z])
<1>4. c("logs") \in Nat /\ c("spans") \in Nat /\ c("metrics") \in Nat
  BY <1>2
<1>5. ExpiredRows = c("logs") + c("spans") + c("metrics")
  BY DEF ExpiredRows
<1>6. ExpiredRows' = d("logs") + d("spans") + d("metrics")
  BY DEF ExpiredRows
<1>7. d(s) = c(s) - Cardinality(D) /\ \A z \in Signals : z # s => d(z) = c(z)
  BY <1>1, <1>3
<1>. HIDE DEF c, d
<1>8. CASE s = "logs"
  BY <1>3, <1>4, <1>5, <1>6, <1>7, <1>8
<1>9. CASE s = "spans"
  BY <1>3, <1>4, <1>5, <1>6, <1>7, <1>9
<1>10. CASE s = "metrics"
  BY <1>3, <1>4, <1>5, <1>6, <1>7, <1>10
<1>. QED BY <1>8, <1>9, <1>10

\* Another round over the tables is paid for by the rows of a full one.
LEMMA RetainAdvances ==
  ASSUME IInv, Retain
  PROVE  holder = Maint /\ StepsLeft(Maint)' < StepsLeft(Maint)
<1>. DEFINE s    == First(tables)
            n    == AtMostRound(Cardinality(expired[s]))
            full == more \/ n = RoundSize
            left == tables \ {s}
            loop == 2 * (MaxPressure - pressure)
<1>1. holder = Maint /\ pc[Maint] = "retain" /\ tables # {} /\ UNCHANGED pressure
  BY DEF Retain, HealthInv, PassInv
<1>2. s \in Signals /\ Cardinality(left) = Cardinality(tables) - 1 /\ Cardinality(tables) \in 0 .. 3
  BY <1>1, OneTableLess, SizesAreNumbers DEF LocalsOK
<1>3. ExpiredRows' = ExpiredRows - n /\ n \in Nat /\ ExpiredRows \in Nat
  <2>1. PICK D \in SUBSET expired[s] :
          Cardinality(D) = n /\ DeleteRows([z \in Signals |-> IF z = s THEN D ELSE {}])
    BY DEF Retain
  <2>2. n \in Nat
    BY <1>2, SizesAreNumbers DEF AtMostRound
  <2>. QED BY <1>2, <2>1, <2>2, ExpiredShrinks, SizesAreNumbers
<1>4. ExpiredRows' \in Int /\ loop \in Nat /\ more \in BOOLEAN /\ RoundSize \in Nat \ {0}
  BY <1>3 DEF LocalsOK
<1>5. \/ pc'[Maint] = "retain" /\ tables' = left /\ more' = full
      \/ pc'[Maint] = "retain" /\ full /\ tables' = Signals /\ more' = FALSE
      \/ pc'[Maint] = "pressure"
  BY <1>1 DEF Retain
<1>6. StepsLeft(Maint) = loop + 4 * ExpiredRows + 5 + Cardinality(tables) + (IF more THEN 4 ELSE 0)
  BY <1>1 DEF StepsLeft
<1>. HIDE DEF IInv, s, n, left
<1>7. CASE pc'[Maint] = "retain" /\ tables' = left /\ more' = full
  <2>1. StepsLeft(Maint)' = loop + 4 * ExpiredRows' + 5 + Cardinality(left) + (IF full THEN 4 ELSE 0)
    BY <1>1, <1>7 DEF StepsLeft
  <2>. HIDE DEF loop
  <2>. QED BY <1>1, <1>2, <1>3, <1>4, <1>6, <2>1
<1>8. CASE pc'[Maint] = "retain" /\ full /\ tables' = Signals /\ more' = FALSE
  <2>1. StepsLeft(Maint)' = loop + 4 * ExpiredRows' + 5 + 3
    <3>. HIDE DEF Signals
    <3>. QED BY <1>1, <1>4, <1>8, ThreeSignals DEF StepsLeft
  <2>2. Cardinality(tables) >= 1
    <3>1. Cardinality(left) \in Nat
      BY SizesAreNumbers, <1>2, FS_CardinalityType, FS_RemoveElement DEF left, IInv
    <3>. QED BY <1>2, <3>1
  <2>. HIDE DEF loop
  <2>. QED BY <1>1, <1>2, <1>3, <1>4, <1>6, <1>8, <2>1, <2>2
<1>9. CASE pc'[Maint] = "pressure"
  <2>1. StepsLeft(Maint)' = loop + 4
    BY <1>1, <1>9 DEF StepsLeft
  <2>. HIDE DEF loop
  <2>. QED BY <1>1, <1>2, <1>3, <1>4, <1>6, <2>1
<1>. QED BY <1>5, <1>7, <1>8, <1>9

\* The pressure loop has a last iteration, and after it only the result is left
\* to publish.
LEMMA PassAdvances ==
  ASSUME IInv,
         \/ MaintainOpen \/ Pressure \/ Evict \/ MaintainFails
         \/ Publish \/ LowerReady(Maint) \/ Raise
  PROVE  holder = Maint /\ StepsLeft(Maint)' < StepsLeft(Maint)
<1>. DEFINE loop == 2 * (MaxPressure - pressure)
<1>1. pc[Maint] \in MaintInside /\ holder = Maint
  BY DEF MaintainOpen, Pressure, Evict, MaintainFails, Publish, LowerReady, Raise
<1>2. /\ Cardinality(tables) \in 0 .. 3 /\ ExpiredRows \in Nat
      /\ loop \in Nat /\ more \in BOOLEAN /\ pressure \in Nat
  BY SizesAreNumbers DEF LocalsOK
<1>3. CASE pc'[Maint] = "publish" /\ pc[Maint] \in {"open", "retain", "pressure", "evict"}
  <2>. HIDE DEF IInv
  <2>1. StepsLeft(Maint)' = 2
    BY <1>3 DEF StepsLeft
  <2>2. StepsLeft(Maint) >= 3
    BY <1>2, <1>3 DEF StepsLeft
  <2>. QED BY <1>1, <1>2, <2>1, <2>2 DEF StepsLeft
<1>4. CASE MaintainOpen /\ pc'[Maint] # "publish"
  <2>1. /\ pc[Maint] = "open" /\ pc'[Maint] = "retain"
        /\ tables' = Signals /\ UNCHANGED <<pass, expired>>
    BY <1>4 DEF MaintainOpen, Conclude
  <2>2. StepsLeft(Maint) = loop + 4 * ExpiredRows + 14
    BY <2>1 DEF StepsLeft
  <2>3. StepsLeft(Maint)' = loop + 4 * ExpiredRows + 5 + Cardinality(Signals) + (IF more THEN 4 ELSE 0)
    BY <2>1 DEF StepsLeft, ExpiredRows
  <2>. HIDE DEF IInv, loop, Signals
  <2>. QED BY <1>1, <1>2, <2>2, <2>3, ThreeSignals
<1>5. CASE Pressure /\ pc'[Maint] # "publish"
  <2>1. pc[Maint] = "pressure" /\ pc'[Maint] = "evict" /\ UNCHANGED pressure
    BY <1>5 DEF Pressure, Conclude
  <2>2. StepsLeft(Maint) = loop + 4 /\ StepsLeft(Maint)' = loop + 3
    BY <2>1 DEF StepsLeft
  <2>. HIDE DEF IInv, loop
  <2>. QED BY <1>1, <1>2, <2>2
<1>6. CASE Evict /\ pc'[Maint] # "publish"
  <2>1. pc[Maint] = "evict" /\ pc'[Maint] = "pressure" /\ pressure' = pressure + 1
    BY <1>6 DEF Evict, Conclude
  <2>2. StepsLeft(Maint) = loop + 3 /\ StepsLeft(Maint)' = 2 * (MaxPressure - (pressure + 1)) + 4
    BY <2>1 DEF StepsLeft
  <2>. HIDE DEF IInv
  <2>. QED BY <1>1, <1>2, <2>2
<1>7. CASE Publish \/ LowerReady(Maint) \/ Raise
  <2>1. \/ pc[Maint] = "publish" /\ pc'[Maint] \in {"lower", "raise", "mUnlock"}
        \/ pc[Maint] \in {"lower", "raise"} /\ pc'[Maint] = "mUnlock"
    <3>1. CASE Publish
      <4>1. pc[Maint] = "publish" /\ \E l \in {"lower", "mUnlock", "raise"} : Goto(Maint, l)
        BY <3>1 DEF Publish, RecordError
      <4>. QED BY <4>1
    <3>. QED BY <1>7, <3>1 DEF LowerReady, Raise
  <2>. HIDE DEF IInv
  <2>. QED BY <1>1, <2>1 DEF StepsLeft
<1>8. MaintainFails => pc'[Maint] = "publish"
  BY DEF MaintainFails, Conclude
<1>. QED BY <1>3, <1>4, <1>5, <1>6, <1>7, <1>8 DEF MaintainOpen, Pressure, Evict, MaintainFails

\* Steps of callers and of Shutdown outside the mutex, and of the environment.
LEMMA OthersLetTheHolderBe ==
  ASSUME IInv, NEW t \in Threads, holder = t, holder' = t,
         \/ \E u \in Exporters, s \in Signals : \E b \in SUBSET Records[s] : Insert(u, s, b)
         \/ \E u \in Clearers \cup Viewers : CallLocked(u)
         \/ \E u \in Exporters : InsertCheck(u)
         \/ \E u \in Callers : Return(u) \/ Cancel(u) \/ LockAbort(u)
         \/ LockAbort(Maint) \/ Tick \/ StopLoop \/ Timeout
         \/ \E u \in Closers : Shutdown(u) \/ ShutdownUnready(u) \/ ShutdownOnce(u) \/ ShutdownWait(u)
         \/ \E s \in Signals : \E r \in Records[s] : Age(s, r)
         \/ DiskChanges \/ UNCHANGED vars
  PROVE  /\ StepsLeft(t)' = StepsLeft(t) /\ pc'[t] = pc[t]
         /\ UNCHANGED <<rows, image, pend, work, tables>>
<1>0. pc[t] \in Inside /\ \A u \in Threads : u # t => pc[u] \notin Inside
  OBVIOUS
<1>1. CASE \E u \in Exporters, s \in Signals : \E b \in SUBSET Records[s] : Insert(u, s, b)
  <2>0. PICK u \in Exporters, s \in Signals : \E b \in SUBSET Records[s] : Insert(u, s, b)
    BY <1>1
  <2>1. PICK b \in SUBSET Records[s] : Insert(u, s, b)
    BY <2>0
  <2>2. u # t /\ pc'[t] = pc[t] /\ (t \in Exporters => job'[t] = job[t])
    BY <1>0, <2>1 DEF Insert
  <2>. QED BY <2>1, <2>2, HolderUndisturbed DEF Insert
<1>2. CASE \E u \in Callers : Return(u)
  <2>1. PICK u \in Callers : Return(u)
    BY <1>2
  <2>2. pc[u] = "return"
    BY <2>1 DEF Return
  <2>3. u # t /\ pc'[t] = pc[t] /\ (t \in Exporters => job'[t] = job[t])
    BY <1>0, <2>1, <2>2 DEF Return
  <2>. QED BY <2>1, <2>3, HolderUndisturbed DEF Return
<1>3. CASE \E u \in Callers : LockAbort(u)
  <2>1. PICK u \in Callers : LockAbort(u)
    BY <1>3
  <2>2. u # t /\ pc'[t] = pc[t] /\ UNCHANGED <<job, pass>>
    BY <1>0, <2>1 DEF LockAbort, GiveUp
  <2>. QED BY <2>1, <2>2, HolderUndisturbed DEF LockAbort
<1>4. CASE LockAbort(Maint)
  <2>1. Maint # t /\ pc'[t] = pc[t] /\ UNCHANGED job
    BY <1>0, <1>4 DEF LockAbort, GiveUp, NextTick
  <2>. QED BY <1>4, <2>1, HolderUndisturbed DEF LockAbort
<1>5. CASE \/ \E u \in Clearers \cup Viewers : CallLocked(u)
           \/ \E u \in Exporters : InsertCheck(u)
           \/ \E u \in Callers : Cancel(u)
           \/ Tick \/ StopLoop \/ Timeout
           \/ \E u \in Closers : Shutdown(u) \/ ShutdownUnready(u) \/ ShutdownOnce(u) \/ ShutdownWait(u)
           \/ DiskChanges \/ UNCHANGED vars
  <2>1. UNCHANGED <<job, pass, stored, tx>>
    BY <1>5 DEF CallLocked, InsertCheck, Cancel, Tick, StopLoop, Timeout, Shutdown, ShutdownUnready,
                ShutdownOnce, ShutdownWait, DiskChanges
  <2>. DEFINE Moves == \/ UNCHANGED pc
                       \/ \E u \in Threads : pc[u] \notin Inside /\ \E l : Goto(u, l)
  <2>2. Moves
    <3>1. ASSUME NEW u \in Clearers \cup Viewers, CallLocked(u) PROVE Moves
      BY <3>1 DEF CallLocked
    <3>2. ASSUME NEW u \in Exporters, InsertCheck(u) PROVE Moves
      BY <3>2 DEF InsertCheck
    <3>3. CASE (\E u \in Callers : Cancel(u)) \/ Timeout \/ DiskChanges \/ UNCHANGED vars
      BY <3>3 DEF Cancel, Timeout, DiskChanges
    <3>4. CASE Tick \/ StopLoop
      BY <3>4 DEF Tick, StopLoop
    <3>5. ASSUME NEW u \in Closers,
                 Shutdown(u) \/ ShutdownUnready(u) \/ ShutdownOnce(u) \/ ShutdownWait(u)
          PROVE  Moves
      BY <3>5 DEF Shutdown, ShutdownUnready, ShutdownOnce, ShutdownWait
    <3>. QED BY <1>5, <3>1, <3>2, <3>3, <3>4, <3>5
  <2>3. pc'[t] = pc[t]
    BY <1>0, <2>2
  <2>. QED BY <2>1, <2>3, HolderUndisturbed
<1>6. CASE \E s \in Signals : \E r \in Records[s] : Age(s, r)
  <2>1. pc[Maint] = "select" /\ UNCHANGED <<pc, job, pass, rows, tx>>
    BY <1>6 DEF Age
  <2>2. t # Maint
    BY <1>0, <2>1
  <2>. QED BY <2>1, <2>2, HolderUndisturbed
<1>. QED BY <1>1, <1>2, <1>3, <1>4, <1>5, <1>6

\* Every step is the holder's, and lowers its bound, or leaves it in peace.
LEMMA EveryStepAdvances ==
  ASSUME IInv, [Next]_vars
  PROVE  HolderAdvances
<1>. SUFFICES ASSUME NEW t \in Threads, holder = t, holder' = t
              PROVE  \/ StepsLeft(t)' < StepsLeft(t)
                     \/ /\ StepsLeft(t)' = StepsLeft(t) /\ pc'[t] = pc[t]
                        /\ UNCHANGED <<rows, image, pend, work, tables>>
  BY DEF HolderAdvances
<1>1. CASE Start
  BY <1>1 DEF Start, LifeInv, StartInv
<1>2. CASE \E u \in Exporters : InsertStep(u)
  BY <1>2, InsertAdvances, OthersLetTheHolderBe DEF InsertStep
<1>3. CASE (\E u \in Clearers : ClearStep(u)) \/ (\E u \in Viewers : View(u))
  BY <1>3, ClearAdvances
<1>4. CASE \E u \in Threads : Acquire(u)
  BY <1>4 DEF Acquire
<1>5. CASE \E u \in Callers \cup {Maint} : RecheckAbort(u)
  BY <1>5 DEF RecheckAbort, GiveBack
<1>6. CASE MaintainStep
  <2>1. ~MaintainUnlock
    BY DEF MaintainUnlock
  <2>. QED BY <1>6, <2>1, RetainAdvances, PassAdvances, OthersLetTheHolderBe DEF MaintainStep
<1>7. CASE \E u \in Closers : ShutdownStep(u)
  <2>1. PICK u \in Closers : ShutdownStep(u)
    BY <1>7
  <2>2. CASE ShutdownClose(u)
    <3>1. u = t /\ pc[t] = "close" /\ pc'[t] = "release"
      BY <2>2 DEF ShutdownClose
    <3>. HIDE DEF IInv
    <3>. QED BY <3>1 DEF StepsLeft
  <2>3. ~ShutdownRelease(u)
    BY DEF ShutdownRelease
  <2>. QED BY <2>1, <2>2, <2>3, OthersLetTheHolderBe DEF ShutdownStep
<1>8. CASE \/ \E u \in Exporters, s \in Signals : \E b \in SUBSET Records[s] : Insert(u, s, b)
           \/ \E u \in Clearers \cup Viewers : CallLocked(u)
           \/ \E u \in Callers : Return(u) \/ Cancel(u) \/ LockAbort(u)
           \/ LockAbort(Maint) \/ Timeout
           \/ \E u \in Closers : Shutdown(u)
           \/ \E s \in Signals : \E r \in Records[s] : Age(s, r)
           \/ DiskChanges \/ UNCHANGED vars
  BY <1>8, OthersLetTheHolderBe
<1>. QED BY <1>1, <1>2, <1>3, <1>4, <1>5, <1>6, <1>7, <1>8 DEF Next, Terminated

\* contextMutex, Insert*, Clear, Snapshot, Maintain, Shutdown: whoever holds the
\* mutex has a number of steps left that each of its own steps lowers and no other
\* goroutine's step changes, so it gives the mutex back after at most that many:
\* a batch's records, three tables, the expired rows and MaxPressure iterations.
THEOREM MutexIsReturned ==
  Spec => /\ [](\A t \in Threads : StepsLeft(t) \in Nat)
          /\ [][HolderAdvances]_vars
<1>1. IInv => \A t \in Threads : StepsLeft(t) \in Nat
  BY StepsLeftIsNumber
<1>2. IInv /\ [Next]_vars => [HolderAdvances]_vars
  BY EveryStepAdvances
<1>. QED BY <1>1, <1>2, Invariance, PTL DEF Spec

-----------------------------------------------------------------------------
(* Stored content is never replaced.                                        *)

LEMMA TelemetryInvariance == Spec => []TelemetryInv
<1>1. Init => TelemetryInv
  BY DEF Init, TelemetryInv, CallInv, BatchInv
<1>2. IInv /\ TelemetryInv /\ [Next]_vars => TelemetryInv'
  BY NextRefines
<1>. QED BY <1>1, <1>2, Invariance, PTL DEF Spec

\* Rows change in three ways only: an insert's commit, deletion, or not at all.
LEMMA RowsChange ==
  ASSUME IInv, [Next]_vars
  PROVE  \/ \E t \in Exporters : InsertCommit(t)
         \/ \A s \in Signals : rows'[s] \subseteq rows[s]
<1>1. CASE Start \/ (\E t \in Exporters, s \in Signals : \E b \in SUBSET Records[s] : Insert(t, s, b))
           \/ (\E t \in Clearers \cup Viewers : CallLocked(t)) \/ \E t \in Viewers : View(t)
  BY <1>1 DEF Start, Insert, CallLocked, View
<1>2. CASE \E t \in Exporters : InsertStep(t)
  <2>1. PICK t \in Exporters : InsertStep(t)
    BY <1>2
  <2>2. InsertCommit(t) \/ UNCHANGED rows
    BY <2>1 DEF InsertStep, InsertCheck, Admit, TxFails, LowerReady, InsertRecord, Rollback, Write
  <2>. QED BY <2>2
<1>3. CASE \E t \in Clearers : ClearStep(t)
  <2>1. PICK t \in Clearers : ClearStep(t)
    BY <1>3
  <2>2. CASE ClearCommit(t)
    <3>1. pc[t] = "clear" /\ tables = {} /\ rows' = image
      BY <2>2 DEF ClearCommit
    <3>2. \A s \in Signals : image[s] = {}
      BY <3>1 DEF TxInv, ClearTxInv
    <3>. QED BY <3>1, <3>2
  <2>3. CASE ~ClearCommit(t)
    <3>1. UNCHANGED rows
      BY <2>1, <2>3 DEF ClearStep, ClearCheck, ClearTable, TxFails, LowerReady, Rollback, Write
    <3>. QED BY <3>1
  <2>. QED BY <2>2, <2>3
<1>4. CASE \E t \in Callers : Return(t) \/ Cancel(t)
  BY <1>4 DEF Return, Cancel
<1>5. CASE \E t \in Threads : Acquire(t)
  BY <1>5 DEF Acquire
<1>6. CASE \E t \in Callers \cup {Maint} : LockAbort(t) \/ RecheckAbort(t)
  BY <1>6 DEF LockAbort, RecheckAbort
<1>7. CASE Retain \/ Evict
  <2>1. (\E D : DeleteRows(D)) \/ UNCHANGED rows
    BY <1>7 DEF Retain, Evict
  <2>. QED BY <2>1 DEF DeleteRows
<1>8. CASE (MaintainStep \/ Timeout) /\ ~Retain /\ ~Evict
  BY <1>8 DEF MaintainStep, Timeout, Tick, StopLoop, MaintainOpen, Pressure, MaintainFails, Publish,
              LowerReady, Raise, MaintainUnlock
<1>9. CASE \E t \in Closers : Shutdown(t) \/ ShutdownStep(t)
  BY <1>9 DEF Shutdown, ShutdownStep, ShutdownUnready, ShutdownOnce, ShutdownWait, ShutdownClose,
              ShutdownRelease
<1>10. CASE (\E s \in Signals : \E r \in Records[s] : Age(s, r)) \/ DiskChanges \/ UNCHANGED vars
  BY <1>10 DEF Age, DiskChanges
<1>. QED BY <1>1, <1>2, <1>3, <1>4, <1>5, <1>6, <1>7, <1>8, <1>9, <1>10 DEF Next, Terminated

\* An insert that meets other content under its key never gets to its commit.
LEMMA ContentKept ==
  ASSUME IInv, TelemetryInv, OneContent(rows), [Next]_vars
  PROVE  OneContent(rows)' /\ ContentStays
<1>1. CASE \A s \in Signals : rows'[s] \subseteq rows[s]
  <2>. HIDE DEF IInv, Signals
  <2>. QED BY <1>1 DEF OneContent, ContentStays, Key
<1>2. CASE \E t \in Exporters : InsertCommit(t)
  <2>1. PICK t \in Exporters : InsertCommit(t)
    BY <1>2
  <2>. DEFINE s    == job[t].sig
              done == job[t].batch \ work
  <2>2. /\ s \in Signals /\ image = [rows EXCEPT ![s] = @ \cup done] /\ image[s] = rows[s] \cup done
        /\ \A r \in done, q \in rows[s] \cup done : Key(s, r) = Key(s, q) => r = q
    <3>1. pc[t] = "insert" /\ s = job[t].sig /\ done = job[t].batch \ work
      BY <2>1 DEF InsertCommit
    <3>2. /\ s \in Signals /\ job[t].batch \subseteq Records[s] /\ work \subseteq job[t].batch /\ db
          /\ image = [rows EXCEPT ![s] = @ \cup done] /\ image[s] = rows[s] \cup done
          /\ \A r \in done, q \in rows[s] \cup done : Key(s, r) = Key(s, q) => r = q
          /\ \A u \in Exporters : pc[u] = "insert" => u = t
      BY <3>1, OpenBatch DEF s, done
    <3>. QED BY <3>2
  <2>3. rows'[s] = rows[s] \cup done /\ \A z \in Signals : z # s => rows'[z] = rows[z]
    BY <2>1, <2>2 DEF InsertCommit, TablesOK
  <2>. HIDE DEF IInv, s, done, Signals
  <2>4. \A z \in Signals : rows[z] \subseteq rows'[z]
    BY <2>3
  <2>5. \A r, q \in rows'[s] : Key(s, r) = Key(s, q) => r = q
    BY <2>2, <2>3 DEF OneContent
  <2>6. \A z \in Signals : \A r, q \in rows'[z] : Key(z, r) = Key(z, q) => r = q
    BY <2>3, <2>5 DEF OneContent
  <2>7. OneContent(rows)'
    BY <2>6 DEF OneContent, Key
  <2>8. ContentStays
    BY <2>4, <2>6 DEF ContentStays
  <2>. QED BY <2>7, <2>8
<1>. QED BY <1>1, <1>2, RowsChange

\* InsertSpans, InsertLogs, InsertMetricPoints: a table never holds two contents
\* under one identity, and no step of any goroutine puts another content in the
\* place of a stored one: it has to be deleted first.
THEOREM ContentIsNeverReplaced == Spec => []OneContent(rows) /\ [][ContentStays]_vars
<1>1. Init => OneContent(rows)
  <2>1. ASSUME Init, NEW s \in Signals, NEW r \in rows[s], NEW q \in rows[s], Key(s, r) = Key(s, q)
        PROVE  r = q
    BY <2>1, IdentityAssumption DEF Init, Key
  <2>. QED BY <2>1 DEF OneContent
<1>2. IInv /\ TelemetryInv /\ OneContent(rows) /\ [Next]_vars
        => OneContent(rows)' /\ [ContentStays]_vars
  BY ContentKept
<1>. QED BY <1>1, <1>2, Invariance, TelemetryInvariance, PTL DEF Spec
=============================================================================
