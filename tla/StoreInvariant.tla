---------------------------- MODULE StoreInvariant ----------------------------
(***************************************************************************)
(* The inductive invariant from which StoreProofs derives the safety       *)
(* properties of Store.  Its parts say what Store's own properties leave   *)
(* unsaid: who is inside the mutex, what an open transaction has done so   *)
(* far, and what each point of Shutdown has already achieved.              *)
(***************************************************************************)
EXTENDS Store

\* The permit is held by the goroutine between LockContext and Unlock.
LockInv == \A t \in Threads : pc[t] \in Inside <=> holder = t

\* A caller of Insert* keeps its batch until it returns.
JobInv == \A t \in Exporters : pc[t] # "idle" => job[t] \in Jobs

\* Success is answered only between the commit and the Unlock.
AnswerInv ==
  \A t \in Exporters : answer[t] = "ok" =>
    pc[t] = "unlock" /\ job[t].batch \subseteq rows[job[t].sig]

\* Outside transactions the connection sees the committed rows.
IdleTxInv == (\A t \in Threads : pc[t] \notin InTx) => image = rows /\ pend = Zero

\* An insert has added the visited records and counted exactly the new ones.
InsertTxInv ==
  \A t \in Exporters : pc[t] = "insert" =>
    /\ work \subseteq job[t].batch
    /\ job[t].batch \ work \subseteq image[job[t].sig]
    /\ \A s \in Signals : /\ rows[s] \subseteq image[s]
                          /\ Cardinality(image[s]) = Cardinality(rows[s]) + pend[s]

\* A clear has emptied and counted exactly the visited tables.
ClearTxInv ==
  \A t \in Clearers : pc[t] = "clear" =>
    \A s \in Signals :
      IF s \in tables
      THEN image[s] = rows[s] /\ pend[s] = 0
      ELSE image[s] = {} /\ pend[s] = Cardinality(rows[s])

\* Before Start nothing has happened; a failed Start leaves nothing behind.
StartInv ==
  /\ phase = "new" => ~unverified /\ ~lastError /\ \A t \in Threads : pc[t] = "idle"
  /\ phase # "started" => ~db /\ ~owned /\ pc[Maint] = "idle"

\* How far each Shutdown has come.
CloseInv ==
  \A t \in Closers :
    /\ pc[t] # "idle" => closing
    /\ pc[t] \in {"lock", "close", "release", "done"} => Done
    /\ pc[t] \in {"release", "done"} => ~db
    /\ pc[t] = "done" => ~owned

\* Maintain starts from a clean slate and publishes before it lets go.
PassInv ==
  /\ holder = Maint => ~unverified
  /\ pc[Maint] = "raise" => ~lastError
  /\ \A t \in Threads : pc[t] = "lower" => lastError
  /\ pc[Maint] = "evict" => pressure < MaxPressure
  /\ pc[Maint] = "retain" => tables # {}

\* A call's request is forgotten when it returns, and its answer is known from
\* the point where only recordWriteError, Unlock and the return are left.
CallInv ==
  /\ \A t \in Exporters : pc[t] = "idle" => job[t] = Null
  /\ \A t \in Exporters \cup Clearers :
       answer[t] # "none" <=> pc[t] \in {"lower", "unlock", "return"}

\* An insert's view is the committed tables plus the records it has visited,
\* and none of those contradicts another or a stored one.
BatchInv ==
  \A t \in Exporters : pc[t] = "insert" =>
    LET s    == job[t].sig
        done == job[t].batch \ work
    IN  /\ image = [rows EXCEPT ![s] = @ \cup done]
        /\ \A r \in done, q \in rows[s] \cup done : Key(s, r) = Key(s, q) => r = q

\* What the step-by-step refinement of Telemetry needs besides IInv.
TelemetryInv == CallInv /\ BatchInv

MutexInv  == LockInv /\ JobInv /\ AnswerInv
TxInv     == IdleTxInv /\ InsertTxInv /\ ClearTxInv /\ CountersMatchRows
LifeInv   == StartInv /\ CloseInv /\ NoUseAfterClose /\ OwnedWhileOpen
HealthInv == PassInv /\ FaultNotMasked /\ HealthAgrees

\* All parts hold in every state that Start, the calls, Maintain and Shutdown
\* can reach together: the invariant the proofs preserve step by step.
IInv == TypeOK /\ MutexInv /\ TxInv /\ LifeInv /\ HealthInv

-----------------------------------------------------------------------------
(* What keeps the mutex from being held for ever.                           *)

Batch(t) == IF t \in Exporters /\ job[t] # Null THEN job[t].batch ELSE {}

ExpiredRows ==
  Cardinality(expired["logs"]) + Cardinality(expired["spans"])
    + Cardinality(expired["metrics"])

\* A bound on the steps goroutine t still takes before it gives the mutex back:
\* records and tables still to visit, rows still to expire (a full round of
\* Retain starts another one) and iterations of the pressure loop left.
StepsLeft(t) ==
  LET loop == 2 * (MaxPressure - pressure)
  IN  CASE pc[t] = "admit"      -> Cardinality(Batch(t)) + 3
        [] pc[t] = "insert"     -> Cardinality(work) + 2
        [] pc[t] = "clearCheck" -> 6
        [] pc[t] = "clear"      -> Cardinality(tables) + 2
        [] pc[t] = "open"       -> loop + 4 * ExpiredRows + 14
        [] pc[t] = "retain"     -> loop + 4 * ExpiredRows + 5 + Cardinality(tables)
                                     + (IF more THEN 4 ELSE 0)
        [] pc[t] = "pressure"   -> loop + 4
        [] pc[t] = "evict"      -> loop + 3
        [] pc[t] = "publish"    -> 2
        [] pc[t] \in {"view", "lower", "raise", "close"} -> 1
        [] OTHER                -> 0

\* A step of a goroutine that holds the mutex and keeps it brings it nearer to
\* the Unlock; a step of another goroutine touches neither the holder nor what
\* it is working on.
HolderAdvances ==
  \A t \in Threads : holder = t /\ holder' = t =>
    \/ StepsLeft(t)' < StepsLeft(t)
    \/ /\ StepsLeft(t)' = StepsLeft(t) /\ pc'[t] = pc[t]
       /\ UNCHANGED <<rows, image, pend, work, tables>>

\* Where the maintenance goroutine is on its way out.
Stage(label) ==
  CASE label = "select" -> 3 [] label = "lock" -> 2 [] label \in MaintInside -> 1 [] OTHER -> 0

\* Once the stop channel is closed it stays closed, and the maintenance
\* goroutine begins at most one more pass.
MaintenanceWindsDown ==
  stopped => stopped' /\ Stage(pc'[Maint]) <= Stage(pc[Maint])

\* Nobody waits in a circle: a Shutdown that waits for the maintenance goroutine
\* has closed the stop channel and holds no mutex that goroutine may need, and
\* a pass that still runs does so with a context that has ended.
NoCircularWait ==
  /\ \A t \in Closers : pc[t] \in {"wait", "lock"} => stopped /\ holder # t
  /\ stopped /\ Stage(pc[Maint]) \in {1, 2} => ctx[Maint]

\* What NoCircularWait needs to be inductive: a Shutdown is past its once.Do only
\* if the stop channel is closed, and nothing closes it before Start.
StopInv ==
  /\ phase = "new" => ~stopped
  /\ \A t \in Closers : pc[t] \notin {"idle", "unready", "once"} => stopped
  /\ stopped /\ Stage(pc[Maint]) \in {1, 2} => ctx[Maint]

\* A table holds one content per identity.
OneContent(T) == \A s \in Signals : \A r, q \in T[s] : Key(s, r) = Key(s, q) => r = q

\* No step puts another content in the place of a stored one.
ContentStays ==
  \A s \in Signals : \A r \in rows[s], q \in rows'[s] : Key(s, r) = Key(s, q) => r = q
=============================================================================
