-------------------------------- MODULE Store --------------------------------
(***************************************************************************)
(* The logal_store extension as one process runs it: exports, clears,      *)
(* status snapshots, the maintenance goroutine and Shutdown, all sharing   *)
(* one SQLite connection behind contextMutex and a few lock-free flags.    *)
(*                                                                         *)
(* A step is what one goroutine does between two points where another      *)
(* goroutine, a cancelled context, a failing SQL statement or a full disk  *)
(* could make a difference.  The statements of a transaction are steps of  *)
(* their own, so a batch or a clear can fail halfway.                      *)
(***************************************************************************)
EXTENDS Integers, FiniteSets

CONSTANTS
  Exporters,   \* goroutines that call InsertLogs, InsertSpans, InsertMetricPoints
  Clearers,    \* goroutines that call Clear
  Viewers,     \* goroutines that call Snapshot
  Closers,     \* goroutines that call Shutdown
  Maint,       \* the goroutine of maintenanceLoop
  Free,        \* no goroutine: the mutex permit is available
  Null,        \* no batch
  Records,     \* Records[s]: the fingerprints table s can hold
  SpanKey,     \* SpanKey[r]: the (trace_id, span_id) of span content r
  InitialRows, \* rows of the database that Start opens
  RoundSize,   \* rows one DELETE round may remove (5000 in the code)
  MaxPressure, \* iterations of Maintain's pressure loop (200 in the code)
  MaxCalls,    \* bound: calls of Insert*, Clear and Snapshot in a behaviour
  MaxFaults    \* bound: storage failures, maintenance timeouts, disk fillings

Signals == {"logs", "spans", "metrics"}
Callers == Exporters \cup Clearers \cup Viewers
Threads == Callers \cup Closers \cup {Maint}

ASSUME ThreadsAssumption ==
  /\ Free \notin Threads
  /\ Maint \notin Callers \cup Closers
  /\ Closers \cap Callers = {}
  /\ Exporters \cap (Clearers \cup Viewers) = {}
  /\ Clearers \cap Viewers = {}

ASSUME RecordsAssumption ==
  \A s \in Signals :
    /\ IsFiniteSet(Records[s])
    /\ InitialRows[s] \subseteq Records[s]
    /\ \A b \in SUBSET Records[s] : Null # [sig |-> s, batch |-> b]

\* The UNIQUE constraint on spans held for whatever process wrote them.
ASSUME IdentityAssumption ==
  \A r, q \in InitialRows["spans"] : SpanKey[r] = SpanKey[q] => r = q

ASSUME NullAssumption == Null # "clear"

ASSUME InitialRowsAssumption == InitialRows = [s \in Signals |-> InitialRows[s]]

ASSUME BoundsAssumption ==
  /\ RoundSize \in Nat \ {0} /\ MaxPressure \in Nat \ {0}
  /\ MaxCalls \in Nat /\ MaxFaults \in Nat

VARIABLES
  \* lifecycle flags of the Store struct
  phase,     \* what the host has done: "new", "started" or "failed"
  db,        \* s.db is a usable handle
  owned,     \* s.lockFile holds the ownership lock
  closing, ready,
  stopped,   \* s.stop is closed and the maintenance context cancelled
  lastError, \* s.lastError is not nil
  \* the mutex and the goroutines
  holder,    \* the goroutine whose permit fills contextMutex.permit, or Free
  pc,        \* where each goroutine is
  ctx,       \* ctx[t]: the context of t's call is cancelled or past its deadline
  job,       \* job[t]: signal and records of an exporter's call
  answer,    \* answer[t]: what t's call is about to return
  \* SQLite and the counters
  rows,      \* committed rows of each table
  expired,   \* those received before the retention cutoff
  image,     \* the tables as the connection sees them inside its transaction
  pend,      \* pend[s]: rows the open transaction has added or removed
  work,      \* records an insert's statement loop has still to visit
  tables,    \* tables a clear's or Maintain's statement loop has still to visit
  committed, deleted,
  disk,      \* "room", "high" (above mainHighWater) or "full" (no reserve left)
  \* Maintain's local variables
  more, pressure, result,
  \* the history of one fact, and the two bounds
  unverified,\* a writer recorded a storage failure and no pass began since
  calls, faults

life   == <<phase, db, owned, closing, stopped>>
health == <<ready, lastError, unverified>>
call   == <<ctx, job, answer>>
stored == <<rows, expired, committed, deleted>>
tx     == <<image, pend, work, tables>>
pass   == <<more, pressure, result>>
env    == <<disk, calls, faults>>
vars   == <<life, health, holder, pc, call, stored, tx, pass, env>>

Zero  == [s \in Signals |-> 0]
Empty == [s \in Signals |-> {}]

\* Where a goroutine of each kind can be.  The labels of the Inside sets lie
\* between LockContext's success and Unlock.
InsertInside == {"admit", "insert", "lower", "unlock"}
ClearInside  == {"clearCheck", "clear", "lower", "unlock"}
ViewInside   == {"view", "unlock"}
MaintInside  ==
  {"open", "retain", "pressure", "evict", "publish", "lower", "raise", "mUnlock"}
CloseInside  == {"close", "release"}
Inside       == InsertInside \cup ClearInside \cup ViewInside \cup MaintInside \cup CloseInside

InsertLabels == InsertInside \cup {"idle", "check", "lock", "return"}
ClearLabels  == ClearInside \cup {"idle", "lock", "return"}
ViewLabels   == ViewInside \cup {"idle", "lock", "return"}
MaintLabels  == MaintInside \cup {"idle", "select", "lock", "exited"}
CloseLabels  == CloseInside \cup {"idle", "unready", "once", "wait", "lock", "done"}
Labels       == InsertLabels \cup ClearLabels \cup ViewLabels \cup MaintLabels \cup CloseLabels

\* An insert's transaction, or a clear's, is open on the connection.
InTx == {"insert", "clear"}

\* Labels at which s.db was found usable and is used without another look.
UsesDB == InTx \cup {"retain", "pressure", "evict"}

Jobs == UNION {[sig : {s}, batch : SUBSET Records[s]] : s \in Signals}

FlagsOK ==
  /\ phase \in {"new", "started", "failed"}
  /\ db \in BOOLEAN /\ owned \in BOOLEAN /\ closing \in BOOLEAN /\ ready \in BOOLEAN
  /\ stopped \in BOOLEAN /\ lastError \in BOOLEAN /\ unverified \in BOOLEAN

ThreadsOK ==
  /\ holder \in Threads \cup {Free}
  /\ pc \in [Threads -> Labels]
  /\ \A t \in Exporters : pc[t] \in InsertLabels
  /\ \A t \in Clearers  : pc[t] \in ClearLabels
  /\ \A t \in Viewers   : pc[t] \in ViewLabels
  /\ \A t \in Closers   : pc[t] \in CloseLabels
  /\ pc[Maint] \in MaintLabels
  /\ ctx \in [Callers \cup {Maint} -> BOOLEAN]
  /\ job \in [Exporters -> Jobs \cup {Null}]
  /\ answer \in [Callers -> {"none", "ok", "conflict", "error"}]

TablesOK ==
  /\ rows = [s \in Signals |-> rows[s]] /\ image = [s \in Signals |-> image[s]]
  /\ expired = [s \in Signals |-> expired[s]]
  /\ \A s \in Signals : /\ rows[s] \subseteq Records[s]
                        /\ image[s] \subseteq Records[s]
                        /\ expired[s] \subseteq rows[s]
  /\ pend \in [Signals -> Nat] /\ committed \in [Signals -> Nat] /\ deleted \in [Signals -> Nat]

LocalsOK ==
  /\ work \subseteq UNION {Records[s] : s \in Signals}
  /\ tables \subseteq Signals
  /\ disk \in {"room", "high", "full"}
  /\ more \in BOOLEAN
  /\ pressure \in 0 .. MaxPressure
  /\ result \in {"none", "ok", "budget", "failed"}
  /\ calls \in 0 .. MaxCalls /\ faults \in 0 .. MaxFaults

\* Every variable of the model keeps its type; a goroutine is only ever at a
\* point of the function it runs.
TypeOK == FlagsOK /\ ThreadsOK /\ TablesOK /\ LocalsOK

Init ==
  /\ phase = "new"
  /\ db = FALSE /\ owned = FALSE /\ closing = FALSE /\ ready = FALSE
  /\ stopped = FALSE /\ lastError = FALSE /\ unverified = FALSE
  /\ holder = Free
  /\ pc = [t \in Threads |-> "idle"]
  /\ ctx = [t \in Callers \cup {Maint} |-> FALSE]
  /\ job = [t \in Exporters |-> Null]
  /\ answer = [t \in Callers |-> "none"]
  /\ rows = InitialRows /\ image = InitialRows /\ expired = Empty
  /\ pend = Zero /\ committed = Zero /\ deleted = Zero
  /\ work = {} /\ tables = {}
  /\ disk = "room"
  /\ more = FALSE /\ pressure = 0 /\ result = "none"
  /\ calls = 0 /\ faults = 0

Goto(t, label) == pc' = [pc EXCEPT ![t] = label]

Answer(t, a) == answer' = [answer EXCEPT ![t] = a]

Fault == faults < MaxFaults /\ faults' = faults + 1

-----------------------------------------------------------------------------
(* Start.  The host runs it before anything else can reach the store; a     *)
(* failure on the way closes the handle and releases the ownership lock.    *)

Start ==
  /\ phase = "new"
  /\ \/ /\ phase' = "started"
        /\ db' = TRUE /\ owned' = TRUE /\ ready' = TRUE
        /\ Goto(Maint, "select")
     \/ phase' = "failed" /\ UNCHANGED <<db, owned, ready, pc>>
  /\ UNCHANGED <<closing, stopped, lastError, unverified, holder, call, stored, tx, pass, env>>

-----------------------------------------------------------------------------
(* contextMutex.  LockContext looks at the context, waits for the permit or *)
(* the end of the context, and looks at the context again once it has the   *)
(* permit.  Lock, which Shutdown uses, has a context that never ends.       *)

Entry(t) ==
  CASE t \in Exporters -> "admit"
    [] t \in Clearers  -> "clearCheck"
    [] t \in Viewers   -> "view"
    [] t \in Closers   -> "close"
    [] OTHER           -> "open"

\* maintenanceLoop after Maintain returned: leave if the loop was cancelled.
NextTick ==
  /\ Goto(Maint, IF stopped THEN "exited" ELSE "select")
  /\ ctx' = [ctx EXCEPT ![Maint] = FALSE]
  /\ more' = FALSE /\ pressure' = 0 /\ result' = "none"

\* A call that could not get the mutex returns the context's error.
GiveUp(t) ==
  IF t = Maint
  THEN NextTick /\ UNCHANGED answer
  ELSE Goto(t, "return") /\ Answer(t, "error") /\ UNCHANGED <<ctx, pass>>

\* The send on the permit channel goes through.
Acquire(t) ==
  /\ pc[t] = "lock"
  /\ holder = Free
  /\ holder' = t
  /\ Goto(t, Entry(t))
  /\ unverified' = (IF t = Maint THEN FALSE ELSE unverified)
  /\ UNCHANGED <<life, ready, lastError, call, stored, tx, pass, env>>

\* The context ends before the permit is free.
LockAbort(t) ==
  /\ pc[t] = "lock"
  /\ ctx[t]
  /\ GiveUp(t)
  /\ UNCHANGED <<life, health, holder, job, stored, tx, env>>

\* Mutant: the permit is kept when the context has ended.
KeepPermit == UNCHANGED holder

GiveBack == holder' = Free

\* The permit arrived together with the end of the context: give it back.
RecheckAbort(t) ==
  /\ pc[t] = Entry(t)
  /\ ctx[t]
  /\ GiveBack
  /\ GiveUp(t)
  /\ UNCHANGED <<life, health, job, stored, tx, env>>

\* The caller is told the outcome, by the deferred Unlock or without the mutex.
Return(t) ==
  /\ \/ pc[t] = "unlock" /\ holder' = Free
     \/ pc[t] = "return" /\ UNCHANGED holder
  /\ Goto(t, "idle")
  /\ ctx' = [ctx EXCEPT ![t] = FALSE]
  /\ Answer(t, "none")
  /\ job' = [e \in Exporters |-> IF e = t THEN Null ELSE job[e]]
  /\ UNCHANGED <<life, health, stored, tx, pass, env>>

\* The context of a call ends: the client went away, or a deadline passed.
Cancel(t) ==
  /\ pc[t] \notin {"idle", "return"}
  /\ ~ctx[t]
  /\ ctx' = [ctx EXCEPT ![t] = TRUE]
  /\ UNCHANGED <<life, health, holder, pc, job, answer, stored, tx, pass, env>>

-----------------------------------------------------------------------------
(* InsertLogs, InsertSpans, InsertMetricPoints.                             *)

\* A client's export reaches the store.
Insert(t, s, b) ==
  /\ phase = "started"
  /\ pc[t] = "idle"
  /\ calls < MaxCalls
  /\ calls' = calls + 1
  /\ job' = [job EXCEPT ![t] = [sig |-> s, batch |-> b]]
  /\ Goto(t, "check")
  /\ UNCHANGED <<life, health, holder, ctx, answer, stored, tx, pass, disk, faults>>

\* The look at ready before the mutex, which another goroutine may outdate.
InsertCheck(t) ==
  /\ pc[t] = "check"
  /\ IF ready
     THEN Goto(t, "lock") /\ UNCHANGED answer
     ELSE Goto(t, "return") /\ Answer(t, "error")
  /\ UNCHANGED <<life, health, holder, ctx, job, stored, tx, pass, env>>

\* Mutant: trust ready alone under the mutex.
AdmissibleIfReady == ready /\ disk # "full"

\* admissionErrorLocked returns nil.
Admissible == db /\ ready /\ ~closing /\ disk # "full"

Admit(t) ==
  /\ pc[t] = "admit"
  /\ IF Admissible
     THEN Goto(t, "insert") /\ work' = job[t].batch /\ UNCHANGED answer
     ELSE Goto(t, "unlock") /\ Answer(t, "error") /\ UNCHANGED work
  /\ UNCHANGED <<life, health, holder, ctx, job, stored, image, pend, tables, pass, env>>

\* The call returns a and the deferred tx.Rollback undoes the transaction.
Rollback(t, a) ==
  /\ Answer(t, a)
  /\ image' = rows /\ pend' = Zero /\ work' = {} /\ tables' = {}
  /\ UNCHANGED stored

\* The value a table's uniqueness constraint ranges over.
Key(s, r) == IF s = "spans" THEN SpanKey[r] ELSE r

\* What INSERT ... ON CONFLICT DO NOTHING adds to table T.
Added(T, s, r) == IF \E q \in T : Key(s, q) = Key(s, r) THEN {} ELSE {r}

\* Mutant: the existing span's fingerprint is not compared.
NeverContradicts(T, s, r) == FALSE

\* The table holds another content under r's key.  Only spans can contradict:
\* the key of a log or a metric point is its fingerprint.
Contradicts(T, s, r) == \E q \in T : Key(s, q) = Key(s, r) /\ q # r

\* Mutant: every record of the batch is counted, duplicates too.
CountAlways(T, s, r) == 1

\* RowsAffected of that statement.
RowsAffected(T, s, r) == IF Added(T, s, r) = {} THEN 0 ELSE 1

\* Mutant: the statements run outside a transaction.
WriteThrough(T) == image' = T /\ rows' = T /\ UNCHANGED <<expired, committed, deleted>>

\* A statement of the open transaction makes T the connection's view.
Write(T) == image' = T /\ UNCHANGED stored

\* One iteration of the record loop: a new row, a duplicate, or a conflict.
InsertRecord(t, r) ==
  LET s == job[t].sig
  IN  /\ pc[t] = "insert"
      /\ r \in work
      /\ IF Contradicts(image[s], s, r)
         THEN Goto(t, "unlock") /\ Rollback(t, "conflict")
         ELSE /\ Write([image EXCEPT ![s] = @ \cup Added(@, s, r)])
              /\ pend' = [pend EXCEPT ![s] = @ + RowsAffected(image[s], s, r)]
              /\ work' = work \ {r}
              /\ UNCHANGED <<pc, answer, tables>>
      /\ UNCHANGED <<life, health, holder, ctx, job, pass, env>>

\* Commit, then add the inserted rows to the lifetime counter.
InsertCommit(t) ==
  /\ pc[t] = "insert"
  /\ work = {}
  /\ rows' = image
  /\ committed' = [s \in Signals |-> committed[s] + pend[s]]
  /\ pend' = Zero
  /\ Goto(t, "unlock")
  /\ Answer(t, "ok")
  /\ UNCHANGED <<life, health, holder, ctx, job, expired, deleted, image, work, tables, pass, env>>

\* setOperationalError stores lastError first, and then ready: whoever looks at
\* the two in between sees a store that is ready and has an error.
RecordError(t) ==
  /\ Goto(t, "lower")
  /\ lastError' = TRUE
  /\ UNCHANGED <<ready, unverified>>

\* The second store, with the history of who reported the failure.
LowerReady(t) ==
  /\ pc[t] = "lower"
  /\ ready' = FALSE
  /\ unverified' = (unverified \/ t # Maint)
  /\ Goto(t, IF t = Maint THEN "mUnlock" ELSE "unlock")
  /\ UNCHANGED <<life, lastError, holder, call, stored, tx, pass, env>>

\* A statement of the transaction, or its commit, fails: the context ended, or
\* SQLite refused it.  recordWriteError tells real storage failures apart.
TxFails(t) ==
  /\ pc[t] \in InTx
  /\ Rollback(t, "error")
  /\ \/ Goto(t, "unlock") /\ UNCHANGED <<health, faults>>
     \/ Fault /\ RecordError(t)
  /\ UNCHANGED <<life, holder, ctx, job, pass, disk, calls>>

-----------------------------------------------------------------------------
(* Clear and Snapshot.                                                      *)

\* The order in which the code visits the tables.
First(T) == IF "logs" \in T THEN "logs" ELSE IF "spans" \in T THEN "spans" ELSE "metrics"

\* handleClear or handleStatus calls the store; neither looks at ready.
CallLocked(t) ==
  /\ phase = "started"
  /\ pc[t] = "idle"
  /\ calls < MaxCalls
  /\ calls' = calls + 1
  /\ Goto(t, "lock")
  /\ UNCHANGED <<life, health, holder, call, stored, tx, pass, disk, faults>>

\* The store is open and the path names this database, or the clear is refused.
ClearCheck(t) ==
  /\ pc[t] = "clearCheck"
  /\ \/ db /\ ~closing /\ Goto(t, "clear") /\ tables' = Signals /\ UNCHANGED answer
     \/ Goto(t, "unlock") /\ Answer(t, "error") /\ UNCHANGED tables
  /\ UNCHANGED <<life, health, holder, ctx, job, stored, image, pend, work, pass, env>>

ClearTable(t) ==
  LET s == First(tables)
  IN  /\ pc[t] = "clear"
      /\ tables # {}
      /\ Write([image EXCEPT ![s] = {}])
      /\ pend' = [pend EXCEPT ![s] = Cardinality(image[s])]
      /\ tables' = tables \ {s}
      /\ UNCHANGED <<life, health, holder, pc, call, work, pass, env>>

ClearCommit(t) ==
  /\ pc[t] = "clear"
  /\ tables = {}
  /\ rows' = image /\ expired' = Empty
  /\ deleted' = [s \in Signals |-> deleted[s] + pend[s]]
  /\ pend' = Zero
  /\ Goto(t, "unlock")
  /\ Answer(t, "ok")
  /\ UNCHANGED <<life, health, holder, ctx, job, committed, image, work, tables, pass, env>>

\* Snapshot reads the counters and the oldest row of each table.
View(t) ==
  /\ pc[t] = "view"
  /\ Goto(t, "unlock")
  /\ Answer(t, "ok")
  /\ UNCHANGED <<life, health, holder, ctx, job, stored, tx, pass, env>>

-----------------------------------------------------------------------------
(* maintenanceLoop and Maintain.                                            *)

\* The ticker fires; the pass gets a child of the loop's context.
Tick ==
  /\ pc[Maint] = "select"
  /\ Goto(Maint, "lock")
  /\ ctx' = [ctx EXCEPT ![Maint] = stopped]
  /\ UNCHANGED <<life, health, holder, job, answer, stored, tx, pass, env>>

\* The pass has used up its five seconds.
Timeout ==
  /\ pc[Maint] \in MaintInside \cup {"lock"}
  /\ ~ctx[Maint]
  /\ Fault
  /\ ctx' = [ctx EXCEPT ![Maint] = TRUE]
  /\ UNCHANGED <<life, health, holder, pc, job, answer, stored, tx, pass, disk, calls>>

StopLoop ==
  /\ pc[Maint] = "select"
  /\ stopped
  /\ Goto(Maint, "exited")
  /\ UNCHANGED <<life, health, holder, call, stored, tx, pass, env>>

\* Maintain's body ends with result r; its deferred publication comes next.
Conclude(r) ==
  /\ Goto(Maint, "publish")
  /\ result' = r
  /\ tables' = {}
  /\ UNCHANGED <<more, pressure>>

MaintainOpen ==
  /\ pc[Maint] = "open"
  /\ IF db /\ ~closing
     THEN Goto(Maint, "retain") /\ tables' = Signals /\ UNCHANGED pass
     ELSE Conclude("failed")
  /\ UNCHANGED <<life, health, holder, call, stored, image, pend, work, env>>

\* Mutant: a round that deleted anything is counted as a full one.
CountRound(D) == IF D = {} THEN 0 ELSE RoundSize

\* RowsAffected of a DELETE that removed D.
CountDeleted(D) == Cardinality(D)

\* Rows D[s] leave each table for good, and are counted.
DeleteRows(D) ==
  /\ rows' = [s \in Signals |-> rows[s] \ D[s]]
  /\ image' = rows'
  /\ expired' = [s \in Signals |-> expired[s] \ D[s]]
  /\ deleted' = [s \in Signals |-> deleted[s] + CountDeleted(D[s])]
  /\ UNCHANGED <<committed, pend, work>>

AtMostRound(n) == IF n < RoundSize THEN n ELSE RoundSize

\* One round of retention on one table; then the next table, another round
\* over all tables, or the pressure loop.
Retain ==
  LET s    == First(tables)
      n    == AtMostRound(Cardinality(expired[s]))
      full == more \/ n = RoundSize
      left == tables \ {s}
  IN  /\ pc[Maint] = "retain"
      /\ \E D \in SUBSET expired[s] :
           /\ Cardinality(D) = n
           /\ DeleteRows([z \in Signals |-> IF z = s THEN D ELSE {}])
      /\ \/ left # {} /\ tables' = left /\ more' = full /\ UNCHANGED pc
         \/ left = {} /\ full /\ tables' = Signals /\ more' = FALSE /\ UNCHANGED pc
         \/ left = {} /\ ~full /\ tables' = {} /\ more' = FALSE /\ Goto(Maint, "pressure")
      /\ UNCHANGED <<life, health, holder, call, pressure, result, env>>

\* Mutant: one iteration too many.
IteratedTooOften == pressure > MaxPressure

IteratedEnough == pressure = MaxPressure

\* incrementalVacuum (and the passive checkpoint before the first iteration),
\* then the head of the pressure loop up to the truncating checkpoint.
Pressure ==
  /\ pc[Maint] = "pressure"
  /\ \/ IteratedEnough /\ Conclude("failed")
     \/ ~IteratedEnough /\ disk = "room" /\ Conclude("ok")
     \/ ~IteratedEnough /\ disk # "room" /\ Goto(Maint, "evict") /\ UNCHANGED <<tables, pass>>
  /\ UNCHANGED <<life, health, holder, call, stored, image, pend, work, env>>

\* The batches deletePressureBatch may select: as many rows as a round may
\* hold, out of all tables.  Which rows is receipt order, not modelled here.
EvictionBatches ==
  {D \in [Signals -> SUBSET UNION {rows[s] : s \in Signals}] :
     /\ \A s \in Signals : D[s] \subseteq rows[s]
     /\ Cardinality(D["logs"]) + Cardinality(D["spans"]) + Cardinality(D["metrics"])
        = AtMostRound(Cardinality(rows["logs"]) + Cardinality(rows["spans"])
                      + Cardinality(rows["metrics"]))}

\* After the truncating checkpoint: relieved, or return free pages first if
\* there are any, or evict a batch, or fail because nothing is left to evict.
Evict ==
  /\ pc[Maint] = "evict"
  /\ \/ disk = "room" /\ Conclude("ok") /\ UNCHANGED <<stored, image, pend, work>>
     \/ /\ disk # "room"
        /\ rows = Empty
        /\ Conclude("failed")
        /\ UNCHANGED <<stored, image, pend, work>>
     \/ /\ disk # "room"
        /\ \/ UNCHANGED <<stored, image, pend, work>>
           \/ rows # Empty /\ \E D \in EvictionBatches : DeleteRows(D)
        /\ Goto(Maint, "pressure")
        /\ pressure' = pressure + 1
        /\ UNCHANGED <<tables, more, result>>
  /\ UNCHANGED <<life, health, holder, call, env>>

\* A statement of the pass fails: its budget is used up or Shutdown cancelled
\* it, or SQLite failed, or a reader blocks the checkpoint.
MaintainFails ==
  /\ pc[Maint] \in {"retain", "pressure", "evict"}
  /\ \/ ctx[Maint] /\ Conclude("budget") /\ UNCHANGED faults
     \/ Fault /\ Conclude("failed")
  /\ UNCHANGED <<life, health, holder, call, stored, image, pend, work, disk, calls>>

\* Mutant: the writer is released before the result is published.
ForgetUnlocked == lastError' = FALSE /\ holder' = Free /\ UNCHANGED <<ready, unverified>>

\* Mutant: recovery forgets to clear lastError.
ForgetNothing == UNCHANGED <<health, holder>>

\* The first half of publishing success.
ForgetError == lastError' = FALSE /\ UNCHANGED <<ready, unverified, holder>>

\* The deferred publication, up to the point where it raises ready.
Publish ==
  /\ pc[Maint] = "publish"
  /\ IF closing \/ result = "budget"
     THEN Goto(Maint, "mUnlock") /\ UNCHANGED <<health, holder>>
     ELSE IF result = "failed"
          THEN RecordError(Maint) /\ UNCHANGED holder
          ELSE Goto(Maint, "raise") /\ ForgetError
  /\ UNCHANGED <<life, call, stored, tx, pass, env>>

\* Mutant: recovery never raises ready.
RaiseNothing == UNCHANGED ready

RaiseReady == ready' = TRUE

\* ready is stored without a second look at closing.
Raise ==
  /\ pc[Maint] = "raise"
  /\ RaiseReady
  /\ Goto(Maint, "mUnlock")
  /\ UNCHANGED <<life, lastError, unverified, holder, call, stored, tx, pass, env>>

MaintainUnlock ==
  /\ pc[Maint] = "mUnlock"
  /\ holder' = Free
  /\ NextTick
  /\ UNCHANGED <<life, health, job, answer, stored, tx, env>>

-----------------------------------------------------------------------------
(* Shutdown.  Its writes before the wait are separate steps.                *)

\* A host that has shut the store down may do so again.
Shutdown(t) ==
  /\ phase # "new"
  /\ pc[t] \in {"idle", "done"}
  /\ closing' = TRUE
  /\ Goto(t, "unready")
  /\ UNCHANGED <<phase, db, owned, stopped, health, holder, call, stored, tx, pass, env>>

ShutdownUnready(t) ==
  /\ pc[t] = "unready"
  /\ ready' = FALSE
  /\ Goto(t, "once")
  /\ UNCHANGED <<life, lastError, unverified, holder, call, stored, tx, pass, env>>

\* Mutant: the maintenance goroutine is not told to stop.
StopNothing == UNCHANGED <<stopped, ctx>>

\* Mutant: no once.Do.  A second close of the channel panics, and that Shutdown
\* gets no further.
StopTwice == ~stopped /\ stopped' = TRUE /\ ctx' = [ctx EXCEPT ![Maint] = TRUE]

\* Close the stop channel and cancel the maintenance context, once.
StopMaintenance ==
  IF stopped
  THEN UNCHANGED <<stopped, ctx>>
  ELSE stopped' = TRUE /\ ctx' = [ctx EXCEPT ![Maint] = TRUE]

ShutdownOnce(t) ==
  /\ pc[t] = "once"
  /\ StopMaintenance
  /\ Goto(t, "wait")
  /\ UNCHANGED <<phase, db, owned, closing, health, holder, job, answer, stored, tx, pass, env>>

\* Mutant: no wait for the maintenance goroutine.
DoneAlready == TRUE

\* A receive from done returns, or was skipped: the goroutine never ran.
Done == phase = "started" => pc[Maint] = "exited"

ShutdownWait(t) ==
  /\ pc[t] = "wait"
  /\ Done
  /\ Goto(t, "lock")
  /\ UNCHANGED <<life, health, holder, call, stored, tx, pass, env>>

\* Mutant: the ownership lock is released before the handle is closed.
ReleaseFirst == owned' = FALSE /\ UNCHANGED db

\* Checkpoint and close the handle; an error does not keep it open.
CloseHandle == db' = FALSE /\ UNCHANGED owned

ShutdownClose(t) ==
  /\ pc[t] = "close"
  /\ CloseHandle
  /\ Goto(t, "release")
  /\ UNCHANGED <<phase, closing, stopped, health, holder, call, stored, tx, pass, env>>

\* The deferred releaseOwnership and Unlock.
ShutdownRelease(t) ==
  /\ pc[t] = "release"
  /\ owned' = FALSE
  /\ holder' = Free
  /\ Goto(t, "done")
  /\ UNCHANGED <<phase, db, closing, stopped, health, call, stored, tx, pass, env>>

-----------------------------------------------------------------------------
(* The environment: receipt times pass the cutoff (fixed when a pass        *)
(* begins), and the disk fills and empties.                                 *)

Age(s, r) ==
  /\ pc[Maint] = "select"
  /\ r \in rows[s] \ expired[s]
  /\ expired' = [expired EXCEPT ![s] = @ \cup {r}]
  /\ UNCHANGED <<life, health, holder, pc, call, rows, committed, deleted, tx, pass, env>>

DiskChanges ==
  /\ \/ Fault /\ disk' \in {"high", "full"} \ {disk}
     \/ disk # "room" /\ disk' = "room" /\ UNCHANGED faults
  /\ UNCHANGED <<life, health, holder, pc, call, stored, tx, pass, calls>>

-----------------------------------------------------------------------------
InsertStep(t) ==
  \/ InsertCheck(t) \/ Admit(t) \/ InsertCommit(t) \/ TxFails(t) \/ LowerReady(t)
  \/ \E r \in work : InsertRecord(t, r)

ClearStep(t) ==
  ClearCheck(t) \/ ClearTable(t) \/ ClearCommit(t) \/ TxFails(t) \/ LowerReady(t)

MaintainStep ==
  \/ Tick \/ StopLoop \/ MaintainOpen \/ Retain \/ Pressure \/ Evict \/ MaintainFails
  \/ Publish \/ LowerReady(Maint) \/ Raise \/ MaintainUnlock

ShutdownStep(t) ==
  \/ ShutdownUnready(t) \/ ShutdownOnce(t) \/ ShutdownWait(t)
  \/ ShutdownClose(t) \/ ShutdownRelease(t)

\* Every goroutine has returned and the store is shut down.
Terminated ==
  /\ \A t \in Closers : pc[t] = "done"
  /\ \A t \in Callers : pc[t] = "idle"
  /\ UNCHANGED vars

Next ==
  \/ Start
  \/ \E t \in Exporters, s \in Signals : \E b \in SUBSET Records[s] : Insert(t, s, b)
  \/ \E t \in Clearers \cup Viewers : CallLocked(t)
  \/ \E t \in Exporters : InsertStep(t)
  \/ \E t \in Clearers : ClearStep(t)
  \/ \E t \in Viewers : View(t)
  \/ \E t \in Callers : Return(t) \/ Cancel(t)
  \/ \E t \in Threads : Acquire(t)
  \/ \E t \in Callers \cup {Maint} : LockAbort(t) \/ RecheckAbort(t)
  \/ MaintainStep \/ Timeout
  \/ \E t \in Closers : Shutdown(t) \/ ShutdownStep(t)
  \/ \E s \in Signals : \E r \in Records[s] : Age(s, r)
  \/ DiskChanges
  \/ Terminated

Spec == Init /\ [][Next]_vars

\* Every goroutine keeps running, and a goroutine that waits for the permit
\* gets it if it is offered again and again: blocked senders of a Go channel
\* are served in order.  Nothing makes clients call, contexts end, statements
\* fail, rows expire or disks fill and empty.
Fairness ==
  /\ \A t \in Exporters : WF_vars(InsertStep(t))
  /\ \A t \in Clearers : WF_vars(ClearStep(t))
  /\ \A t \in Viewers : WF_vars(View(t))
  /\ \A t \in Callers : WF_vars(Return(t)) /\ WF_vars(LockAbort(t))
  /\ \A t \in Threads : SF_vars(Acquire(t))
  /\ WF_vars(LockAbort(Maint)) /\ WF_vars(MaintainStep)
  /\ \A t \in Closers : WF_vars(ShutdownStep(t))

FairSpec == Spec /\ Fairness

-----------------------------------------------------------------------------
(* Safety.                                                                  *)

\* A goroutine about to run SQL in InsertX, Clear or Maintain finds the handle
\* open: Shutdown cannot close it under them, although they looked at ready and
\* closing earlier, and although Raise can set ready after Shutdown cleared it.
NoUseAfterClose == \A t \in Threads : pc[t] \in UsesDB => db

\* The ownership lock outlives the handle: no other process can own the
\* database while this one can still write to it.
OwnedWhileOpen == db => owned

\* Once any Shutdown has returned, the maintenance goroutine is gone, the handle
\* closed, the ownership lock released, and no transaction is left open.
ShutdownIsFinal ==
  \A t \in Closers : pc[t] = "done" =>
    /\ pc[Maint] \in {"idle", "exited"}
    /\ ~db /\ ~owned
    /\ image = rows

\* The lifetime counters account for every row: what was there at Start, plus
\* the committed counter, less the deleted counter, is what the table holds.
\* Rolled back, duplicate and partly failed work is never counted.
CountersMatchRows ==
  \A s \in Signals :
    Cardinality(rows[s]) = Cardinality(InitialRows[s]) + committed[s] - deleted[s]

\* An export is acknowledged only when the table holds each of its records with
\* that very content: a duplicate counts, another content under the same trace
\* and span identity does not.
AckMeansStored ==
  \A t \in Exporters : answer[t] = "ok" => job[t].batch \subseteq rows[job[t].sig]

\* Once a writer has recorded a storage failure the store is unready until a
\* maintenance pass that began afterwards has succeeded: an older pass cannot
\* overwrite it with its own good news.
FaultNotMasked == unverified => ~ready

\* While the store runs, ready and lastError tell the same story, whoever wrote
\* them last, except between the two stores of somebody who is changing both:
\* lastError is set before ready falls, and forgotten before ready is raised.
HealthAgrees ==
  phase = "started" /\ ~closing =>
    /\ ready /\ lastError => \E t \in Threads : pc[t] = "lower"
    /\ ~ready => lastError \/ pc[Maint] = "raise"

\* What a caller of the abstract store has asked for and been told.
Wanted ==
  [c \in Exporters \cup Clearers |->
     IF c \in Exporters THEN job[c] ELSE IF pc[c] = "idle" THEN Null ELSE "clear"]
Told == [c \in Exporters \cup Clearers |-> answer[c]]

Abstract ==
  INSTANCE Telemetry WITH Clients <- Exporters, up <- db, req <- Wanted, ans <- Told

\* The store implements the abstract one: batches and clears take effect
\* atomically at their commit, or not at all.
ImplementsTelemetry == Abstract!Spec

-----------------------------------------------------------------------------
(* Liveness.                                                                *)

\* Every call returns, even when maintenance holds the mutex or keeps failing.
EveryCallReturns == \A t \in Callers : pc[t] # "idle" ~> pc[t] = "idle"

\* Shutdown returns although it waits for the maintenance goroutine, which may
\* itself be waiting for a mutex that an export holds.
ShutdownReturns == \A t \in Closers : pc[t] # "idle" ~> pc[t] = "done"

\* A store that was marked unhealthy becomes ready again once failures and disk
\* pressure are over, without a restart.
Recovers == <>[](phase = "started" /\ ~closing /\ disk = "room") => <>[]ready
=============================================================================
