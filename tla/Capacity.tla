------------------------------ MODULE Capacity ------------------------------
(***************************************************************************)
(* The disk space of one store: the main database file, its WAL and what   *)
(* the volume has left, as admissionErrorLocked and Maintain's pressure    *)
(* loop see and change them, while queries of other processes pin the WAL  *)
(* and other programs use the same volume.                                 *)
(*                                                                         *)
(* The unit is a page, and a row fills one.  SQLite's side (what a commit, *)
(* a checkpoint or a vacuum does to the three sizes) is external.  Each    *)
(* step of Maintain below runs with contextMutex held, so an export only   *)
(* happens between passes; readers and other programs take no lock.  The   *)
(* shared memory file has a constant size and is left out.                 *)
(***************************************************************************)
EXTENDS Integers

CONSTANTS
  HighWater,   \* mainHighWater
  HardLimit,   \* activeHardLimit
  Reserve,     \* requestReserve
  Floor,       \* freeDiskFloor
  WalNotReady, \* walNotReady
  DeleteBatch, \* rows of one DELETE (5000 in the code)
  VacuumBatch, \* pages of one incremental_vacuum (4096 in the code)
  MaxPressure, \* iterations of the pressure loop (200 in the code)
  MaxGrow,     \* pages a request may add; its payloads are at most Reserve
  MaxFrames,   \* frames a request may write to the WAL, its indexes included
  DiskSize,    \* pages the volume has
  MaxOthers,   \* bound: pages other programs take from it
  NoReader     \* no reader holds a snapshot

ASSUME SizesAssumption ==
  /\ HighWater \in Nat /\ HardLimit \in Nat /\ Reserve \in Nat /\ Floor \in Nat
  /\ WalNotReady \in Nat \ {0} /\ DeleteBatch \in Nat \ {0} /\ VacuumBatch \in Nat \ {0}
  /\ MaxPressure \in Nat /\ MaxGrow \in Nat /\ MaxFrames \in Nat
  /\ DiskSize \in Nat /\ MaxOthers \in Nat
  /\ Reserve < HardLimit /\ NoReader \notin Nat

VARIABLES
  fresh, stale, \* pages of rows inside and past the retention window
  freelist,     \* free pages inside the database
  file,         \* size of the main file
  frames,       \* frames of the WAL since it was last restarted
  backfilled,   \* those a checkpoint has copied to the main file
  wal,          \* size of the WAL file
  pin,          \* frames of the WAL in the oldest open snapshot, or NoReader
  others,       \* pages other programs use
  slow,         \* the machine is too busy for a pass to take five seconds only
  pc,           \* where Maintain is, "idle" between passes
  iteration,    \* pressureIterations
  short,        \* the volume was short of space when Maintain last looked
  ready         \* s.ready

rowVars == <<fresh, stale, freelist>>
walVars == <<file, frames, backfilled, wal>>
outside == <<pin, others, slow>>
locals  == <<iteration, short>>
pass    == <<pc, locals, ready>>
vars    == <<rowVars, walVars, outside, pass>>

Live    == fresh + stale
Logical == Live + freelist
Active  == file + wal

\* What statfs reports; a volume that is overcommitted has nothing left.
FreeDisk == IF Active + others <= DiskSize THEN DiskSize - Active - others ELSE 0

SizesOK ==
  /\ fresh \in Nat /\ stale \in Nat /\ freelist \in Nat
  /\ file \in Nat /\ frames \in Nat /\ backfilled \in 0..frames /\ wal \in Nat
  /\ frames <= wal
  /\ pin \in Nat \cup {NoReader} /\ others \in 0..MaxOthers
  /\ iteration \in 0..MaxPressure

FlagsOK ==
  /\ pc \in {"idle", "retain", "vacuum", "passive", "look", "truncate", "weigh", "evict",
            "succeed", "fail"}
  /\ slow \in BOOLEAN /\ short \in BOOLEAN /\ ready \in BOOLEAN

\* Sizes are sizes, the WAL file holds its frames and the loop keeps its bound.
TypeOK == SizesOK /\ FlagsOK

Init ==
  /\ fresh = 0 /\ stale = 0 /\ freelist = 0
  /\ file = 0 /\ frames = 0 /\ backfilled = 0 /\ wal = 0
  /\ pin = NoReader /\ others = 0 /\ slow = FALSE
  /\ pc = "idle" /\ iteration = 0 /\ short = FALSE /\ ready = TRUE

Goto(label) == pc' = label

-----------------------------------------------------------------------------
\* SQLite

AtMost(n, m) == IF n < m THEN n ELSE m
AtLeast(n, m) == IF n > m THEN n ELSE m

\* A commit of n frames.  A log that is copied completely and that no
\* snapshot reads starts again at the head of its file.
Commit(n) ==
  LET restart == backfilled = frames /\ pin \in {0, NoReader}
      total   == IF restart THEN n ELSE frames + n
  IN  /\ frames' = total
      /\ backfilled' = IF restart THEN 0 ELSE backfilled
      /\ wal' = AtLeast(wal, total)
      /\ UNCHANGED file

\* Frames a checkpoint may copy: a snapshot keeps the frames after it out of
\* the main file, and one that reads the main file alone (pin 0) all of them.
Copyable == IF pin = NoReader THEN frames ELSE IF pin = 0 THEN backfilled ELSE AtLeast(pin, backfilled)

\* A checkpoint that waits for nobody.  The file takes its final size once
\* every frame is copied, and until then may grow up to it.
Backfill ==
  /\ backfilled' = Copyable
  /\ IF Copyable = frames
     THEN file' = Logical
     ELSE IF Copyable = backfilled THEN UNCHANGED file
     ELSE file' \in file..AtLeast(file, Logical)
  /\ UNCHANGED <<frames, wal>>

\* The automatic checkpoint of a commit, which may come at any moment here.
AutoCheckpoint ==
  /\ pc = "idle"
  /\ backfilled < frames
  /\ Backfill
  /\ UNCHANGED <<rowVars, outside, pass>>

Blocked == Copyable # frames \/ pin \notin {0, NoReader}

\* A query of the command line takes its snapshot; one at a time is enough,
\* the oldest is what a checkpoint sees.  It ends by itself or by its timeout.
BeginRead ==
  /\ pin = NoReader
  /\ pin' = IF backfilled = frames THEN 0 ELSE frames
  /\ UNCHANGED <<rowVars, walVars, others, slow, pass>>

EndRead ==
  /\ pin # NoReader
  /\ pin' = NoReader
  /\ UNCHANGED <<rowVars, walVars, others, slow, pass>>

\* Other programs fill and empty the volume, and keep the machine busy.
OthersChange ==
  /\ \/ others' \in 0..MaxOthers \ {others} /\ UNCHANGED slow
     \/ slow' = ~slow /\ UNCHANGED others
  /\ UNCHANGED <<rowVars, walVars, pin, pass>>

-----------------------------------------------------------------------------
\* Exports

\* Mutant: the reserve is not part of the check.
AdmissibleWithoutReserve == ready /\ Active < HardLimit /\ FreeDisk >= Floor /\ wal < WalNotReady

\* admissionErrorLocked returns nil.
Admissible ==
  /\ ready
  /\ Active + Reserve < HardLimit
  /\ FreeDisk >= Floor + Reserve
  /\ wal < WalNotReady

\* A request is admitted and committed: n pages of rows, taken from the free
\* ones first, and the frames of all the pages it touched.
Export(n, f) ==
  /\ pc = "idle"
  /\ Admissible
  /\ fresh' = fresh + n
  /\ freelist' = freelist - AtMost(freelist, n)
  /\ Commit(f)
  /\ UNCHANGED <<stale, outside, pass>>

\* Rows leave the retention window as time passes.
Age ==
  /\ fresh > 0
  /\ \E n \in 1..fresh : fresh' = fresh - n /\ stale' = stale + n
  /\ UNCHANGED <<freelist, walVars, outside, pass>>

-----------------------------------------------------------------------------
\* Maintain

\* The ticker fires and the pass takes the mutex.
Maintain ==
  /\ pc = "idle"
  /\ Goto("retain")
  /\ UNCHANGED <<rowVars, walVars, outside, locals, ready>>

\* Delete n rows, the oldest first: their pages become free.
DeleteOldest(n) ==
  /\ stale' = stale - AtMost(stale, n)
  /\ fresh' = fresh - (n - AtMost(stale, n))
  /\ freelist' = freelist + n
  /\ Commit(n)

\* One round of the retention loop; another one follows a full one.
Retain ==
  /\ pc = "retain"
  /\ LET n == AtMost(stale, DeleteBatch)
     IN  /\ IF n = 0 THEN UNCHANGED <<rowVars, walVars>> ELSE DeleteOldest(n)
         /\ Goto(IF n = DeleteBatch THEN "retain" ELSE "vacuum")
  /\ UNCHANGED <<outside, locals, ready>>

\* incrementalVacuum, before the first iteration and at the end of each.
IncrementalVacuum ==
  /\ pc = "vacuum"
  /\ LET n == AtMost(freelist, VacuumBatch)
     IN  /\ freelist' = freelist - n
         /\ IF n = 0 THEN UNCHANGED walVars ELSE Commit(n)
  /\ Goto(IF iteration = 0 THEN "passive" ELSE "look")
  /\ UNCHANGED <<fresh, stale, outside, locals, ready>>

Passive ==
  /\ pc = "passive"
  /\ Backfill
  /\ Goto("look")
  /\ UNCHANGED <<rowVars, outside, locals, ready>>

\* The pass has its result, which nobody sees before Publish.
ReturnError == Goto("fail") /\ UNCHANGED <<locals, ready>>
ReturnNil   == Goto("succeed") /\ UNCHANGED <<locals, ready>>

EndPass == Goto("idle") /\ iteration' = 0 /\ short' = FALSE

\* The deferred function makes the result the store's health.
Publish ==
  /\ \/ pc = "succeed" /\ ready' = TRUE
     \/ pc = "fail" /\ ready' = FALSE
  /\ EndPass
  /\ UNCHANGED <<rowVars, walVars, outside>>

Pressure == file >= HighWater \/ Active + Reserve >= HardLimit \/ FreeDisk < Floor + Reserve

\* Mutant: the size of the WAL alone is no reason to truncate it.
RelievedMainOnly == ~Pressure

Relieved == ~Pressure /\ wal < WalNotReady

Exhausted == iteration = MaxPressure

\* The head of the loop.
Look ==
  /\ pc = "look"
  /\ \/ Exhausted /\ ReturnError
     \/ ~Exhausted /\ Relieved /\ ReturnNil
     \/ ~Exhausted /\ ~Relieved /\ Goto("truncate") /\ UNCHANGED <<locals, ready>>
  /\ UNCHANGED <<rowVars, walVars, outside>>

\* Mutant: the busy column of the checkpoint's result row is not read.
TruncateRegardless ==
  /\ pc = "truncate"
  /\ IF Blocked THEN Backfill
     ELSE file' = Logical /\ frames' = 0 /\ backfilled' = 0 /\ wal' = 0
  /\ Goto("weigh")
  /\ UNCHANGED <<rowVars, outside, locals, ready>>

\* wal_checkpoint(TRUNCATE): a snapshot it would have to wait for ends the pass.
Truncate ==
  /\ pc = "truncate"
  /\ IF Blocked
     THEN Backfill /\ ReturnError
     ELSE /\ file' = Logical /\ frames' = 0 /\ backfilled' = 0 /\ wal' = 0
          /\ Goto("weigh")
          /\ UNCHANGED <<locals, ready>>
  /\ UNCHANGED <<rowVars, outside>>

\* The second diskState.
Weigh ==
  /\ pc = "weigh"
  /\ \/ ~Pressure /\ ReturnNil
     \/ /\ Pressure
        /\ short' = (FreeDisk < Floor + Reserve)
        /\ Goto("evict")
        /\ UNCHANGED <<iteration, ready>>
  /\ UNCHANGED <<rowVars, walVars, outside>>

\* freelist_count, and deletePressureBatch when it is zero.
EvictUnlessFree ==
  \/ freelist > 0 /\ UNCHANGED <<rowVars, walVars>>
  \/ freelist = 0 /\ Live > 0 /\ DeleteOldest(AtMost(Live, DeleteBatch))

Evict ==
  /\ pc = "evict"
  /\ EvictUnlessFree
  /\ iteration' = iteration + 1
  /\ short' = FALSE
  /\ Goto("vacuum")
  /\ UNCHANGED <<outside, ready>>

\* "disk pressure persists with no telemetry left to evict"
NothingToEvict ==
  /\ pc = "evict"
  /\ freelist = 0 /\ Live = 0
  /\ ReturnError
  /\ UNCHANGED <<rowVars, walVars, outside>>

\* The five seconds are over before the pass has its result: no verdict on the
\* store's health.
Timeout ==
  /\ pc \notin {"idle", "succeed", "fail"} /\ slow
  /\ EndPass
  /\ UNCHANGED <<rowVars, walVars, outside, ready>>

MaintainStep ==
  \/ Maintain \/ Retain \/ IncrementalVacuum \/ Passive \/ Look
  \/ Truncate \/ Weigh \/ Evict \/ NothingToEvict \/ Publish

Next ==
  \/ \E n \in 1..MaxGrow : \E f \in n..MaxFrames : Export(n, f)
  \/ Age \/ AutoCheckpoint \/ BeginRead \/ EndRead \/ OthersChange
  \/ MaintainStep \/ Timeout

Spec == Init /\ [][Next]_vars

\* The ticker never stops and a pass takes its steps.
FairSpec == Spec /\ WF_vars(MaintainStep)

-----------------------------------------------------------------------------
\* The main file outgrows the hard limit by no more than what a request adds
\* beyond its reserve, although a checkpoint can grow it at any moment by all
\* the pages the WAL holds.  The code checks the limit against the files and
\* the WAL together, and only before a request (admissionErrorLocked).
FileBounded == file < HardLimit + (MaxGrow - Reserve)

\* Rows inside the retention window are evicted only for lack of room: every
\* page of the store's files holds live rows at that moment, and they alone
\* are too many or the volume was short of space when Maintain last looked.
\* Free pages and a WAL that a reader keeps from shrinking are no reason.
EvictsOnlyForRoom ==
  [][pc = "evict" /\ pc' = "vacuum" /\ fresh' < fresh =>
       /\ file = Live /\ wal = 0
       /\ \/ Live >= HighWater
          \/ Live + Reserve >= HardLimit
          \/ short]_vars

\* The store is never stuck: once readers let the WAL go, other programs leave
\* the volume room and passes finish in their five seconds, Maintain makes
\* exports admissible again, however full the files were.
RoomReturns ==
  <>[](pin = NoReader /\ ~slow /\ DiskSize - others >= Floor + Reserve)
  => []<>Admissible
=============================================================================
