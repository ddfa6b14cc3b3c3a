------------------------------ MODULE Startup ------------------------------
(***************************************************************************)
(* The database file before, between and after collectors: competing       *)
(* processes on the ownership lock, the descriptor scan, the               *)
(* classification and inspection of what lies at the configured path, its  *)
(* removal file by file, the creation of the schema, `logal reset-db`, and *)
(* a crash after any of these steps.  SQLite is modelled by what it does   *)
(* to the database, -wal and -shm files.                                   *)
(***************************************************************************)
EXTENDS Integers, FiniteSets

CONSTANTS
  Collectors,  \* processes that run `logal serve`
  Resetters,   \* processes that run `logal reset-db`
  Readers,     \* other programs that open the database files
  Rows,        \* telemetry
  MaxStarts    \* bound: how often a process may begin

ASSUME ProcessAssumption == Collectors \cap Resetters = {}

Processes == Collectors \cup Resetters

VARIABLES
  main, wal, shm, \* the three database files
  lockInode,      \* the inode of the .lock file, 0 if there is none
  inodes,         \* how many inodes the .lock path has had
  fd,             \* fd[p]: the inode p has open as its lockFile, 0 if none
  flocked,        \* the processes whose descriptor holds the flock
  pc,             \* pc[p]: the step that p takes next
  holds,          \* holds[r]: the database files reader r has open
  starts,
  acked,          \* history: rows a collector has acknowledged
  late,           \* late[p]: history, readers that came after p's last scan
  refused,        \* history: processes told "not owned by Logal"
  wiped,          \* history: reset-db has begun to remove the files
  before          \* history: the files found at the configured path

files   == <<main, wal, shm>>
lock    == <<lockInode, inodes, fd, flocked>>
history == <<acked, late, refused, wiped, before>>
vars    == <<files, lock, pc, holds, starts, history>>

-----------------------------------------------------------------------------
(* Files.  A database is what a reader of the file with its WAL sees.       *)

Absent  == [kind |-> "absent"]
Empty   == [kind |-> "empty"]
Garbage == [kind |-> "garbage"]
Link    == [kind |-> "link"]     \* a symlink, a hard link, not a regular file

\* A database file: application id, user version, table names, whether columns
\* and stored signature agree, whether SQLite can read it, and its rows.
Blank == [kind |-> "db", app |-> "none", version |-> 0, tables |-> "none",
          signed |-> FALSE, sound |-> TRUE, rows |-> {}]

\* schemaVersion 7, complete and signed.
Complete == [Blank EXCEPT !.app = "logal", !.version = 7,
                          !.tables = "telemetry", !.signed = TRUE]

\* The database a connection sees: the WAL wins over the main file.
Logical == IF wal.kind = "db" THEN wal ELSE main

Unrelated == [Blank EXCEPT !.tables = "unrelated"]
Other     == [Unrelated EXCEPT !.app = "other"]

Disk(m, w, s) == [main |-> m, wal |-> w, shm |-> s]

\* Databases of other programs: in one file, or with their content or their
\* application_id in the WAL only.
Foreign ==
  {Disk(m, Absent, FALSE) : m \in {Unrelated, Other}}
    \cup {Disk(Blank, w, TRUE) : w \in {Unrelated, Other}}

\* What Logal may find of its own making, or replace.
Own ==
  {Disk(m, Absent, FALSE) :
     m \in {Absent, Empty, Garbage, Blank,
            [Blank EXCEPT !.tables = "telemetry"],
            [Complete EXCEPT !.version = 6],
            [Complete EXCEPT !.signed = FALSE],
            [Complete EXCEPT !.sound = FALSE]}}

Init ==
  /\ \E d \in Foreign \cup Own \cup {Disk(Link, Absent, FALSE)} :
       /\ before = d
       /\ main = d.main /\ wal = d.wal /\ shm = d.shm
  /\ lockInode = 0 /\ inodes = 0
  /\ fd = [p \in Processes |-> 0]
  /\ flocked = {}
  /\ pc = [p \in Processes |-> "off"]
  /\ holds = [r \in Readers |-> {}]
  /\ starts = [p \in Processes |-> 0]
  /\ acked = {} /\ refused = {} /\ wiped = FALSE
  /\ late = [p \in Processes |-> {}]

-----------------------------------------------------------------------------
(* Ownership.                                                               *)

Go(p, next) == pc' = [pc EXCEPT ![p] = next]

\* Mutant of ReleaseOwnership: the lock file is unlinked after the unlock.
ReleaseAndUnlink(p) ==
  /\ fd' = [fd EXCEPT ![p] = 0]
  /\ flocked' = flocked \ {p}
  /\ lockInode' = 0
  /\ UNCHANGED inodes

\* releaseOwnership: unlock and close; the inode stays.
ReleaseOwnership(p) ==
  /\ fd' = [fd EXCEPT ![p] = 0]
  /\ flocked' = flocked \ {p}
  /\ UNCHANGED <<lockInode, inodes>>

Begin(p) ==
  /\ pc[p] = "off"
  /\ starts[p] < MaxStarts
  /\ starts' = [starts EXCEPT ![p] = @ + 1]
  /\ Go(p, "check")
  /\ UNCHANGED <<files, lock, holds, history>>

\* acquireOwnership refuses links, then opens the lock file or creates it.
Check(p) ==
  /\ pc[p] = "check"
  /\ IF main = Link
     THEN /\ Go(p, "off")
          /\ UNCHANGED lock
     ELSE /\ Go(p, "flock")
          /\ IF lockInode = 0
             THEN /\ inodes' = inodes + 1
                  /\ lockInode' = inodes + 1
             ELSE UNCHANGED <<lockInode, inodes>>
          /\ fd' = [fd EXCEPT ![p] = lockInode']
          /\ UNCHANGED flocked
  /\ UNCHANGED <<files, holds, starts, history>>

\* LOCK_EX | LOCK_NB: another process may have the lock.
Flock(p) ==
  /\ pc[p] = "flock"
  /\ IF \E q \in flocked : fd[q] = fd[p]
     THEN /\ ReleaseOwnership(p)
          /\ Go(p, "off")
     ELSE /\ flocked' = flocked \cup {p}
          /\ Go(p, "scan")
          /\ UNCHANGED <<lockInode, inodes, fd>>
  /\ UNCHANGED <<files, holds, starts, history>>

\* Mutant of NothingOpen: only the database itself is passed to lsof.
MainNotOpen == \A r \in Readers : "main" \notin holds[r]

\* rejectOpenDescriptors finds no process with one of the files open.
NothingOpen == \A r \in Readers : holds[r] = {}

\* One scan; it may also fail for want of lsof or time.
ScanThen(p, next) ==
  /\ \/ /\ NothingOpen
        /\ late' = [late EXCEPT ![p] = {}]
        /\ Go(p, next)
     \/ /\ UNCHANGED late
        /\ Go(p, "release")
  /\ UNCHANGED <<files, lock, holds, starts, acked, refused, wiped, before>>

\* The end of acquireOwnership, for Start and for Reset.
Scan(p) ==
  /\ pc[p] = "scan"
  /\ ScanThen(p, IF p \in Collectors THEN "open" ELSE "rescan")

\* removeDatabase scans once more.
Rescan(p) == pc[p] = "rescan" /\ ScanThen(p, "removeMain")

Forget(f) == holds' = [r \in Readers |-> holds[r] \ {f}]

\* removeDatabase unlinks database, WAL and shared memory in this order.
RemoveMain(p) ==
  /\ pc[p] = "removeMain"
  /\ main' = Absent
  /\ wiped' = (wiped \/ p \in Resetters)
  /\ Forget("main")
  /\ Go(p, "removeWal")
  /\ UNCHANGED <<wal, shm, lock, starts, acked, late, refused, before>>

RemoveWal(p) ==
  /\ pc[p] = "removeWal"
  /\ wal' = Absent
  /\ Forget("wal")
  /\ Go(p, "removeShm")
  /\ UNCHANGED <<main, shm, lock, starts, history>>

RemoveShm(p) ==
  /\ pc[p] = "removeShm"
  /\ shm' = FALSE
  /\ Forget("shm")
  /\ Go(p, IF p \in Collectors THEN "create" ELSE "release")
  /\ UNCHANGED <<main, wal, lock, starts, history>>

Release(p) ==
  /\ pc[p] = "release"
  /\ ReleaseOwnership(p)
  /\ Go(p, "off")
  /\ UNCHANGED <<files, holds, starts, history>>

-----------------------------------------------------------------------------
(* Classification and inspection.                                           *)

\* The application id of the header, or of a copy with its WAL replayed.
ApplicationID == IF main.app = "none" THEN Logical.app ELSE main.app

\* Mutant of Owned: the sidecars of an untagged database are not looked at.
OwnedByHeader ==
  main.kind \in {"empty", "garbage"} \/ ApplicationID # "other"

\* classifyDatabaseForInspection: may these files be inspected as Logal's?
Owned ==
  \/ main.kind \in {"empty", "garbage"}
  \/ ApplicationID = "logal"
  \/ ApplicationID = "none" /\ wal = Absent /\ ~shm

\* classifyDatabaseForInspection: an untagged file is opened as immutable, so
\* that inspecting it creates no sidecars; the WAL is then not read.
Inspected == IF ApplicationID = "none" THEN main ELSE Logical

\* Mutant of IsCurrent: a WAL left behind is taken for damage.
IsCheckpointed(d) ==
  /\ d.sound
  /\ \/ d.app = "none" /\ d.version = 0 /\ d.tables = "none"
     \/ d.app = "logal" /\ d.version = 7 /\ d.signed /\ wal.kind # "db"

\* inspectSchema on database d.
IsCurrent(d) ==
  /\ d.sound
  /\ \/ d.app = "none" /\ d.version = 0 /\ d.tables = "none"
     \/ d.app = "logal" /\ d.version = 7 /\ d.signed

IsDisposable(d) ==
  \/ ~d.sound
  \/ d.app = "none" /\ d.version = 0 /\ d.tables = "telemetry"
  \/ d.app = "logal" /\ ~IsCurrent(d)

\* The verdict of openCurrentSchema on what it finds.
Verdict ==
  CASE main = Absent -> "create"
    [] main = Empty -> "create"
    [] main = Garbage -> "rescan"
    [] main.kind = "db" /\ ~Owned -> "refuse"
    [] main.kind = "db" /\ Owned /\ IsCurrent(Inspected) -> "create"
    [] main.kind = "db" /\ Owned /\ IsDisposable(Inspected) -> "rescan"
    [] OTHER -> "refuse"

\* The first half of openCurrentSchema.
Inspect(p) ==
  /\ pc[p] = "open"
  /\ IF Verdict = "refuse"
     THEN Go(p, "release") /\ refused' = refused \cup {p}
     ELSE Go(p, Verdict) /\ UNCHANGED refused
  /\ UNCHANGED <<files, lock, holds, starts, acked, late, wiped, before>>

-----------------------------------------------------------------------------
(* Creation.  Each statement of createSchema commits by itself.             *)

\* openDB creates the file privately.
Create(p) ==
  /\ pc[p] = "create"
  /\ main' = IF main = Absent THEN Empty ELSE main
  /\ Go(p, "ping")
  /\ UNCHANGED <<wal, shm, lock, holds, starts, history>>

\* Ping with _journal_mode=WAL gives an empty file its first page; SQLite
\* deletes a WAL that lies beside a database without pages.
Ping(p) ==
  /\ pc[p] = "ping"
  /\ IF main = Empty
     THEN main' = Blank /\ wal' = Absent
     ELSE UNCHANGED <<main, wal>>
  /\ Go(p, "attach")
  /\ UNCHANGED <<shm, lock, holds, starts, history>>

\* The first transaction in WAL mode creates the sidecars.
Attach(p) ==
  /\ pc[p] = "attach"
  /\ wal' = IF wal = Absent THEN Empty ELSE wal
  /\ shm' = TRUE
  /\ Go(p, "tag")
  /\ UNCHANGED <<main, lock, holds, starts, history>>

Execute(p, at, d, next) ==
  /\ pc[p] = at
  /\ wal' = d
  /\ Go(p, next)
  /\ UNCHANGED <<main, shm, lock, holds, starts, history>>

\* PRAGMA application_id, PRAGMA user_version, CREATE TABLE and CREATE INDEX
\* IF NOT EXISTS.
Tag(p)     == Execute(p, "tag", [Logical EXCEPT !.app = "logal"], "version")
Version(p) == Execute(p, "version", [Logical EXCEPT !.version = 7], "tables")
Tables(p)  == Execute(p, "tables", [Logical EXCEPT !.tables = "telemetry"], "sign")

\* Mutant of Sign: the signature is not stored.
SignNothing(p) == Execute(p, "sign", Logical, "probe")

\* The signature of what is there now.
Sign(p) == Execute(p, "sign", [Logical EXCEPT !.signed = TRUE], "probe")

\* Compaction mode, permissions, and a write that is rolled back.
Probe(p) ==
  /\ pc[p] = "probe"
  /\ Go(p, "running")
  /\ UNCHANGED <<files, lock, holds, starts, history>>

\* The last connection checkpoints and removes the sidecars as it closes,
\* unless a reader is there.
CloseDB ==
  IF NothingOpen
  THEN main' = Logical /\ wal' = Absent /\ shm' = FALSE
  ELSE main' \in {main, Logical} /\ UNCHANGED <<wal, shm>>

\* An error return of openDB, createSchema or probeWritePath.
StartFails(p) ==
  /\ \/ pc[p] \in {"create", "ping"} /\ UNCHANGED files
     \/ pc[p] \in {"attach", "tag", "version", "tables", "sign", "probe"} /\ CloseDB
  /\ Go(p, "release")
  /\ UNCHANGED <<lock, holds, starts, history>>

-----------------------------------------------------------------------------
(* The running collector, its end, and the other programs.                  *)

\* An export commits a row to the WAL and is acknowledged.
Commit(p) ==
  /\ pc[p] = "running"
  /\ \E r \in Rows \ acked :
       /\ wal' = [Logical EXCEPT !.rows = @ \cup {r}]
       /\ acked' = acked \cup {r}
  /\ UNCHANGED <<main, shm, lock, pc, holds, starts, late, refused, wiped, before>>

\* A passive checkpoint copies the WAL into the main file.
Checkpoint(p) ==
  /\ pc[p] = "running"
  /\ main' = Logical
  /\ UNCHANGED <<wal, shm, lock, pc, holds, starts, history>>

Shutdown(p) ==
  /\ pc[p] = "running"
  /\ CloseDB
  /\ Go(p, "release")
  /\ UNCHANGED <<lock, holds, starts, history>>

\* The process dies; the kernel closes its descriptors.
Crash(p) ==
  /\ pc[p] # "off"
  /\ ReleaseOwnership(p)
  /\ Go(p, "off")
  /\ UNCHANGED <<files, holds, starts, history>>

\* Another program opens what is there, or closes it.
ReaderOpens(r) ==
  /\ holds[r] = {}
  /\ main.kind \notin {"absent", "link"}
  /\ holds' = [holds EXCEPT ![r] =
                 {"main"} \cup (IF wal = Absent THEN {} ELSE {"wal"})
                          \cup (IF shm THEN {"shm"} ELSE {})]
  /\ late' = [p \in Processes |-> late[p] \cup {r}]
  /\ UNCHANGED <<files, lock, pc, starts, acked, refused, wiped, before>>

ReaderCloses(r) ==
  /\ holds[r] # {}
  /\ holds' = [holds EXCEPT ![r] = {}]
  /\ UNCHANGED <<files, lock, pc, starts, history>>

Start(p) ==
  \/ Inspect(p) \/ Create(p) \/ Ping(p) \/ Attach(p) \/ Tag(p) \/ Version(p)
  \/ Tables(p) \/ Sign(p) \/ Probe(p)

Acquire(p) == Begin(p) \/ Check(p) \/ Flock(p) \/ Scan(p) \/ Rescan(p)
                \/ RemoveMain(p) \/ RemoveWal(p) \/ RemoveShm(p) \/ Release(p)

Next ==
  \/ \E p \in Processes : Acquire(p) \/ Crash(p)
  \/ \E p \in Collectors : Start(p) \/ StartFails(p) \/ Commit(p) \/ Checkpoint(p) \/ Shutdown(p)
  \/ \E r \in Readers : ReaderOpens(r) \/ ReaderCloses(r)

Spec == Init /\ [][Next]_vars

-----------------------------------------------------------------------------
(* Properties.                                                              *)

Owners == {p \in Processes : pc[p] \notin {"off", "check", "flock"}}

\* acquireOwnership and releaseOwnership: in no interleaving of starts, resets,
\* failures and crashes do two processes own the database.
OneOwner == \A p, q \in Owners : p = q

\* classifyDatabaseForInspection and openCurrentSchema: the files of another
\* program's sound database are as they were, however often collectors are
\* started on them; only reset-db removes them.
ForeignUntouched ==
  before \in Foreign /\ ~wiped => <<main, wal, shm>> = <<before.main, before.wal, before.shm>>

\* openCurrentSchema and createSchema: what a collector has acknowledged is
\* still in the database after any crashes, restarts and failed starts.
AckedSurvive ==
  acked # {} /\ ~wiped => main.kind = "db" /\ acked \subseteq Logical.rows

\* openCurrentSchema: whatever was left at the path, a half removed or half
\* created database included, a collector runs on a complete and signed schema.
RunningIsCurrent ==
  \A p \in Collectors :
    pc[p] \in {"probe", "running"} => [Logical EXCEPT !.rows = {}] = Complete

\* removeDatabase: no file is unlinked under a program that had the database
\* open before the scan; one that came later is not protected.
OpenFilesSpared ==
  \A p \in Processes : pc[p] \in {"removeMain", "removeWal", "removeShm"} =>
    \A r \in Readers : holds[r] # {} => r \in late[p]

\* openCurrentSchema: only a database of another program is refused as "not
\* owned by Logal"; everything Logal has left behind itself is recovered.
OwnLeftoversRecovered == refused # {} => before \in Foreign
=============================================================================
