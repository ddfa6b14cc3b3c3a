---------------------------- MODULE StartupProofs ----------------------------
(***************************************************************************)
(* Proofs about the database file between collectors, for any number of    *)
(* collectors, resetters, readers, rows and restarts: one owner at a time, *)
(* foreign databases untouched, acknowledged rows never lost, files spared *)
(* that were open at the scan, and a collector that only ever runs on a    *)
(* complete schema.                                                        *)
(***************************************************************************)
EXTENDS Startup, TLAPS

-----------------------------------------------------------------------------
(* The inductive invariant.                                                 *)

\* Every content that a database file can have.
Databases ==
  [kind : {"db"}, app : {"none", "logal", "other"}, version : {0, 6, 7},
   tables : {"none", "telemetry", "unrelated"}, signed : BOOLEAN, sound : BOOLEAN,
   rows : SUBSET Rows]

CollectorLabels ==
  {"off", "check", "flock", "scan", "open", "rescan", "removeMain", "removeWal", "removeShm",
   "release", "create", "ping", "attach", "tag", "version", "tables", "sign", "probe", "running"}

ResetterLabels ==
  {"off", "check", "flock", "scan", "rescan", "removeMain", "removeWal", "removeShm", "release"}

\* The files, the lock and the goroutines keep their types.
TypeOK ==
  /\ main \in Databases \cup {Absent, Empty, Garbage, Link}
  /\ wal \in Databases \cup {Absent, Empty}
  /\ shm \in BOOLEAN /\ wiped \in BOOLEAN
  /\ lockInode \in Nat /\ inodes \in Nat
  /\ fd \in [Processes -> Nat] /\ flocked \subseteq Processes
  /\ pc \in [Processes -> CollectorLabels]
  /\ \A p \in Resetters : pc[p] \in ResetterLabels
  /\ holds \in [Readers -> SUBSET {"main", "wal", "shm"}]
  /\ late \in [Processes -> SUBSET Readers]
  /\ starts \in [Processes -> Nat]
  /\ acked \subseteq Rows

\* A process that came past Check has the one lock file open, and holds the
\* flock exactly while it owns the database.
LockInv ==
  /\ \A p \in Processes : pc[p] \notin {"off", "check"} => fd[p] = lockInode /\ lockInode # 0
  /\ flocked = Owners
  /\ OneOwner

\* A removal that goes on has removed the main file; a reset says so for good.
RemovalInv ==
  /\ \A p \in Processes : pc[p] \in {"removeWal", "removeShm"} => main = Absent
  /\ \A p \in Resetters : pc[p] \in {"removeWal", "removeShm"} => wiped

\* A foreign database is never taken further than its inspection.
ForeignInv ==
  before \in Foreign /\ ~wiped =>
    /\ main = before.main /\ wal = before.wal /\ shm = before.shm
    /\ \A p \in Collectors : pc[p] \in {"off", "check", "flock", "scan", "open", "release"}

\* A sound database, with its WAL, that is nobody else's.
Usable ==
  /\ main.kind = "db" /\ main.app # "other"
  /\ Logical.sound /\ Logical.app # "other"

Tagged    == Usable /\ Logical.app = "logal"
Versioned == Tagged /\ Logical.version = 7
Tabled    == Versioned /\ Logical.tables = "telemetry"
Current   == Tabled /\ Logical.signed

\* What each step of a start has made of the files before the next one.
CreationInv ==
  \A p \in Collectors :
    /\ pc[p] = "create" => main \in {Absent, Empty} \/ Usable
    /\ pc[p] = "ping" => main = Empty \/ Usable
    /\ pc[p] \in {"attach", "tag"} => Usable
    /\ pc[p] = "version" => Tagged
    /\ pc[p] = "tables" => Versioned
    /\ pc[p] = "sign" => Tabled
    /\ pc[p] \in {"probe", "running"} => Current

\* Acknowledged rows are in a complete database that no collector is removing.
AckedInv ==
  acked # {} /\ ~wiped =>
    /\ Current
    /\ acked \subseteq Logical.rows
    /\ \A p \in Collectors : pc[p] \notin {"rescan", "removeMain", "removeWal", "removeShm"}

IInv ==
  TypeOK /\ LockInv /\ RemovalInv /\ ForeignInv /\ CreationInv /\ AckedInv /\ OpenFilesSpared

USE ProcessAssumption
USE DEF files, lock, history, vars, Processes, Go

-----------------------------------------------------------------------------
(* Facts about the files.                                                   *)

\* The five things that can lie at a path are told apart by their kind.
LEMMA Kinds ==
  /\ Absent.kind = "absent" /\ Empty.kind = "empty" /\ Garbage.kind = "garbage"
  /\ Link.kind = "link" /\ Blank.kind = "db"
  /\ \A d \in Databases : d.kind = "db"
BY DEF Absent, Empty, Garbage, Link, Blank, Databases

\* What a connection sees of a database file and its WAL is a database.
LEMMA LogicalIsDatabase ==
  ASSUME TypeOK, main.kind = "db"
  PROVE  main \in Databases /\ Logical \in Databases
BY Kinds DEF TypeOK, Logical

\* A new, empty database has a type and is usable.
LEMMA BlankIsDatabase ==
  /\ Blank \in Databases
  /\ Blank.sound /\ Blank.app = "none"
BY DEF Blank, Databases

\* So is the one that createSchema has finished.
LEMMA CompleteIsDatabase == Complete \in Databases
BY DEF Complete, Blank, Databases

\* A database with another value in one of its fields is a database.
LEMMA FieldsMayChange ==
  ASSUME NEW e \in Databases
  PROVE  /\ \A a \in {"none", "logal", "other"} : [e EXCEPT !.app = a] \in Databases
         /\ \A v \in {0, 6, 7} : [e EXCEPT !.version = v] \in Databases
         /\ \A t \in {"none", "telemetry", "unrelated"} : [e EXCEPT !.tables = t] \in Databases
         /\ \A b \in BOOLEAN : [e EXCEPT !.signed = b] \in Databases
         /\ \A b \in BOOLEAN : [e EXCEPT !.sound = b] \in Databases
<1>1. ASSUME NEW a \in {"none", "logal", "other"} PROVE [e EXCEPT !.app = a] \in Databases
  BY DEF Databases
<1>2. ASSUME NEW v \in {0, 6, 7} PROVE [e EXCEPT !.version = v] \in Databases
  BY DEF Databases
<1>3. ASSUME NEW t \in {"none", "telemetry", "unrelated"} PROVE [e EXCEPT !.tables = t] \in Databases
  BY DEF Databases
<1>4. ASSUME NEW b \in BOOLEAN PROVE [e EXCEPT !.signed = b] \in Databases
  BY DEF Databases
<1>5. ASSUME NEW b \in BOOLEAN PROVE [e EXCEPT !.sound = b] \in Databases
  BY DEF Databases
<1>. QED BY <1>1, <1>2, <1>3, <1>4, <1>5

\* The owner of the database is alone: everybody else is still before Flock.
LEMMA OwnerIsAlone ==
  ASSUME LockInv, NEW p \in Processes, pc[p] \notin {"off", "check", "flock"},
         NEW q \in Processes, q # p
  PROVE  pc[q] \in {"off", "check", "flock"}
BY DEF LockInv, OneOwner, Owners

\* Closing the last connection changes no content, whether or not it could
\* checkpoint and remove the sidecars.
LEMMA CloseKeepsContent ==
  ASSUME TypeOK, Usable, CloseDB
  PROVE  /\ main' \in {main, Logical} /\ main' \in Databases
         /\ wal' \in {wal, Absent} /\ shm' \in BOOLEAN
         /\ Logical' = Logical /\ Usable'
<1>1. main \in Databases /\ Logical \in Databases
  BY LogicalIsDatabase DEF Usable
<1>2. main' \in {main, Logical} /\ wal' \in {wal, Absent} /\ shm' \in BOOLEAN
  BY DEF CloseDB, TypeOK
<1>3. Logical' = Logical
  BY <1>1, <1>2, Kinds DEF CloseDB, Logical
<1>. QED BY <1>1, <1>2, <1>3, Kinds DEF Usable

-----------------------------------------------------------------------------
(* Types.                                                                   *)

\* Begin, Check, Flock, the scans and Release, which touch no database file.
LEMMA AcquireType ==
  ASSUME IInv, NEW p \in Processes,
         Begin(p) \/ Check(p) \/ Flock(p) \/ Scan(p) \/ Rescan(p) \/ Release(p) \/ Crash(p)
  PROVE  TypeOK'
<1>. USE DEF IInv, TypeOK, CollectorLabels, ResetterLabels
<1>1. CASE Begin(p)
  BY <1>1 DEF Begin
<1>2. CASE Check(p)
  BY <1>2 DEF Check
<1>3. CASE Flock(p)
  BY <1>3 DEF Flock, ReleaseOwnership
<1>4. CASE Scan(p)
  BY <1>4 DEF Scan, ScanThen
<1>5. CASE Rescan(p)
  BY <1>5 DEF Rescan, ScanThen
<1>6. CASE Release(p) \/ Crash(p)
  BY <1>6 DEF Release, Crash, ReleaseOwnership
<1>. QED BY <1>1, <1>2, <1>3, <1>4, <1>5, <1>6

\* The removal of the three files.
LEMMA RemoveType ==
  ASSUME IInv, NEW p \in Processes, RemoveMain(p) \/ RemoveWal(p) \/ RemoveShm(p)
  PROVE  TypeOK'
<1>. USE DEF IInv, TypeOK, CollectorLabels, ResetterLabels, Forget
<1>1. CASE RemoveMain(p)
  BY <1>1 DEF RemoveMain
<1>2. CASE RemoveWal(p)
  BY <1>2 DEF RemoveWal
<1>3. CASE RemoveShm(p)
  <2>1. PICK l \in {"create", "release"} : pc' = [pc EXCEPT ![p] = l]
    BY <1>3 DEF RemoveShm
  <2>2. /\ pc' \in [Processes -> CollectorLabels]
        /\ \A q \in Resetters : pc'[q] \in ResetterLabels
    BY <1>3, <2>1 DEF RemoveShm
  <2>. QED BY <1>3, <2>2 DEF RemoveShm
<1>. QED BY <1>1, <1>2, <1>3

\* The start of a collector, up to the probe of its write path.
LEMMA StartType ==
  ASSUME IInv, NEW p \in Collectors, Start(p)
  PROVE  TypeOK'
<1>. USE DEF IInv, TypeOK, CollectorLabels, ResetterLabels
<1>1. CASE Inspect(p)
  BY <1>1 DEF Inspect, Verdict
<1>2. CASE Create(p) \/ Ping(p)
  BY <1>2, BlankIsDatabase DEF Create, Ping
<1>3. CASE Attach(p)
  BY <1>3 DEF Attach
<1>4. CASE Tag(p) \/ Version(p) \/ Tables(p) \/ Sign(p)
  <2>1. Logical \in Databases
    BY <1>4, LogicalIsDatabase
       DEF CreationInv, Tag, Version, Tables, Sign, Execute, Tagged, Versioned, Tabled, Usable
  <2>2. \/ wal' = [Logical EXCEPT !.app = "logal"] \/ wal' = [Logical EXCEPT !.version = 7]
        \/ wal' = [Logical EXCEPT !.tables = "telemetry"] \/ wal' = [Logical EXCEPT !.signed = TRUE]
    BY <1>4, Zenon DEF Tag, Version, Tables, Sign, Execute
  <2>3. wal' \in Databases
    BY <2>1, <2>2, FieldsMayChange
  <2>. QED BY <1>4, <2>3 DEF Tag, Version, Tables, Sign, Execute
<1>5. CASE Probe(p)
  BY <1>5 DEF Probe
<1>. QED BY <1>1, <1>2, <1>3, <1>4, <1>5 DEF Start

\* A connection that is open is open to a usable database.
LEMMA ConnectedIsUsable ==
  ASSUME IInv, NEW p \in Collectors,
         pc[p] \in {"attach", "tag", "version", "tables", "sign", "probe", "running"}
  PROVE  Usable
BY DEF IInv, CreationInv, Current, Tabled, Versioned, Tagged

\* A running collector and its end.
LEMMA RunType ==
  ASSUME IInv, NEW p \in Collectors,
         StartFails(p) \/ Commit(p) \/ Checkpoint(p) \/ Shutdown(p)
  PROVE  TypeOK'
<1>. USE DEF IInv, TypeOK, CollectorLabels, ResetterLabels
<1>1. CASE Commit(p) \/ Checkpoint(p)
  <2>1. Logical \in Databases
    BY <1>1, LogicalIsDatabase, ConnectedIsUsable DEF Commit, Checkpoint, Usable
  <2>2. CASE Commit(p)
    <3>1. PICK r \in Rows \ acked : /\ wal' = [Logical EXCEPT !.rows = @ \cup {r}]
                                    /\ acked' = acked \cup {r}
      BY <2>2 DEF Commit
    <3>2. wal' \in Databases
      BY <2>1, <3>1 DEF Databases
    <3>. QED BY <2>2, <3>1, <3>2 DEF Commit
  <2>3. CASE Checkpoint(p)
    BY <2>1, <2>3 DEF Checkpoint
  <2>. QED BY <1>1, <2>2, <2>3
<1>2. CASE Shutdown(p)
  BY <1>2, CloseKeepsContent, ConnectedIsUsable DEF Shutdown
<1>3. CASE StartFails(p)
  <2>1. CASE UNCHANGED files
    BY <1>3, <2>1 DEF StartFails
  <2>2. CASE /\ pc[p] \in {"attach", "tag", "version", "tables", "sign", "probe"}
             /\ CloseDB
    BY <1>3, <2>2, CloseKeepsContent, ConnectedIsUsable DEF StartFails
  <2>. QED BY <1>3, <2>1, <2>2 DEF StartFails
<1>. QED BY <1>1, <1>2, <1>3

\* Other programs.
LEMMA ReaderType ==
  ASSUME IInv, NEW r \in Readers, ReaderOpens(r) \/ ReaderCloses(r)
  PROVE  TypeOK'
BY DEF IInv, TypeOK, CollectorLabels, ResetterLabels, ReaderOpens, ReaderCloses

-----------------------------------------------------------------------------
(* Ownership.                                                               *)

\* The owner goes on to another step of its own.
LEMMA OwnerMoves ==
  ASSUME TypeOK, LockInv, NEW p \in Processes, pc[p] \notin {"off", "check", "flock"},
         NEW l \in CollectorLabels \ {"off", "check", "flock"}, Go(p, l), UNCHANGED lock
  PROVE  LockInv'
<1>1. Owners' = Owners
  BY DEF TypeOK, Owners
<1>. QED BY <1>1 DEF TypeOK, LockInv, OneOwner

\* A process that stops, of its own will or not, gives the flock up.
LEMMA Leaves ==
  ASSUME TypeOK, LockInv, NEW p \in Processes, Go(p, "off"), ReleaseOwnership(p)
  PROVE  LockInv'
<1>1. Owners' = Owners \ {p}
  BY DEF TypeOK, Owners
<1>2. \A q \in Processes : q # p => pc'[q] = pc[q] /\ fd'[q] = fd[q]
  BY DEF TypeOK, ReleaseOwnership
<1>3. pc'[p] = "off"
  BY DEF TypeOK
<1>. QED BY <1>1, <1>2, <1>3 DEF TypeOK, LockInv, OneOwner, ReleaseOwnership

\* Opening the lock file: the inode is the one that everybody else has open.
LEMMA CheckLock ==
  ASSUME TypeOK, LockInv, NEW p \in Processes, Check(p)
  PROVE  LockInv'
<1>1. Owners' = Owners /\ flocked' = flocked
  BY DEF TypeOK, Owners, Check
<1>2. CASE main = Link
  BY <1>1, <1>2 DEF TypeOK, LockInv, OneOwner, Check
<1>3. CASE main # Link
  <2>1. lockInode' \in Nat \ {0} /\ fd'[p] = lockInode'
    BY <1>3 DEF TypeOK, Check
  <2>2. ASSUME NEW q \in Processes, q # p, pc'[q] \notin {"off", "check"}
        PROVE  fd'[q] = lockInode'
    <3>1. pc[q] \notin {"off", "check"} /\ fd'[q] = fd[q]
      BY <1>3, <2>2 DEF TypeOK, Check
    <3>. QED BY <1>3, <3>1 DEF LockInv, Check
  <2>. QED BY <1>1, <2>1, <2>2 DEF LockInv, OneOwner
<1>. QED BY <1>2, <1>3

\* The flock is granted only if nobody has it: every owner has the same inode
\* open as the process that asks.
LEMMA FlockLock ==
  ASSUME TypeOK, LockInv, NEW p \in Processes, Flock(p)
  PROVE  LockInv'
<1>1. CASE \E q \in flocked : fd[q] = fd[p]
  BY <1>1, Leaves DEF Flock
<1>2. CASE ~\E q \in flocked : fd[q] = fd[p]
  <2>1. flocked = {}
    BY <1>2 DEF Flock, LockInv, Owners
  <2>2. flocked' = {p} /\ pc' = [pc EXCEPT ![p] = "scan"] /\ UNCHANGED <<fd, lockInode>>
    BY <1>2, <2>1 DEF Flock
  <2>3. Owners' = {p}
    BY <2>1, <2>2 DEF TypeOK, LockInv, Owners
  <2>. QED BY <2>2, <2>3 DEF TypeOK, LockInv, OneOwner, Flock
<1>. QED BY <1>1, <1>2

\* In no interleaving of starts, failures, removals, resets and crashes is the
\* database owned twice.
LEMMA LockKeeps ==
  ASSUME IInv, [Next]_vars
  PROVE  LockInv'
<1>. USE DEF IInv
<1>1. ASSUME NEW p \in Processes, Acquire(p) \/ Crash(p)
      PROVE  LockInv'
  <2>1. CASE Begin(p)
    <3>1. Owners' = Owners
      BY <2>1 DEF Begin, TypeOK, Owners
    <3>. QED BY <2>1, <3>1 DEF Begin, TypeOK, LockInv, OneOwner
  <2>2. CASE Check(p)
    BY <2>2, CheckLock
  <2>3. CASE Flock(p)
    BY <2>3, FlockLock
  <2>4. CASE Scan(p) \/ Rescan(p)
    BY <2>4, OwnerMoves DEF Scan, Rescan, ScanThen, CollectorLabels
  <2>5. CASE RemoveMain(p) \/ RemoveWal(p) \/ RemoveShm(p)
    BY <2>5, OwnerMoves DEF RemoveMain, RemoveWal, RemoveShm, CollectorLabels
  <2>6. CASE Release(p) \/ Crash(p)
    BY <2>6, Leaves DEF Release, Crash
  <2>. QED BY <1>1, <2>1, <2>2, <2>3, <2>4, <2>5, <2>6 DEF Acquire
<1>2. ASSUME NEW p \in Collectors, Start(p)
      PROVE  LockInv'
  <2>1. CASE Inspect(p)
    <3>1. Verdict \in {"create", "rescan", "refuse"}
      BY DEF Verdict
    <3>. QED BY <2>1, <3>1, OwnerMoves DEF Inspect, CollectorLabels
  <2>2. CASE Create(p) \/ Ping(p) \/ Attach(p) \/ Probe(p)
    BY <2>2, OwnerMoves DEF Create, Ping, Attach, Probe, CollectorLabels
  <2>3. CASE Tag(p) \/ Version(p) \/ Tables(p) \/ Sign(p)
    BY <2>3, OwnerMoves DEF Tag, Version, Tables, Sign, Execute, CollectorLabels
  <2>. QED BY <1>2, <2>1, <2>2, <2>3 DEF Start
<1>3. ASSUME NEW p \in Collectors, StartFails(p) \/ Shutdown(p)
      PROVE  LockInv'
  BY <1>3, OwnerMoves DEF StartFails, Shutdown, CollectorLabels
<1>4. CASE \/ \E p \in Collectors : Commit(p) \/ Checkpoint(p)
           \/ \E r \in Readers : ReaderOpens(r) \/ ReaderCloses(r)
           \/ UNCHANGED vars
  BY <1>4 DEF Commit, Checkpoint, ReaderOpens, ReaderCloses, LockInv, OneOwner, Owners
<1>. QED BY <1>1, <1>2, <1>3, <1>4 DEF Next

-----------------------------------------------------------------------------
(* Files under other programs.                                              *)

\* A file is unlinked only under readers that came after the last scan.
LEMMA SparedKeeps ==
  ASSUME IInv, [Next]_vars
  PROVE  OpenFilesSpared'
<1>. USE DEF IInv, OpenFilesSpared, TypeOK
<1>1. ASSUME NEW p \in Processes, Acquire(p) \/ Crash(p)
      PROVE  OpenFilesSpared'
  <2>1. CASE Begin(p) \/ Check(p) \/ Flock(p) \/ Release(p) \/ Crash(p)
    BY <2>1 DEF Begin, Check, Flock, Release, Crash
  <2>2. CASE Scan(p)
    BY <2>2 DEF Scan, ScanThen, NothingOpen
  <2>3. CASE Rescan(p)
    BY <2>3 DEF Rescan, ScanThen, NothingOpen
  <2>4. CASE RemoveMain(p)
    BY <2>4 DEF RemoveMain, Forget
  <2>5. CASE RemoveWal(p) \/ RemoveShm(p)
    BY <2>5 DEF RemoveWal, RemoveShm, Forget
  <2>. QED BY <1>1, <2>1, <2>2, <2>3, <2>4, <2>5 DEF Acquire
<1>2. ASSUME NEW p \in Collectors, Start(p)
      PROVE  OpenFilesSpared'
  <2>1. CASE Inspect(p)
    BY <2>1 DEF Inspect, Verdict
  <2>2. CASE ~Inspect(p)
    BY <1>2, <2>2 DEF Start, Create, Ping, Attach, Probe, Tag, Version, Tables, Sign, Execute
  <2>. QED BY <2>1, <2>2
<1>3. ASSUME NEW p \in Collectors, StartFails(p) \/ Commit(p) \/ Checkpoint(p) \/ Shutdown(p)
      PROVE  OpenFilesSpared'
  BY <1>3 DEF StartFails, Commit, Checkpoint, Shutdown
<1>4. ASSUME NEW r \in Readers, ReaderOpens(r) \/ ReaderCloses(r)
      PROVE  OpenFilesSpared'
  BY <1>4 DEF ReaderOpens, ReaderCloses
<1>5. CASE UNCHANGED vars
  BY <1>5
<1>. QED BY <1>1, <1>2, <1>3, <1>4, <1>5 DEF Next

-----------------------------------------------------------------------------
(* What the steps do to the files, as seen by the process that owns them.   *)

\* Steps that change neither the files nor what has been removed or stored.
Quiet(p) ==
  \/ Begin(p) \/ Check(p) \/ Flock(p) \/ Scan(p) \/ Rescan(p) \/ Release(p) \/ Crash(p)
  \/ p \in Collectors /\ (Inspect(p) \/ Probe(p))

\* Such a step moves one process, and to the next label of its function only.
LEMMA QuietMoves ==
  ASSUME TypeOK, NEW p \in Processes, Quiet(p)
  PROVE  /\ UNCHANGED <<main, wal, shm, acked, wiped, before>>
         /\ \A q \in Processes : q # p => pc'[q] = pc[q]
         /\ \/ pc'[p] \in {"off", "check", "flock", "scan", "release"}
            \/ pc[p] = "scan" /\ pc'[p] = (IF p \in Collectors THEN "open" ELSE "rescan")
            \/ pc[p] = "rescan" /\ pc'[p] = "removeMain"
            \/ p \in Collectors /\ pc[p] = "open" /\ Verdict # "refuse" /\ pc'[p] = Verdict
            \/ p \in Collectors /\ pc[p] = "probe" /\ pc'[p] = "running"
<1>. USE DEF TypeOK
<1>1. CASE Begin(p) \/ Check(p) \/ Flock(p) \/ Release(p) \/ Crash(p)
  BY <1>1 DEF Begin, Check, Flock, Release, Crash
<1>2. CASE Scan(p) \/ Rescan(p)
  BY <1>2 DEF Scan, Rescan, ScanThen
<1>3. CASE p \in Collectors /\ (Inspect(p) \/ Probe(p))
  BY <1>3 DEF Inspect, Probe
<1>. QED BY <1>1, <1>2, <1>3 DEF Quiet

\* openCurrentSchema replaces nothing but a file that is unreadable, untagged
\* or Logal's own, and goes on with nothing but a usable one.
LEMMA VerdictIsRight ==
  ASSUME TypeOK
  PROVE  /\ Verdict \in {"create", "rescan", "refuse"}
         /\ Verdict = "create" => main \in {Absent, Empty} \/ Usable
         /\ Current => Verdict = "create"
<1>. USE Kinds
<1>1. Verdict \in {"create", "rescan", "refuse"}
  BY DEF Verdict
<1>2. ASSUME Verdict = "create", main \notin {Absent, Empty}
      PROVE  Usable
  <2>1. main.kind = "db" /\ Owned /\ IsCurrent(Inspected)
    BY <1>2 DEF Verdict
  <2>2. main \in Databases /\ Logical \in Databases
    BY <2>1, LogicalIsDatabase
  <2>3. CASE ApplicationID = "none"
    <3>1. main.app = "none" /\ Logical = main
      BY <2>1, <2>2, <2>3 DEF Owned, ApplicationID, Logical, Databases
    <3>. QED BY <2>1, <2>2, <2>3, <3>1 DEF Inspected, IsCurrent, Usable
  <2>4. CASE ApplicationID # "none"
    <3>1. ApplicationID = "logal" /\ main.app \in {"none", "logal"}
      BY <2>1, <2>2, <2>4 DEF Owned, ApplicationID, Databases
    <3>. QED BY <2>1, <2>2, <2>4, <3>1 DEF Inspected, IsCurrent, Usable
  <2>. QED BY <2>3, <2>4
<1>3. ASSUME Current
      PROVE  Verdict = "create"
  <2>1. /\ main.kind = "db" /\ main.app # "other" /\ Logical.sound /\ Logical.app = "logal"
        /\ Logical.version = 7 /\ Logical.signed
    BY <1>3 DEF Current, Tabled, Versioned, Tagged, Usable
  <2>2. main \in Databases
    BY <2>1, LogicalIsDatabase
  <2>3. ApplicationID = "logal"
    BY <2>1, <2>2 DEF ApplicationID, Databases
  <2>4. Owned /\ IsCurrent(Inspected) /\ ~IsDisposable(Inspected)
    BY <2>1, <2>3 DEF Owned, Inspected, IsCurrent, IsDisposable
  <2>. QED BY <2>1, <2>4 DEF Verdict
<1>. QED BY <1>1, <1>2, <1>3

\* A sound database of another program is refused, wherever its tables or its
\* application_id are.
LEMMA ForeignIsRefused ==
  ASSUME before \in Foreign, main = before.main, wal = before.wal, shm = before.shm
  PROVE  Verdict = "refuse"
<1>. USE Kinds DEF Disk
<1>1. PICK d \in {Unrelated, Other} :
        \/ main = d /\ wal = Absent /\ ~shm
        \/ main = Blank /\ wal = d /\ shm
  BY DEF Foreign
<1>2. /\ d.kind = "db" /\ d.app \in {"none", "other"} /\ d.sound /\ d.tables = "unrelated"
      /\ d.app # "logal" /\ Blank.kind = "db" /\ Blank.app = "none"
  BY DEF Unrelated, Other, Blank
<1>3. CASE main = d /\ wal = Absent /\ ~shm
  <2>1. Logical = main /\ main.kind = "db"
    BY <1>2, <1>3 DEF Logical
  <2>2. ~IsCurrent(main) /\ ~IsDisposable(main)
    BY <1>2, <1>3 DEF IsCurrent, IsDisposable
  <2>3. Inspected = main
    BY <2>1 DEF Inspected
  <2>. QED BY <2>1, <2>2, <2>3 DEF Verdict
<1>4. CASE main = Blank /\ wal = d /\ shm
  <2>1. ~Owned
    BY <1>2, <1>4 DEF Owned, ApplicationID, Logical
  <2>. QED BY <1>2, <1>4, <2>1 DEF Verdict
<1>. QED BY <1>1, <1>3, <1>4

\* The steps of a start that write: what a connection sees afterwards.
LEMMA WritesContent ==
  ASSUME IInv, NEW p \in Collectors
  PROVE  /\ Create(p) /\ main # Absent => UNCHANGED <<main, wal>>
         /\ Ping(p) /\ main # Empty => UNCHANGED <<main, wal>>
         /\ Ping(p) /\ main = Empty => Usable'
         /\ Attach(p) => main' = main /\ Logical' = Logical
         /\ Tag(p) => main' = main /\ Logical' = [Logical EXCEPT !.app = "logal"]
         /\ Version(p) => main' = main /\ Logical' = [Logical EXCEPT !.version = 7]
         /\ Tables(p) => main' = main /\ Logical' = [Logical EXCEPT !.tables = "telemetry"]
         /\ Sign(p) => main' = main /\ Logical' = [Logical EXCEPT !.signed = TRUE]
<1>. USE Kinds
<1>1. Create(p) /\ main # Absent => UNCHANGED <<main, wal>>
  BY DEF Create
<1>2. Ping(p) /\ main # Empty => UNCHANGED <<main, wal>>
  BY DEF Ping
<1>3. Ping(p) /\ main = Empty => Usable'
  BY BlankIsDatabase DEF Ping, Usable, Logical
<1>4. Attach(p) => main' = main /\ Logical' = Logical
  BY DEF Attach, Logical
<1>5. ASSUME pc[p] \in {"tag", "version", "tables", "sign"}
      PROVE  Logical \in Databases
  BY <1>5, ConnectedIsUsable, LogicalIsDatabase DEF Usable, IInv
<1>6. ASSUME Logical \in Databases
      PROVE  /\ [Logical EXCEPT !.app = "logal"].kind = "db"
             /\ [Logical EXCEPT !.version = 7].kind = "db"
             /\ [Logical EXCEPT !.tables = "telemetry"].kind = "db"
             /\ [Logical EXCEPT !.signed = TRUE].kind = "db"
  BY <1>6, FieldsMayChange, Kinds
<1>7. ASSUME NEW at \in {"tag", "version", "tables", "sign"}, NEW d, NEW next,
             Execute(p, at, d, next), d.kind = "db"
      PROVE  main' = main /\ Logical' = d
  BY <1>7 DEF Execute, Logical
<1>8. Tag(p) => main' = main /\ Logical' = [Logical EXCEPT !.app = "logal"]
  <2>1. ASSUME Tag(p) PROVE /\ Logical \in Databases
                            /\ Execute(p, "tag", [Logical EXCEPT !.app = "logal"], "version")
    BY <1>5, <2>1, Zenon DEF Tag, Execute
  <2>. QED BY <1>6, <1>7, <2>1, Zenon
<1>9. Version(p) => main' = main /\ Logical' = [Logical EXCEPT !.version = 7]
  <2>1. ASSUME Version(p) PROVE /\ Logical \in Databases
                                /\ Execute(p, "version", [Logical EXCEPT !.version = 7], "tables")
    BY <1>5, <2>1, Zenon DEF Version, Execute
  <2>. QED BY <1>6, <1>7, <2>1, Zenon
<1>10. Tables(p) => main' = main /\ Logical' = [Logical EXCEPT !.tables = "telemetry"]
  <2>1. ASSUME Tables(p)
        PROVE  /\ Logical \in Databases
               /\ Execute(p, "tables", [Logical EXCEPT !.tables = "telemetry"], "sign")
    BY <1>5, <2>1, Zenon DEF Tables, Execute
  <2>. QED BY <1>6, <1>7, <2>1, Zenon
<1>11. Sign(p) => main' = main /\ Logical' = [Logical EXCEPT !.signed = TRUE]
  <2>1. ASSUME Sign(p) PROVE /\ Logical \in Databases
                             /\ Execute(p, "sign", [Logical EXCEPT !.signed = TRUE], "probe")
    BY <1>5, <2>1, Zenon DEF Sign, Execute
  <2>. QED BY <1>6, <1>7, <2>1, Zenon
<1>. QED BY <1>1, <1>2, <1>3, <1>4, <1>8, <1>9, <1>10, <1>11

\* Each statement of createSchema adds its part and takes nothing away.
LEMMA CreationAdvances ==
  ASSUME IInv, NEW p \in Collectors
  PROVE  /\ Usable /\ Attach(p) => Usable'
         /\ Tag(p) => Tagged'
         /\ Version(p) => Versioned'
         /\ Tables(p) => Tabled'
         /\ Sign(p) => Current'
<1>1. ASSUME Usable PROVE Logical \in Databases
  BY <1>1, LogicalIsDatabase DEF Usable, IInv
<1>2. Usable /\ Attach(p) => Usable'
  BY WritesContent DEF Usable
<1>3. ASSUME Tag(p) PROVE Tagged'
  <2>1. Usable
    BY <1>3, ConnectedIsUsable DEF Tag, Execute
  <2>. QED BY <1>1, <1>3, <2>1, WritesContent DEF Tagged, Usable, Databases
<1>4. ASSUME Version(p) PROVE Versioned'
  <2>1. Tagged
    BY <1>4 DEF Version, Execute, IInv, CreationInv
  <2>. QED BY <1>1, <1>4, <2>1, WritesContent DEF Versioned, Tagged, Usable, Databases
<1>5. ASSUME Tables(p) PROVE Tabled'
  <2>1. Versioned
    BY <1>5 DEF Tables, Execute, IInv, CreationInv
  <2>. QED BY <1>1, <1>5, <2>1, WritesContent DEF Tabled, Versioned, Tagged, Usable, Databases
<1>6. ASSUME Sign(p) PROVE Current'
  <2>1. Tabled
    BY <1>6 DEF Sign, Execute, IInv, CreationInv
  <2>. QED BY <1>1, <1>6, <2>1, WritesContent
           DEF Current, Tabled, Versioned, Tagged, Usable, Databases
<1>. QED BY <1>2, <1>3, <1>4, <1>5, <1>6

\* A step that keeps the content keeps a complete database complete.
LEMMA SameContent ==
  ASSUME main'.kind = "db", main'.app # "other", Logical' = Logical
  PROVE  /\ Usable => Usable'
         /\ Current => Current'
BY DEF Current, Tabled, Versioned, Tagged, Usable

\* A running collector: a commit adds one row to a complete database, a
\* checkpoint and a close move content from the WAL to the main file.
LEMMA RunContent ==
  ASSUME IInv, NEW p \in Collectors
  PROVE  /\ Checkpoint(p) => Current' /\ Logical' = Logical
         /\ Usable /\ CloseDB => main'.kind = "db" /\ main'.app # "other" /\ Logical' = Logical
         /\ Commit(p) => /\ Current'
                         /\ \E r \in Rows \ acked : /\ acked' = acked \cup {r}
                                                   /\ Logical'.rows = Logical.rows \cup {r}
<1>. USE Kinds
<1>0. ASSUME pc[p] = "running" PROVE Current /\ main \in Databases /\ Logical \in Databases
  <2>1. Current /\ main.kind = "db"
    BY <1>0 DEF IInv, CreationInv, Current, Tabled, Versioned, Tagged, Usable
  <2>. QED BY <2>1, LogicalIsDatabase DEF IInv
<1>1. ASSUME Checkpoint(p) PROVE Current' /\ Logical' = Logical
  <2>1. Logical' = Logical /\ main' = Logical
    BY <1>1 DEF Checkpoint, Logical
  <2>. QED BY <1>0, <1>1, <2>1 DEF Checkpoint, Current, Tabled, Versioned, Tagged, Usable
<1>2. Usable /\ CloseDB => main'.kind = "db" /\ main'.app # "other" /\ Logical' = Logical
  BY CloseKeepsContent DEF IInv, Usable
<1>3. ASSUME Commit(p)
      PROVE  /\ Current'
             /\ \E r \in Rows \ acked : /\ acked' = acked \cup {r}
                                       /\ Logical'.rows = Logical.rows \cup {r}
  <2>1. PICK r \in Rows \ acked : /\ wal' = [Logical EXCEPT !.rows = @ \cup {r}]
                                  /\ acked' = acked \cup {r}
    BY <1>3 DEF Commit
  <2>2. Current /\ Logical \in Databases
    BY <1>0, <1>3 DEF Commit
  <2>3. Logical' = [Logical EXCEPT !.rows = @ \cup {r}] /\ main' = main
    BY <1>3, <2>1, <2>2 DEF Commit, Logical, Databases
  <2>4. Current'
    BY <2>2, <2>3 DEF Current, Tabled, Versioned, Tagged, Usable, Databases
  <2>5. Logical'.rows = Logical.rows \cup {r}
    BY <2>2, <2>3 DEF Databases
  <2>. QED BY <2>1, <2>4, <2>5
<1>. QED BY <1>1, <1>2, <1>3

-----------------------------------------------------------------------------
(* The four parts of the invariant that speak of the files.                 *)

\* The steps of the owner that may change files, one at a time.
Writing(p) ==
  \/ RemoveMain(p) \/ RemoveWal(p) \/ RemoveShm(p)
  \/ /\ p \in Collectors
     /\ \/ Create(p) \/ Ping(p) \/ Attach(p) \/ Tag(p) \/ Version(p) \/ Tables(p) \/ Sign(p)
        \/ StartFails(p) \/ Commit(p) \/ Checkpoint(p) \/ Shutdown(p)

\* Whoever writes is the owner, and nobody else moves.
LEMMA WriterIsAlone ==
  ASSUME IInv, NEW p \in Processes, Writing(p)
  PROVE  \A q \in Processes : q # p => pc'[q] = pc[q] /\ pc[q] \in {"off", "check", "flock"}
<1>1. pc[p] \notin {"off", "check", "flock"}
  BY DEF Writing, RemoveMain, RemoveWal, RemoveShm, Create, Ping, Attach, Tag, Version, Tables,
         Sign, Execute, StartFails, Commit, Checkpoint, Shutdown
<1>2. \A q \in Processes : q # p => pc'[q] = pc[q]
  BY DEF IInv, TypeOK, Writing, RemoveMain, RemoveWal, RemoveShm, Create, Ping, Attach, Tag,
         Version, Tables, Sign, Execute, StartFails, Commit, Checkpoint, Shutdown
<1>. QED BY <1>1, <1>2, OwnerIsAlone DEF IInv

\* Where a writing step leads.
LEMMA WriterMoves ==
  ASSUME IInv, NEW p \in Processes, Writing(p)
  PROVE  /\ RemoveMain(p) => pc[p] = "removeMain" /\ pc'[p] = "removeWal"
         /\ RemoveWal(p) => pc[p] = "removeWal" /\ pc'[p] = "removeShm"
         /\ RemoveShm(p) => /\ pc[p] = "removeShm"
                            /\ pc'[p] = (IF p \in Collectors THEN "create" ELSE "release")
         /\ Create(p) => pc[p] = "create" /\ pc'[p] = "ping"
         /\ Ping(p) => pc[p] = "ping" /\ pc'[p] = "attach"
         /\ Attach(p) => pc[p] = "attach" /\ pc'[p] = "tag"
         /\ Tag(p) => pc[p] = "tag" /\ pc'[p] = "version"
         /\ Version(p) => pc[p] = "version" /\ pc'[p] = "tables"
         /\ Tables(p) => pc[p] = "tables" /\ pc'[p] = "sign"
         /\ Sign(p) => pc[p] = "sign" /\ pc'[p] = "probe"
         /\ StartFails(p) \/ Shutdown(p) => pc'[p] = "release"
         /\ Commit(p) \/ Checkpoint(p) => pc[p] = "running" /\ pc'[p] = "running"
BY DEF IInv, TypeOK, RemoveMain, RemoveWal, RemoveShm, Create, Ping, Attach, Tag, Version,
       Tables, Sign, Execute, StartFails, Commit, Checkpoint, Shutdown

\* Every step is quiet, writes, or is one of another program.
LEMMA StepKinds ==
  ASSUME [Next]_vars
  PROVE  \/ \E p \in Processes : Quiet(p) \/ Writing(p)
         \/ UNCHANGED <<main, wal, shm, pc, acked, wiped, before>>
BY DEF Next, Acquire, Start, Quiet, Writing, ReaderOpens, ReaderCloses

\* Removal goes on with the main file gone.
LEMMA RemovalKeeps ==
  ASSUME IInv, [Next]_vars
  PROVE  RemovalInv'
<1>. USE DEF IInv, RemovalInv
<1>1. ASSUME NEW p \in Processes, Quiet(p)
      PROVE  RemovalInv'
  BY <1>1, QuietMoves, VerdictIsRight
<1>2. ASSUME NEW p \in Processes, Writing(p)
      PROVE  RemovalInv'
  <2>1. CASE RemoveMain(p)
    BY <1>2, <2>1, WriterIsAlone, WriterMoves DEF RemoveMain
  <2>2. CASE RemoveWal(p) \/ RemoveShm(p)
    BY <1>2, <2>2, WriterIsAlone, WriterMoves DEF RemoveWal, RemoveShm
  <2>3. CASE ~(RemoveMain(p) \/ RemoveWal(p) \/ RemoveShm(p))
    BY <1>2, <2>3, WriterIsAlone, WriterMoves DEF Writing
  <2>. QED BY <2>1, <2>2, <2>3
<1>. QED BY <1>1, <1>2, StepKinds

\* A foreign database stays as it was found.
LEMMA ForeignKeeps ==
  ASSUME IInv, [Next]_vars
  PROVE  ForeignInv'
<1>. USE DEF IInv, ForeignInv
<1>1. ASSUME NEW p \in Processes, Quiet(p)
      PROVE  ForeignInv'
  <2>1. before \in Foreign /\ ~wiped => Verdict = "refuse"
    BY ForeignIsRefused
  <2>. QED BY <1>1, <2>1, QuietMoves
<1>2. ASSUME NEW p \in Processes, Writing(p)
      PROVE  ForeignInv'
  <2>1. CASE p \in Resetters
    <3>1. CASE RemoveMain(p)
      BY <2>1, <3>1 DEF RemoveMain
    <3>2. CASE RemoveWal(p) \/ RemoveShm(p)
      BY <2>1, <3>2 DEF RemoveWal, RemoveShm, RemovalInv
    <3>. QED BY <1>2, <2>1, <3>1, <3>2 DEF Writing
  <2>2. CASE p \in Collectors
    <3>1. before' = before /\ (wiped => wiped')
      BY <1>2 DEF TypeOK, Writing, RemoveMain, RemoveWal, RemoveShm, Create, Ping, Attach, Tag, Version,
                  Tables, Sign, Execute, StartFails, Commit, Checkpoint, Shutdown
    <3>2. pc[p] \notin {"off", "check", "flock", "scan", "open", "release"}
      BY <1>2 DEF Writing, RemoveMain, RemoveWal, RemoveShm, Create, Ping, Attach, Tag, Version,
                  Tables, Sign, Execute, StartFails, Commit, Checkpoint, Shutdown
    <3>. QED BY <2>2, <3>1, <3>2
  <2>. QED BY <2>1, <2>2
<1>. QED BY <1>1, <1>2, StepKinds

\* Each step of a start finds what the one before it has left.
LEMMA CreationKeeps ==
  ASSUME IInv, [Next]_vars
  PROVE  CreationInv'
<1>1. ASSUME UNCHANGED <<main, wal>>
      PROVE  /\ Usable' = Usable /\ Tagged' = Tagged /\ Versioned' = Versioned
             /\ Tabled' = Tabled /\ Current' = Current
  BY <1>1 DEF Current, Tabled, Versioned, Tagged, Usable, Logical
<1>2. ASSUME NEW p \in Processes, Quiet(p)
      PROVE  CreationInv'
  BY <1>1, <1>2, QuietMoves, VerdictIsRight DEF IInv, CreationInv
<1>3. ASSUME NEW p \in Processes, Writing(p)
      PROVE  CreationInv'
  <2>. SUFFICES ASSUME p \in Collectors
                PROVE  /\ pc'[p] = "create" => main' \in {Absent, Empty} \/ Usable'
                       /\ pc'[p] = "ping" => main' = Empty \/ Usable'
                       /\ pc'[p] \in {"attach", "tag"} => Usable'
                       /\ pc'[p] = "version" => Tagged'
                       /\ pc'[p] = "tables" => Versioned'
                       /\ pc'[p] = "sign" => Tabled'
                       /\ pc'[p] \in {"probe", "running"} => Current'
    BY <1>3, WriterIsAlone DEF CreationInv
  <2>1. CASE RemoveMain(p) \/ RemoveWal(p) \/ RemoveShm(p)
    BY <1>3, <2>1, WriterMoves DEF IInv, RemovalInv, RemoveShm
  <2>2. CASE Create(p)
    <3>1. CASE main = Absent
      BY <1>3, <2>2, <3>1, WriterMoves DEF Create
    <3>2. CASE main # Absent
      BY <1>1, <1>3, <2>2, <3>2, WriterMoves, WritesContent DEF IInv, CreationInv
    <3>. QED BY <3>1, <3>2
  <2>3. CASE Ping(p)
    BY <1>1, <1>3, <2>3, WriterMoves, WritesContent DEF IInv, CreationInv
  <2>4. CASE Attach(p)
    BY <1>3, <2>4, WriterMoves, CreationAdvances DEF IInv, CreationInv
  <2>5. CASE Tag(p) \/ Version(p) \/ Tables(p) \/ Sign(p)
    BY <1>3, <2>5, WriterMoves, CreationAdvances
  <2>6. CASE StartFails(p) \/ Shutdown(p)
    BY <1>3, <2>6, WriterMoves
  <2>7. CASE Commit(p) \/ Checkpoint(p)
    BY <1>3, <2>7, WriterMoves, RunContent
  <2>. QED BY <1>3, <2>1, <2>2, <2>3, <2>4, <2>5, <2>6, <2>7 DEF Writing
<1>4. CASE UNCHANGED <<main, wal, shm, pc, acked, wiped, before>>
  BY <1>1, <1>4 DEF IInv, CreationInv
<1>. QED BY <1>2, <1>3, <1>4, StepKinds

\* Acknowledged rows stay, through every start, failure, checkpoint and crash.
LEMMA AckedKeeps ==
  ASSUME IInv, [Next]_vars
  PROVE  AckedInv'
<1>. USE DEF IInv, AckedInv
<1>1. ASSUME UNCHANGED <<main, wal>>
      PROVE  Current' = Current /\ Logical' = Logical
  BY <1>1 DEF Current, Tabled, Versioned, Tagged, Usable, Logical
<1>2. ASSUME NEW p \in Processes, Quiet(p)
      PROVE  AckedInv'
  BY <1>1, <1>2, QuietMoves, VerdictIsRight
<1>3. ASSUME NEW p \in Processes, Writing(p)
      PROVE  AckedInv'
  <2>1. CASE RemoveMain(p)
    <3>1. CASE p \in Resetters
      BY <2>1, <3>1 DEF RemoveMain
    <3>2. CASE p \in Collectors
      BY <2>1, <3>2 DEF RemoveMain, TypeOK
    <3>. QED BY <3>1, <3>2
  <2>2. CASE RemoveWal(p) \/ RemoveShm(p)
    BY <2>2 DEF RemoveWal, RemoveShm, RemovalInv
  <2>3. ASSUME Current
        PROVE  /\ main # Absent /\ main # Empty /\ main.kind = "db" /\ main.app # "other"
               /\ Usable /\ Logical \in Databases
    <3>1. Usable
      BY <2>3 DEF Current, Tabled, Versioned, Tagged
    <3>. QED BY <3>1, Kinds, LogicalIsDatabase DEF Usable
  <2>4. CASE p \in Collectors /\ (Create(p) \/ Ping(p))
    <3>1. Current => Current' /\ Logical' = Logical
      BY <1>1, <2>3, <2>4, WritesContent
    <3>. QED BY <1>3, <2>4, <3>1, WriterIsAlone, WriterMoves DEF Create, Ping
  <2>5. CASE p \in Collectors /\ Attach(p)
    <3>1. Current => Current' /\ Logical' = Logical
      BY <2>3, <2>5, WritesContent, SameContent
    <3>. QED BY <1>3, <2>5, <3>1, WriterIsAlone, WriterMoves DEF Attach
  <2>6. CASE p \in Collectors /\ (Tag(p) \/ Version(p) \/ Tables(p) \/ Sign(p))
    <3>1. Current => Current' /\ Logical'.rows = Logical.rows
      BY <2>3, <2>6, WritesContent
         DEF Current, Tabled, Versioned, Tagged, Usable, Databases
    <3>. QED BY <1>3, <2>6, <3>1, WriterIsAlone, WriterMoves
             DEF Tag, Version, Tables, Sign, Execute
  <2>7. CASE p \in Collectors /\ (StartFails(p) \/ Shutdown(p))
    <3>1. CASE UNCHANGED files
      BY <1>1, <1>3, <2>7, <3>1, WriterIsAlone, WriterMoves DEF StartFails, Shutdown
    <3>2. CASE CloseDB
      <4>1. Current => Current' /\ Logical' = Logical
        BY <2>3, <2>7, <3>2, RunContent, SameContent
      <4>. QED BY <1>3, <2>7, <4>1, WriterIsAlone, WriterMoves DEF StartFails, Shutdown
    <3>. QED BY <2>7, <3>1, <3>2 DEF StartFails, Shutdown
  <2>8. CASE p \in Collectors /\ Checkpoint(p)
    BY <1>3, <2>8, WriterIsAlone, WriterMoves, RunContent DEF Checkpoint
  <2>9. CASE p \in Collectors /\ Commit(p)
    <3>1. PICK r \in Rows \ acked : /\ acked' = acked \cup {r}
                                    /\ Logical'.rows = Logical.rows \cup {r}
      BY <2>9, RunContent
    <3>2. Current' /\ wiped' = wiped
      BY <2>9, RunContent DEF Commit
    <3>3. ~wiped => acked' \subseteq Logical'.rows
      BY <3>1
    <3>. QED BY <1>3, <2>9, <3>2, <3>3, WriterIsAlone, WriterMoves
  <2>. QED BY <1>3, <2>1, <2>2, <2>4, <2>5, <2>6, <2>7, <2>8, <2>9 DEF Writing
<1>4. CASE UNCHANGED <<main, wal, shm, pc, acked, wiped, before>>
  BY <1>1, <1>4
<1>. QED BY <1>2, <1>3, <1>4, StepKinds

-----------------------------------------------------------------------------
(* The theorems.                                                            *)

\* What may lie at the configured path satisfies the invariant.
LEMMA InitEstablishes ==
  ASSUME Init
  PROVE  IInv
<1>1. PICK d \in Foreign \cup Own \cup {Disk(Link, Absent, FALSE)} :
        before = d /\ main = d.main /\ wal = d.wal /\ shm = d.shm
  BY DEF Init
<1>2. /\ main \in Databases \cup {Absent, Empty, Garbage, Link}
      /\ wal \in Databases \cup {Absent, Empty}
      /\ shm \in BOOLEAN
  <2>0. ASSUME NEW e \in Databases
        PROVE  /\ [e EXCEPT !.app = "other"] \in Databases
               /\ [e EXCEPT !.tables = "unrelated"] \in Databases
               /\ [e EXCEPT !.tables = "telemetry"] \in Databases
               /\ [e EXCEPT !.version = 6] \in Databases
               /\ [e EXCEPT !.signed = FALSE] \in Databases
               /\ [e EXCEPT !.sound = FALSE] \in Databases
    BY DEF Databases
  <2>1. /\ Blank \in Databases /\ Unrelated \in Databases /\ Other \in Databases
        /\ [Blank EXCEPT !.tables = "telemetry"] \in Databases
    BY <2>0, BlankIsDatabase DEF Unrelated, Other
  <2>2. /\ [Complete EXCEPT !.version = 6] \in Databases
        /\ [Complete EXCEPT !.signed = FALSE] \in Databases
        /\ [Complete EXCEPT !.sound = FALSE] \in Databases
    BY <2>0, CompleteIsDatabase
  <2>3. ASSUME NEW m, NEW w, NEW x \in BOOLEAN, d = Disk(m, w, x)
        PROVE  main = m /\ wal = w /\ shm = x
    BY <1>1, <2>3 DEF Disk
  <2>4. CASE d \in Foreign
    <3>1. PICK m \in {Unrelated, Other} : d = Disk(m, Absent, FALSE) \/ d = Disk(Blank, m, TRUE)
      BY <2>4, Zenon DEF Foreign
    <3>2. m \in Databases /\ Blank \in Databases
      BY <2>1
    <3>3. CASE d = Disk(m, Absent, FALSE)
      BY <2>3, <3>2, <3>3
    <3>4. CASE d = Disk(Blank, m, TRUE)
      <4>1. main = Blank /\ wal = m /\ shm = TRUE
        BY <2>3, <3>4
      <4>. QED BY <3>2, <4>1
    <3>. QED BY <3>1, <3>3, <3>4
  <2>5. CASE d \in Own
    <3>1. PICK m \in {Absent, Empty, Garbage, Blank, [Blank EXCEPT !.tables = "telemetry"],
                      [Complete EXCEPT !.version = 6], [Complete EXCEPT !.signed = FALSE],
                      [Complete EXCEPT !.sound = FALSE]} : d = Disk(m, Absent, FALSE)
      BY <2>5, Zenon DEF Own
    <3>2. m \in Databases \cup {Absent, Empty, Garbage}
      BY <2>1, <2>2, <3>1, Zenon
    <3>. QED BY <2>3, <3>1, <3>2
  <2>6. CASE d = Disk(Link, Absent, FALSE)
    BY <2>3, <2>6
  <2>. QED BY <2>4, <2>5, <2>6
<1>3. TypeOK
  BY <1>2 DEF Init, TypeOK, CollectorLabels, ResetterLabels
<1>4. LockInv /\ RemovalInv /\ CreationInv /\ AckedInv /\ OpenFilesSpared
  BY DEF Init, LockInv, OneOwner, Owners, RemovalInv, CreationInv, AckedInv, OpenFilesSpared
<1>5. ForeignInv
  BY <1>1 DEF Init, ForeignInv
<1>. QED BY <1>3, <1>4, <1>5 DEF IInv

\* acquireOwnership to Shutdown, reset-db and any crashes: the parts of IInv
\* hold together in every reachable state.
THEOREM StartupInvariance == Spec => []IInv
<1>1. Init => IInv
  BY InitEstablishes
<1>2. IInv /\ [Next]_vars => IInv'
  <2> SUFFICES ASSUME IInv, [Next]_vars
               PROVE  IInv'
    OBVIOUS
  <2>1. TypeOK'
    <3>1. CASE UNCHANGED vars
      BY <3>1 DEF IInv, TypeOK
    <3>. QED BY <3>1, AcquireType, RemoveType, StartType, RunType, ReaderType DEF Next, Acquire
  <2>. QED BY <2>1, LockKeeps, RemovalKeeps, ForeignKeeps, CreationKeeps, AckedKeeps, SparedKeeps
           DEF IInv
<1>. QED BY <1>1, <1>2, PTL DEF Spec

\* acquireOwnership: never two owners, however many processes start, fail,
\* reset and crash.
THEOREM ExclusiveOwnership == Spec => []OneOwner
<1>1. IInv => OneOwner
  BY DEF IInv, LockInv
<1>. QED BY <1>1, StartupInvariance, PTL

\* classifyDatabaseForInspection: a sound foreign database is left alone by
\* every start.
THEOREM ForeignDatabaseSafe == Spec => []ForeignUntouched
<1>1. IInv => ForeignUntouched
  BY DEF IInv, ForeignInv, ForeignUntouched
<1>. QED BY <1>1, StartupInvariance, PTL

\* openCurrentSchema, createSchema: acknowledged rows survive every crash,
\* restart and failed start; only reset-db removes them.
THEOREM Durability == Spec => []AckedSurvive
<1>1. IInv => AckedSurvive
  BY DEF IInv, AckedInv, AckedSurvive, Current, Tabled, Versioned, Tagged, Usable
<1>. QED BY <1>1, StartupInvariance, PTL

\* createSchema: a collector runs on a complete and signed schema only.
THEOREM RunsOnCurrentSchema == Spec => []RunningIsCurrent
<1>1. IInv => RunningIsCurrent
  <2> SUFFICES ASSUME IInv, NEW p \in Collectors, pc[p] \in {"probe", "running"}
               PROVE  [Logical EXCEPT !.rows = {}] = Complete
    BY DEF RunningIsCurrent
  <2>1. Current
    BY DEF IInv, CreationInv
  <2>2. Logical \in Databases
    BY <2>1, LogicalIsDatabase DEF IInv, Current, Tabled, Versioned, Tagged, Usable
  <2>3. /\ Logical.kind = "db" /\ Logical.app = "logal" /\ Logical.version = 7
        /\ Logical.tables = "telemetry" /\ Logical.signed = TRUE /\ Logical.sound = TRUE
    BY <2>1, <2>2 DEF Current, Tabled, Versioned, Tagged, Usable, Databases
  <2>4. [Logical EXCEPT !.rows = {}] \in Databases /\ Complete \in Databases
    BY <2>2, BlankIsDatabase DEF Databases, Complete
  <2>5. /\ Complete.kind = "db" /\ Complete.app = "logal" /\ Complete.version = 7
        /\ Complete.tables = "telemetry" /\ Complete.signed = TRUE /\ Complete.sound = TRUE
        /\ Complete.rows = {}
    BY DEF Complete, Blank
  <2>6. /\ [Logical EXCEPT !.rows = {}].kind = "db" /\ [Logical EXCEPT !.rows = {}].app = "logal"
        /\ [Logical EXCEPT !.rows = {}].version = 7
        /\ [Logical EXCEPT !.rows = {}].tables = "telemetry"
        /\ [Logical EXCEPT !.rows = {}].signed = TRUE /\ [Logical EXCEPT !.rows = {}].sound = TRUE
        /\ [Logical EXCEPT !.rows = {}].rows = {}
    BY <2>2, <2>3 DEF Databases
  <2>7. ASSUME NEW d \in Databases, NEW e \in Databases,
               d.kind = e.kind, d.app = e.app, d.version = e.version, d.tables = e.tables,
               d.signed = e.signed, d.sound = e.sound, d.rows = e.rows
        PROVE  d = e
    BY <2>7 DEF Databases
  <2>. QED BY <2>4, <2>5, <2>6, <2>7
<1>. QED BY <1>1, StartupInvariance, PTL

\* removeDatabase: what was open before the scan is never unlinked.
THEOREM RemovalSparesReaders == Spec => []OpenFilesSpared
<1>1. IInv => OpenFilesSpared
  BY DEF IInv
<1>. QED BY <1>1, StartupInvariance, PTL
=============================================================================
