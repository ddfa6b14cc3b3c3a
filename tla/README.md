# Logal: a TLA+ development

Logal is an OpenTelemetry collector distribution that keeps logs, spans and
metric points in one SQLite file. This directory holds TLA+ models of the parts
of it that run concurrently or survive failures, the TLC configurations that
check them, and TLAPS proofs of their main safety properties. `PROJECT.json`
lists components, runs, mutants, the map from definitions to source lines, the
hazards the properties are aimed at, and the theorems.

## 1. Inventory

| Part | State | Operations | Interacts with |
|---|---|---|---|
| `internal/store` writer: `store.go`, `metrics.go`, `clear.go`, `mutex.go` | the `*sql.DB` handle (one connection), `contextMutex`, flags `closing`, `ready`, `lastError`, lifetime counters, the ownership lock | `Start`, `InsertLogs`, `InsertSpans`, `InsertMetricPoints`, `Clear`, `Snapshot`, `OperationalSnapshot`, `Shutdown` | exporters (insert), status (clear, snapshots), the collector (lifecycle) |
| `internal/store/maintenance.go` | one goroutine, its stop channel, context and `done` channel | `maintenanceLoop`, `Maintain`, `deletePressureBatch`, vacuum and checkpoints | the writer through the mutex; `ready` and `lastError` without it |
| `internal/store/ownership.go`, `schema.go` | the database, `-wal`, `-shm` and `.lock` files | `acquireOwnership`, `openCurrentSchema`, `createSchema`, `Reset` | other processes, earlier crashed runs |
| `internal/status/status.go` | `permits`, `inFlight`, `rejected`, `pipelineReady`, the activity goroutine, the HTTP server | `acquire`, `release`, `handleReady`, `handleStatus`, `handleClear`, `activityLoop`, `Ready`, `NotReady`, `Start`, `Shutdown` | receivers (middleware), the store, the collector |
| `internal/exporter` | none between requests | `ConsumeLogs`, `ConsumeTraces`, `ConsumeMetrics`, canonical form, redaction, limits | the store |
| `internal/query` | none | statements, filters, pagination, metric rates | a read-only connection |
| `cmd/logal`, `scripts` | none | CLI, reset, run and verify scripts | the status server, the ownership lock |

What is hard about it:

- *Interleavings.* Exports, clears, snapshots, maintenance and Shutdown share one
  connection behind a mutex that gives up when a context ends, and flags that are
  read and written without the mutex. Middleware, probes and the activity
  goroutine share atomics only.
- *Failure.* Any SQL statement can fail: because a context ended, or because the
  disk is full or the file broken, which the store must remember until a later
  maintenance pass has verified recovery.
- *Order.* Publication of a pass against a writer's failure; closing the handle
  against releasing the ownership lock; the permit against the end of a context.
- *Bounds.* Rounds of 5000 rows, 200 pressure iterations, five seconds per pass,
  capacity reserves, `MaxInFlight`.
- *Restarts.* Files left by a process that died between two file operations.

Correctness, part by part: the writer never uses a closed handle, stores a batch
whole or not at all, acknowledges only what it stored, and counts exactly what it
committed and deleted; maintenance neither masks a failure nor keeps a healthy
store unready; Shutdown returns and is final; admission respects its limit and
leaks nothing; probes and activity lines do not lie; ownership is exclusive and
startup destroys nothing that is not Logal's.

## 2. Modules

| Module | Models |
|---|---|
| `Telemetry` | the abstract store: exports and clears take effect in one step or not at all |
| `Store` | the store extension inside one process: writer, maintenance, lifecycle |
| `StoreInvariant`, `StoreProofs` | the inductive invariant of `Store` as a conjunction of named parts, its step bounds, and its proofs |
| `Capacity` | database, free list, WAL and volume: admission reserve and pressure loop |
| `CapacityProofs` | TLAPS proofs about `Capacity` |
| `Startup` | lock file, descriptor scan, inspection, reset and creation of the database, with crashes |
| `StartupProofs` | TLAPS proofs about `Startup` |
| `Admission` | middleware, `/readyz`, the status server and the host's lifecycle calls |
| `Activity` | the activity goroutine, as an extension of `Admission` |
| `AdmissionProofs` | TLAPS proofs about `Admission` and about `Activity` |
| `Exporter` | `Consume*` between retrying OTLP clients and an instance of `Telemetry` |
| `ExporterProofs` | TLAPS proofs about `Exporter` |
| `Payload` | validation, redaction, canonical JSON, fingerprint, tagged body |
| `ClearRequest` | `logal clear`, `/clear` and an instance of `Telemetry` |
| `ClearRequestProofs` | TLAPS proofs about `ClearRequest` |
| `Paging` | pages and budgets of `query.Read` over a table that changes |
| `PagingProofs` | TLAPS proofs about `Paging` |
| `MetricRates` | time windows, and `logal metrics rate` against what was really counted |
| `MetricRatesProofs` | TLAPS proofs about `MetricRates` |
| `MC*` | constants and symmetry sets for TLC |

`Telemetry` is the joint: `Store` refines it (`ImplementsTelemetry`, proved as
`Refinement`), and `Exporter` and `ClearRequest` are built on an instance of it, so
what they show rests on what `Store` was shown to promise.

### Store

Each goroutine has a program counter `pc[t]`; a step is what it does between two
points at which another goroutine, an ended context or a failing statement can
make a difference. `holder` is the content of `contextMutex.permit`. The labels
in `Inside` lie between a successful `LockContext` and `Unlock`.

- *The mutex.* `LockAbort` is the `ctx.Done()` branch of `LockContext`,
  `RecheckAbort` its second look at the context after the send went through.
  `Lock`, used by Shutdown, has neither.
- *Inserts.* `InsertCheck` is the look at `ready` before the mutex, `Admit` is
  `admissionErrorLocked`, `InsertRecord` one iteration of the record loop,
  `InsertCommit` the commit and the counter. The three calls differ in the
  uniqueness constraint only: logs and metric points are keyed by fingerprint,
  spans by trace and span id with a comparison of fingerprints, so a record is a
  fingerprint and `SpanKey` gives a span's identity. `TxFails` is a failure
  anywhere in the transaction; either `recordWriteError` takes it for a storage
  failure or it does not (ended contexts, invalid records, `SQLITE_BUSY`).
- *Clear and Snapshot.* `ClearCheck`, then one step per table, then the commit.
  A refusal stands for a closed store or a path that names another database.
- *Maintenance.* `Retain` is one DELETE round on one table, committed by itself;
  `Pressure` and `Evict` are the two halves of an iteration of the pressure loop
  around the truncating checkpoint. `MaintainFails` ends the pass at any of its
  statements. `Publish` and `Raise` are the deferred publication: the second
  store of `ready` is a step of its own, since nothing protects it from a
  Shutdown that runs in between. A failure is recorded in two stores as well,
  `RecordError` (`lastError`) and `LowerReady` (`ready`): probes read both without
  the mutex, so between the two they may see a ready store with an error, and
  `HealthAgrees` says that this is the only such moment.
- *Shutdown.* One step per write before the wait; `StopMaintenance` is the
  `once.Do`; `ShutdownClose` and `ShutdownRelease` under the mutex. A host may call it
  again after it has returned.
- *Environment.* Rows expire (`Age`) only between passes, because a pass fixes
  its cutoff when its tick arrives. `disk` is the verdict of `diskState`: `room`,
  `high` (above the high-water mark: maintenance evicts) or `full` (admission
  refuses as well).

`unverified` is a history variable: a writer has recorded a storage failure and
no maintenance pass has begun since.

### Admission and Activity

Every atomic load, store and add and every channel operation is a step.
`OperationalSnapshot` is therefore not one: `Look` reads the ready flag, the WAL's
length, the free space and the closing flag at moments of their own, and
`trouble` is the set of those that are bad. The sum of the file sizes is added up
over several stats, between which a checkpoint can move pages from file to file, so
its verdict may come out either way. An export goes `check`, the four looks,
`permit`, `count`, `serve`, `drain`, `uncount`, or from any look to `reject`; only
its time in `serve` belongs to the receiver and the pipeline behind it. The
history variable `refusals[t]` collects the reasons to refuse that have held in
every state since the request or the probe began. The host calls Start, Ready,
NotReady and Shutdown in this order; receivers run only if Start succeeded.
`Activity` reads its sample field by field in the order of `activityState`; the
six store counters are one, `writes`, and the clock is left open: a line may be
written at any tick (idle heartbeat), and must be if a field changed. `base` is what
the sample before the loop had counted already: lines begin after it.

### Capacity

The unit is a page, and a row fills one. `file`, `freelist`, `wal`, `frames` and
`backfilled` are what SQLite keeps; how a commit, a checkpoint and a vacuum change
them is external and modelled from SQLite's documented WAL behaviour: a snapshot
(`pin`) keeps later frames out of the main file and a log from starting again.
`Export` is an insert behind `admissionErrorLocked`. The steps of `Maintain` are
those of the code: `Retain`, `IncrementalVacuum`, `Passive`, then per iteration
`Look` (first `diskState`), `Truncate`, `Weigh` (second `diskState`), `Evict` or
`NothingToEvict`, `IncrementalVacuum`. A return only fixes the result (`succeed`,
`fail`); `Publish` is the deferred store of `ready`. Readers and other programs on the
volume come in between at any point; `Timeout` ends a pass, before it has a result,
only while the machine is `slow`. `MaxGrow` and `MaxFrames` may exceed `Reserve`: the
code bounds a request's payloads, not the pages and frames they become.

### Startup

The files are `main`, `wal` and `shm`; a database is its application id, version,
tables, signature, soundness and rows, and a connection sees the WAL over the main
file (`Logical`). The lock is an inode: `fd[p]` is the inode process `p` opened,
`flocked` who holds a lock on its own. A collector goes `check`, `flock`, `scan`,
`open` (inspection), possibly `rescan` and the three removals, `create`, `ping`,
`attach`, `tag`, `version`, `tables`, `sign`, `probe`, `running`; a resetter goes
from `scan` to the removals. `Crash` is possible everywhere and `StartFails`
wherever the code returns an error. `Init` ranges over nothing, an empty file,
bytes that are no database, old, unsigned and damaged databases of Logal, untagged
ones with Logal's tables, foreign ones with their content in the file or in the
WAL only, and links. `before`, `acked`, `late`, `refused` and `wiped` are history.

### Exporter and Payload

In `Exporter` a request is a sequence of parts in the order of the loops: contexts
(resource, scope), metric descriptors, which are validated like them and counted,
and records, before which the context is looked at. A handler runs on after its client has given up; the client
may send the request again to a second handler. The codes matter: `InvalidArgument`
is final for a client, everything else is retried.

`Payload` follows one record through the pure functions. Values are trees;
attribute keys are sequences of words and separators, which is what
`isSensitiveKey` can tell apart. The JSON of the pdata marshalers is external; what
`canonicalize` sorts is decided by field names in it, so it is kept as a tree of
objects and arrays. A fingerprint is the canonical payload itself (no collisions).

### ClearRequest

`Clear` is the command with its usage checks, `Foreign` any other program with at
most `MaxWrong` defects in its request, `Handle` the checks of `handleClear` in
their order, `Decide` the store's transaction, `Respond` the status code. `Lose` is
the client's deadline: the outcome is then unknown, and the handler goes on.

### Paging and MetricRates

`Paging`: `ReadPage` is one run of the command: one snapshot, the loop with its row
and byte limits (`Taken` is the number of rows it appends), `next_offset`. Between
pages rows are inserted in front, and those received first are removed. `received` is
the receipt time, stamped by the exporter before it waits for the writer, so it need
not grow with the id by which pages are ordered; `gone` is history. Byte counts are real
ones: 52 bytes of empty result, 128 in reserve, quoted names and commas; `Encoded`,
the reference, is the length of the JSON that is printed.

`MetricRates`: `total` is what the instruments counted; SDKs export it with delta
or cumulative temporality, restart, and fail in the ways OTLP allows (no start
time, no recorded value, no finite value, an interval exported twice because the
answer was lost). The operators below `Selected` are the SQL of `metricRates`.
Points of each window are rated and compared with `total`. A point is stamped when
it enters `ConsumeMetrics` and commits later, in any order, so windows by receipt and
by event time select different points. `kind`, chosen at the start, is the set of
streams with their temporality.

## 3. Runs

Bounds are named constants with a comment in the module that declares them.

| Run | Instance | Checks |
|---|---|---|
| `store_safety` | two exporters, a clearer, maintenance, repeated Shutdowns; two contents of one span and a log that is stored already; two calls, one fault; rounds of two rows, two pressure iterations | `NoUseAfterClose`, `ShutdownIsFinal`, `CountersMatchRows`, `AckMeansStored`, `FaultNotMasked`, `ImplementsTelemetry` |
| `store_liveness` | one call (export, clear or snapshot), maintenance, repeated Shutdowns, two faults (failure, timeout or disk), with fairness | `IInv` (with `TypeOK`, `OwnedWhileOpen` and `HealthAgrees` among its parts), `EveryCallReturns`, `ShutdownReturns`, `Recovers` |
| `capacity` | requests of up to two pages and two frames over a reserve of one, a pinned reader, a volume of five pages of which other programs may take four, with fairness | `FileBounded`, `EvictsOnlyForRoom`, `RoomReturns` |
| `startup` | two collectors, a reset and a program that opens the files, two starts each | `OneOwner`, `ForeignUntouched`, `AckedSurvive`, `OpenFilesSpared`, `RunningIsCurrent` |
| `startup_leftovers` | one collector, two starts | `OwnLeftoversRecovered` (violated) |
| `admission` | two exports over a limit of one, a probe, a store with and without a long WAL or a full volume, one change of its flag, WAL or free space, its end, with fairness | `AtMostMaxInFlight`, `NothingLeaks`, `ProbeIsHonest`, `ExportsAreWelcome`, `EveryExportReturns` |
| `activity` | one export goroutine, two arrivals, a store whose readiness every sample may see differently, with fairness | `NothingReportedTwice`, `RejectionsReported`, `ReporterStops` |
| `exporter` | logs with an invalid last record, metrics with one byte and with one descriptor too many, two requests with two contents of one span, one of them at the limits; two handlers, one fault, with fairness | `VerdictIsTrue`, `OnlyWholeRequests`, `EverySettled` |
| `payload` | single records of every place, keys plain, sensitive and oversized, values up to four levels deep over a limit of two; pairs of records that differ in order, nesting, a repeated key or a secret | `LimitsExact`, `SecretsCut`, `OneRowPerRecord` |
| `clear_request` | two requests with at most one defect, two exports, two readiness changes | `ClearedMeansGone`, `RefusedMeansKept`, `OnlyConfirmed` |
| `paging` | four rows and one more of two lengths on either side of the boundaries of 1024 bytes, limits of two and three rows, without and with `--include-empty`; received in the order of the ids, and with one row overtaken; the offset limit is reached; the caller goes on | `PageFits`, `PagesShowTheTable`, `PagingEnds` |
| `metric_rates` | a delta and a cumulative counter with three points each, two cumulative ones with two, three times | `RatesAreTrue`, `IntervalsDisjoint` |

All but `startup_leftovers` pass. Why the bounds are enough: in the store the
interesting cases are races of two callers, a pass and a Shutdown; a conflict needs
two contents of one span; a clear that fails between two tables needs rows in two;
partial rounds occur with rounds of two rows and full ones in `store_liveness` with
rounds of one; the pressure loop reaches its limit with two iterations; a failure that is masked
needs one failure and one pass, and a pass that times out after a failure two
faults; a Shutdown that meets a closed channel, a nil handle and a released lock needs
one goroutine that calls it again, and concurrent ones are left to the theorems, which
hold for any number of them. In
`Capacity` a request larger than the reserve, a log that starts again, and a
checkpoint with part of the log pinned all occur. In `Startup` an owner, a rival and
a third process that comes later need three processes; a crash, a recovery and a
second crash need two starts. A retry that overtakes its first attempt needs two
handlers. A page that shifts needs rows on three pages. A rate looks at two points, a
wrong baseline at three, a wrong partition at two streams. The theorems of section 4
remove the bounds for the safety properties they state.

Deadlock is checked in the store, admission, activity and capacity runs, which never
stop; the others end when their calls, rows or points are used up. In `store_safety`
it says that callers, maintenance and Shutdown never all wait for one another.

Symmetry is used for exporters, the two contents of the span in `store_safety`,
collectors and clear calls, which the specifications treat alike, and only in runs
without liveness properties.

What the runs show besides that:

- `Recovers` needs the disk to stay in `room` and the store to stay open, and
  then every failure is forgotten by a later pass.
- A Shutdown can meet a `ready` that Maintain raises again (`Raise` after
  `ShutdownUnready`); this is harmless because admission also looks at `closing`
  and the handle, which the mutant `AdmissibleIfReady` shows to be necessary.
- `FileBounded` is as tight as the code: the limit is checked before a request, so
  one request's growth beyond `requestReserve` is the only excess.
- `RoomReturns` holds only because a WAL above `walNotReady` is a reason to
  truncate by itself; the mutant `RelievedMainOnly` blocks admission for ever.
- `PagesShowTheTable` says how far offsets are from cursors. Insertions move rows back,
  so a caller may see a row twice. Expiry takes the rows received first; while that is
  the order of the ids it only takes rows from the end and nothing that stays is
  skipped. A row that was received before another and committed after it stands in
  front of it in the pages and expires first, which moves the other one up, possibly
  past the offset: that is the only way in which a row that stays is missed.
- `ProbeIsHonest` and `ExportsAreWelcome` are about each reason to refuse by itself. A
  snapshot of several looks does not exclude more: while the volume is full, a pass
  fails and lowers the flag, and then the volume is freed, a probe that saw the flag
  before and the volume after answers ok although something was wrong at every moment.
- Rejections from before the activity goroutine's first sample are in no line
  (`status.go:214`): `RejectionsReported` begins with that sample. The total is in
  `/status` all the same.

### What the code and its documentation disagree about

`startup_leftovers`: a first start that dies after SQLite created `-wal` and `-shm`
and before `application_id` is committed leaves an untagged database without tables
next to a sidecar. `classifyDatabaseForInspection` takes it for a foreign one, and
every later start is refused, although the README of the repository refuses
untagged databases "with unrelated tables" only. A later crash is recovered: the
application id is then in the WAL, which is inspected.

### Fairness

`FairSpec` of `Store`: weak fairness for the steps of each goroutine, because a
runnable goroutine is scheduled, and strong fairness for `Acquire`, because
blocked senders of a Go channel are served first in, first out. There is none for
clients, ended contexts, failures, expiry or the disk. `Admission` and `Activity`:
weak fairness for requests, probes, the host's own sequence and the ticker, and
for the host's NotReady after the status server has failed, since it was sent a
fatal event; strong fairness for `Leave`, because the ticker is silent most of
the time and `select` is random when both cases are ready. `Capacity`: weak fairness
for the maintenance goroutine only; `RoomReturns` assumes in its premise that
readers end, other programs leave room and passes finish in time. `Exporter`: weak
fairness for handlers, the store and the host that opens it, strong fairness for a
client's retry, as OTLP exporters repeat what is not permanent; the number of
refusals and lost answers is bounded by `MaxFaults`. `Paging`: the caller asks for the next
page.

### Mutants

Every property of every run is broken by at least one mutant of the model, listed
in `PROJECT.json`: a guard dropped in `Admissible`, the ownership lock released
before the handle, duplicates counted, fingerprints not compared, publication
after the mutex is released, a permit kept by a cancelled waiter, and so on. A
mutant stands in front of the definition that it mutates and is otherwise unused.

## 4. Proofs

Eight modules hold theorems: `StoreProofs`, `CapacityProofs`, `StartupProofs`,
`AdmissionProofs`, `ExporterProofs`, `ClearRequestProofs`, `PagingProofs` and
`MetricRatesProofs`; `tlapm` on each of them checks everything. Between them they
state every safety property of the runs except those of `Payload`, without the
bounds of the runs. Few of the properties are inductive by themselves, so each module proves
`Spec => []IInv` (`Inv` in `Capacity`) for a stronger invariant, one lemma per
action, and the properties follow. A second group of theorems proves, for each liveness
property of a goroutine that could hang, the part of it that is safety: a bound on the
steps left that only falls.

| Theorem | States |
|---|---|
| `StoreProofs`: `Invariance`, `TypeCorrect`, `HandleSafety`, `ShutdownFinality`, `CountersAreExact`, `AcknowledgedIsStored`, `HealthIsHonest` | `IInv`, `TypeOK`, `NoUseAfterClose` and `OwnedWhileOpen`, `ShutdownIsFinal`, `CountersMatchRows`, `AckMeansStored`, `FaultNotMasked` and `HealthAgrees` |
| `StoreProofs`: `Refinement` | `ImplementsTelemetry` |
| `StoreProofs`: `ContentIsNeverReplaced` | one content per identity, and no step replaces a stored one |
| `StoreProofs`: `ShutdownCannotDeadlock`, `AtMostOneMorePass`, `MutexIsReturned` | `NoCircularWait`; the maintenance goroutine winds down once it is told to stop; whoever holds the mutex comes nearer to Unlock |
| `CapacityProofs`: `TypeCorrect`, `FileStaysBounded`, `EvictionIsForRoom` | `TypeOK`, `FileBounded`, `EvictsOnlyForRoom` |
| `CapacityProofs`: `PassEnds`, `RecoveryAdmits` | a pass has at most `Live + 6 * MaxPressure + 8` steps; the look that decides for recovery finds room for an export, which only another program can take away before `ready` is stored |
| `StartupProofs`: `StartupInvariance`, `ExclusiveOwnership`, `ForeignDatabaseSafe`, `Durability`, `RunsOnCurrentSchema`, `RemovalSparesReaders` | `IInv`, `OneOwner`, `ForeignUntouched`, `AckedSurvive`, `RunningIsCurrent`, `OpenFilesSpared` |
| `AdmissionProofs`: `AdmissionInvariance`, `AdmissionLimit`, `ReleaseNeverBlocks`, `ProbeHonesty`, `AdmittedIsWelcome` | `NothingLeaks`, `AtMostMaxInFlight`, that `<-permits` finds a permit, `ProbeIsHonest`, `ExportsAreWelcome` |
| `AdmissionProofs`: `ExportsMoveOn`, `NotReadyIsFinal` | an export only moves towards its exit; after NotReady the flag stays down and nobody passes the check |
| `AdmissionProofs`: `ReporterOnlyReads`, `LinesNeverExceed` | `Activity` implements `Admission`; `NothingReportedTwice` |
| `ExporterProofs`: `TrueVerdicts`, `WholeRequests` | `VerdictIsTrue`, `OnlyWholeRequests` |
| `ExporterProofs`: `CallsEnd` | a call has at most as many steps as parts, and five more |
| `ClearRequestProofs`: `SuccessMeansGone`, `ErrorMeansKept`, `DeletionIsConfirmed` | `ClearedMeansGone`, `RefusedMeansKept`, `OnlyConfirmed` |
| `PagingProofs`: `PagesFit`, `PagesAreTheTable` | `PageFits`, `PagesShowTheTable` |
| `PagingProofs`: `TruncatedPagesAdvance` | a page that names a next one has moved the offset |
| `MetricRatesProofs`: `TrueRates`, `DisjointRates` | `RatesAreTrue`, `IntervalsDisjoint` |

*Store.* From the named assumptions of `Store` only: disjoint sets of goroutines,
finite tables, natural bounds, a `Null` that is no request, and a database that
obeys the schema's unique constraint on spans when Start opens it. `IInv` consists of

- `LockInv`: exactly the goroutine inside the mutex holds the permit, so that at
  most one transaction is open and Shutdown closes the handle while nobody is
  inside (`NoUseAfterClose`);
- `InsertTxInv` and `ClearTxInv`: what an open transaction has done and counted
  so far, which makes the counters exact at the commit (`CountersMatchRows`);
  `IdleTxInv`: outside transactions the connection sees the committed rows;
- `AnswerInv`: success is answered only between commit and Unlock, during which
  nobody else can delete the rows (`AckMeansStored`);
- `StartInv` and `CloseInv`: what each point of Shutdown has achieved
  (`ShutdownIsFinal`);
- `PassInv`: while a pass holds the mutex no writer can record a failure
  (`FaultNotMasked`), ready and `lastError` agree but between the two stores of the
  goroutine that holds it (`HealthAgrees`), and iterations are left when it evicts.

*The refinement.* Under the mapping `up <- db`, `req <- Wanted`, `ans <- Told` the
commit of an insert implements `Telemetry!Store`, that of a clear
`Telemetry!ClearAll`, a committed retention or pressure round
`Telemetry!Discard`; everything else in a transaction is a stutter, and a rolled back one never
shows. Besides `IInv` this needs `TelemetryInv`: a caller has an answer exactly
between its decision and its return (`CallInv`), and an open insert's view is the
committed tables plus the records it has visited, none of which contradicts
another (`BatchInv`), so that the record loop as a whole does what the abstract
step says of the batch.

*Who holds the mutex gives it back.* `StepsLeft(t)` counts, at each label inside the
mutex, the records and tables still to visit, the expired rows (a full round of
`Retain` starts another, so a row is worth several steps) and the iterations left.
`HolderAdvances` says that a step of the holder lowers it and that a step of anybody
else leaves it, the tables and the open transaction alone; rows do not expire
meanwhile, because a pass fixes its cutoff when it begins. Blocking for ever is thus left to
circular waits, and `NoCircularWait` excludes the only candidate, Shutdown waiting
for `done`: `StopInv` adds that a Shutdown is past its `once.Do` only if the channel
is closed. `ContentIsNeverReplaced` rests on `BatchInv`: what an open insert has
visited contradicts neither itself nor the tables, which nobody else changes before
the commit.

*Capacity.* From `SizesAssumption` (natural limits, `Reserve < HardLimit`, a positive
`WalNotReady` and delete batch) only.
`FileBounded` is not inductive: a checkpoint sets `file` to a size that depends on
the WAL. `Inv` adds `WalCovers` (pages not yet in the file are paid for by frames,
and once every frame is copied the file is exact), `SizesBounded` (the logical size
has the same bound, which is what a checkpoint makes of the file) and `LoopKnows`
(what the pressure loop has established at each label: no WAL is left when rows are
weighed). An export is the only step that grows the logical size, and admission saw
file and WAL together. For `PassEnds` the labels of an iteration are ordered and the
iterations left weigh six each; what readers and other programs do between two steps
changes sizes, never the position of the pass. `RecoveryAdmits` compares two
conditions of the code, the one under which Maintain leaves its loop without an error
and the one under which `admissionErrorLocked` refuses. They could disagree at the
second exit of the loop, which does not look at the WAL: `LoopKnows` has it empty there.
Between the look and the deferred store the mutex keeps exports away and the files at
their sizes; the free space of the volume is not the store's, and the theorem says that
another program taking it is the only thing that can come between.

*Startup.* From `ProcessAssumption` (no process is a collector and a reset) only, for
any number of processes, readers, rows and starts. `LockInv` says that whoever is
past `check` has the inode open that the path names, which is why one lock means
one owner; a lock file that is unlinked and made again would break it.
`ForeignInv` keeps every collector on a foreign database before its inspection or
on the way out; `CreationInv` says what each step of a start has made of the files,
seen through the WAL; `AckedInv` keeps a database that holds acknowledged rows
complete, and therefore away from the path that removes files. `Crash` is harmless
to each of them because they speak of files and labels, and a crash changes labels
only.

*Admission.* `TypeOK /\ NothingLeaks` is inductive: each step moves one request
into or out of the permitted and the counted. `HistoryInv` is what `ProbeIsHonest` and
`ExportsAreWelcome` need: every label has ruled out the reasons that were looked at
before it, look by look (`LookRulesOut`), and a history only ever loses reasons while it runs. Its first conjunct, the
flag is up only while the host is at `ready`, gives `NotReadyIsFinal`: a status server
that fails and a host that stops may come in any order. `ExportsMoveOn` and
`ReleaseNeverBlocks` together leave no place where an export could stay for ever.

*Activity.* `ReportingSpec => Spec`: reading samples and writing lines is a stutter of
the middleware, so the theorems above hold beside the reporter. `SampleInv` orders
what was accounted for, the sample of the last line, the one that is being read and
the counters, from `base` on; a sample that is read while the counters move is late, never early.

*Exporter.* From `ExporterAssumption`: requests are sequences of parts, contexts
carry no bytes, limits are natural numbers. `Walked` relates the running sum, the
batch and the position of a handler to the parts before it; when the walk ends they
are the whole request, so what reaches `Insert` is acceptable. `HandlerInv` and
`ClientInv` carry a verdict from the store to the client; it stays true because
`ever` only grows and a conflict with part of it is a conflict with more of it.

*ClearRequest.* From the assumptions that the exporter is no caller, that
the number of records is a natural number and that `Null` is no request. Records
are numbered as they are exported, so `ExportInv`, the record in flight is newer than
everything a request found, gives `ClearedMeansGone`; `RequestInv` follows `effect`
from the store to the status code and to what the caller is told.

*Paging.* From `PagingAssumption`: finitely many columns and the limits that
`Read` and the command line enforce (at most 10000 rows, 1 KiB to 16 MiB, offsets up
to 1000000). The argument is by rank: the number of rows above a row is its place in
the snapshot; insertions raise it, expiry of rows with smaller ids leaves it alone, and
expiry of a row above it means, by the order of receipt, that the row was overtaken; so
a row below the offset has been seen or overtaken. `PageFits` compares the running estimate with
the reference `Encoded` term by term; 128 bytes in reserve cover the rest because
`next_offset` and `row_count` have few digits.

*MetricRates.* From `RateAssumption`: finitely many streams of the known
temporalities, a finite clock. `PointInv` says that a point with a value and a
start is what was counted in between, which counting on does not change. The query
orders points by time and LAG returns the last one before; the rest is arithmetic
on the totals at three times.

*Induction.* The provers cannot instantiate induction theorems, which take an
operator. Where a proof needs induction over numbers (the running sum of
`Exporter`, byte counts and ranks of `Paging`, the last point before another in
`MetricRates`) it is by least counterexample: the set of numbers without the property
is written down, and `WFMin` or a lemma of descent shows that it is empty.

Only model-checked:

- Liveness, because fairness and ENABLED are outside the prover's reach. For
  `EveryCallReturns` and `ShutdownReturns` (`MutexIsReturned`, `AtMostOneMorePass`,
  `ShutdownCannotDeadlock`), `RoomReturns` (`PassEnds`, `RecoveryAdmits`),
  `EveryExportReturns` (`ExportsMoveOn`, `ReleaseNeverBlocks`), `EverySettled`
  (`CallsEnd`) and `PagingEnds` (`TruncatedPagesAdvance`) the
  theorems in parentheses are the part that is safety; that enabled steps are taken,
  and that repeated attempts succeed in the end, is TLC's. `Recovers`,
  `RejectionsReported` and `ReporterStops` are TLC's alone.
- `LimitsExact`, `SecretsCut` and `OneRowPerRecord` of `Payload`: its operators recurse
  over trees of any depth, for which the provers have no induction.
- `OwnLeftoversRecovered`, which is violated.

## 5. Not modelled, and the plan

Not modelled, and why:

- SQL text, typed attribute filters, the trace timeline and the services, list and
  series aggregates: one declarative statement each, without state or control of
  Logal's own; the tests compare them with expected rows.
- `singleStatement`'s character scanner and the authorizer: the meaning is that of
  SQLite's grammar, which is not in the repository.
- `presentation.go`, flags and help texts, logging fields: formatting.
- The collector's receivers and service: they appear as the environment that calls
  Logal.
- Scripts and configuration: shell glue without state.

Planned:

1. The lifecycle composition: collector, status, receivers and store together, with
   the status server that dies before the host calls Ready.
2. Proofs along it: that the composition implements `Admission` and `Store`, as
   `ReporterOnlyReads` shows for the activity reporter.
