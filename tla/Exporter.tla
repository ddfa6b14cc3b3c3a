------------------------------- MODULE Exporter -------------------------------
(***************************************************************************)
(* The logal_sqlite exporter between OTLP clients that retry and the store *)
(* as Telemetry.tla promises it.  ConsumeLogs, ConsumeTraces and           *)
(* ConsumeMetrics walk a request part by part under a context that may end *)
(* at any time, then insert what they collected with one call.             *)
(***************************************************************************)
EXTENDS Integers, Sequences, FiniteSets

CONSTANTS
  Requests,  \* what the clients want stored
  Signal,    \* Signal[r]: "logs", "spans" or "metrics"
  Parts,     \* Parts[r]: the request in the order the handler walks it
  SpanKey,   \* SpanKey[row]: the (trace_id, span_id) of a span's content
  Calls,     \* handler goroutines
  MaxCount,  \* 10000 logs, 5000 spans, 10000 points in the code
  MaxDescriptors, \* maxMetricDescriptors
  MaxBytes,  \* maxPersistedRequestBytes
  Null,
  MaxFaults  \* bound: refusals, timeouts and removals of rows

Signals == {"logs", "spans", "metrics"}

\* A "context" part is a resource or a scope, a "descriptor" part a metric, whose
\* points follow it; a "record" part becomes a row, its redacted and canonical
\* payload.  Only the payloads of records count as bytes.
Part == [kind : {"context", "descriptor", "record"}, valid : BOOLEAN, bytes : Nat, row : STRING]

ASSUME ExporterAssumption ==
  /\ Signal \in [Requests -> Signals]
  /\ \A r \in Requests :
       /\ Parts[r] \in Seq(Part)
       /\ \A i \in DOMAIN Parts[r] : Parts[r][i].kind # "record" => Parts[r][i].bytes = 0
       /\ Signal[r] # "metrics" => \A i \in DOMAIN Parts[r] : Parts[r][i].kind # "descriptor"
  /\ MaxCount \in Nat /\ MaxDescriptors \in Nat /\ MaxBytes \in Nat /\ MaxFaults \in Nat
  /\ Calls \cap {"idle", "acked", "rejected"} = {}

\* The metrics and the records among the parts, and the rows the records become.
Descriptors(r) == {i \in DOMAIN Parts[r] : Parts[r][i].kind = "descriptor"}
Recs(r) == {i \in DOMAIN Parts[r] : Parts[r][i].kind = "record"}
Rows(r) == {Parts[r][i].row : i \in Recs(r)}

VARIABLES
  client, \* client[r]: "idle", the call it waits for, "acked" or "rejected"
  call,   \* call[h]: the state of a handler
  faults,
  ever,   \* ever[s]: every row that was ever committed
  up, rows, req, ans \* the store

store == <<up, rows, req, ans>>
vars == <<client, call, faults, ever, store>>

T == INSTANCE Telemetry WITH
  Clients <- Calls, Clearers <- {},
  Records <- [s \in Signals |-> UNION {Rows(r) : r \in {q \in Requests : Signal[q] = s}}],
  InitialRows <- [s \in Signals |-> {}]

Off == [at |-> "off", r |-> Null, i |-> 0, bytes |-> 0, batch |-> {}, live |-> TRUE,
        code |-> Null]

Init ==
  /\ client = [r \in Requests |-> "idle"]
  /\ call = [h \in Calls |-> Off]
  /\ faults = 0
  /\ ever = [s \in Signals |-> {}]
  /\ T!Init

-----------------------------------------------------------------------------
(* Clients and the receiver in front of the exporter.                      *)

\* A client sends a request, the first time or again.
Send(r, h) ==
  /\ client[r] = "idle" /\ call[h].at = "off"
  /\ client' = [client EXCEPT ![r] = h]
  /\ call' = [call EXCEPT ![h] = [Off EXCEPT !.at = "count", !.r = r]]
  /\ UNCHANGED <<faults, ever, store>>

\* The client gives up waiting; the handler runs on with an ended context.
GiveUp(r) ==
  /\ client[r] \in Calls /\ faults < MaxFaults
  /\ call' = [call EXCEPT ![client[r]].live = FALSE]
  /\ client' = [client EXCEPT ![r] = "idle"]
  /\ faults' = faults + 1
  /\ UNCHANGED <<ever, store>>

\* The status reaches the client, if it still waits.  InvalidArgument is
\* permanent, every other failure is retried.
Receive(h) ==
  /\ call[h].at = "answer"
  /\ client' = [r \in Requests |->
       IF client[r] # h THEN client[r]
       ELSE CASE call[h].code = "OK" -> "acked"
              [] call[h].code = "InvalidArgument" -> "rejected"
              [] OTHER -> "idle"]
  /\ call' = [call EXCEPT ![h] = Off]
  /\ UNCHANGED <<faults, ever, store>>

-----------------------------------------------------------------------------
(* Consume*.                                                               *)

Answer(h, code) ==
  call' = [call EXCEPT ![h] = [@ EXCEPT !.at = "answer", !.code = code]]

\* Mutant of TooMany: metrics without points are not limited.
TooManyRecords(r) == Cardinality(Recs(r)) > MaxCount

\* The limits on the numbers of metrics and of records.
TooMany(r) == Cardinality(Descriptors(r)) > MaxDescriptors \/ Cardinality(Recs(r)) > MaxCount

\* The request is counted before anything of it is read.
CheckCount(h) ==
  /\ call[h].at = "count"
  /\ IF TooMany(call[h].r) THEN Answer(h, "InvalidArgument")
     ELSE call' = [call EXCEPT ![h] = [@ EXCEPT !.at = "walk", !.i = 1]]
  /\ UNCHANGED <<client, faults, ever, store>>

\* status.FromContextError or Unavailable: never a permanent code.
ContextError == "Canceled"

\* Mutant of Fits: the budget is not enforced.
FitsAlways(n) == TRUE

\* persistedBytes stays within maxPersistedRequestBytes.
Fits(n) == n <= MaxBytes

\* Mutant of Broken: only the budget makes a request invalid.
TooLarge(p, bytes) == ~Fits(bytes + p.bytes)

\* A part that makes the whole request InvalidArgument.
Broken(p, bytes) == ~p.valid \/ ~Fits(bytes + p.bytes)

\* One part: validate a context; or check ctx, validate, marshal, redact and
\* count the bytes of a record, and append it to the batch.
Walk(h) ==
  /\ call[h].at = "walk"
  /\ call[h].i <= Len(Parts[call[h].r])
  /\ LET p == Parts[call[h].r][call[h].i]
         ended == p.kind = "record" /\ ~call[h].live
     IN  \/ ended /\ Answer(h, ContextError)
         \/ ~ended /\ Broken(p, call[h].bytes) /\ Answer(h, "InvalidArgument")
         \/ /\ ~ended /\ ~Broken(p, call[h].bytes)
            /\ call' = [call EXCEPT ![h].i = @ + 1, ![h].bytes = @ + p.bytes,
                 ![h].batch = @ \cup IF p.kind = "record" THEN {p.row} ELSE {}]
  /\ UNCHANGED <<client, faults, ever, store>>

\* InsertLogs, InsertSpans or InsertMetricPoints with the whole batch.
Insert(h) ==
  /\ call[h].at = "walk"
  /\ call[h].i > Len(Parts[call[h].r])
  /\ T!Request(h)
  /\ req'[h] = [sig |-> Signal[call[h].r], batch |-> call[h].batch]
  /\ call' = [call EXCEPT ![h].at = "insert"]
  /\ UNCHANGED <<client, faults, ever>>

\* Mutant of ExportError: every failure of the store is permanent.
AlwaysInvalid(h) == {"InvalidArgument"}

\* Mutant of ExportError: a span conflict looks temporary.
ConflictUnavailable(h) == IF ans[h] = "ok" THEN {"OK"} ELSE {"Unavailable"}

\* exportError and the test for ErrSpanConflict before it.
ExportError(h) ==
  CASE ans[h] = "ok" -> {"OK"}
    [] ans[h] = "conflict" -> {"InvalidArgument"}
    [] OTHER -> IF call[h].live THEN {"Unavailable"} ELSE {"Unavailable", ContextError}

\* The handler returns what the store answered.
Finish(h) ==
  /\ call[h].at = "insert"
  /\ T!Reply(h)
  /\ \E code \in ExportError(h) : Answer(h, code)
  /\ UNCHANGED <<client, faults, ever>>

-----------------------------------------------------------------------------
(* The store.                                                              *)

\* The store decides an insert that it can serve.
Serve(h) ==
  /\ T!Store(h) \/ T!Contradict(h)
  /\ ever' = [s \in Signals |-> ever[s] \cup rows'[s]]
  /\ UNCHANGED <<client, call, faults>>

\* It is closed, full, failing, or gives up with the context.
Refuse(h) ==
  /\ T!Refuse(h)
  /\ \/ ~up \/ ~call[h].live
     \/ faults < MaxFaults
  /\ faults' = IF up /\ call[h].live THEN faults + 1 ELSE faults
  /\ UNCHANGED <<client, call, ever>>

\* The host starts the store again after it closed, retention removes rows.
Background ==
  /\ \/ T!Open /\ UNCHANGED faults
     \/ /\ T!Close \/ (T!Discard /\ rows' # rows)
        /\ faults < MaxFaults
        /\ faults' = faults + 1
  /\ UNCHANGED <<client, call, ever>>

Next ==
  \/ \E r \in Requests : GiveUp(r) \/ \E h \in Calls : Send(r, h)
  \/ \E h \in Calls :
       \/ CheckCount(h) \/ Walk(h) \/ Insert(h) \/ Finish(h) \/ Receive(h)
       \/ Serve(h) \/ Refuse(h)
  \/ Background

\* The host starts the store; a goroutine that can run does run; a client that
\* was told to retry does (its calls find the pool of goroutines free again and
\* again).
Fairness ==
  /\ WF_vars(T!Open /\ Background)
  /\ \A h \in Calls : WF_vars(CheckCount(h) \/ Walk(h) \/ Insert(h) \/ Finish(h)
                                \/ Receive(h) \/ (up /\ Serve(h)))
  /\ \A r \in Requests : SF_vars(\E h \in Calls : Send(r, h))

Spec == Init /\ [][Next]_vars /\ Fairness

-----------------------------------------------------------------------------
(* Properties.                                                             *)

\* RunningBytes(r)[n]: the bytes of the first n parts.
RunningBytes(r) ==
  LET sum[n \in 0 .. Len(Parts[r])] == IF n = 0 THEN 0 ELSE sum[n - 1] + Parts[r][n].bytes
  IN  sum

SumBytes(r) == RunningBytes(r)[Len(Parts[r])]

\* What a caller may send: reference definition, without handler or context.
Acceptable(r) ==
  /\ Cardinality(Descriptors(r)) <= MaxDescriptors /\ Cardinality(Recs(r)) <= MaxCount
  /\ SumBytes(r) <= MaxBytes
  /\ \A i \in DOMAIN Parts[r] : Parts[r][i].valid

\* Consume*: whatever is committed is all of an acceptable request, also when
\* contexts end, calls overlap and one part of many is invalid.
OnlyWholeRequests ==
  [][\A s \in Signals : ever'[s] # ever[s] =>
       \E r \in Requests : /\ Signal[r] = s /\ Acceptable(r)
                           /\ ever'[s] = ever[s] \cup Rows(r)]_vars

\* Consume*, exportError: a client that got OK had everything stored; one that
\* was told never to retry sent something that no store would accept, or a span
\* whose identity holds other content.  Nothing temporary is made permanent.
VerdictIsTrue ==
  \A r \in Requests :
    /\ client[r] = "acked" => Acceptable(r) /\ Rows(r) \subseteq ever[Signal[r]]
    /\ client[r] = "rejected" =>
         \/ ~Acceptable(r)
         \/ T!Conflicts(Signal[r], Rows(r), ever[Signal[r]] \cup Rows(r))

\* Consume*: with a store that is up from some time on, every request is
\* settled: no failure, timeout or overlap leaves a client retrying for ever.
EverySettled == \A r \in Requests : <>(client[r] \in {"acked", "rejected"})
=============================================================================
