------------------------------ MODULE Activity ------------------------------
(***************************************************************************)
(* Activity reporting in the logal_status extension: the goroutine that    *)
(* samples the counters and writes activity lines, added to Admission,     *)
(* whose counters it reads one load at a time, and with the part of        *)
(* Shutdown that stops it.                                                 *)
(***************************************************************************)
EXTENDS Admission, Sequences

VARIABLES
  loop,      \* "idle", "first" (before the loop), "select", "tick" or "exited"
  load,      \* the field that currentActivityState reads next
  previous, current,
  reporting, \* Status.reporting
  stopped,   \* reportStop is closed
  stopping,  \* Shutdown: "before", "wait" or "past" its wait for reportDone
  \* history
  base,      \* the counts of the first sample, from which the lines go on
  accounted  \* the counts that the lines add up to

goroutine == <<loop, load, previous, current, base, accounted>>
stop      == <<reporting, stopped, stopping>>
activity  == <<goroutine, stop>>
composed  == <<vars, activity>>

\* The fields of activityState in the order in which they are read.
Fields == <<"writes", "storeReady", "pipelineReady", "inFlight", "rejected">>

NoSample == [writes |-> 0, storeReady |-> FALSE, pipelineReady |-> FALSE,
             inFlight |-> 0, rejected |-> 0]

ReportingInit ==
  /\ Init
  /\ loop = "idle" /\ load = 1
  /\ previous = NoSample /\ current = NoSample
  /\ reporting = FALSE /\ stopped = FALSE /\ stopping = "before"
  /\ base = [writes |-> 0, rejected |-> 0] /\ accounted = base

-----------------------------------------------------------------------------
(* Start and Shutdown.                                                      *)

\* Start launches the goroutine once the listener is there.
StartReporting ==
  /\ Start
  /\ IF server' = "listening" THEN reporting' = TRUE /\ loop' = "first"
                              ELSE UNCHANGED <<reporting, loop>>
  /\ UNCHANGED <<load, previous, current, base, accounted, stopped, stopping>>

\* Mutant: the stop channel is not closed.
CloseNothing == reporting' = FALSE /\ UNCHANGED stopped

\* The compare-and-swap of reporting, and the close of reportStop.
CloseStop == reporting' = FALSE /\ stopped' = reporting

\* There is something to wait for only if Start launched the goroutine.
StopReporting ==
  /\ host = "stopping"
  /\ stopping = "before"
  /\ CloseStop
  /\ stopping' = (IF reporting THEN "wait" ELSE "past")
  /\ UNCHANGED <<vars, goroutine>>

\* reportDone is closed, or the context of Shutdown has ended.
StopWaiting(ended) ==
  /\ stopping = "wait"
  /\ ended \/ loop = "exited"
  /\ stopping' = "past"
  /\ UNCHANGED <<vars, goroutine, reporting, stopped>>

StopServer ==
  /\ stopping = "past"
  /\ ShutdownServer
  /\ UNCHANGED activity

-----------------------------------------------------------------------------
(* activityLoop.                                                            *)

\* What a load may find.  storeReady is put together from looks at the store's
\* flags, files and volume at several moments, as in Look: it is left open.
Values(field) ==
  CASE field = "writes"        -> {writes}
    [] field = "storeReady"    -> BOOLEAN
    [] field = "pipelineReady" -> {pipelineReady}
    [] field = "inFlight"      -> {inFlight}
    [] field = "rejected"      -> {rejected}

\* One load of currentActivityState, before the loop or after a tick.
Load ==
  /\ loop \in {"first", "tick"}
  /\ load <= Len(Fields)
  /\ \E v \in Values(Fields[load]) : current' = [current EXCEPT ![Fields[load]] = v]
  /\ load' = load + 1
  /\ UNCHANGED <<vars, loop, previous, base, accounted, stop>>

\* The sample before the loop is what the first line is compared with; what it
\* counted already appears in no line.
FirstSample ==
  /\ loop = "first"
  /\ load > Len(Fields)
  /\ loop' = "select" /\ load' = 1
  /\ previous' = current
  /\ base' = [writes |-> current.writes, rejected |-> current.rejected]
  /\ UNCHANGED <<vars, current, accounted, stop>>

\* The ticker fires.
Tick ==
  /\ loop = "select"
  /\ loop' = "tick"
  /\ UNCHANGED <<vars, load, previous, current, base, accounted, stop>>

\* Mutant: rejections alone are not worth a line.
ActivityWithoutRejections ==
  \E field \in {"writes", "storeReady", "pipelineReady"} : previous[field] # current[field]

\* inFlight is reported but is no reason for a line.
ActivityChanged ==
  \E field \in {"writes", "storeReady", "pipelineReady", "rejected"} :
    previous[field] # current[field]

CounterDelta(before, after) == IF after < before THEN after ELSE after - before

\* logActivity writes the differences.
LogActivity ==
  accounted' =
    [writes   |-> accounted.writes + CounterDelta(previous.writes, current.writes),
     rejected |-> accounted.rejected + CounterDelta(previous.rejected, current.rejected)]

\* Mutant: the next line starts from the same sample again.
KeepPrevious == UNCHANGED previous

Advance == previous' = current

\* A line if something changed or the idle interval has passed, else none; the
\* time since the last line is left open.
Decide ==
  /\ loop = "tick"
  /\ load > Len(Fields)
  /\ loop' = "select" /\ load' = 1
  /\ \/ LogActivity /\ Advance /\ UNCHANGED current
     \/ ~ActivityChanged /\ current' = previous /\ UNCHANGED <<previous, accounted>>
  /\ UNCHANGED <<vars, base, stop>>

\* reportStop is closed: leave, and close reportDone.
Leave ==
  /\ loop = "select"
  /\ stopped
  /\ loop' = "exited"
  /\ UNCHANGED <<vars, load, previous, current, base, accounted, stop>>

-----------------------------------------------------------------------------
LoopStep == Load \/ FirstSample \/ Tick \/ Decide

\* The steps of Admission that leave the goroutine alone.
Elsewhere ==
  /\ \/ Ready \/ NotReady \/ Shutdown
     \/ Traffic \/ Terminated
  /\ UNCHANGED activity

ReportingNext ==
  \/ (StartReporting \/ StopServer \/ Elsewhere) /\ Watch
  \/ StopReporting \/ \E ended \in BOOLEAN : StopWaiting(ended)
  \/ LoopStep \/ Leave

ReportingSpec == ReportingInit /\ [][ReportingNext]_composed

\* The goroutine runs and its ticker keeps firing.  A closed reportStop is
\* chosen in the end: the ticker is silent most of the time, and select is
\* random when both are ready.  The rest is Admission's.
ReportingFairness ==
  /\ Fairness
  /\ WF_composed(LoopStep) /\ SF_composed(Leave)
  /\ WF_composed(StopReporting) /\ WF_composed(StopWaiting(FALSE))

ReportingFairSpec == ReportingSpec /\ ReportingFairness

-----------------------------------------------------------------------------
(* Properties.                                                              *)

\* The activity lines never add up to more than happened since the first sample,
\* although a sample is read field by field while requests are served.
NothingReportedTwice ==
  base.writes + accounted.writes <= writes /\ base.rejected + accounted.rejected <= rejected

\* Every rejection after the first sample shows up in the lines unless the
\* extension is shut down first.  Those before it appear in no line.
RejectionsReported ==
  \A n \in 1 .. MaxRequests :
    rejected = n ~> base.rejected + accounted.rejected >= n \/ stopped

\* Once told to stop, the goroutine exits, so that Shutdown gets past its wait
\* even if its context never ends.
ReporterStops == host = "stopping" /\ reporting ~> loop = "exited"
=============================================================================
