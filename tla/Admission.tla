----------------------------- MODULE Admission -----------------------------
(***************************************************************************)
(* Admission in the logal_status extension: the middleware that admits     *)
(* OTLP exports over HTTP and gRPC, the /readyz probe, the status server,  *)
(* and the host that starts the extension, announces the pipelines and     *)
(* shuts it down.  They share atomics and one channel, and no mutex: every *)
(* load, store, add and channel operation is a step, and so are the looks  *)
(* at the files and the volume of which OperationalSnapshot makes up the   *)
(* readiness of the store.                                                 *)
(***************************************************************************)
EXTENDS Integers, FiniteSets

CONSTANTS
  Requests,    \* goroutines that serve POSTs to /v1/* or OTLP Export calls
  Probes,      \* goroutines that serve GET /readyz
  MaxInFlight, \* capacity of the permit channel
  MaxRequests, \* bound: exports in a behaviour
  MaxProbes,   \* bound: probes in a behaviour
  MaxFlips     \* bound: how often something about the store changes

ASSUME StatusAssumption ==
  /\ IsFiniteSet(Requests)
  /\ Requests \cap Probes = {}
  /\ MaxInFlight \in Nat \ {0}
  /\ MaxRequests \in Nat /\ MaxProbes \in Nat /\ MaxFlips \in Nat

VARIABLES
  pipelineReady, permits, inFlight, rejected, \* atomics and channel of Status
  pc,         \* where each request and each probe is
  host,       \* how far the host has come
  server,     \* the status server
  \* the store behind the extension
  trouble,    \* what OperationalSnapshot would find wrong with it
  writes,     \* the store's lifetime counters, as one
  \* history and bounds
  refusals,   \* refusals[t]: reasons to refuse that held ever since t began
  arrived, probed, flips

admission == <<pipelineReady, permits, inFlight, rejected>>
control   == <<host, server>>
backend   == <<trouble, writes, flips>>
bounds    == <<arrived, probed>>
vars      == <<admission, pc, control, backend, refusals, bounds>>

\* The looks of OperationalSnapshot: at the ready flag, the length of the WAL and
\* the sizes of the files, the free space and the closing flag.
Looks         == {"flag", "wal", "free", "closing"}
RequestLabels == Looks \cup {"idle", "check", "permit", "count", "serve", "drain", "uncount", "reject"}
ProbeLabels   == Looks \cup {"idle", "pipeline", "flight", "ok", "refused"}
First(t)      == IF t \in Requests THEN "check" ELSE "flag"

\* Requests that hold a permit, and those that inFlight counts.
Permitted == {r \in Requests : pc[r] \in {"count", "serve", "drain"}}
Counted   == {r \in Requests : pc[r] \in {"serve", "drain", "uncount"}}
Serving   == {r \in Requests : pc[r] = "serve"}

\* What can be wrong with the store and is seen at a single look, and with it
\* the reasons to refuse.
Reasons == Looks \cup {"stopped", "saturated"}

\* Reasons, true now, to refuse an export or a probe: the host has not announced
\* the pipelines or has withdrawn them, something is wrong with the store, the
\* limit is reached.
Refusals ==
  {x \in Reasons :
     \/ x = "stopped" /\ host # "ready"
     \/ x \in trouble
     \/ x = "saturated" /\ Cardinality(Serving) >= MaxInFlight}

\* Every variable keeps its type: permits never exceeds the channel's capacity.
TypeOK ==
  /\ pipelineReady \in BOOLEAN /\ permits \in 0 .. MaxInFlight
  /\ inFlight \in Int /\ rejected \in Nat
  /\ pc \in [Requests \cup Probes -> RequestLabels \cup ProbeLabels]
  /\ \A r \in Requests : pc[r] \in RequestLabels
  /\ \A p \in Probes : pc[p] \in ProbeLabels
  /\ host \in {"new", "started", "ready", "notReady", "stopping", "done"}
  /\ server \in {"none", "listening", "failed", "closed"}
  /\ trouble \subseteq Looks /\ writes \in Nat
  /\ refusals \in [Requests \cup Probes -> SUBSET Reasons]
  /\ arrived \in 0 .. MaxRequests /\ probed \in 0 .. MaxProbes /\ flips \in 0 .. MaxFlips

Init ==
  /\ pipelineReady = FALSE /\ permits = 0 /\ inFlight = 0 /\ rejected = 0
  /\ pc = [t \in Requests \cup Probes |-> "idle"]
  /\ host = "new" /\ server = "none"
  /\ trouble \in SUBSET {"wal", "free"} /\ writes = 0
  /\ refusals = [t \in Requests \cup Probes |-> {}]
  /\ arrived = 0 /\ probed = 0 /\ flips = 0

Goto(t, label) == pc' = [pc EXCEPT ![t] = label]

-----------------------------------------------------------------------------
(* The host: Start, Ready, NotReady, Shutdown, called one after the other.  *)

\* Start finds the store and listens, or fails.
Start ==
  /\ host = "new"
  /\ host' = "started"
  /\ server' \in {"listening", "none"}
  /\ UNCHANGED <<admission, pc, backend, bounds>>

\* The host announces running pipelines, unless Start failed.
Ready ==
  /\ host = "started"
  /\ server # "none"
  /\ host' = "ready"
  /\ pipelineReady' = TRUE
  /\ UNCHANGED <<permits, inFlight, rejected, pc, server, backend, bounds>>

\* Mutant: NotReady leaves the flag to Shutdown.
LowerLater == UNCHANGED pipelineReady

LowerPipelineReady == pipelineReady' = FALSE

\* The host is about to stop the pipelines.
NotReady ==
  /\ host \in {"started", "ready"}
  /\ host' = "notReady"
  /\ LowerPipelineReady
  /\ UNCHANGED <<permits, inFlight, rejected, pc, server, backend, bounds>>

\* The receivers are stopped; exports they gave up waiting for may still run.
Shutdown ==
  /\ host = "notReady"
  /\ host' = "stopping"
  /\ pipelineReady' = FALSE
  /\ UNCHANGED <<permits, inFlight, rejected, pc, server, backend, bounds>>

\* server.Shutdown has waited for running handlers, or its context ended and
\* the server was closed under them.
ShutdownServer ==
  /\ host = "stopping"
  /\ host' = "done"
  /\ server' = (IF server = "listening" THEN "closed" ELSE server)
  /\ UNCHANGED <<admission, pc, backend, bounds>>

\* Serve returns an error: not ready any more, and the host hears of it.
ServeFails ==
  /\ server = "listening"
  /\ server' = "failed"
  /\ pipelineReady' = FALSE
  /\ UNCHANGED <<permits, inFlight, rejected, pc, host, backend, bounds>>

-----------------------------------------------------------------------------
(* GetHTTPHandler and interceptGRPC: acquire, the next handler, release.    *)

\* A receiver passes an export on; receivers run only if Start succeeded.
Arrive(r) ==
  /\ server # "none"
  /\ pc[r] = "idle"
  /\ arrived < MaxRequests
  /\ arrived' = arrived + 1
  /\ Goto(r, "check")
  /\ UNCHANGED <<admission, control, backend, probed>>

\* Mutant: release is deferred before acquire has succeeded.
RejectAndRelease(r) ==
  /\ pc[r] = "reject"
  /\ rejected' = rejected + 1
  /\ Goto(r, "drain")
  /\ UNCHANGED <<pipelineReady, permits, inFlight, control, backend, bounds>>

\* acquire fails: one more rejected request.
Reject(r) ==
  /\ pc[r] = "reject"
  /\ rejected' = rejected + 1
  /\ Goto(r, "idle")
  /\ UNCHANGED <<pipelineReady, permits, inFlight, control, backend, bounds>>

CheckPipeline(r) ==
  /\ pc[r] = "check"
  /\ Goto(r, IF pipelineReady THEN "flag" ELSE "reject")
  /\ UNCHANGED <<admission, control, backend, bounds>>

\* Mutant: the length of the WAL is not looked at.
FollowingNoWal(t, l) ==
  CASE l = "flag" -> "free" [] l = "free" -> "closing"
    [] OTHER -> IF t \in Requests THEN "permit" ELSE "pipeline"

\* What follows a look at which nothing was wrong.
Following(t, l) ==
  CASE l = "flag" -> "wal" [] l = "wal" -> "free"
    [] l = "free" -> "closing"
    [] OTHER -> IF t \in Requests THEN "permit" ELSE "pipeline"

\* OperationalSnapshot, called by acquire and by handleReady: one look after the
\* other, at moments of their own, and all of them must be good.  The rest of the
\* looks after a bad one make no difference.  After the WAL's length the sizes of
\* the three files are added up; a checkpoint between these stats moves pages from
\* one file to another, so the verdict on the sum may come out either way.
Look(t) ==
  /\ pc[t] \in Looks
  /\ \/ pc[t] \in trouble \cup {"wal"} /\ Goto(t, IF t \in Requests THEN "reject" ELSE "refused")
     \/ pc[t] \notin trouble /\ Goto(t, Following(t, pc[t]))
  /\ UNCHANGED <<admission, control, backend, bounds>>

\* Mutant: a permit is thought free when the channel is full.
RoomForOneMore == permits <= MaxInFlight

\* The send on the permit channel would not block.
PermitFree == permits < MaxInFlight

\* The select with a default: take a permit now or be refused.
TakePermit(r) ==
  /\ pc[r] = "permit"
  /\ IF PermitFree
     THEN Goto(r, "count") /\ permits' = permits + 1
     ELSE Goto(r, "reject") /\ UNCHANGED permits
  /\ UNCHANGED <<pipelineReady, inFlight, rejected, control, backend, bounds>>

Count(r) ==
  /\ pc[r] = "count"
  /\ Goto(r, "serve")
  /\ inFlight' = inFlight + 1
  /\ UNCHANGED <<pipelineReady, permits, rejected, control, backend, bounds>>

\* The receiver, the pipeline and the exporter run; rows may be committed.
\* Returning, failing and panicking all lead to the deferred release.
Handle(r) ==
  /\ pc[r] = "serve"
  /\ Goto(r, "drain")
  /\ writes' \in {writes, writes + 1}
  /\ UNCHANGED <<admission, control, trouble, flips, bounds>>

\* release, first half: receive from the permit channel.
ReleasePermit(r) ==
  /\ pc[r] = "drain"
  /\ permits > 0
  /\ permits' = permits - 1
  /\ Goto(r, "uncount")
  /\ UNCHANGED <<pipelineReady, inFlight, rejected, control, backend, bounds>>

\* Mutant: the counter is not decremented.
StillInFlight == inFlight

NoLongerInFlight == inFlight - 1

Uncount(r) ==
  /\ pc[r] = "uncount"
  /\ inFlight' = NoLongerInFlight
  /\ Goto(r, "idle")
  /\ UNCHANGED <<pipelineReady, permits, rejected, control, backend, bounds>>

-----------------------------------------------------------------------------
(* handleReady.                                                             *)

Probe(p) ==
  /\ server = "listening"
  /\ pc[p] \in {"idle", "ok", "refused"}
  /\ probed < MaxProbes
  /\ probed' = probed + 1
  /\ Goto(p, "flag")
  /\ UNCHANGED <<admission, control, backend, arrived>>

\* After the looks of the snapshot two more loads; the first failure decides.
ProbePipeline(p) ==
  /\ pc[p] = "pipeline"
  /\ Goto(p, IF pipelineReady THEN "flight" ELSE "refused")
  /\ UNCHANGED <<admission, control, backend, bounds>>

\* Mutant: saturation begins one request too late.
SaturatedAbove == inFlight > MaxInFlight

Saturated == inFlight >= MaxInFlight

ProbeFlight(p) ==
  /\ pc[p] = "flight"
  /\ Goto(p, IF Saturated THEN "refused" ELSE "ok")
  /\ UNCHANGED <<admission, control, backend, bounds>>

-----------------------------------------------------------------------------
\* A failure or a recovery, a growing or truncated WAL, a volume that fills or
\* empties: each changes one of the facts the snapshot looks at.
StoreChanges ==
  /\ flips < MaxFlips
  /\ flips' = flips + 1
  /\ \E x \in {"flag", "wal", "free"} :
       trouble' = (IF x \in trouble THEN trouble \ {x} ELSE trouble \cup {x})
  /\ UNCHANGED <<admission, pc, control, writes, bounds>>

\* The host stops the store after the extensions that depend on it.
StoreCloses ==
  /\ host = "done"
  /\ "closing" \notin trouble
  /\ trouble' = trouble \cup {"closing"}
  /\ UNCHANGED <<admission, pc, control, writes, flips, bounds>>

\* Nothing is left to do: the extension is down and every request is over.
Terminated ==
  /\ host = "done"
  /\ \A r \in Requests : pc[r] = "idle"
  /\ \A p \in Probes : pc[p] \in {"idle", "ok", "refused"}
  /\ UNCHANGED <<admission, pc, control, backend, bounds>>

RequestStep(r) ==
  \/ CheckPipeline(r) \/ Look(r) \/ TakePermit(r) \/ Reject(r) \/ Count(r)
  \/ Handle(r) \/ ReleasePermit(r) \/ Uncount(r)

ProbeStep(p) == Look(p) \/ ProbePipeline(p) \/ ProbeFlight(p)

\* What happens while the host is busy elsewhere.
Traffic ==
  \/ ServeFails
  \/ \E r \in Requests : Arrive(r) \/ RequestStep(r)
  \/ \E p \in Probes : Probe(p) \/ ProbeStep(p)
  \/ StoreChanges \/ StoreCloses

Step == Start \/ Ready \/ NotReady \/ Shutdown \/ ShutdownServer \/ Traffic \/ Terminated

\* History: what every state of a request's or a probe's life had in common.
Watch ==
  refusals' = [t \in Requests \cup Probes |->
    CASE pc'[t] \in {"idle", "reject", "refused", "uncount"} -> {}
      [] pc'[t] = First(t) /\ pc[t] # First(t) -> Refusals'
      [] pc'[t] = "ok" /\ pc[t] = "ok" -> refusals[t]
      [] OTHER -> refusals[t] \cap Refusals']

Next == Step /\ Watch

Spec == Init /\ [][Next]_vars

\* Goroutines run.  The host finishes what it begins, and stops the service once
\* the status server has failed (it was sent a fatal error event); otherwise it
\* stops only if it wants to.
Fairness ==
  /\ \A r \in Requests : WF_vars(RequestStep(r) /\ Watch)
  /\ \A p \in Probes : WF_vars(ProbeStep(p) /\ Watch)
  /\ WF_vars((Start \/ Ready \/ Shutdown \/ ShutdownServer) /\ Watch)
  /\ WF_vars(server = "failed" /\ NotReady /\ Watch)

FairSpec == Spec /\ Fairness

-----------------------------------------------------------------------------
(* Properties.                                                              *)

\* HTTP and gRPC together never run more than MaxInFlight exports, whatever the
\* order of their acquires and releases.
AtMostMaxInFlight == Cardinality(Serving) <= MaxInFlight

\* in_flight and the permits are given back exactly once per admitted export,
\* on every way out: what is counted is what runs, and nothing stays behind.
NothingLeaks == permits = Cardinality(Permitted) /\ inFlight = Cardinality(Counted)

\* /readyz says ok only if none of its reasons to refuse held all through the
\* probe: its loads mix moments, but pipelines that were not announced, a limit
\* that was reached, a lowered ready flag, a long WAL, a full volume or a closing
\* store, if it was so all the time, is always noticed.  (That one trouble takes
\* over from the other need not be: no single one lasted.)
ProbeIsHonest == \A p \in Probes : pc[p] = "ok" => refusals[p] = {}

\* In the same sense no export gets a permit past a reason to refuse it that was
\* there from its arrival on: after NotReady only exports that were already there
\* come through, and the store's troubles are not overlooked.
ExportsAreWelcome == \A r \in Permitted : refusals[r] = {}

\* Every export that reached the middleware leaves it again.
EveryExportReturns == \A r \in Requests : pc[r] # "idle" ~> pc[r] = "idle"
=============================================================================
