-------------------------- MODULE AdmissionProofs --------------------------
(***************************************************************************)
(* Proofs that the middleware admits at most MaxInFlight exports at a time *)
(* and gives back every permit and every count, and that neither it nor    *)
(* the probe overlooks a lasting reason to refuse, for any finite number   *)
(* of requests, any limit and any number of probes.                        *)
(* The activity reporter beside them only reads, and its lines never add   *)
(* up to more than happened.                                               *)
(***************************************************************************)
EXTENDS Activity, FiniteSetTheorems, TLAPS

USE StatusAssumption
USE DEF admission, control, backend, bounds, vars, Looks, RequestLabels, ProbeLabels

\* Refusals takes only known reasons into the history.
LEMMA WatchKeepsType ==
  ASSUME TypeOK, Watch
  PROVE  refusals' \in [Requests \cup Probes -> SUBSET Reasons]
<1>1. Refusals' \in SUBSET Reasons
  BY DEF Refusals
<1>. QED BY <1>1 DEF TypeOK, Watch

\* The requests that hold a permit or are counted are finitely many.
LEMMA FiniteRequests ==
  /\ IsFiniteSet(Permitted) /\ Cardinality(Permitted) \in Nat
  /\ IsFiniteSet(Counted) /\ Cardinality(Counted) \in Nat
  /\ IsFiniteSet(Serving) /\ Cardinality(Serving) \in Nat
<1>1. Permitted \subseteq Requests /\ Counted \subseteq Requests /\ Serving \subseteq Requests
  BY DEF Permitted, Counted, Serving
<1>. QED BY <1>1, FS_Subset, FS_CardinalityType

\* A request that goes from one label to another joins or leaves those that
\* hold a permit, and those that are counted, accordingly.
LEMMA Moves ==
  ASSUME TypeOK, NEW r \in Requests, NEW l \in RequestLabels, Goto(r, l)
  PROVE  /\ Permitted' = IF l \in {"count", "serve", "drain"}
                         THEN Permitted \cup {r} ELSE Permitted \ {r}
         /\ Counted' = IF l \in {"serve", "drain", "uncount"}
                       THEN Counted \cup {r} ELSE Counted \ {r}
         /\ pc' \in [Requests \cup Probes -> RequestLabels \cup ProbeLabels]
         /\ \A q \in Requests : pc'[q] \in RequestLabels
         /\ \A p \in Probes : pc'[p] \in ProbeLabels
BY DEF TypeOK, Goto, Permitted, Counted

\* Steps that move no request leave both sets alone.
LEMMA Stays ==
  ASSUME TypeOK, \A r \in Requests : pc'[r] = pc[r]
  PROVE  Permitted' = Permitted /\ Counted' = Counted
BY DEF Permitted, Counted

\* The invariant: types, and nothing leaks.
LEMMA RequestStepKeeps ==
  ASSUME TypeOK, NothingLeaks, NEW r \in Requests, RequestStep(r) \/ Arrive(r), Watch
  PROVE  TypeOK' /\ NothingLeaks'
<1>0. /\ refusals' \in [Requests \cup Probes -> SUBSET Reasons]
      /\ r \in Permitted <=> pc[r] \in {"count", "serve", "drain"}
      /\ r \in Counted <=> pc[r] \in {"serve", "drain", "uncount"}
      /\ permits = Cardinality(Permitted) /\ inFlight = Cardinality(Counted)
      /\ permits \in Nat /\ inFlight \in Int
  BY WatchKeepsType DEF Permitted, Counted, NothingLeaks, TypeOK
<1>r. ASSUME NEW l \in Looks \cup {"check", "permit", "reject", "idle"}, Goto(r, l),
             pc[r] \notin {"count", "serve", "drain", "uncount"}
      PROVE  Permitted' = Permitted /\ Counted' = Counted
  <2>1. Permitted' = Permitted \ {r} /\ Counted' = Counted \ {r}
    BY <1>r, Moves
  <2>2. r \notin Permitted /\ r \notin Counted
    BY <1>0, <1>r
  <2>. QED BY <2>1, <2>2
<1>1. CASE Arrive(r)
  <2>1. Permitted' = Permitted /\ Counted' = Counted
    BY <1>1, <1>r DEF Arrive
  <2>. QED BY <1>0, <1>1, <2>1, Moves DEF Arrive, TypeOK, NothingLeaks
<1>2. CASE CheckPipeline(r)
  <2>1. PICK l \in {"flag", "reject"} : Goto(r, l)
    BY <1>2 DEF CheckPipeline
  <2>2. Permitted' = Permitted /\ Counted' = Counted
    BY <1>2, <1>r, <2>1 DEF CheckPipeline
  <2>. QED BY <1>0, <1>2, <2>1, <2>2, Moves DEF CheckPipeline, TypeOK, NothingLeaks
<1>3. CASE Look(r)
  <2>1. PICK l \in Looks \cup {"permit", "reject"} : Goto(r, l)
    BY <1>3 DEF Look, Following
  <2>2. Permitted' = Permitted /\ Counted' = Counted
    BY <1>3, <1>r, <2>1 DEF Look
  <2>. QED BY <1>0, <1>3, <2>1, <2>2, Moves DEF Look, TypeOK, NothingLeaks
<1>4. CASE TakePermit(r)
  <2>1. CASE PermitFree
    <3>1. Permitted' = Permitted \cup {r} /\ Counted' = Counted /\ permits' = permits + 1
      <4>1. Goto(r, "count") /\ permits' = permits + 1 /\ r \notin Counted
        BY <1>0, <1>4, <2>1 DEF TakePermit
      <4>2. Permitted' = Permitted \cup {r} /\ Counted' = Counted \ {r}
        BY <4>1, Moves
      <4>. QED BY <4>1, <4>2
    <3>2. Cardinality(Permitted') = Cardinality(Permitted) + 1
      BY <1>0, <1>4, <3>1, FiniteRequests, FS_AddElement DEF TakePermit
    <3>3. permits' \in 0 .. MaxInFlight
      BY <1>0, <2>1, <3>1 DEF PermitFree
    <3>. QED BY <1>0, <1>4, <2>1, <3>1, <3>2, <3>3, Moves DEF TakePermit, TypeOK, NothingLeaks
  <2>2. CASE ~PermitFree
    <3>1. Goto(r, "reject") /\ permits' = permits
      BY <1>4, <2>2 DEF TakePermit
    <3>2. Permitted' = Permitted /\ Counted' = Counted
      BY <1>4, <1>r, <3>1 DEF TakePermit
    <3>. QED BY <1>0, <1>4, <3>1, <3>2, Moves DEF TakePermit, TypeOK, NothingLeaks
  <2>. QED BY <2>1, <2>2
<1>9. CASE Reject(r)
  <2>1. Permitted' = Permitted /\ Counted' = Counted
    BY <1>9, <1>r DEF Reject
  <2>. QED BY <1>0, <1>9, <2>1, Moves DEF Reject, TypeOK, NothingLeaks
<1>5. CASE Count(r)
  <2>1. Permitted' = Permitted /\ Counted' = Counted \cup {r} /\ inFlight' = inFlight + 1
    <3>1. Permitted' = Permitted \cup {r} /\ Counted' = Counted \cup {r}
      BY <1>5, Moves DEF Count
    <3>2. r \in Permitted
      BY <1>0, <1>5 DEF Count
    <3>. QED BY <1>5, <3>1, <3>2 DEF Count
  <2>2. Cardinality(Counted') = Cardinality(Counted) + 1
    BY <1>0, <1>5, <2>1, FiniteRequests, FS_AddElement DEF Count
  <2>. QED BY <1>0, <1>5, <2>1, <2>2, Moves DEF Count, TypeOK, NothingLeaks
<1>6. CASE Handle(r)
  <2>1. Permitted' = Permitted /\ Counted' = Counted
    <3>1. Goto(r, "drain") /\ r \in Permitted /\ r \in Counted
      BY <1>0, <1>6 DEF Handle
    <3>2. Permitted' = Permitted \cup {r} /\ Counted' = Counted \cup {r}
      BY <3>1, Moves
    <3>. QED BY <3>1, <3>2
  <2>2. writes' \in Nat
    BY <1>6 DEF Handle, TypeOK
  <2>. QED BY <1>0, <1>6, <2>1, <2>2, Moves DEF Handle, TypeOK, NothingLeaks
<1>7. CASE ReleasePermit(r)
  <2>1. Permitted' = Permitted \ {r} /\ Counted' = Counted /\ permits' = permits - 1
    <3>1. Permitted' = Permitted \ {r} /\ Counted' = Counted \cup {r}
      BY <1>7, Moves DEF ReleasePermit
    <3>2. r \in Counted
      BY <1>0, <1>7 DEF ReleasePermit
    <3>. QED BY <1>7, <3>1, <3>2 DEF ReleasePermit
  <2>2. Cardinality(Permitted') = Cardinality(Permitted) - 1
    BY <1>0, <1>7, <2>1, FiniteRequests, FS_RemoveElement DEF ReleasePermit
  <2>3. permits' \in 0 .. MaxInFlight
    BY <1>7, <2>1 DEF ReleasePermit, TypeOK
  <2>. QED BY <1>0, <1>7, <2>1, <2>2, <2>3, Moves DEF ReleasePermit, TypeOK, NothingLeaks
<1>8. CASE Uncount(r)
  <2>1. Permitted' = Permitted /\ Counted' = Counted \ {r} /\ inFlight' = inFlight - 1
    <3>1. Permitted' = Permitted \ {r} /\ Counted' = Counted \ {r}
      BY <1>8, Moves DEF Uncount
    <3>2. r \notin Permitted
      BY <1>0, <1>8 DEF Uncount
    <3>. QED BY <1>8, <3>1, <3>2 DEF Uncount, NoLongerInFlight
  <2>2. Cardinality(Counted') = Cardinality(Counted) - 1
    BY <1>0, <1>8, <2>1, FiniteRequests, FS_RemoveElement DEF Uncount
  <2>. QED BY <1>0, <1>8, <2>1, <2>2, Moves DEF Uncount, TypeOK, NothingLeaks
<1>. QED BY <1>1, <1>2, <1>3, <1>4, <1>5, <1>6, <1>7, <1>8, <1>9 DEF RequestStep

\* Probes, the host, the server and the store move no request.
LEMMA OtherStepKeeps ==
  ASSUME TypeOK, NothingLeaks, Watch,
         \/ Start \/ Ready \/ NotReady \/ Shutdown \/ ShutdownServer
         \/ ServeFails \/ StoreChanges \/ StoreCloses \/ Terminated
         \/ \E p \in Probes : Probe(p) \/ ProbeStep(p)
  PROVE  TypeOK' /\ NothingLeaks'
<1>1. refusals' \in [Requests \cup Probes -> SUBSET Reasons]
  BY WatchKeepsType
<1>2. ASSUME NEW p \in Probes, Probe(p) \/ ProbeStep(p)
      PROVE  TypeOK' /\ \A r \in Requests : pc'[r] = pc[r]
  <2>1. PICK l \in ProbeLabels : Goto(p, l)
    BY <1>2 DEF Probe, ProbeStep, Look, Following, ProbePipeline, ProbeFlight
  <2>2. UNCHANGED <<admission, control, backend, arrived>> /\ probed' \in 0 .. MaxProbes
    BY <1>2 DEF TypeOK, Probe, ProbeStep, Look, ProbePipeline, ProbeFlight
  <2>. QED BY <1>1, <2>1, <2>2 DEF TypeOK, Goto
<1>3. ASSUME \/ Start \/ Ready \/ NotReady \/ Shutdown \/ ShutdownServer
             \/ ServeFails \/ StoreChanges \/ StoreCloses \/ Terminated
      PROVE  TypeOK' /\ pc' = pc
  <2>1. CASE Start \/ ShutdownServer \/ Terminated
    BY <1>1, <2>1 DEF TypeOK, Start, ShutdownServer, Terminated
  <2>2. CASE Ready \/ NotReady \/ Shutdown \/ ServeFails
    BY <1>1, <2>2 DEF TypeOK, Ready, NotReady, LowerPipelineReady, Shutdown, ServeFails
  <2>3. CASE StoreChanges \/ StoreCloses
    <3>1. trouble' \subseteq Looks
      BY <2>3 DEF TypeOK, StoreChanges, StoreCloses
    <3>2. flips' \in 0 .. MaxFlips
      BY <2>3 DEF TypeOK, StoreChanges, StoreCloses
    <3>3. UNCHANGED <<admission, pc, control, writes, bounds>>
      BY <2>3 DEF StoreChanges, StoreCloses
    <3>. QED BY <1>1, <3>1, <3>2, <3>3 DEF TypeOK
  <2>. QED BY <1>3, <2>1, <2>2, <2>3
<1>4. TypeOK' /\ Permitted' = Permitted /\ Counted' = Counted
  BY <1>2, <1>3, Stays
<1>5. UNCHANGED <<permits, inFlight>>
  BY DEF Start, Ready, NotReady, Shutdown, ShutdownServer, ServeFails, StoreChanges, StoreCloses,
         Terminated, Probe, ProbeStep, Look, ProbePipeline, ProbeFlight
<1>. QED BY <1>4, <1>5 DEF NothingLeaks

\* Types hold and nothing leaks, in every reachable state.
THEOREM AdmissionInvariance == Spec => [](TypeOK /\ NothingLeaks)
<1>1. Init => TypeOK /\ NothingLeaks
  <2> SUFFICES ASSUME Init
               PROVE  TypeOK /\ NothingLeaks
    OBVIOUS
  <2>1. Permitted = {} /\ Counted = {}
    BY DEF Init, Permitted, Counted
  <2>2. TypeOK
    <3>1. /\ 0 \in 0 .. MaxInFlight /\ 0 \in 0 .. MaxRequests
          /\ 0 \in 0 .. MaxProbes /\ 0 \in 0 .. MaxFlips
      OBVIOUS
    <3>2. /\ pc \in [Requests \cup Probes -> RequestLabels \cup ProbeLabels]
          /\ \A r \in Requests : pc[r] \in RequestLabels
          /\ \A p \in Probes : pc[p] \in ProbeLabels
          /\ refusals \in [Requests \cup Probes -> SUBSET Reasons]
      BY DEF Init
    <3>3. /\ pipelineReady \in BOOLEAN /\ trouble \subseteq Looks
          /\ host \in {"new", "started", "ready", "notReady", "stopping", "done"}
          /\ server \in {"none", "listening", "failed", "closed"}
      BY DEF Init
    <3>4. permits = 0 /\ inFlight = 0 /\ rejected = 0 /\ writes = 0 /\ arrived = 0 /\ probed = 0 /\ flips = 0
      BY DEF Init
    <3>. QED BY <3>1, <3>2, <3>3, <3>4 DEF TypeOK
  <2>. QED BY <2>1, <2>2, FS_EmptySet DEF Init, NothingLeaks
<1>2. TypeOK /\ NothingLeaks /\ [Next]_vars => TypeOK' /\ NothingLeaks'
  <2>1. ASSUME TypeOK, NothingLeaks, UNCHANGED vars
        PROVE  TypeOK' /\ NothingLeaks'
    BY <2>1 DEF TypeOK, NothingLeaks, Permitted, Counted
  <2>. QED BY <2>1, RequestStepKeeps, OtherStepKeeps DEF Next, Step, Traffic
<1>. QED BY <1>1, <1>2, PTL DEF Spec

\* The middleware's limit: never more than MaxInFlight exports are served.
THEOREM AdmissionLimit == Spec => []AtMostMaxInFlight
<1>1. TypeOK /\ NothingLeaks => AtMostMaxInFlight
  <2> SUFFICES ASSUME TypeOK, NothingLeaks
               PROVE  Cardinality(Serving) <= MaxInFlight
    BY DEF AtMostMaxInFlight
  <2>1. Serving \subseteq Permitted
    BY DEF Serving, Permitted
  <2>2. Cardinality(Serving) <= Cardinality(Permitted)
    BY <2>1, FiniteRequests, FS_Subset
  <2>3. Cardinality(Permitted) <= MaxInFlight
    BY DEF TypeOK, NothingLeaks
  <2>. QED BY <2>2, <2>3, FiniteRequests
<1>. QED BY <1>1, AdmissionInvariance, PTL

\* Whoever holds a permit can give it back: release never blocks on the channel.
THEOREM ReleaseNeverBlocks == Spec => [](\A r \in Requests : pc[r] = "drain" => permits > 0)
<1>1. TypeOK /\ NothingLeaks => \A r \in Requests : pc[r] = "drain" => permits > 0
  <2> SUFFICES ASSUME TypeOK, NothingLeaks, NEW r \in Requests, pc[r] = "drain"
               PROVE  permits > 0
    OBVIOUS
  <2>1. Permitted # {}
    BY DEF Permitted
  <2>2. Cardinality(Permitted) # 0
    BY <2>1, FiniteRequests, FS_EmptySet
  <2>. QED BY <2>2, FiniteRequests DEF NothingLeaks
<1>. QED BY <1>1, AdmissionInvariance, PTL

-----------------------------------------------------------------------------
(* The probe and the admitted exports.                                      *)

\* The looks behind a look.
LookedAt(l) ==
  CASE l = "wal" -> {"flag"} [] l = "free" -> {"flag", "wal"}
    [] l = "closing" -> {"flag", "wal", "free"} [] OTHER -> {}

\* What the loads behind a label have ruled out as a lasting reason to refuse.
\* Exports begin with the load of pipelineReady, probes with the snapshot.
RuledOut(t, l) ==
  CASE l \in Looks -> LookedAt(l) \cup (IF t \in Requests THEN {"stopped"} ELSE {})
    [] l = "pipeline" -> Looks
    [] l \in {"permit", "flight"} -> Looks \cup {"stopped"}
    [] l \in {"count", "serve", "drain", "ok"} -> Reasons
    [] OTHER -> {}

\* The loads of requests and probes were true when made, and the history of an
\* unfinished one holds only reasons that are true now.
HistoryInv ==
  /\ pipelineReady => host = "ready"
  /\ \A t \in Requests \cup Probes :
       /\ refusals[t] \cap RuledOut(t, pc[t]) = {}
       /\ pc[t] # "ok" => refusals[t] \subseteq Refusals

\* Watch adds no reason to a history, but for those that begin.
LEMMA Watched ==
  ASSUME TypeOK, Watch, NEW t \in Requests \cup Probes
  PROVE  /\ pc'[t] # "ok" => refusals'[t] \subseteq Refusals'
         /\ (pc'[t] = First(t) /\ pc[t] # First(t)) \/ refusals'[t] \subseteq refusals[t]
<1>1. refusals'[t] = CASE pc'[t] \in {"idle", "reject", "refused", "uncount"} -> {}
                       [] pc'[t] = First(t) /\ pc[t] # First(t) -> Refusals'
                       [] pc'[t] = "ok" /\ pc[t] = "ok" -> refusals[t]
                       [] OTHER -> refusals[t] \cap Refusals'
  BY DEF Watch
<1>2. First(t) \notin {"idle", "reject", "refused", "uncount", "ok"}
  BY DEF First
<1>. QED BY <1>1, <1>2

\* A request or a probe may go on to a label that rules out more only if what it
\* adds is no reason at that moment.
LEMMA HistoryKept ==
  ASSUME TypeOK, HistoryInv, Watch, NEW t \in Requests \cup Probes,
         \/ pc'[t] = pc[t]
         \/ pc'[t] \in {First(t), "idle", "reject", "refused", "uncount"}
         \/ /\ pc[t] # "ok"
            /\ \A x \in RuledOut(t, pc'[t]) : x \in RuledOut(t, pc[t]) \/ x \notin Refusals
  PROVE  /\ refusals'[t] \cap RuledOut(t, pc'[t]) = {}
         /\ pc'[t] # "ok" => refusals'[t] \subseteq Refusals'
<1>1. /\ pc'[t] # "ok" => refusals'[t] \subseteq Refusals'
      /\ (pc'[t] = First(t) /\ pc[t] # First(t)) \/ refusals'[t] \subseteq refusals[t]
  BY Watched
<1>2. /\ refusals[t] \cap RuledOut(t, pc[t]) = {}
      /\ pc[t] # "ok" => refusals[t] \subseteq Refusals
  BY DEF HistoryInv
<1>3. CASE pc'[t] \in {First(t), "idle", "reject", "refused", "uncount"}
  <2>1. RuledOut(t, pc'[t]) = {}
    BY <1>3 DEF First, RuledOut, LookedAt
  <2>. QED BY <1>1, <2>1
<1>4. CASE pc'[t] = pc[t]
  BY <1>1, <1>2, <1>4
<1>5. CASE /\ pc[t] # "ok" /\ pc'[t] # First(t)
           /\ \A x \in RuledOut(t, pc'[t]) : x \in RuledOut(t, pc[t]) \/ x \notin Refusals
  BY <1>1, <1>2, <1>5
<1>. QED BY <1>3, <1>4, <1>5

\* A good look at the store finds that its trouble is no reason now.
LEMMA LookRulesOut ==
  ASSUME TypeOK, NEW t \in Requests \cup Probes, Look(t)
  PROVE  \/ pc'[t] \in {"reject", "refused"}
         \/ /\ pc[t] # "ok"
            /\ \A x \in RuledOut(t, pc'[t]) : x \in RuledOut(t, pc[t]) \/ x \notin Refusals
<1>. SUFFICES ASSUME pc'[t] \notin {"reject", "refused"}
              PROVE  /\ pc[t] # "ok"
                     /\ \A x \in RuledOut(t, pc'[t]) :
                          x \in RuledOut(t, pc[t]) \/ x \notin Refusals
  OBVIOUS
<1>1. pc[t] \in Looks /\ pc[t] \notin trouble /\ pc'[t] = Following(t, pc[t])
  BY DEF Look, Goto, TypeOK
<1>2. pc[t] \notin Refusals
  BY <1>1 DEF Refusals
<1>3. RuledOut(t, Following(t, pc[t])) = RuledOut(t, pc[t]) \cup {pc[t]}
  BY <1>1 DEF Following, RuledOut, LookedAt
<1>. QED BY <1>1, <1>2, <1>3

\* A free permit, or a low count, means that the limit is not reached.
LEMMA RoomIsReal ==
  ASSUME TypeOK, NothingLeaks, PermitFree \/ ~Saturated
  PROVE  "saturated" \notin Refusals
<1>1. Serving \subseteq Permitted /\ Serving \subseteq Counted
  BY DEF Serving, Permitted, Counted
<1>2. /\ Cardinality(Serving) <= Cardinality(Permitted)
      /\ Cardinality(Serving) <= Cardinality(Counted)
  BY <1>1, FiniteRequests, FS_Subset
<1>3. Cardinality(Serving) < MaxInFlight
  BY <1>2, FiniteRequests DEF NothingLeaks, PermitFree, Saturated, TypeOK
<1>. QED BY <1>3, FiniteRequests DEF Refusals, TypeOK

\* A request's steps: each load rules out its reason.
LEMMA RequestHistory ==
  ASSUME TypeOK, NothingLeaks, HistoryInv, NEW r \in Requests, RequestStep(r) \/ Arrive(r), Watch
  PROVE  HistoryInv'
<1>1. UNCHANGED <<pipelineReady, host>> /\ \A t \in Requests \cup Probes : t # r => pc'[t] = pc[t]
  BY DEF TypeOK, RequestStep, Arrive, CheckPipeline, Look, TakePermit, Count, Handle,
         ReleasePermit, Uncount, Reject, Goto
<1>2. \/ pc'[r] \in {First(r), "idle", "reject", "uncount", "refused"}
      \/ /\ pc[r] # "ok"
         /\ \A x \in RuledOut(r, pc'[r]) : x \in RuledOut(r, pc[r]) \/ x \notin Refusals
  <2>1. CASE Arrive(r) \/ ReleasePermit(r) \/ Uncount(r) \/ Reject(r)
    BY <2>1 DEF TypeOK, Arrive, ReleasePermit, Uncount, Reject, Goto, First
  <2>2. CASE CheckPipeline(r)
    <3>1. CASE pipelineReady
      <4>1. pc[r] = "check" /\ pc'[r] = "flag"
        BY <2>2, <3>1 DEF TypeOK, CheckPipeline, Goto
      <4>2. "stopped" \notin Refusals
        BY <3>1 DEF HistoryInv, Refusals, TypeOK
      <4>. QED BY <4>1, <4>2 DEF RuledOut, LookedAt
    <3>2. CASE ~pipelineReady
      BY <2>2, <3>2 DEF TypeOK, CheckPipeline, Goto
    <3>. QED BY <3>1, <3>2
  <2>3. CASE Look(r)
    BY <2>3, LookRulesOut
  <2>4. CASE TakePermit(r)
    <3>1. CASE PermitFree
      <4>1. pc[r] = "permit" /\ pc'[r] = "count"
        BY <2>4, <3>1 DEF TypeOK, TakePermit, Goto
      <4>2. "saturated" \notin Refusals
        BY <3>1, RoomIsReal
      <4>. QED BY <4>1, <4>2 DEF RuledOut, Reasons
    <3>2. CASE ~PermitFree
      BY <2>4, <3>2 DEF TypeOK, TakePermit, Goto
    <3>. QED BY <3>1, <3>2
  <2>5. CASE Count(r) \/ Handle(r)
    <3>1. pc[r] \in {"count", "serve"} /\ pc'[r] \in {"serve", "drain"}
      BY <2>5 DEF TypeOK, Count, Handle, Goto
    <3>. QED BY <3>1 DEF RuledOut
  <2>. QED BY <2>1, <2>2, <2>3, <2>4, <2>5 DEF RequestStep
<1>. QED BY <1>1, <1>2, HistoryKept DEF HistoryInv

\* A probe's steps, likewise.
LEMMA ProbeHistory ==
  ASSUME TypeOK, NothingLeaks, HistoryInv, NEW p \in Probes, ProbeStep(p) \/ Probe(p), Watch
  PROVE  HistoryInv'
<1>1. UNCHANGED <<pipelineReady, host>> /\ \A t \in Requests \cup Probes : t # p => pc'[t] = pc[t]
  BY DEF TypeOK, ProbeStep, Probe, Look, ProbePipeline, ProbeFlight, Goto
<1>2. \/ pc'[p] \in {First(p), "reject", "refused"}
      \/ /\ pc[p] # "ok"
         /\ \A x \in RuledOut(p, pc'[p]) : x \in RuledOut(p, pc[p]) \/ x \notin Refusals
  <2>1. CASE Probe(p)
    BY <2>1 DEF TypeOK, Probe, Goto, First
  <2>2. CASE Look(p)
    BY <2>2, LookRulesOut
  <2>3. CASE ProbePipeline(p)
    <3>1. pc[p] = "pipeline" /\ pc'[p] = IF pipelineReady THEN "flight" ELSE "refused"
      BY <2>3 DEF TypeOK, ProbePipeline, Goto
    <3>2. pipelineReady => "stopped" \notin Refusals
      BY DEF HistoryInv, Refusals, TypeOK
    <3>. QED BY <3>1, <3>2 DEF RuledOut, TypeOK
  <2>4. CASE ProbeFlight(p)
    <3>1. pc[p] = "flight" /\ pc'[p] = IF Saturated THEN "refused" ELSE "ok"
      BY <2>4 DEF TypeOK, ProbeFlight, Goto
    <3>2. ~Saturated => "saturated" \notin Refusals
      BY RoomIsReal
    <3>. QED BY <3>1, <3>2 DEF RuledOut, Reasons
  <2>. QED BY <2>1, <2>2, <2>3, <2>4 DEF ProbeStep
<1>. QED BY <1>1, <1>2, HistoryKept DEF HistoryInv

\* The host, the server and the store move nobody; only Ready raises the flag.
LEMMA OtherHistory ==
  ASSUME TypeOK, NothingLeaks, HistoryInv, Watch,
         \/ Start \/ Ready \/ NotReady \/ Shutdown \/ ShutdownServer
         \/ ServeFails \/ StoreChanges \/ StoreCloses \/ Terminated
  PROVE  HistoryInv'
<1>1. pc' = pc /\ (pipelineReady' => host' = "ready")
  BY DEF HistoryInv, TypeOK, Start, Ready, NotReady, LowerPipelineReady, Shutdown, ShutdownServer,
         ServeFails, StoreChanges, StoreCloses, Terminated
<1>. QED BY <1>1, HistoryKept DEF HistoryInv

\* The histories are as the loads left them, in every reachable state.
THEOREM HistoryInvariance == Spec => []HistoryInv
<1>1. Init => HistoryInv
  <2> SUFFICES ASSUME Init PROVE HistoryInv
    OBVIOUS
  <2>. QED BY DEF Init, HistoryInv
<1>2. TypeOK /\ NothingLeaks /\ HistoryInv /\ [Next]_vars => HistoryInv'
  <2>1. ASSUME HistoryInv, UNCHANGED vars PROVE HistoryInv'
    BY <2>1 DEF HistoryInv, Refusals, Serving
  <2>. QED BY <2>1, RequestHistory, ProbeHistory, OtherHistory DEF Next, Step, Traffic
<1>. QED BY <1>1, <1>2, AdmissionInvariance, PTL DEF Spec

\* /readyz answers ok only if no reason to refuse lasted through the probe.
THEOREM ProbeHonesty == Spec => []ProbeIsHonest
<1>1. TypeOK /\ HistoryInv => ProbeIsHonest
  <2> SUFFICES ASSUME TypeOK, HistoryInv, NEW p \in Probes, pc[p] = "ok"
               PROVE  refusals[p] = {}
    BY DEF ProbeIsHonest
  <2>. QED BY DEF TypeOK, HistoryInv, RuledOut
<1>. QED BY <1>1, AdmissionInvariance, HistoryInvariance, PTL

\* No export holds a permit whose every moment so far had a reason to refuse it.
THEOREM AdmittedIsWelcome == Spec => []ExportsAreWelcome
<1>1. TypeOK /\ HistoryInv => ExportsAreWelcome
  <2> SUFFICES ASSUME TypeOK, HistoryInv, NEW r \in Requests, pc[r] \in {"count", "serve", "drain"}
               PROVE  refusals[r] = {}
    BY DEF ExportsAreWelcome, Permitted
  <2>. QED BY DEF TypeOK, HistoryInv, RuledOut
<1>. QED BY <1>1, AdmissionInvariance, HistoryInvariance, PTL

-----------------------------------------------------------------------------
(* Winding down.                                                            *)

\* The host has withdrawn the pipelines.
Withdrawn == {"notReady", "stopping", "done"}

\* An export has not passed the load of pipelineReady, or is turned away.
Outside == {"idle", "check", "reject"}

\* Withdrawn once, withdrawn for good, and no export passes the check any more:
\* those inside only become fewer.
StaysClosed ==
  host \in Withdrawn =>
    /\ host' \in Withdrawn /\ ~pipelineReady'
    /\ \A r \in Requests : pc[r] \in Outside => pc'[r] \in Outside

\* How many labels an export has still to leave.
LabelsLeft(l) ==
  CASE l = "check" -> 10 [] l = "flag" -> 9 [] l = "wal" -> 8 [] l = "free" -> 7
    [] l = "closing" -> 6 [] l = "permit" -> 5 [] l = "count" -> 4 [] l = "serve" -> 3
    [] l = "drain" -> 2 [] l \in {"uncount", "reject"} -> 1 [] OTHER -> 0

\* An export that entered the middleware is only ever brought nearer to the exit.
ExportAdvances ==
  \A r \in Requests :
    pc[r] # "idle" /\ pc'[r] # pc[r] => LabelsLeft(pc'[r]) < LabelsLeft(pc[r])

\* A step of the exports: one request leaves its label for a later one, and goes
\* past the check only while the flag is up.
LEMMA RequestMoves ==
  ASSUME TypeOK, NEW r \in Requests, RequestStep(r)
  PROVE  /\ \A q \in Requests : q # r => pc'[q] = pc[q]
         /\ LabelsLeft(pc'[r]) < LabelsLeft(pc[r])
         /\ pc[r] \in Outside /\ pc'[r] \notin Outside => pipelineReady
         /\ UNCHANGED <<host, pipelineReady>>
<1>1. \E l \in RequestLabels :
         /\ Goto(r, l) /\ LabelsLeft(l) < LabelsLeft(pc[r])
         /\ pc[r] \in Outside /\ l \notin Outside => pipelineReady
  <2>1. CASE CheckPipeline(r)
    <3>1. pc[r] = "check" /\ ((pipelineReady /\ Goto(r, "flag")) \/ Goto(r, "reject"))
      BY <2>1 DEF CheckPipeline
    <3>2. /\ LabelsLeft("flag") < LabelsLeft("check") /\ LabelsLeft("reject") < LabelsLeft("check")
          /\ "flag" \in RequestLabels /\ "reject" \in RequestLabels
      BY DEF LabelsLeft
    <3>. QED BY <3>1, <3>2 DEF Outside
  <2>2. CASE Look(r)
    BY <2>2 DEF Look, Following, LabelsLeft, Outside
  <2>3. CASE TakePermit(r)
    BY <2>3 DEF TakePermit, LabelsLeft, Outside
  <2>4. CASE Count(r) \/ Handle(r) \/ ReleasePermit(r) \/ Uncount(r) \/ Reject(r)
    BY <2>4 DEF Count, Handle, ReleasePermit, Uncount, Reject, LabelsLeft, Outside
  <2>. QED BY <2>1, <2>2, <2>3, <2>4 DEF RequestStep
<1>2. UNCHANGED <<host, pipelineReady>>
  BY DEF RequestStep, CheckPipeline, Look, TakePermit, Count, Handle, ReleasePermit,
         Uncount, Reject
<1>. QED BY <1>1, <1>2 DEF Goto, TypeOK

\* Every other step leaves the exports alone, but for one that enters.
LEMMA OthersMoveNoExport ==
  ASSUME TypeOK,
         \/ Start \/ Ready \/ NotReady \/ Shutdown \/ ShutdownServer
         \/ ServeFails \/ StoreChanges \/ StoreCloses \/ Terminated \/ UNCHANGED vars
         \/ \E p \in Probes : Probe(p) \/ ProbeStep(p)
         \/ \E r \in Requests : Arrive(r)
  PROVE  \A r \in Requests : pc'[r] # pc[r] => pc[r] = "idle" /\ pc'[r] = "check"
<1>1. CASE \/ Start \/ Ready \/ NotReady \/ Shutdown \/ ShutdownServer
           \/ ServeFails \/ StoreChanges \/ StoreCloses \/ Terminated \/ UNCHANGED vars
  BY <1>1 DEF Start, Ready, NotReady, Shutdown, ShutdownServer, ServeFails, StoreChanges,
              StoreCloses, Terminated
<1>2. ASSUME NEW p \in Probes, Probe(p) \/ ProbeStep(p) PROVE \A r \in Requests : pc'[r] = pc[r]
  BY <1>2 DEF Probe, ProbeStep, Look, ProbePipeline, ProbeFlight, Goto, TypeOK
<1>3. ASSUME NEW q \in Requests, Arrive(q)
      PROVE  \A r \in Requests : pc'[r] # pc[r] => pc[r] = "idle" /\ pc'[r] = "check"
  BY <1>3 DEF Arrive, Goto, TypeOK
<1>. QED BY <1>1, <1>2, <1>3

\* acquire and release: ten steps at most lead an export through the middleware
\* or out of it, whatever the store, the host and the other exports do.  With
\* ReleaseNeverBlocks this is the safety part of EveryExportReturns.
THEOREM ExportsMoveOn == Spec => [][ExportAdvances]_vars
<1>1. ASSUME TypeOK, [Next]_vars PROVE [ExportAdvances]_vars
  <2>1. ASSUME NEW r \in Requests, RequestStep(r) PROVE ExportAdvances
    BY <1>1, <2>1, RequestMoves DEF ExportAdvances
  <2>2. ASSUME \A r \in Requests : pc'[r] # pc[r] => pc[r] = "idle" /\ pc'[r] = "check"
        PROVE  ExportAdvances
    BY <2>2 DEF ExportAdvances
  <2>. QED BY <1>1, <2>1, <2>2, OthersMoveNoExport DEF Next, Step, Traffic
<1>. QED BY <1>1, AdmissionInvariance, PTL DEF Spec

\* NotReady and Shutdown: the flag stays down, also when the status server fails
\* meanwhile or had failed before, and only exports that had passed the check come
\* through.  (Ready after ServeFails raises the flag again; Ready after NotReady
\* does not exist.)
THEOREM NotReadyIsFinal == Spec => [][StaysClosed]_vars
<1>1. ASSUME TypeOK, HistoryInv, HistoryInv', [Next]_vars PROVE [StaysClosed]_vars
  <2>. SUFFICES ASSUME host \in Withdrawn PROVE StaysClosed
    BY DEF StaysClosed
  <2>1. ~pipelineReady
    BY <1>1 DEF HistoryInv, Withdrawn
  <2>2. ASSUME NEW r \in Requests, RequestStep(r) PROVE StaysClosed
    BY <1>1, <2>1, <2>2, RequestMoves DEF StaysClosed
  <2>3. CASE \/ Start \/ Ready \/ NotReady \/ Shutdown \/ ShutdownServer
             \/ ServeFails \/ StoreChanges \/ StoreCloses \/ Terminated \/ UNCHANGED vars
             \/ \E p \in Probes : Probe(p) \/ ProbeStep(p)
             \/ \E r \in Requests : Arrive(r)
    <3>1. host' \in Withdrawn
      BY <2>3 DEF Withdrawn, Start, Ready, NotReady, Shutdown, ShutdownServer, ServeFails,
             StoreChanges, StoreCloses, Terminated, Probe, ProbeStep, Look, ProbePipeline,
             ProbeFlight, Arrive
    <3>2. ~pipelineReady'
      BY <1>1, <3>1 DEF HistoryInv, Withdrawn
    <3>3. \A r \in Requests : pc[r] \in Outside => pc'[r] \in Outside
      BY <1>1, <2>3, OthersMoveNoExport DEF Outside
    <3>. QED BY <3>1, <3>2, <3>3 DEF StaysClosed
  <2>. QED BY <1>1, <2>2, <2>3 DEF Next, Step, Traffic
<1>. QED BY <1>1, AdmissionInvariance, HistoryInvariance, PTL DEF Spec

-----------------------------------------------------------------------------
(* The activity reporter, which reads the counters while they move.        *)

\* Every step of the composition is a step of Admission, or leaves it alone.
LEMMA ActivityStep ==
  ASSUME [ReportingNext]_composed PROVE [Next]_vars
<1>1. CASE (StartReporting \/ StopServer \/ Elsewhere) /\ Watch
  <2>1. Step
    BY <1>1 DEF StartReporting, StopServer, Elsewhere, Step
  <2>. QED BY <1>1, <2>1 DEF Next
<1>2. ASSUME UNCHANGED vars PROVE [Next]_vars
  BY <1>2
<1>3. CASE StopReporting \/ (\E ended \in BOOLEAN : StopWaiting(ended)) \/ LoopStep \/ Leave
  <2>1. UNCHANGED vars
    BY <1>3 DEF StopReporting, StopWaiting, LoopStep, Leave, Load, FirstSample,
                Tick, Decide
  <2>. QED BY <1>2, <2>1
<1>4. CASE UNCHANGED composed
  BY <1>2, <1>4 DEF composed
<1>. QED BY <1>1, <1>3, <1>4 DEF ReportingNext

\* currentActivityState, activityLoop and the stop of the reporter only add to
\* Admission: whatever is proved of the middleware and the probe holds beside them.
THEOREM ReporterOnlyReads == ReportingSpec => Spec
<1>1. ReportingInit => Init
  BY DEF ReportingInit
<1>. QED BY <1>1, ActivityStep, PTL DEF ReportingSpec, Spec

\* The two counters only grow.
LEMMA CountersGrow ==
  ASSUME TypeOK, [Next]_vars PROVE writes <= writes' /\ rejected <= rejected'
<1>1. writes \in Nat /\ rejected \in Nat
  BY DEF TypeOK
<1>2. ASSUME NEW r \in Requests, RequestStep(r) PROVE writes <= writes' /\ rejected <= rejected'
  BY <1>1, <1>2 DEF RequestStep, CheckPipeline, Look, TakePermit, Reject, Count, Handle,
                    ReleasePermit, Uncount
<1>3. ASSUME UNCHANGED <<writes, rejected>> PROVE writes <= writes' /\ rejected <= rejected'
  BY <1>1, <1>3
<1>4. (\E r \in Requests : RequestStep(r)) \/ UNCHANGED <<writes, rejected>>
  BY DEF Next, Step, Traffic, Start, Ready, NotReady, Shutdown, ShutdownServer, Terminated,
         ServeFails, Arrive, Probe, ProbeStep, Look, ProbePipeline, ProbeFlight, StoreChanges,
         StoreCloses
<1>. QED BY <1>2, <1>3, <1>4

\* The first sample and what the lines add to it make up the sample before, which
\* counts nothing as long as there is no first sample; the sample that is being
\* taken is not behind it, field by field, and not ahead of the counters.
SampleInv ==
  /\ previous \in [writes : Nat, storeReady : BOOLEAN, pipelineReady : BOOLEAN,
                   inFlight : Int, rejected : Nat]
  /\ current \in [writes : Nat, storeReady : BOOLEAN, pipelineReady : BOOLEAN,
                  inFlight : Int, rejected : Nat]
  /\ load \in 1 .. 6
  /\ base \in [writes : Nat, rejected : Nat] /\ accounted \in [writes : Nat, rejected : Nat]
  /\ base.writes + accounted.writes = previous.writes
  /\ base.rejected + accounted.rejected = previous.rejected
  /\ loop \in {"idle", "first"} => accounted.writes = 0 /\ accounted.rejected = 0
  /\ host = "new" => loop = "idle"
  /\ previous.writes <= current.writes /\ current.writes <= writes
  /\ previous.rejected <= current.rejected /\ current.rejected <= rejected

\* Other steps leave the samples alone, and the counters grow.  The goroutine is
\* launched by Start, and comes back to no earlier place.
LEMMA SamplesKept ==
  ASSUME TypeOK, TypeOK', SampleInv, writes <= writes', rejected <= rejected',
         UNCHANGED <<load, previous, current, base, accounted>>,
         loop' \in {"idle", "first"} => loop' = loop \/ host = "new",
         host' = "new" => host = "new" /\ loop' = loop
  PROVE  SampleInv'
BY DEF TypeOK, SampleInv

\* One load of currentActivityState.
LEMMA LoadKeeps ==
  ASSUME TypeOK, SampleInv, Load PROVE SampleInv'
<1>. DEFINE f == Fields[load]
<1>1. /\ load \in 1 .. 5 /\ load' = load + 1
      /\ UNCHANGED <<previous, base, accounted, writes, rejected, loop, host>>
      /\ \E v \in Values(f) : current' = [current EXCEPT ![f] = v]
  <2>1. load \in 1 .. 5
    BY DEF Load, Fields, SampleInv
  <2>. QED BY <2>1 DEF Load, vars
<1>2. PICK v \in Values(f) : current' = [current EXCEPT ![f] = v]
  BY <1>1
<1>3. \/ f = "writes" /\ v = writes
      \/ f = "storeReady" /\ v \in BOOLEAN
      \/ f = "pipelineReady" /\ v = pipelineReady
      \/ f = "inFlight" /\ v = inFlight
      \/ f = "rejected" /\ v = rejected
  BY <1>1, <1>2 DEF Fields, Values
<1>. HIDE DEF f
<1>. USE <1>1, <1>2 DEF TypeOK, SampleInv
<1>4. CASE f = "writes" /\ v = writes
  <2>1. current' = [current EXCEPT !.writes = writes]
    BY <1>4
  <2>. QED BY <2>1
<1>5. CASE f = "storeReady" /\ v \in BOOLEAN
  <2>1. current' = [current EXCEPT !.storeReady = v]
    BY <1>5
  <2>. QED BY <1>5, <2>1
<1>6. CASE f = "pipelineReady" /\ v = pipelineReady
  <2>1. current' = [current EXCEPT !.pipelineReady = pipelineReady]
    BY <1>6
  <2>. QED BY <2>1
<1>7. CASE f = "inFlight" /\ v = inFlight
  <2>1. current' = [current EXCEPT !.inFlight = inFlight]
    BY <1>7
  <2>. QED BY <2>1
<1>8. CASE f = "rejected" /\ v = rejected
  <2>1. current' = [current EXCEPT !.rejected = rejected]
    BY <1>8
  <2>. QED BY <2>1
<1>. QED BY <1>3, <1>4, <1>5, <1>6, <1>7, <1>8

\* The first sample, and a tick with or without a line.
LEMMA ReportKeeps ==
  ASSUME TypeOK, SampleInv, FirstSample \/ Decide PROVE SampleInv'
<1>. USE DEF TypeOK, SampleInv
<1>1. CASE FirstSample
  <2>1. /\ load' = 1 /\ loop' = "select" /\ UNCHANGED <<writes, rejected, host, current, accounted>>
        /\ previous' = current
        /\ base' = [writes |-> current.writes, rejected |-> current.rejected]
    BY <1>1 DEF FirstSample, vars
  <2>2. accounted.writes = 0 /\ accounted.rejected = 0 /\ host # "new"
    BY <1>1 DEF FirstSample
  <2>. QED BY <2>1, <2>2
<1>2. CASE Decide
  <2>1. load' = 1 /\ loop' = "select" /\ loop = "tick" /\ UNCHANGED <<writes, rejected, host, base>>
    BY <1>2 DEF Decide, vars
  <2>2. CASE LogActivity /\ Advance /\ UNCHANGED current
    <3>1. /\ accounted' = [writes |-> accounted.writes + CounterDelta(previous.writes, current.writes),
                           rejected |-> accounted.rejected
                             + CounterDelta(previous.rejected, current.rejected)]
          /\ previous' = current /\ current' = current
      BY <2>2 DEF LogActivity, Advance
    <3>2. /\ CounterDelta(previous.writes, current.writes) = current.writes - previous.writes
          /\ CounterDelta(previous.rejected, current.rejected) = current.rejected - previous.rejected
      BY DEF CounterDelta
    <3>. QED BY <2>1, <3>1, <3>2
  <2>3. CASE current' = previous /\ UNCHANGED <<previous, accounted>>
    BY <2>1, <2>3
  <2>. QED BY <1>2, <2>2, <2>3 DEF Decide
<1>. QED BY <1>1, <1>2

\* The samples are ordered in every reachable state of the composition.
THEOREM SamplesAreOrdered == ReportingSpec => []SampleInv
<1>1. ReportingInit => SampleInv
  <2> SUFFICES ASSUME ReportingInit PROVE SampleInv
    OBVIOUS
  <2>1. writes = 0 /\ rejected = 0
    BY DEF ReportingInit, Init
  <2>. QED BY <2>1 DEF ReportingInit, NoSample, SampleInv
<1>2. TypeOK /\ TypeOK' /\ SampleInv /\ [ReportingNext]_composed => SampleInv'
  <2> SUFFICES ASSUME TypeOK, TypeOK', SampleInv, [ReportingNext]_composed PROVE SampleInv'
    OBVIOUS
  <2>1. writes <= writes' /\ rejected <= rejected'
    BY ActivityStep, CountersGrow
  <2>2. ASSUME UNCHANGED <<load, previous, current, base, accounted>>,
               loop' \in {"idle", "first"} => loop' = loop \/ host = "new",
               host' = "new" => host = "new" /\ loop' = loop
        PROVE  SampleInv'
    BY <2>1, <2>2, SamplesKept
  <2>3. CASE StartReporting
    BY <2>2, <2>3 DEF StartReporting, Start
  <2>4. CASE StopServer \/ Elsewhere
    <3>1. UNCHANGED activity
      BY <2>4 DEF StopServer, Elsewhere
    <3>2. host' = "new" => host = "new"
      BY <2>4 DEF StopServer, Elsewhere, ShutdownServer, Ready, NotReady, Shutdown, Traffic,
                  Terminated, ServeFails, Arrive, RequestStep, CheckPipeline, Look, TakePermit,
                  Reject, Count, Handle, ReleasePermit, Uncount, Probe, ProbeStep,
                  ProbePipeline, ProbeFlight, StoreChanges, StoreCloses
    <3>. QED BY <2>2, <3>1, <3>2 DEF activity, goroutine
  <2>5. CASE Tick \/ Leave
    BY <2>2, <2>5 DEF Tick, Leave, SampleInv
  <2>6. CASE StopReporting \/ (\E ended \in BOOLEAN : StopWaiting(ended)) \/ UNCHANGED composed
    BY <2>2, <2>6 DEF StopReporting, StopWaiting, composed, activity, goroutine
  <2>. QED BY <2>3, <2>4, <2>5, <2>6, LoadKeeps, ReportKeeps DEF ReportingNext, LoopStep
<1>3. ReportingSpec => []TypeOK
  BY ReporterOnlyReads, AdmissionInvariance, PTL
<1>. QED BY <1>1, <1>2, <1>3, PTL DEF ReportingSpec

\* The activity lines never add up to more than really happened, although every
\* sample is read field by field while exports are served.
THEOREM LinesNeverExceed == ReportingSpec => []NothingReportedTwice
<1>1. TypeOK /\ SampleInv => NothingReportedTwice
  BY DEF TypeOK, SampleInv, NothingReportedTwice
<1>. QED BY <1>1, SamplesAreOrdered, ReporterOnlyReads, AdmissionInvariance, PTL
=============================================================================
