-------------------------- MODULE ClearRequestProofs --------------------------
(***************************************************************************)
(* Proofs that what `logal clear` tells its user is true, for any number   *)
(* of concurrent requests, any number of exports between them and any      *)
(* number of changes of pipelineReady.  Records are numbered in the order  *)
(* in which they are exported, so a record is newer than a request exactly *)
(* when its number is not among those the request found.                   *)
(***************************************************************************)
EXTENDS ClearRequest, TLAPS

Stages == {"new", "sent", "store", "answer", "end"}
Outcomes == {"none", "usage", "cleared", "refused", "unknown"}

\* Records are numbered up to last, in the store and in what requests found.
TypeInv ==
  /\ at \in [Calls -> Stages]
  /\ outcome \in [Calls -> Outcomes]
  /\ effect \in [Calls -> BOOLEAN]
  /\ form = [c \in Calls |-> form[c]]
  /\ status = [c \in Calls |-> status[c]]
  /\ last \in Nat
  /\ old \in [Calls -> SUBSET (1 .. last)]
  /\ rows \in [Signals -> SUBSET (1 .. last)]
  /\ req = [c \in Calls \cup {Exporter} |-> req[c]]
  /\ ans = [c \in Calls \cup {Exporter} |-> ans[c]]

\* An export in flight carries the newest record, which nobody has seen yet.
ExportInv ==
  T!Pending(Exporter) =>
    /\ req[Exporter].sig \in Signals
    /\ req[Exporter].batch = {last}
    /\ last > 0 /\ last \notin All
    /\ \A c \in Calls : last \notin old[c]

\* How far request c has come, and what it has done by then.
RequestInv(c) ==
  /\ at[c] \in {"sent", "store", "answer"} => form[c] \in Form
  /\ at[c] \in {"new", "sent"} => ~effect[c] /\ ans[c] = "none"
  /\ at[c] = "store" => Refusal(form[c]) = 0 /\ (effect[c] <=> ans[c] = "ok")
  /\ at[c] = "answer" => (status[c] = 200 <=> effect[c])
  /\ outcome[c] = "cleared" => effect[c]
  /\ outcome[c] \in {"refused", "usage"} => ~effect[c]
  /\ outcome[c] \in {"cleared", "refused", "usage"} => at[c] = "end"
  /\ effect[c] => old[c] \cap All = {}

IInv == TypeInv /\ ExportInv /\ \A c \in Calls : RequestInv(c)

USE CallersAssumption, RowsAssumption, NullAssumption
USE DEF IInv, TypeInv, Stages, Outcomes, vars, calls, store, T!vars

-----------------------------------------------------------------------------
(* Requests that share nothing with the one that moves.                     *)

\* A request whose own state, and the rows, a step leaves alone keeps its part.
LEMMA Bystander ==
  ASSUME NEW c \in Calls, RequestInv(c),
         form'[c] = form[c], at'[c] = at[c], status'[c] = status[c], outcome'[c] = outcome[c],
         old'[c] = old[c], effect'[c] = effect[c], ans'[c] = ans[c], All' = All
  PROVE  RequestInv(c)'
BY DEF RequestInv, Refusal

\* Nothing an export in flight depends on changes but old, by rows then stored.
LEMMA ExportUnaffected ==
  ASSUME IInv, UNCHANGED <<rows, last>>, req'[Exporter] = req[Exporter], ans'[Exporter] = ans[Exporter],
         \A c \in Calls : old'[c] = old[c] \/ old'[c] = All
  PROVE  ExportInv'
<1>1. All' = All
  BY DEF All
<1>. QED BY <1>1 DEF ExportInv, T!Pending

\* Rows are numbered up to last.
LEMMA AllNumbered ==
  ASSUME TypeInv
  PROVE  All \in SUBSET (1 .. last)
BY DEF All

-----------------------------------------------------------------------------
(* The command line.                                                        *)

\* A command is sent, or refused on the spot.
LEMMA ClearKeeps ==
  ASSUME IInv, NEW c \in Calls, NEW confirm \in BOOLEAN, NEW loopback \in BOOLEAN,
         NEW mine \in BOOLEAN, Clear(c, confirm, loopback, mine)
  PROVE  IInv'
<1>. DEFINE f == [post |-> TRUE, local |-> TRUE, json |-> TRUE, object |-> TRUE, mine |-> mine]
<1>1. f \in Form
  BY DEF Form
<1>. HIDE DEF f
<1>2. /\ at[c] = "new" /\ UNCHANGED <<status, effect, last, up, rows, req, ans>>
      /\ \/ /\ form' = [form EXCEPT ![c] = f] /\ at' = [at EXCEPT ![c] = "sent"]
            /\ old' = [old EXCEPT ![c] = All] /\ outcome' = outcome
         \/ /\ outcome' = [outcome EXCEPT ![c] = "usage"] /\ at' = [at EXCEPT ![c] = "end"]
            /\ UNCHANGED <<form, old>>
  BY DEF Clear, Post, f
<1>3. TypeInv'
  BY <1>2, AllNumbered
<1>4. ExportInv'
  BY <1>2, ExportUnaffected
<1>5. All' = All
  BY <1>2 DEF All
<1>6. RequestInv(c)'
  BY <1>1, <1>2, <1>5 DEF RequestInv
<1>7. ASSUME NEW d \in Calls, d # c PROVE RequestInv(d)'
  BY <1>2, <1>5, <1>7, Bystander
<1>. QED BY <1>3, <1>4, <1>6, <1>7

\* Another client sends any request.
LEMMA ForeignKeeps ==
  ASSUME IInv, NEW c \in Calls, Foreign(c)
  PROVE  IInv'
<1>1. PICK f \in Form : Post(c, f)
  BY DEF Foreign
<1>2. /\ at[c] = "new" /\ UNCHANGED <<status, outcome, effect, last, up, rows, req, ans>>
      /\ form' = [form EXCEPT ![c] = f] /\ at' = [at EXCEPT ![c] = "sent"]
      /\ old' = [old EXCEPT ![c] = All]
  BY <1>1 DEF Foreign, Post
<1>3. TypeInv'
  BY <1>2, AllNumbered
<1>4. ExportInv'
  BY <1>2, ExportUnaffected
<1>5. All' = All
  BY <1>2 DEF All
<1>6. RequestInv(c)'
  BY <1>2, <1>5 DEF RequestInv
<1>7. ASSUME NEW d \in Calls, d # c PROVE RequestInv(d)'
  BY <1>2, <1>5, <1>7, Bystander
<1>. QED BY <1>3, <1>4, <1>6, <1>7

\* The answer arrives, or the client stops waiting for it.
LEMMA DeliverKeeps ==
  ASSUME IInv, NEW c \in Calls, Deliver(c) \/ Lose(c)
  PROVE  IInv'
<1>1. /\ UNCHANGED <<form, status, old, effect, last, up, rows, req, ans>>
      /\ \A d \in Calls : d # c => at'[d] = at[d] /\ outcome'[d] = outcome[d]
  BY DEF Deliver, Lose
<1>2. TypeInv'
  BY <1>1 DEF Deliver, Lose
<1>3. ExportInv'
  BY <1>1, ExportUnaffected
<1>4. All' = All
  BY <1>1 DEF All
<1>5. RequestInv(c)'
  BY <1>1, <1>4 DEF RequestInv, Deliver, Lose
<1>6. ASSUME NEW d \in Calls, d # c PROVE RequestInv(d)'
  BY <1>1, <1>4, <1>6, Bystander
<1>. QED BY <1>2, <1>3, <1>5, <1>6

-----------------------------------------------------------------------------
(* handleClear.                                                             *)

\* A refusal is never mistaken for success.
LEMMA RefusalIsError ==
  ASSUME NEW f \in Form
  PROVE  Refusal(f) # 200
BY DEF Refusal, Form

\* The handler's checks answer with an error or enter the store.
LEMMA HandleKeeps ==
  ASSUME IInv, NEW c \in Calls, Handle(c)
  PROVE  IInv'
<1>1. at[c] = "sent" /\ form[c] \in Form /\ ~effect[c] /\ ans[c] = "none"
  BY DEF Handle, RequestInv
<1>2. UNCHANGED <<form, outcome, old, effect, last, rows>>
  BY DEF Handle, T!Request
<1>3. All' = All
  BY <1>2 DEF All
<1>4. CASE \E code : code # 200 /\ Answer(c, code) /\ UNCHANGED store
  <2>1. PICK code : code # 200 /\ Answer(c, code) /\ UNCHANGED store
    BY <1>4
  <2>2. TypeInv'
    BY <1>1, <1>2, <2>1 DEF Answer
  <2>3. ExportInv'
    BY <1>2, <2>1, ExportUnaffected
  <2>4. RequestInv(c)'
    BY <1>1, <1>2, <1>3, <2>1 DEF RequestInv, Answer
  <2>5. ASSUME NEW d \in Calls, d # c PROVE RequestInv(d)'
    BY <1>2, <1>3, <2>1, <2>5, Bystander DEF Answer
  <2>. QED BY <2>2, <2>3, <2>4, <2>5
<1>5. CASE /\ Refusal(form[c]) = 0 /\ T!Request(c)
           /\ at' = [at EXCEPT ![c] = "store"] /\ UNCHANGED status
  <2>1. req' = [req EXCEPT ![c] = req'[c]] /\ UNCHANGED <<up, ans>>
    BY <1>5 DEF T!Request
  <2>2. TypeInv'
    BY <1>1, <1>2, <1>5, <2>1
  <2>3. ExportInv'
    BY <1>2, <2>1, ExportUnaffected
  <2>4. RequestInv(c)'
    BY <1>1, <1>2, <1>3, <1>5, <2>1 DEF RequestInv, Refusal
  <2>5. ASSUME NEW d \in Calls, d # c PROVE RequestInv(d)'
    BY <1>2, <1>3, <1>5, <2>1, <2>5, Bystander
  <2>. QED BY <2>2, <2>3, <2>4, <2>5
<1>6. Refusal(form[c]) # 200
  BY <1>1, RefusalIsError
<1>7. (Answer(c, Refusal(form[c])) \/ Answer(c, 503)) /\ UNCHANGED store
      => \E code : code # 200 /\ Answer(c, code) /\ UNCHANGED store
  BY <1>6
<1>. QED BY <1>4, <1>5, <1>7 DEF Handle

\* A deletion leaves nothing of what any request has found; a refusal nothing undone.
LEMMA DecideKeeps ==
  ASSUME IInv, NEW c \in Calls, Decide(c)
  PROVE  IInv'
<1>1. /\ at[c] = "store" /\ UNCHANGED <<form, at, status, outcome, old, last>>
      /\ RequestInv(c)
  BY DEF Decide
<1>2. CASE T!ClearAll(c) /\ effect' = [effect EXCEPT ![c] = TRUE]
  <2>1. /\ ans[c] = "none" /\ ans' = [ans EXCEPT ![c] = "ok"] /\ UNCHANGED req
        /\ rows' = [s \in Signals |-> {}]
    BY <1>2 DEF T!ClearAll, T!Decide, T!Pending
  <2>2. All' = {}
    BY <2>1 DEF All
  <2>3. TypeInv'
    BY <1>1, <1>2, <2>1
  <2>4. ExportInv'
    BY <1>1, <2>1, <2>2 DEF ExportInv, T!Pending
  <2>5. RequestInv(c)'
    BY <1>1, <1>2, <2>1, <2>2 DEF RequestInv, Refusal
  <2>6. ASSUME NEW d \in Calls, d # c PROVE RequestInv(d)'
    BY <1>1, <1>2, <2>1, <2>2, <2>6 DEF RequestInv, Refusal
  <2>. QED BY <2>3, <2>4, <2>5, <2>6
<1>3. CASE T!Refuse(c) /\ UNCHANGED effect
  <2>1. /\ ans[c] = "none" /\ ans' = [ans EXCEPT ![c] = "error"] /\ UNCHANGED <<req, rows>>
    BY <1>3 DEF T!Refuse, T!Decide, T!Pending
  <2>2. All' = All
    BY <2>1 DEF All
  <2>3. TypeInv'
    BY <1>1, <1>3, <2>1
  <2>4. ExportInv'
    BY <1>1, <2>1, ExportUnaffected
  <2>5. RequestInv(c)'
    BY <1>1, <1>3, <2>1, <2>2 DEF RequestInv, Refusal
  <2>6. ASSUME NEW d \in Calls, d # c PROVE RequestInv(d)'
    BY <1>1, <1>3, <2>1, <2>2, <2>6, Bystander
  <2>. QED BY <2>3, <2>4, <2>5, <2>6
<1>. QED BY <1>2, <1>3 DEF Decide

\* The status says whether this request has deleted.
LEMMA RespondKeeps ==
  ASSUME IInv, NEW c \in Calls, Respond(c)
  PROVE  IInv'
<1>1. /\ at[c] = "store" /\ UNCHANGED <<form, outcome, old, effect, last, rows>>
      /\ status' = [status EXCEPT ![c] = StatusCode(c)] /\ at' = [at EXCEPT ![c] = "answer"]
      /\ req' = [req EXCEPT ![c] = Null] /\ ans' = [ans EXCEPT ![c] = "none"]
  BY DEF Respond, Answer, T!Reply
<1>2. All' = All
  BY <1>1 DEF All
<1>3. TypeInv'
  BY <1>1
<1>4. ExportInv'
  BY <1>1, ExportUnaffected
<1>5. StatusCode(c) = 200 <=> ans[c] = "ok"
  BY DEF StatusCode
<1>6. RequestInv(c)'
  BY <1>1, <1>2, <1>5 DEF RequestInv
<1>7. ASSUME NEW d \in Calls, d # c PROVE RequestInv(d)'
  BY <1>1, <1>2, <1>7, Bystander
<1>. QED BY <1>3, <1>4, <1>6, <1>7

-----------------------------------------------------------------------------
(* Exports and the host.                                                    *)

\* A new export carries a record that no request can have found.
LEMMA ExportBeginKeeps ==
  ASSUME IInv, last < MaxRow, T!Request(Exporter), req'[Exporter].batch = {last + 1},
         last' = last + 1, UNCHANGED calls
  PROVE  IInv'
<1>1. PICK s \in Signals, b \in SUBSET (1 .. MaxRow) :
        req' = [req EXCEPT ![Exporter] = [sig |-> s, batch |-> b]]
  BY DEF T!Request
<1>2. UNCHANGED <<rows, ans>> /\ req'[Exporter] = [sig |-> s, batch |-> b]
  BY <1>1 DEF T!Request
<1>3. All' = All /\ last + 1 \notin All /\ \A c \in Calls : last + 1 \notin old[c]
  BY <1>2, AllNumbered DEF All
<1>4. TypeInv'
  <2>1. (1 .. last) \subseteq (1 .. last') /\ last' \in Nat
    OBVIOUS
  <2>2. old' \in [Calls -> SUBSET (1 .. last')] /\ rows' \in [Signals -> SUBSET (1 .. last')]
    BY <1>2, <2>1
  <2>3. req' = [d \in Calls \cup {Exporter} |-> req'[d]]
    BY <1>1
  <2>. QED BY <1>2, <2>1, <2>2, <2>3
<1>5. ExportInv'
  <2>1. req'[Exporter].sig \in Signals
    BY <1>2
  <2>. QED BY <1>3, <2>1 DEF ExportInv
<1>6. ASSUME NEW d \in Calls PROVE RequestInv(d)'
  BY <1>2, <1>3, <1>6, Bystander
<1>. QED BY <1>4, <1>5, <1>6

\* What an export commits after a deletion is newer than the deletion.
LEMMA ExportEndKeeps ==
  ASSUME IInv, T!Store(Exporter) \/ T!Refuse(Exporter) \/ T!Reply(Exporter),
         UNCHANGED <<calls, last>>
  PROVE  IInv'
<1>1. CASE T!Store(Exporter)
  <2>. DEFINE s == req[Exporter].sig
  <2>1. /\ T!Pending(Exporter) /\ ans' = [ans EXCEPT ![Exporter] = "ok"] /\ UNCHANGED req
        /\ rows' = [rows EXCEPT ![s] = @ \cup req[Exporter].batch]
    BY <1>1 DEF T!Store, T!Decide
  <2>2. /\ s \in Signals /\ req[Exporter].batch = {last}
        /\ \A c \in Calls : last \notin old[c]
    BY <2>1 DEF ExportInv
  <2>3. last \in 1 .. last
    BY <2>1 DEF ExportInv
  <2>4. All' = All \cup {last}
    BY <2>1, <2>2 DEF All
  <2>5. TypeInv'
    BY <2>1, <2>2, <2>3
  <2>6. ExportInv'
    BY <2>1 DEF ExportInv, T!Pending
  <2>7. ASSUME NEW d \in Calls PROVE RequestInv(d)'
    BY <2>1, <2>2, <2>4, <2>7 DEF RequestInv, Refusal
  <2>. QED BY <2>5, <2>6, <2>7
<1>2. CASE T!Refuse(Exporter) \/ T!Reply(Exporter)
  <2>1. /\ UNCHANGED rows /\ req' = [req EXCEPT ![Exporter] = req'[Exporter]]
        /\ ans' = [ans EXCEPT ![Exporter] = ans'[Exporter]]
        /\ ans'[Exporter] = "error" \/ req'[Exporter] = Null
    BY <1>2 DEF T!Refuse, T!Decide, T!Reply
  <2>2. All' = All
    BY <2>1 DEF All
  <2>3. TypeInv'
    BY <2>1
  <2>4. ExportInv'
    BY <2>1 DEF ExportInv, T!Pending
  <2>5. ASSUME NEW d \in Calls PROVE RequestInv(d)'
    BY <2>1, <2>2, <2>5, Bystander
  <2>. QED BY <2>3, <2>4, <2>5
<1>. QED BY <1>1, <1>2

\* Opening the store and turning readiness over change no request.
LEMMA HostKeeps ==
  ASSUME IInv, Host \/ UNCHANGED vars
  PROVE  IInv'
<1>1. UNCHANGED <<calls, last, rows, req, ans>>
  BY DEF Host, T!Open
<1>2. All' = All
  BY <1>1 DEF All
<1>3. TypeInv'
  BY <1>1
<1>4. ExportInv'
  BY <1>1, ExportUnaffected
<1>5. ASSUME NEW d \in Calls PROVE RequestInv(d)'
  BY <1>1, <1>2, <1>5, Bystander
<1>. QED BY <1>3, <1>4, <1>5

-----------------------------------------------------------------------------
(* The theorems.                                                            *)

\* Nothing has been sent, exported or stored at the start.
LEMMA InitEstablishes ==
  ASSUME Init
  PROVE  IInv
<1>1. TypeInv
  BY DEF Init, T!Init, T!Callers
<1>2. ExportInv
  BY DEF Init, T!Init, T!Callers, ExportInv, T!Pending
<1>3. ASSUME NEW c \in Calls PROVE RequestInv(c)
  BY <1>3 DEF Init, T!Init, T!Callers, RequestInv
<1>. QED BY <1>1, <1>2, <1>3

\* Every step keeps the invariant.
LEMMA NextKeeps ==
  ASSUME IInv, [Next]_vars
  PROVE  IInv'
<1>. HIDE DEF IInv, TypeInv
<1>1. CASE \E c \in Calls : \E confirm, loopback, mine \in BOOLEAN : Clear(c, confirm, loopback, mine)
  BY <1>1, ClearKeeps
<1>2. CASE \E c \in Calls : Foreign(c) \/ Deliver(c) \/ Lose(c) \/ Handle(c) \/ Decide(c) \/ Respond(c)
  BY <1>2, ForeignKeeps, DeliverKeeps, HandleKeeps, DecideKeeps, RespondKeeps
<1>3. CASE Export
  BY <1>3, ExportBeginKeeps, ExportEndKeeps DEF Export
<1>4. CASE Host \/ UNCHANGED vars
  BY <1>4, HostKeeps
<1>. QED BY <1>1, <1>2, <1>3, <1>4 DEF Next

\* Every reachable state satisfies the invariant.
THEOREM ClearInvariance == Spec => []IInv
<1>1. Init => IInv
  BY InitEstablishes
<1>2. IInv /\ [Next]_vars => IInv'
  BY NextKeeps
<1>. QED BY <1>1, <1>2, PTL DEF Spec

\* Success means that no row of the time of the request is left, whatever was
\* exported meanwhile.
THEOREM SuccessMeansGone == Spec => []ClearedMeansGone
<1>1. IInv => ClearedMeansGone
  BY DEF RequestInv, ClearedMeansGone
<1>. QED BY <1>1, ClearInvariance, PTL

\* An error status or a usage error means that this request deletes nothing.
THEOREM ErrorMeansKept == Spec => []RefusedMeansKept
<1>1. IInv => RefusedMeansKept
  BY DEF RequestInv, RefusedMeansKept
<1>. QED BY <1>1, ClearInvariance, PTL

\* Only a well-formed request from this host, for this database, deletes rows.
THEOREM DeletionIsConfirmed == Spec => OnlyConfirmed
<1>. DEFINE Confirmed == \E c \in Calls :
       /\ at[c] = "store"
       /\ form[c] = [post |-> TRUE, local |-> TRUE, json |-> TRUE, object |-> TRUE, mine |-> TRUE]
<1>1. ASSUME IInv, [Next]_vars, ~(All \subseteq All')
      PROVE  Confirmed
  <2>1. CASE \E c \in Calls : Decide(c)
    <3>1. PICK c \in Calls : Decide(c)
      BY <2>1
    <3>2. rows' # rows
      BY <1>1 DEF All
    <3>3. at[c] = "store" /\ MayDelete(c) /\ form[c] \in Form /\ Refusal(form[c]) = 0
      BY <1>1, <3>1, <3>2 DEF Decide, T!Refuse, RequestInv
    <3>4. form[c].post /\ form[c].local /\ form[c].json /\ form[c].object /\ form[c].mine
      BY <3>3 DEF MayDelete, Refusal, Form
    <3>5. form[c] = [post |-> TRUE, local |-> TRUE, json |-> TRUE, object |-> TRUE, mine |-> TRUE]
      BY <3>3, <3>4 DEF Form
    <3>. QED BY <3>3, <3>5
  <2>2. CASE ~\E c \in Calls : Decide(c)
    <3>1. \/ UNCHANGED rows
          \/ T!Store(Exporter)
      BY <1>1, <2>2 DEF Next, Clear, Foreign, Deliver, Lose, Handle, Respond, Export, Host,
         T!Request, T!Reply, T!Refuse, T!Open
    <3>2. ASSUME T!Store(Exporter) PROVE \A s \in Signals : rows[s] \subseteq rows'[s]
      BY <1>1, <3>2 DEF T!Store
    <3>. QED BY <1>1, <3>1, <3>2 DEF All
  <2>. QED BY <2>1, <2>2
<1>2. IInv /\ [Next]_vars
      => [All' # All /\ ~(All \subseteq All') => Confirmed]_vars
  BY <1>1
<1>. QED BY <1>2, ClearInvariance, PTL DEF Spec, OnlyConfirmed
=============================================================================
