----------------------------- MODULE ClearRequest -----------------------------
(***************************************************************************)
(* `logal clear` from the command line to the store and back: the CLI's    *)
(* checks, one POST to /clear of a running collector, the handler's checks *)
(* and its call of Clear, exports that commit meanwhile, and a client that *)
(* may stop waiting at any time.  The store is the one of Telemetry.tla.   *)
(***************************************************************************)
EXTENDS Integers, FiniteSets

CONSTANTS
  Calls,     \* clear requests
  Exporter,  \* an export goroutine
  Null,
  MaxRow,    \* bound: records ever exported, numbered in order
  MaxFlips,  \* bound: changes of pipelineReady
  MaxWrong   \* bound: defects of one request

Signals == {"logs", "spans", "metrics"}

ASSUME CallersAssumption == Exporter \notin Calls

ASSUME RowsAssumption == MaxRow \in Nat

ASSUME NullAssumption ==
  /\ Null # "clear"
  /\ \A s \in Signals : \A b \in SUBSET (1 .. MaxRow) : Null # [sig |-> s, batch |-> b]

\* What a request looks like to handleClear: method, peer and headers, content
\* type, body, and whether the path names the database of this collector.
Form == [post : BOOLEAN, local : BOOLEAN, json : BOOLEAN, object : BOOLEAN,
         mine : BOOLEAN]

VARIABLES
  form,     \* form[c]: the request of call c
  at,       \* at[c]: "new", "sent", "store", "answer", "end"
  status,   \* status[c]: the HTTP status
  outcome,  \* what the caller was told: "none", "usage", "cleared", "refused"
            \* or "unknown"
  old,      \* old[c]: the rows that were stored when the request was sent
  effect,   \* effect[c]: call c has deleted
  pipelineReady, flips,
  last,     \* the last record exported
  up, rows, req, ans \* the store

store == <<up, rows, req, ans>>
calls == <<form, at, status, outcome, old, effect>>
vars == <<calls, pipelineReady, flips, last, store>>

T == INSTANCE Telemetry WITH
  Clients <- {Exporter}, Clearers <- Calls, Records <- [s \in Signals |-> 1 .. MaxRow],
  SpanKey <- [r \in 1 .. MaxRow |-> r], InitialRows <- [s \in Signals |-> {}]

All == UNION {rows[s] : s \in Signals}

Init ==
  /\ form = [c \in Calls |-> Null]
  /\ at = [c \in Calls |-> "new"]
  /\ status = [c \in Calls |-> Null]
  /\ outcome = [c \in Calls |-> "none"]
  /\ old = [c \in Calls |-> {}]
  /\ effect = [c \in Calls |-> FALSE]
  /\ pipelineReady = FALSE
  /\ flips = 0
  /\ last = 0
  /\ T!Init

-----------------------------------------------------------------------------
(* The command line.                                                       *)

Post(c, f) ==
  /\ form' = [form EXCEPT ![c] = f]
  /\ at' = [at EXCEPT ![c] = "sent"]
  /\ old' = [old EXCEPT ![c] = All]

\* `logal clear` with or without --confirm, for an endpoint that clearEndpoint
\* accepts or not, and for some database.
Clear(c, confirm, loopback, mine) ==
  /\ at[c] = "new"
  /\ IF confirm /\ loopback
     THEN /\ Post(c, [post |-> TRUE, local |-> TRUE, json |-> TRUE, object |-> TRUE,
                      mine |-> mine])
          /\ UNCHANGED outcome
     ELSE /\ outcome' = [outcome EXCEPT ![c] = "usage"]
          /\ at' = [at EXCEPT ![c] = "end"]
          /\ UNCHANGED <<form, old>>
  /\ UNCHANGED <<status, effect, pipelineReady, flips, last, store>>

\* Some other program talks to the endpoint; at most MaxWrong checks fail.
Foreign(c) ==
  /\ at[c] = "new"
  /\ \E f \in Form : Cardinality({k \in DOMAIN f : ~f[k]}) <= MaxWrong /\ Post(c, f)
  /\ UNCHANGED <<status, outcome, effect, pipelineReady, flips, last, store>>

\* The CLI reads the answer.
Deliver(c) ==
  /\ at[c] = "answer" /\ outcome[c] = "none"
  /\ outcome' = [outcome EXCEPT ![c] = IF status[c] = 200 THEN "cleared" ELSE "refused"]
  /\ at' = [at EXCEPT ![c] = "end"]
  /\ UNCHANGED <<form, status, old, effect, pipelineReady, flips, last, store>>

\* The client's deadline, or the connection breaks: the handler may go on.
Lose(c) ==
  /\ at[c] \in {"sent", "store", "answer"} /\ outcome[c] = "none"
  /\ outcome' = [outcome EXCEPT ![c] = "unknown"]
  /\ UNCHANGED <<form, at, status, old, effect, pipelineReady, flips, last, store>>

-----------------------------------------------------------------------------
(* handleClear.                                                            *)

\* Mutant of Refusal: a request without the confirming headers is served.
RefusalOfBody(f) ==
  CASE ~f.post -> 405
    [] f.post /\ ~f.json -> 415
    [] f.post /\ f.json /\ ~f.object -> 400
    [] OTHER -> 0

\* The first check that fails; 0 if none does.
Refusal(f) ==
  CASE ~f.post -> 405
    [] f.post /\ ~f.local -> 403
    [] f.post /\ f.local /\ ~f.json -> 415
    [] f.post /\ f.local /\ f.json /\ ~f.object -> 400
    [] OTHER -> 0

Answer(c, code) ==
  /\ status' = [status EXCEPT ![c] = code]
  /\ at' = [at EXCEPT ![c] = "answer"]

\* The checks of the request and of pipelineReady, then the call of Clear.
Handle(c) ==
  /\ at[c] = "sent"
  /\ \/ /\ Refusal(form[c]) # 0
        /\ Answer(c, Refusal(form[c]))
        /\ UNCHANGED store
     \/ /\ Refusal(form[c]) = 0 /\ ~pipelineReady
        /\ Answer(c, 503)
        /\ UNCHANGED store
     \/ /\ Refusal(form[c]) = 0 /\ pipelineReady
        /\ T!Request(c)
        /\ at' = [at EXCEPT ![c] = "store"]
        /\ UNCHANGED status
  /\ UNCHANGED <<form, outcome, old, effect, pipelineReady, flips, last>>

\* Mutant of MayDelete: the path is not compared.
MayDeleteAny(c) == TRUE

\* Clear goes on only if the request names this database.
MayDelete(c) == form[c].mine

\* Clear commits, or gives up with nothing deleted: another database, a closed
\* store, the five seconds of handleClear, a client that went away, a failure.
Decide(c) ==
  /\ at[c] = "store"
  /\ \/ MayDelete(c) /\ T!ClearAll(c) /\ effect' = [effect EXCEPT ![c] = TRUE]
     \/ T!Refuse(c) /\ UNCHANGED effect
  /\ UNCHANGED <<form, at, status, outcome, old, pipelineReady, flips, last>>

\* Mutant of StatusCode: the result is not looked at.
AlwaysOK(c) == 200

\* Mutant of StatusCode: pipelineReady is looked at again after the deletion.
StatusIfReady(c) == IF ans[c] = "ok" /\ pipelineReady THEN 200 ELSE 503

\* The result, 409 for ErrDatabaseMismatch, 503 for everything else.
StatusCode(c) ==
  IF ans[c] = "ok" THEN 200 ELSE IF ~form[c].mine THEN 409 ELSE 503

\* The handler writes the result or the error.
Respond(c) ==
  /\ at[c] = "store"
  /\ T!Reply(c)
  /\ Answer(c, StatusCode(c))
  /\ UNCHANGED <<form, outcome, old, effect, pipelineReady, flips, last>>

-----------------------------------------------------------------------------
(* The rest of the collector.                                              *)

\* An export begins, commits or fails, and returns.
Export ==
  /\ \/ /\ last < MaxRow
        /\ T!Request(Exporter)
        /\ req'[Exporter].batch = {last + 1}
        /\ last' = last + 1
     \/ (T!Store(Exporter) \/ T!Refuse(Exporter) \/ T!Reply(Exporter)) /\ UNCHANGED last
  /\ UNCHANGED <<calls, pipelineReady, flips>>

\* The host: the store opens, Ready and NotReady.
Host ==
  /\ \/ T!Open /\ UNCHANGED <<pipelineReady, flips>>
     \/ /\ up /\ flips < MaxFlips
        /\ pipelineReady' = ~pipelineReady
        /\ flips' = flips + 1
        /\ UNCHANGED store
  /\ UNCHANGED <<calls, last>>

Next ==
  \/ \E c \in Calls :
       \/ \E confirm, loopback, mine \in BOOLEAN : Clear(c, confirm, loopback, mine)
       \/ Foreign(c) \/ Deliver(c) \/ Lose(c) \/ Handle(c) \/ Decide(c) \/ Respond(c)
  \/ Export \/ Host

Spec == Init /\ [][Next]_vars

-----------------------------------------------------------------------------
(* Properties.                                                             *)

\* clear, handleClear, Clear: success means that nothing is left of what was
\* stored when the command was given; only later exports remain.
ClearedMeansGone == \A c \in Calls : outcome[c] = "cleared" => old[c] \cap All = {}

\* An HTTP error means that this request has deleted nothing, now or later, and
\* a usage error that none was sent; only a timeout leaves the question open.
RefusedMeansKept ==
  \A c \in Calls : outcome[c] \in {"refused", "usage"} => ~effect[c]

\* Rows disappear only for a confirmed local request about this database.
OnlyConfirmed ==
  [][All' # All /\ ~(All \subseteq All') =>
       \E c \in Calls : /\ at[c] = "store"
                        /\ form[c] = [post |-> TRUE, local |-> TRUE, json |-> TRUE,
                                      object |-> TRUE, mine |-> TRUE]]_vars
=============================================================================
