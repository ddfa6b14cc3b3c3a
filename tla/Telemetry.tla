------------------------------ MODULE Telemetry ------------------------------
(***************************************************************************)
(* What the store promises its callers, whatever happens inside: an export *)
(* is stored entirely or not at all, a span identity never holds two       *)
(* contents, a clear empties every signal at once, and nothing moves while *)
(* the store is closed.  Store.tla implements this specification.          *)
(***************************************************************************)
EXTENDS Integers

CONSTANTS
  Clients,     \* callers of InsertLogs, InsertSpans, InsertMetricPoints
  Clearers,    \* callers of Clear
  Signals,     \* the telemetry tables
  Records,     \* Records[s]: the fingerprints a table can hold
  SpanKey,     \* SpanKey[r]: the (trace_id, span_id) of span content r
  InitialRows, \* rows of the database that Start opens
  Null         \* no request

VARIABLES
  up,      \* the database handle is open
  rows,    \* rows[s]: the committed fingerprints of table s
  req,     \* req[c]: the batch client c wants stored
  ans      \* ans[c]: the outcome of c's request, "none" until it is decided

vars == <<up, rows, req, ans>>

Callers == Clients \cup Clearers

\* The value a table's uniqueness constraint ranges over.
Key(s, r) == IF s = "spans" THEN SpanKey[r] ELSE r

\* Another content already holds the key of one of the records.
Conflicts(s, new, old) ==
  \E r \in new, q \in old : Key(s, r) = Key(s, q) /\ r # q

Init ==
  /\ up = FALSE
  /\ rows = InitialRows
  /\ req = [c \in Callers |-> Null]
  /\ ans = [c \in Callers |-> "none"]

Open == ~up /\ up' = TRUE /\ UNCHANGED <<rows, req, ans>>

Close == up /\ up' = FALSE /\ UNCHANGED <<rows, req, ans>>

Request(c) ==
  /\ req[c] = Null
  /\ \/ /\ c \in Clients
        /\ \E s \in Signals : \E b \in SUBSET Records[s] :
             req' = [req EXCEPT ![c] = [sig |-> s, batch |-> b]]
     \/ /\ c \in Clearers
        /\ req' = [req EXCEPT ![c] = "clear"]
  /\ UNCHANGED <<up, rows, ans>>

Pending(c) == req[c] # Null /\ ans[c] = "none"

Decide(c, a) == Pending(c) /\ ans' = [ans EXCEPT ![c] = a] /\ UNCHANGED <<up, req>>

\* The whole batch becomes durable in the step that decides "ok".
Store(c) ==
  /\ c \in Clients
  /\ up
  /\ Decide(c, "ok")
  /\ LET s == req[c].sig
         b == req[c].batch
     IN  /\ ~Conflicts(s, b, rows[s] \cup b)
         /\ rows' = [rows EXCEPT ![s] = @ \cup b]

\* A batch that contradicts stored or its own span content stores nothing.
Contradict(c) ==
  /\ c \in Clients
  /\ up
  /\ Decide(c, "conflict")
  /\ Conflicts(req[c].sig, req[c].batch, rows[req[c].sig] \cup req[c].batch)
  /\ UNCHANGED rows

ClearAll(c) ==
  /\ c \in Clearers
  /\ up
  /\ Decide(c, "ok")
  /\ rows' = [s \in Signals |-> {}]

Refuse(c) == Decide(c, "error") /\ UNCHANGED rows

Reply(c) ==
  /\ ans[c] # "none"
  /\ req' = [req EXCEPT ![c] = Null]
  /\ ans' = [ans EXCEPT ![c] = "none"]
  /\ UNCHANGED <<up, rows>>

\* Retention and eviction only ever remove rows.
Discard ==
  /\ up
  /\ rows' \in [Signals -> SUBSET UNION {rows[s] : s \in Signals}]
  /\ \A s \in Signals : rows'[s] \subseteq rows[s]
  /\ UNCHANGED <<up, req, ans>>

Next ==
  \/ Open \/ Close \/ Discard
  \/ \E c \in Callers :
       Request(c) \/ Store(c) \/ Contradict(c) \/ ClearAll(c) \/ Refuse(c) \/ Reply(c)

Spec == Init /\ [][Next]_vars
=============================================================================
