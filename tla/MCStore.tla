------------------------------- MODULE MCStore -------------------------------
(* Small instances of Store: a log, and two contents of one span identity.   *)
EXTENDS StoreInvariant, TLC

CONSTANTS l1, s1, s1x

MCSpanKey == s1 :> "A" @@ s1x :> "A"

\* The log, and both contents of the span, in one batch or in several.
MixRecords ==
  [s \in Signals |-> CASE s = "logs" -> {l1} [] s = "spans" -> {s1, s1x} [] OTHER -> {}]

\* One span and nothing else.
OneSpan == [s \in Signals |-> IF s = "spans" THEN {s1} ELSE {}]

\* The log is there from an earlier run.
OldLog == [s \in Signals |-> IF s = "logs" THEN {l1} ELSE {}]

NoRows == [s \in Signals |-> {}]

\* Exporters are alike, and so are the two contents of the span.
StoreSymmetry == Permutations(Exporters) \cup Permutations({s1, s1x})
=============================================================================
