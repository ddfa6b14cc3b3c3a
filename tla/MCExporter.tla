----------------------------- MODULE MCExporter -----------------------------
(* Small instances of Exporter. *)
EXTENDS Exporter

Context(v) == [kind |-> "context", valid |-> v, bytes |-> 0, row |-> ""]
Descriptor(v) == [kind |-> "descriptor", valid |-> v, bytes |-> 0, row |-> ""]
Record(v, n, x) == [kind |-> "record", valid |-> v, bytes |-> n, row |-> x]

\* Logs that end in an invalid record, metrics that exceed the limit of size or of
\* descriptors, and span contents "u1" and "u2" of one identity, the second one at
\* the limits of number and size.
MCParts ==
  [ lastbad |-> <<Context(TRUE), Record(TRUE, 1, "a"), Record(FALSE, 1, "c")>>,
    large   |-> <<Descriptor(TRUE), Record(TRUE, 2, "b"), Record(TRUE, 2, "d")>>,
    wide    |-> <<Descriptor(TRUE), Descriptor(TRUE), Descriptor(TRUE), Record(TRUE, 1, "d")>>,
    span1   |-> <<Context(TRUE), Record(TRUE, 1, "u1")>>,
    span2   |-> <<Context(TRUE), Record(TRUE, 1, "w"), Record(TRUE, 2, "u2")>> ]

MCSignal == [r \in Requests |->
  CASE r \in {"span1", "span2"} -> "spans" [] r = "lastbad" -> "logs" [] OTHER -> "metrics"]

MCSpanKey == [row \in {"u1", "u2", "w"} |-> IF row = "w" THEN row ELSE "u"]
=============================================================================
