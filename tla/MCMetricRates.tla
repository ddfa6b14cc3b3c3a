---------------------------- MODULE MCMetricRates ----------------------------
(* Small instances of MetricRates. *)
EXTENDS MetricRates

CONSTANTS a, b

\* One stream of either temporality, and two cumulative ones of one descriptor.
MCKinds ==
  [{a} -> {"delta", "cumulative"}] \cup [{a, b} -> {"cumulative"}]
=============================================================================
