----------------------------- MODULE MetricRates -----------------------------
(***************************************************************************)
(* `logal metrics rate`: counters that really count, SDKs that export them *)
(* with delta or cumulative temporality, restart and lose their state, a   *)
(* network that delivers points late, in any order or never, retention,    *)
(* and the SQL of metricRates over any selected window.                    *)
(***************************************************************************)
EXTENDS Integers, Sequences, FiniteSets

CONSTANTS
  Kinds,    \* the possible values of kind
  Null,     \* SQL NULL: a missing or non-finite value
  MaxTime,  \* bound: last value of the clock
  MaxStep,  \* bound: increments between two values of the clock
  MaxSent   \* bound: points exported; one less for every stream but the first

ASSUME RateAssumption ==
  /\ \A k \in Kinds : IsFiniteSet(DOMAIN k)
  /\ \A k \in Kinds : k \in [DOMAIN k -> {"delta", "cumulative", "unspecified", "gauge"}]
  /\ MaxTime \in Nat \ {0} /\ MaxStep \in Nat /\ MaxSent \in Nat
  /\ Null \notin Int

VARIABLES
  kind,   \* kind[s]: "delta", "cumulative", "unspecified" or "gauge"
  clock,
  total,  \* total[s][t]: what really was counted in stream s before time t
  begun,  \* begun[s]: start of the interval the SDK is counting in
  sent,   \* points on their way, or lost
  rows    \* otel_metric_points: rows[id]

vars == <<kind, clock, total, begun, sent, rows>>

Times == 0 .. MaxTime

\* OTLP streams: full resource, scope, metric and point identity.
Series == DOMAIN kind

\* The points that may be exported, and stored.
Budget == MaxSent + 1 - Cardinality(Series)

\* Time 0 stands for an unset OTLP timestamp.
Init ==
  /\ kind \in Kinds
  /\ clock = 1
  /\ total = [s \in Series |-> [t \in Times |-> 0]]
  /\ begun = [s \in Series |-> 1]
  /\ sent = {}
  /\ rows = <<>>

\* Time passes and the instruments count.
Advance ==
  /\ clock < MaxTime
  /\ clock' = clock + 1
  /\ \E n \in [Series -> 0 .. MaxStep] :
       total' = [s \in Series |->
                  [total[s] EXCEPT ![clock + 1] = total[s][clock] + n[s]]]
  /\ UNCHANGED <<kind, begun, sent, rows>>

\* The process behind a stream restarts: it counts from zero, with a new start.
Restart(s) ==
  /\ begun[s] < clock
  /\ begun' = [begun EXCEPT ![s] = clock]
  /\ UNCHANGED <<kind, clock, total, sent, rows>>

\* What projectNumberPoint makes of a data point of stream s at this time.
Point(s, start, value, flags) ==
  [series |-> s, start |-> start, time |-> clock, value |-> value, flags |-> flags]

\* The SDK exports the stream: what it counted, without a start time, without
\* a recorded value, or without a finite one.  A delta stream that saw its
\* export fail goes on with the interval, which may have arrived all the same.
Export(s) ==
  /\ Cardinality(sent) < Budget
  /\ LET counted == total[s][clock] - total[s][begun[s]]
     IN  \E x \in {<<begun[s], counted, 0>>, <<0, counted, 0>>,
                   <<begun[s], 0, 1>>, <<begun[s], Null, 0>>} :
           sent' = sent \cup {Point(s, x[1], x[2], x[3])}
  /\ \/ begun' = begun
     \/ kind[s] = "delta" /\ begun' = [begun EXCEPT ![s] = clock]
  /\ UNCHANGED <<kind, clock, total, rows>>

\* InsertMetricPoints: the fingerprint is unique, a repeated point is ignored.
\* The exporter stamped the point before it waited for the writer, so rows need
\* not be in the order of receipt.  Retention deletes by receipt time, which is
\* a window that starts later.
Store(p) ==
  /\ Len(rows) < Budget
  /\ \A id \in DOMAIN rows : rows[id].point # p
  /\ \E now \in p.time .. clock : rows' = Append(rows, [point |-> p, received |-> now])
  /\ UNCHANGED <<kind, clock, total, begun, sent>>

Next ==
  \/ Advance
  \/ \E s \in Series : Restart(s) \/ Export(s)
  \/ \E p \in sent : Store(p)

Spec == Init /\ [][Next]_vars

-----------------------------------------------------------------------------
(* The query.  S is the set of the selected ids.                            *)

\* The time that --time names.
TimeOf(basis, id) == IF basis = "event" THEN rows[id].point.time ELSE rows[id].received

\* otelWhere: since is inclusive, until exclusive; no --until is a late one.
Selected(basis, since, until) ==
  {id \in DOMAIN rows : since <= TimeOf(basis, id) /\ TimeOf(basis, id) < until}

At(id) == rows[id].point

KindOf(id) == kind[At(id).series]

\* Mutant of SameStream: grouped by descriptor, without the point attributes.
SameDescriptor(i, j) == KindOf(i) = KindOf(j)

\* PARTITION BY seriesIdentity.
SameStream(i, j) == At(i).series = At(j).series

\* ORDER BY time_unix_nano, id.
Before(i, j) == At(i).time < At(j).time \/ (At(i).time = At(j).time /\ i < j)

Earlier(S, id) == {i \in S : SameStream(i, id) /\ Before(i, id)}

\* Mutant of Previous: the oldest point of the window is every point's baseline.
OldestPrevious(S, id) ==
  CHOOSE i \in Earlier(S, id) : \A j \in Earlier(S, id) : j = i \/ Before(i, j)

\* LAG(...) OVER series, where there is an earlier row.
Previous(S, id) ==
  CHOOSE i \in Earlier(S, id) : \A j \in Earlier(S, id) : j = i \/ Before(j, i)

HasPrevious(S, id) == Earlier(S, id) # {}

\* COUNT(*) OVER (PARTITION BY seriesIdentity, time_unix_nano) > 1.
SharesTime(S, id) ==
  \E i \in S \ {id} : SameStream(i, id) /\ At(i).time = At(id).time

HasValue(id) == At(id).flags = 0 /\ At(id).value # Null /\ At(id).value >= 0

\* The conditions of metricRates that look at the row alone.
Usable(id) ==
  /\ KindOf(id) \in {"delta", "cumulative"}
  /\ HasValue(id)
  /\ At(id).start # 0
  /\ At(id).start < At(id).time

\* Mutant of DeltaRated: an interval may reach back over the previous point.
DeltaAlways(S, id) == KindOf(id) = "delta"

\* No overlapping_interval.
DeltaRated(S, id) ==
  /\ KindOf(id) = "delta"
  /\ HasPrevious(S, id) => At(Previous(S, id)).time <= At(id).start

\* Mutant of CumulativeRated: a decrease is the only sign of a reset.
CumulativeUnlessDecreased(S, id) ==
  /\ KindOf(id) = "cumulative"
  /\ HasPrevious(S, id)
  /\ LET p == Previous(S, id)
     IN  /\ ~SharesTime(S, p)
         /\ HasValue(p)
         /\ At(id).start <= At(p).time
         /\ At(p).value <= At(id).value

\* No no_baseline, ambiguous_baseline, reset, invalid_baseline and
\* counter_decreased.
CumulativeRated(S, id) ==
  /\ KindOf(id) = "cumulative"
  /\ HasPrevious(S, id)
  /\ LET p == Previous(S, id)
     IN  /\ ~SharesTime(S, p)
         /\ HasValue(p)
         /\ At(p).start = At(id).start
         /\ At(id).start <= At(p).time
         /\ At(p).value <= At(id).value

\* rate_reason IS NULL.
Rated(S, id) ==
  /\ Usable(id)
  /\ ~SharesTime(S, id)
  /\ DeltaRated(S, id) \/ CumulativeRated(S, id)

IntervalStart(S, id) ==
  IF KindOf(id) = "delta" THEN At(id).start ELSE At(Previous(S, id)).time

DeltaValue(S, id) ==
  IF KindOf(id) = "delta" THEN At(id).value
  ELSE At(id).value - At(Previous(S, id)).value

\* gap_seconds IS NOT NULL: the time between two delta points nobody reported.
HasGap(S, id) ==
  /\ KindOf(id) = "delta"
  /\ HasPrevious(S, id)
  /\ At(Previous(S, id)).time < At(id).start

-----------------------------------------------------------------------------
(* Properties, of every window that can be selected.                        *)

Windows == {Selected(basis, a, b) : basis \in {"received", "event"},
                                    a \in Times, b \in 1 .. MaxTime + 1}

\* metricRates: whatever was lost, late, expired, restarted or left out of the
\* window, a reported delta_value is what really was counted in the interval.
RatesAreTrue ==
  \A S \in Windows : \A id \in S : Rated(S, id) =>
    DeltaValue(S, id) = total[At(id).series][At(id).time]
                          - total[At(id).series][IntervalStart(S, id)]

\* metricRates: no two rates of one stream cover the same time, so adding
\* delta_values counts nothing twice, and no rate covers a reported gap.
IntervalsDisjoint ==
  \A S \in Windows : \A i, j \in S :
    At(i).series = At(j).series /\ Rated(S, i) =>
      /\ Rated(S, j) /\ Before(i, j) => At(i).time <= IntervalStart(S, j)
      /\ HasGap(S, j) => \/ At(i).time <= At(Previous(S, j)).time
                         \/ At(j).start <= IntervalStart(S, i)
=============================================================================
