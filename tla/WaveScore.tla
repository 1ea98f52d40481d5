----------------------------- MODULE WaveScore -----------------------------
(***************************************************************************)
(* The wave anomaly detector (wave_anomaly_detector.rs) scores the events  *)
(* that the propagation aggregator completes (detector_runner.rs).  An     *)
(* event is when each collector saw the announcement, in milliseconds;     *)
(* collectors are numbered in the order of their names and stand on a      *)
(* line, as far apart as light travels in those milliseconds.  Scores are  *)
(* in thousandths, rounded down.                                           *)
(***************************************************************************)
EXTENDS Integers, Sequences, FiniteSetsExt

CONSTANTS Collectors,
          Position,    \* of the collectors that the registry knows, on the line
          Times,       \* at which an announcement may arrive
          Entries      \* baseline entries: p50, p99, std_dev and expected_order

ASSUME CollectorsAssumption == IsFiniteSet(Collectors) /\ Collectors \subseteq Nat /\ Times \subseteq Nat
ASSUME PositionAssumption ==
  DOMAIN Position \subseteq Collectors /\ \A c \in DOMAIN Position : Position[c] \in Int
ASSUME EntriesAssumption ==
  \A e \in Entries : {e.p50, e.p99, e.std_dev} \subseteq Nat /\ e.expected_order \in Seq(Collectors)

VARIABLES baselineEntry,  \* the entry of the event's key, or none
          scored          \* the last event and its score, or none

waveVars == <<baselineEntry, scored>>

Unknown == [none |-> TRUE]

\* new(): the file has an entry of the key or not, or there is no file.
WaveInit == baselineEntry \in Entries \cup {Unknown} /\ scored = Unknown

WaveEvents == UNION {[cs -> Times] : cs \in (SUBSET Collectors) \ {{}}}

Spread(ev) == Max(Range(ev)) - Min(Range(ev))

\* c is before d in arrival_order: what arrives at once is sorted by name.
ArrivesBefore(ev, c, d) == ev[c] < ev[d] \/ (ev[c] = ev[d] /\ c < d)

Clamp(x) == IF x > 1000 THEN 1000 ELSE x

\* |z-score| over three standard deviations; none without a deviation.
spread_z_score(ev, e) ==
  IF e.std_dev = 0 THEN 0
  ELSE LET z == Spread(ev) - e.p50 IN Clamp((1000 * (IF z < 0 THEN -z ELSE z)) \div (3 * e.std_dev))

outlier_factor(ev, e) == IF Spread(ev) > e.p99 THEN 1000 ELSE 0

\* The arrivals after which nothing arrives for more than 4 ms, but then
\* something does.
GapsAfter(ev) ==
  {t \in Range(ev) : t # Max(Range(ev)) /\ \A u \in Range(ev) : u <= t \/ u - t > 4}

\* The share of such gaps between one arrival and the next.
calculate_gap_ratio(ev) ==
  LET n == Cardinality(DOMAIN ev) IN
  IF n < 2 THEN 0 ELSE (1000 * Cardinality(GapsAfter(ev))) \div (n - 1)

\* The three collectors that saw it first, and those of the baseline.
ActualTop(ev) ==
  {c \in DOMAIN ev : Cardinality({d \in DOMAIN ev : ArrivesBefore(ev, d, c)}) < 3}

ExpectedTop(e) == {e.expected_order[k] : k \in DOMAIN e.expected_order \cap 1..3}

\* The share of the first collectors that are not the expected ones.
calculate_order_deviation(ev, e) ==
  LET denom == Min({Cardinality(ActualTop(ev)), Cardinality(ExpectedTop(e))}) IN
  IF e.expected_order = <<>> \/ Cardinality(DOMAIN ev) < 2 THEN 0
  ELSE 1000 - (1000 * Cardinality(ActualTop(ev) \cap ExpectedTop(e))) \div denom

\* Light between the collectors farthest apart, of those that are known.
LightTime(ev) ==
  LET known == {Position[c] : c \in DOMAIN ev \cap DOMAIN Position} IN
  IF known = {} THEN 0 ELSE Max(known) - Min(known)

\* The spread in light times: the more, the slower the announcement was.
calculate_propagation_speed(ev) ==
  IF LightTime(ev) = 0 THEN 0 ELSE Clamp((1000 * Spread(ev)) \div LightTime(ev))

calculate_score_for_entry(ev, e) ==
  (400 * spread_z_score(ev, e) + 300 * outlier_factor(ev, e) + 150 * calculate_gap_ratio(ev)
     + 100 * calculate_order_deviation(ev, e) + 50 * calculate_propagation_speed(ev)) \div 1000

from_score(s) ==
  IF s < 300 THEN "Normal" ELSE IF s < 600 THEN "Suspicious" ELSE "Anomalous"

\* score_event(): 0 if the baseline has no entry.
score_event(ev) == IF baselineEntry = Unknown THEN 0 ELSE calculate_score_for_entry(ev, baselineEntry)

(* score_propagation_event(): routed unless it is normal. *)
ScoreEvent(ev) ==
  /\ scored' = [event |-> ev, classification |-> from_score(score_event(ev))]
  /\ UNCHANGED baselineEntry

WaveNext == \E ev \in WaveEvents : ScoreEvent(ev)

WaveSpec == WaveInit /\ [][WaveNext]_waveVars

-----------------------------------------------------------------------------
(* An announcement that reaches all collectors at once - the signature of a *)
(* hijack, says the source - is at most suspicious, however far from the    *)
(* baseline it is: only a slow one is an outlier, it has no gaps, and the   *)
(* speed signal is the smaller the faster it was.                           *)
SimultaneousAtMostSuspicious ==
  scored # Unknown /\ baselineEntry # Unknown =>
    LET spread == Spread(scored.event) IN
    spread <= 4 /\ spread <= baselineEntry.p99 => scored.classification # "Anomalous"

\* Two events that differ in their times alone: the same collectors in the same
\* order, with as many gaps.
AlikeButForSpread(ev, other) ==
  /\ DOMAIN ev = DOMAIN other
  /\ \A c, d \in DOMAIN ev : ArrivesBefore(ev, c, d) <=> ArrivesBefore(other, c, d)
  /\ Cardinality(GapsAfter(ev)) = Cardinality(GapsAfter(other))

(* The comment in calculate_score_for_entry(): a spread far smaller than    *)
(* the baseline's must score just as high as one far larger.                *)
SmallSpreadScoresAsHigh ==
  scored # Unknown /\ baselineEntry # Unknown =>
    LET ev == scored.event
        far == 3 * baselineEntry.std_dev
    IN baselineEntry.std_dev > 0 /\ Spread(ev) <= baselineEntry.p50 - far =>
         \A other \in WaveEvents :
           AlikeButForSpread(ev, other) /\ Spread(other) >= baselineEntry.p50 + far =>
             score_event(ev) >= score_event(other)
=============================================================================
