----------------------------- MODULE Detection -----------------------------
(***************************************************************************)
(* Who announces which prefix: one HijackDetector (anomaly_detector.rs)    *)
(* shared by the HTTP path (AnomalyDetector::check()), the RPKI and IRR    *)
(* enrichment of its records (run_rpki_enrichment(), irr_cache.rs) and the *)
(* records from NATS (detector_runner.rs), each with its own flapping      *)
(* detection, and the baseline of path lengths (baseline_model.rs) that    *)
(* adjusts the confidence on the HTTP path.                                *)
(*                                                                         *)
(* Handlers run check() at the same time: each use it makes of a shared    *)
(* structure - the baseline twice, the known origins, the events of a      *)
(* prefix, the two channels - is a step of its own.  What RpkiCache says   *)
(* of an announcement may change at any time: any status is possible.      *)
(* Confidences are in hundredths.                                          *)
(***************************************************************************)
EXTENDS Integers, Sequences, FiniteSets

CONSTANTS Prefixes, Asns,
          Learnt,       \* [Prefixes -> SUBSET Asns]: found by warmup()
          Registry,     \* the IRR's route objects over time:
                        \* [0..MaxNow -> [Prefixes -> SUBSET Asns]]
          IrrTtl,       \* of an answer in the cache, 24 hours in the code
          Unusual,      \* prefixes of an unusual length
          WellKnown,    \* ASNs of which the snapshot had seven days
          Lengths,      \* of AS paths
          MinSamples,   \* without which a path is not judged (5 in the code)
          FlapThreshold, MinDirectionChanges, FlapWindow,
                        \* 50 events, 6 changes, 300 seconds in the code
          AlertCapacity,\* of the alert channel, 1024 in the code
          MaxRecords,   \* bound: records handled
          MaxChecks,    \* bound: handlers in check() at the same time
          MaxNow        \* bound: time

ASSUME CountsAssumption ==
  {IrrTtl, MinSamples, FlapThreshold, MinDirectionChanges, FlapWindow, AlertCapacity,
   MaxRecords, MaxChecks, MaxNow} \subseteq Nat
ASSUME TtlAssumption == IrrTtl > 0
ASSUME LearntAssumption == /\ Learnt \in [Prefixes -> SUBSET Asns]
                           /\ Registry \in [0..MaxNow -> [Prefixes -> SUBSET Asns]]
ASSUME LengthsAssumption == Lengths \subseteq Nat

\* The records that may come as the n-th.
BgpRecord(n) == [n: {n}, type: {"announce", "withdraw"}, prefix: Prefixes, asn: Asns]
NoTask == [rec |-> [type |-> "none"]]

\* The two kinds of "invalid" count alike, and so do "not found" and "unavailable".
RpkiStatuses == {"Valid", "Invalid", "Unknown"}
IrrStatuses == {"Consistent", "Inconsistent", "NotFound", "Unavailable"}
Detectors == {"http", "runner"}

VARIABLES
  known,     \* [Prefixes -> SUBSET Asns]: prefix_to_asns
  flaps,     \* [Detectors -> [Prefixes -> Seq of time and type]]
  baseline,  \* [Prefixes -> average and variance of the path lengths]
  checks,    \* the calls of AnomalyDetector::check() that run
  irr,       \* [Prefixes \X Asns -> the cached answer and its time]
  channel,   \* the enrichment's channel
  enriching, \* the record the enrichment waits for the IRR with, or NoTask
  running,   \* the same of the detector runner
  alerts,    \* the number of anomalies in the alert channel
  rpkiOn,    \* RPKI is enabled
  now,
  handled,   \* records so far
  reports    \* the anomalies, sent or dropped

detVars == <<known, flaps, baseline, checks, irr, channel, enriching, running, alerts, rpkiOn,
             now, handled, reports>>

NoAnswer == [status |-> "none", at |-> 0]
NoPaths == [count |-> 0, mean |-> 0, var |-> 0, den |-> 1]

DetInit ==
  /\ known = Learnt
  /\ flaps = [d \in Detectors |-> [p \in Prefixes |-> <<>>]]
  /\ baseline = [p \in Prefixes |-> NoPaths] /\ checks = {}
  /\ irr = [k \in Prefixes \X Asns |-> NoAnswer]
  /\ channel = <<>> /\ enriching = NoTask /\ running = NoTask /\ alerts = 0
  /\ rpkiOn \in BOOLEAN
  /\ now = 0 /\ handled = 0 /\ reports = {}

\* A record comes to one of the two paths.
Arrives == handled < MaxRecords /\ handled' = handled + 1

-----------------------------------------------------------------------------
(* HijackDetector *)

\* check(): an announcement by an ASN that is not known for the prefix.
NewOrigin(rec) == rec.type # "withdraw" /\ rec.asn \notin known[rec.prefix]

\* Mutation: only the first ASN of a prefix is remembered.
LearnFirst(rec) ==
  IF NewOrigin(rec) /\ known[rec.prefix] = {}
  THEN [known EXCEPT ![rec.prefix] = {rec.asn}] ELSE known

\* ... which is known from now on.
Learn(rec) ==
  IF NewOrigin(rec) THEN [known EXCEPT ![rec.prefix] = @ \cup {rec.asn}] ELSE known

\* An anomaly that goes to the EscalationRouter without the alert channel.
Report(by, rec, new, confidence) ==
  [n |-> rec.n, by |-> by, prefix |-> rec.prefix, asn |-> rec.asn, new |-> new,
   confidence |-> confidence, sent |-> TRUE, irr |-> FALSE, asked |-> 0, told |-> 0,
   path |-> FALSE, later |-> 0]

\* try_send(): with the channel full, the anomaly is dropped.
SendAlert(r) ==
  LET fits == alerts < AlertCapacity IN
  /\ reports' = reports \cup {[r EXCEPT !.sent = fits]}
  /\ alerts' = IF fits THEN alerts + 1 ELSE alerts

\* The confidence of check_with_rpki_status(), 0 if there is no anomaly.
RpkiConfidence(rec, status, inconsistent) ==
  CASE rec.type = "withdraw" -> 0
    [] ~NewOrigin(rec) /\ status = "Invalid" -> IF inconsistent THEN 75 ELSE 60
    [] ~NewOrigin(rec) /\ status # "Invalid" -> 0
    [] NewOrigin(rec) /\ status = "Valid" -> 30
    [] NewOrigin(rec) /\ status = "Invalid" -> IF inconsistent THEN 99 ELSE 97
    [] OTHER -> IF inconsistent THEN 90 ELSE 85

\* What check_with_rpki_status() finds for a task whose IRR answer is s.
RpkiReport(by, task, s) ==
  LET inc == s = "Inconsistent" IN
  [Report(by, task.rec, NewOrigin(task.rec), RpkiConfidence(task.rec, task.status, inc))
     EXCEPT !.irr = inc, !.asked = IF inc THEN task.asked ELSE 0, !.told = IF inc THEN now ELSE 0]

-----------------------------------------------------------------------------
(* FlappingDetector *)

\* The queue with the event, without the old ones at its front.
Slide(events, e) ==
  LET all == Append(events, e)
      fresh == {k \in DOMAIN all : all[k].at >= now - FlapWindow}
      from == IF fresh = {} THEN Len(all) + 1
              ELSE CHOOSE k \in fresh : \A j \in fresh : k <= j
  IN SubSeq(all, from, Len(all))

DirectionChanges(events) ==
  Cardinality({k \in 2..Len(events) : events[k].type # events[k - 1].type})

\* Enough events that change direction often enough.
Flapping(events) ==
  Len(events) >= FlapThreshold /\ DirectionChanges(events) >= MinDirectionChanges

CheckFlapping(d, rec, at) ==
  flaps' = [flaps EXCEPT ![d][rec.prefix] = Slide(@, [at |-> at, type |-> rec.type])]

-----------------------------------------------------------------------------
(* BaselineModel.  The average is mean / den and the variance var / den^2,  *)
(* with alpha = 1/10 in the powers of 10 of den.                            *)

\* How far a path is from the average, times den.
Deviation(b, len) == b.den * len - b.mean

\* Mutation: the deviation is taken after the average has moved.
UpdatedAfter(b, len) ==
  IF b.count = 0 THEN [count |-> 1, mean |-> len, var |-> 0, den |-> 1]
  ELSE LET new == [b EXCEPT !.count = @ + 1, !.mean = 9 * @ + b.den * len, !.den = 10 * @]
       IN [new EXCEPT !.var = 90 * b.var + (9 * Deviation(new, len) * Deviation(new, len)) \div 100]

\* update()
Updated(b, len) ==
  IF b.count = 0 THEN [count |-> 1, mean |-> len, var |-> 0, den |-> 1]
  ELSE [count |-> b.count + 1, mean |-> 9 * b.mean + b.den * len,
        var |-> 90 * b.var + 9 * (Deviation(b, len) * Deviation(b, len)), den |-> 10 * b.den]

\* is_anomaly(): enough samples, and (length - average)^2 > 9 (variance + 10^-6).
PathAnomalous(b, len) ==
  /\ b.count >= MinSamples
  /\ Deviation(b, len) * Deviation(b, len) - 9 * b.var > (9 * (b.den * b.den)) \div 1000000

\* compute_confidence_boost(), capped at 15 either way.
Boost(rec, path) ==
  LET b == (IF path THEN 10 ELSE 0) + (IF rec.prefix \in Unusual THEN 5 ELSE 0)
           - (IF rec.asn \in WellKnown THEN 10 ELSE 0)
  IN IF b > 15 THEN 15 ELSE IF b < -15 THEN -15 ELSE b

\* enhance_confidence()
Enhanced(base, rec, path) == LET c == base + Boost(rec, path) IN IF c > 100 THEN 100 ELSE c

-----------------------------------------------------------------------------
(* AnomalyDetector::check() of a handler; count is what its own update of   *)
(* the baseline left, found the anomaly the detectors have found.           *)
Check(rec, at, len, count) ==
  [pc |-> "hijack", rec |-> rec, at |-> at, len |-> len, count |-> count, found |-> "none",
   path |-> FALSE, later |-> 0]

\* The call c goes on as d.
GoesOn(c, d) == c \in checks /\ checks' = (checks \ {c}) \cup {d}

CheckUpdate(rec, at, len) ==
  LET b == Updated(baseline[rec.prefix], len) IN
  /\ Arrives /\ Cardinality(checks) < MaxChecks
  /\ baseline' = [baseline EXCEPT ![rec.prefix] = b]
  /\ checks' = checks \cup {Check(rec, at, len, b.count)}
  /\ UNCHANGED <<known, flaps, irr, channel, enriching, running, alerts, rpkiOn, now, reports>>

CheckHijack(c) ==
  /\ c.pc = "hijack"
  /\ known' = Learn(c.rec)
  /\ GoesOn(c, IF NewOrigin(c.rec) THEN [c EXCEPT !.pc = "judge", !.found = "hijack"]
               ELSE [c EXCEPT !.pc = "flapping"])
  /\ UNCHANGED <<flaps, baseline, irr, channel, enriching, running, alerts, rpkiOn, now, handled,
                 reports>>

CheckFlaps(c) ==
  /\ c.pc = "flapping"
  /\ CheckFlapping("http", c.rec, c.at)
  /\ GoesOn(c, IF Flapping(flaps'["http"][c.rec.prefix])
               THEN [c EXCEPT !.pc = "judge", !.found = "flapping"]
               ELSE [c EXCEPT !.pc = "pass"])
  /\ UNCHANGED <<known, baseline, irr, channel, enriching, running, alerts, rpkiOn, now, handled,
                 reports>>

(* The baseline by now, which other handlers may have updated. *)
CheckJudge(c) ==
  LET b == baseline[c.rec.prefix] IN
  /\ c.pc = "judge"
  /\ GoesOn(c, [c EXCEPT !.pc = "send", !.path = PathAnomalous(b, c.len),
                         !.later = b.count - c.count])
  /\ UNCHANGED <<known, flaps, baseline, irr, channel, enriching, running, alerts, rpkiOn, now,
                 handled, reports>>

CheckSend(c) ==
  LET hijack == c.found = "hijack"
      r == Report(IF hijack THEN "http" ELSE "flapping", c.rec, hijack,
                  Enhanced(IF hijack THEN 85 ELSE 75, c.rec, c.path))
  IN
  /\ c.pc = "send"
  /\ SendAlert([r EXCEPT !.path = c.path, !.later = c.later])
  /\ GoesOn(c, [c EXCEPT !.pc = IF hijack THEN "flapping" ELSE "pass", !.found = "none"])
  /\ UNCHANGED <<known, flaps, baseline, irr, channel, enriching, running, rpkiOn, now, handled>>

(* If the entry was in the redaction cache, the record then goes to the     *)
(* enrichment, unless that channel is full.                                 *)
CheckEnds(c) ==
  /\ c \in checks /\ c.pc = "pass" /\ checks' = checks \ {c}
  /\ \/ rpkiOn /\ channel' = Append(channel, c.rec)
     \/ UNCHANGED channel
  /\ UNCHANGED <<known, flaps, baseline, irr, enriching, running, alerts, rpkiOn, now, handled,
                 reports>>

(* The alert channel: run_alert_logger() takes an anomaly, the ROA poller   *)
(* sends one.                                                               *)
AlertTaken ==
  /\ alerts > 0 /\ alerts' = alerts - 1
  /\ UNCHANGED <<known, flaps, baseline, checks, irr, channel, enriching, running, rpkiOn, now,
                 handled, reports>>

RoaAlert ==
  /\ alerts < AlertCapacity /\ alerts' = alerts + 1
  /\ UNCHANGED <<known, flaps, baseline, checks, irr, channel, enriching, running, rpkiOn, now,
                 handled, reports>>

-----------------------------------------------------------------------------
(* IrrCache *)

\* The status that the objects of the registry give at a time.
IrrAnswer(rec, t) ==
  IF Registry[t][rec.prefix] = {} THEN "NotFound"
  ELSE IF rec.asn \in Registry[t][rec.prefix] THEN "Consistent" ELSE "Inconsistent"

\* Mutation: the answers never expire.
StillCached(k) == irr[k].status

\* What the cache has of a prefix and an ASN.
Cached(k) == IF now - irr[k].at < IrrTtl THEN irr[k].status ELSE "none"

\* A task waits for check(), which has looked into the cache.
Waiting(rec, status) ==
  [rec |-> rec, status |-> status, asked |-> now, cached |-> Cached(<<rec.prefix, rec.asn>>)]

\* check() answers s: what was cached, or what the registry says by now, or that
\* it is unavailable, and either is cached.
IrrCheck(task, s) ==
  IF task.cached # "none" THEN s = task.cached /\ UNCHANGED irr
  ELSE /\ s \in {IrrAnswer(task.rec, now), "Unavailable"}
       /\ irr' = [irr EXCEPT ![<<task.rec.prefix, task.rec.asn>>] = [status |-> s, at |-> now]]

(* The cache is full and an entry has to leave. *)
IrrEvicts(k) ==
  /\ irr[k] # NoAnswer
  /\ irr' = [irr EXCEPT ![k] = NoAnswer]
  /\ UNCHANGED <<known, flaps, baseline, checks, channel, enriching, running, alerts, rpkiOn, now,
                 handled, reports>>

-----------------------------------------------------------------------------
(* run_rpki_enrichment() takes a record, skips a withdrawal, validates. *)
EnrichTake(status) ==
  /\ channel # <<>> /\ enriching = NoTask
  /\ channel' = Tail(channel)
  /\ enriching' = IF Head(channel).type = "announce" THEN Waiting(Head(channel), status)
                  ELSE NoTask
  /\ UNCHANGED <<known, flaps, baseline, checks, irr, running, alerts, rpkiOn, now, handled,
                 reports>>

(* The IRR has answered. *)
EnrichCheck(s) ==
  LET r == RpkiReport("enrichment", enriching, s) IN
  /\ enriching # NoTask
  /\ IrrCheck(enriching, s)
  /\ known' = Learn(enriching.rec)
  /\ IF r.confidence = 0 THEN UNCHANGED <<reports, alerts>> ELSE SendAlert(r)
  /\ enriching' = NoTask
  /\ UNCHANGED <<flaps, baseline, checks, channel, running, rpkiOn, now, handled>>

(* process_record(): flapping, then the hijack check - without RPKI on its  *)
(* own, with it only of what is invalid, once the IRR has answered.  What   *)
(* is valid goes no further; the other announcements go to the aggregator   *)
(* (Propagation).  The runner is one task with a flapping detector of its   *)
(* own, and its anomalies do not pass the alert channel.                    *)
RunnerTake(rec, at, status) ==
  /\ Arrives /\ running = NoTask
  /\ CheckFlapping("runner", rec, at)
  /\ reports' = reports
       \cup {r \in {Report("flapping", rec, FALSE, 75)} : Flapping(flaps'["runner"][rec.prefix])}
       \cup {r \in {Report("runner", rec, TRUE, 85)} : ~rpkiOn /\ NewOrigin(rec)}
  /\ known' = IF rpkiOn THEN known ELSE Learn(rec)
  /\ running' = IF rpkiOn /\ rec.type = "announce" /\ status = "Invalid"
                THEN Waiting(rec, status) ELSE NoTask
  /\ UNCHANGED <<baseline, checks, irr, channel, enriching, alerts, rpkiOn, now>>

RunnerCheck(s) ==
  LET r == RpkiReport("runner", running, s) IN
  /\ running # NoTask
  /\ IrrCheck(running, s)
  /\ known' = Learn(running.rec)
  /\ reports' = IF r.confidence = 0 THEN reports ELSE reports \cup {r}
  /\ running' = NoTask
  /\ UNCHANGED <<flaps, baseline, checks, channel, enriching, alerts, rpkiOn, now, handled>>

DetTick ==
  /\ now < MaxNow
  /\ now' = now + 1
  /\ UNCHANGED <<known, flaps, baseline, checks, irr, channel, enriching, running, alerts, rpkiOn,
                 handled, reports>>

DetNext ==
  \/ \E rec \in BgpRecord(handled), at \in 0..now :
       \/ \E len \in Lengths : CheckUpdate(rec, at, len)
       \/ \E status \in RpkiStatuses : RunnerTake(rec, at, status)
  \/ \E c \in checks :
       CheckHijack(c) \/ CheckFlaps(c) \/ CheckJudge(c) \/ CheckSend(c) \/ CheckEnds(c)
  \/ \E status \in RpkiStatuses : EnrichTake(status)
  \/ \E s \in IrrStatuses : EnrichCheck(s) \/ RunnerCheck(s)
  \/ \E k \in Prefixes \X Asns : IrrEvicts(k)
  \/ AlertTaken \/ RoaAlert \/ DetTick

DetSpec == DetInit /\ [][DetNext]_detVars

-----------------------------------------------------------------------------
NewReports(p, a) == {r \in reports : r.new /\ r.prefix = p /\ r.asn = a}
NewInCheck(p, a) == {c \in checks : c.found = "hijack" /\ c.rec.prefix = p /\ c.rec.asn = a}

(* The paths share what they know: an origin that is learnt, and not from   *)
(* the past, makes one anomaly of one of them, which a check() still holds, *)
(* or which is sent, or dropped by the full alert channel - and then it is  *)
(* never reported again.  The enrichment of an HTTP record never finds a    *)
(* new one, since check() has learnt the origin before, so no hijack seen   *)
(* over HTTP gets the 0.97 of a proven one but by the length of its path;   *)
(* and the runner drops nothing.                                            *)
OriginsReportedOnce ==
  /\ \A p \in Prefixes, a \in Asns :
       Cardinality(NewReports(p, a)) + Cardinality(NewInCheck(p, a))
         = IF a \in known[p] \ Learnt[p] THEN 1 ELSE 0
  /\ \A r \in reports :
       /\ r.confidence >= 97 => r.by = "runner" \/ r.path
       /\ r.by = "runner" => r.sent
       /\ r.by = "enrichment" => ~r.new

(* An anomaly that the registry is said to contradict was contradicted by   *)
(* it, if not now then less than IrrTtl before the cache was asked.         *)
IrrAnswersJustified ==
  \A r \in reports : r.irr =>
    \E t \in 0..MaxNow : /\ t <= r.told /\ t > r.asked - IrrTtl
                         /\ IrrAnswer(r, t) = "Inconsistent"

(* A path counts as unusual only if another handler has updated the         *)
(* baseline of the prefix between the two uses that check() makes of it:    *)
(* check() lets the baseline learn a path before it judges it, and from     *)
(* what is left then no path is three standard deviations away, however     *)
(* long it is.                                                              *)
BoostOnlyIfOvertaken == \A r \in reports : r.path => r.later > 0
=============================================================================
