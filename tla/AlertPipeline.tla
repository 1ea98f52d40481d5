--------------------------- MODULE AlertPipeline ---------------------------
(***************************************************************************)
(* The alert pipeline: EscalationRouter::route and run_auto_escalation     *)
(* (escalation.rs) over the deduplication cache (alert_dedup.rs), the      *)
(* silences and the alert history in ClickHouse (alert_manager.rs), and    *)
(* the webhooks (webhook.rs).                                              *)
(*                                                                         *)
(* lib.rs shares one router between all tasks that report anomalies: the   *)
(* alert logger, which first asks the cached alert rules, the detector     *)
(* task, the task that flushes propagation groups, and the auto-escalation *)
(* task.  route() is not atomic: the silence check, the insert into the    *)
(* history and every webhook are awaited, and the cache is asked and       *)
(* filled in two steps.                                                    *)
(*                                                                         *)
(* A fingerprint stands for an anomaly type, prefix and origin AS.         *)
(* Confidences are in percent.                                             *)
(***************************************************************************)
EXTENDS Integers, Sequences

CONSTANTS DetectorTasks,   \* detector task, and flush task if waves are scored
          Fingerprints,
          Confidences,     \* of the anomalies the detectors report
          RuleThresholds,  \* of the cached rules that apply to the tenant
          NumTargets,      \* webhook targets
          NumAnomalies,    \* bound: anomalies the detectors report
          MaxAlerts,       \* bound: rows in the alert history
          MaxRestarts,     \* bound: restarts of the gateway
          AnswersAsAsked   \* see below

(* The queries of alert_manager.rs put FINAL behind WHERE and read a        *)
(* DateTime as one with an offset.  Does ClickHouse take the one and write  *)
(* the other?  The server of docker-compose.prod.yml does neither: then     *)
(* is_silenced() always fails, and list_active_alerts() does as soon as     *)
(* there is an alert to list.                                               *)
ASSUME AnswersAssumption == AnswersAsAsked \in BOOLEAN

Percent == 0..100

ASSUME ConfidencesAssumption == Confidences \subseteq Percent
ASSUME ThresholdsAssumption == RuleThresholds \subseteq Percent
ASSUME TargetsAssumption == NumTargets \in Nat
ASSUME BoundsAssumption ==
  NumAnomalies \in Nat /\ MaxAlerts \in Nat /\ MaxRestarts \in Nat

Reporters == {"logger"} \cup DetectorTasks
AlertTasks == Reporters \cup {"escalator"}

ASSUME TasksAssumption == DetectorTasks \cap {"logger", "escalator"} = {}

VARIABLES
  fed,       \* anomalies reported so far
  step,      \* [AlertTasks -> where the task is]
  work,      \* [AlertTasks -> the anomaly it routes]
  left,      \* [AlertTasks -> webhook targets route() still has to try]
  silenced,  \* fingerprints with an active silence
  dedup,     \* fingerprints in the cache
  alerts,    \* the alert history, oldest first
  snapshot,  \* rows the escalation pass has listed and not yet dealt with
  restarts,
  passed,    \* history: [AlertTasks -> fingerprints it got past the cache, this window]
  handled    \* history: fingerprints whose last accepted alert was sent out

alertVars == <<fed, step, work, left, silenced, dedup, alerts, snapshot, restarts,
               passed, handled>>

Anomaly == [fp: Fingerprints, conf: Percent]
NoAnomaly == [fp |-> "none", conf |-> 0]
Alert == [fp: Fingerprints, conf: Percent, active: BOOLEAN, overdue: BOOLEAN]
Steps == {"ask", "contains", "insert", "persist", "send"}  \* inside route()

(* EscalationLevel::from_confidence: none, warning, critical, emergency. *)
FromConfidence(c) ==
  IF c < 50 THEN 0 ELSE IF c < 70 THEN 1 ELSE IF c < 90 THEN 2 ELSE 3

\* Where a task goes when route() returns.
Resume(t) == IF t = "escalator" THEN "pass" ELSE "idle"

\* route() returns in task t; its locals are gone.
Return(t) ==
  /\ step' = [step EXCEPT ![t] = Resume(t)]
  /\ work' = [work EXCEPT ![t] = NoAnomaly]

AlertInit ==
  /\ fed = 0
  /\ step = [t \in AlertTasks |-> "idle"]
  /\ work = [t \in AlertTasks |-> NoAnomaly]
  /\ left = [t \in AlertTasks |-> 0]
  /\ silenced = {} /\ dedup = {}
  /\ alerts = <<>> /\ snapshot = <<>>
  /\ restarts = 0
  /\ passed = [t \in AlertTasks |-> {}]
  /\ handled = {}

-----------------------------------------------------------------------------
\* route() is called with anomaly a; without a level it returns at once.
Route(t, a) ==
  IF FromConfidence(a.conf) = 0
  THEN Return(t)
  ELSE /\ step' = [step EXCEPT ![t] = "ask"]
       /\ work' = [work EXCEPT ![t] = a]

(* A detector reports anomaly a.  The alert logger routes it if a cached    *)
(* rule matches; the detector and the flush task always do.                 *)
Report(t, a) ==
  /\ step[t] = "idle"
  /\ fed < NumAnomalies
  /\ t = "logger" => \E threshold \in RuleThresholds : a.conf >= threshold
  /\ fed' = fed + 1
  /\ Route(t, a)
  /\ UNCHANGED <<left, silenced, dedup, alerts, snapshot, restarts, passed, handled>>

\* Mutation: a silenced alert is remembered in the cache.
AskSilencedRemembers(t) ==
  /\ step[t] = "ask"
  /\ AnswersAsAsked /\ work[t].fp \in silenced
  /\ dedup' = dedup \cup {work[t].fp}
  /\ Return(t)
  /\ UNCHANGED <<fed, left, silenced, alerts, snapshot, restarts, passed, handled>>

(* is_silenced() answers true: route() returns. *)
AskSilenced(t) ==
  /\ step[t] = "ask"
  /\ AnswersAsAsked /\ work[t].fp \in silenced
  /\ Return(t)
  /\ UNCHANGED <<fed, left, silenced, dedup, alerts, snapshot, restarts,
                 passed, handled>>

(* is_silenced() answers false, or fails: the alert goes on. *)
AskProceed(t) ==
  /\ step[t] = "ask"
  /\ step' = [step EXCEPT ![t] = "contains"]
  /\ UNCHANGED <<fed, work, left, silenced, dedup, alerts, snapshot, restarts,
                 passed, handled>>

(* is_new(), first half: contains_key. *)
ContainsKey(t) ==
  /\ step[t] = "contains"
  /\ IF work[t].fp \in dedup
     THEN Return(t)
     ELSE step' = [step EXCEPT ![t] = "insert"] /\ UNCHANGED work
  /\ UNCHANGED <<fed, left, silenced, dedup, alerts, snapshot, restarts,
                 passed, handled>>

\* Mutation: the fingerprint is not inserted.
InsertForgets(t) ==
  /\ step[t] = "insert"
  /\ passed' = [passed EXCEPT ![t] = @ \cup {work[t].fp}]
  /\ handled' = handled \ {work[t].fp}
  /\ step' = [step EXCEPT ![t] = "persist"]
  /\ UNCHANGED <<fed, work, left, silenced, dedup, alerts, snapshot, restarts>>

(* is_new(), second half: insert.  The alert is accepted. *)
Insert(t) ==
  /\ step[t] = "insert"
  /\ dedup' = dedup \cup {work[t].fp}
  /\ passed' = [passed EXCEPT ![t] = @ \cup {work[t].fp}]
  /\ handled' = handled \ {work[t].fp}
  /\ step' = [step EXCEPT ![t] = "persist"]
  /\ UNCHANGED <<fed, work, left, silenced, alerts, snapshot, restarts>>

\* The alert history with the anomaly task t routes as a new row.
WithRow(t) ==
  Append(alerts, [fp |-> work[t].fp, conf |-> work[t].conf,
                  active |-> TRUE, overdue |-> FALSE])

(* persist_alert(): a row is inserted, or the insert fails; either way the  *)
(* alert goes on to the metric, the log and the webhooks.                   *)
Persist(t) ==
  /\ step[t] = "persist"
  /\ \/ Len(alerts) < MaxAlerts /\ alerts' = WithRow(t)
     \/ UNCHANGED alerts
  /\ left' = [left EXCEPT ![t] = NumTargets]
  /\ step' = [step EXCEPT ![t] = "send"]
  /\ UNCHANGED <<fed, work, silenced, dedup, snapshot, restarts, passed, handled>>

\* Mutation: one target too many.
SendOneMore(t) ==
  /\ step[t] = "send" /\ left[t] >= 0
  /\ left' = [left EXCEPT ![t] = @ - 1]
  /\ UNCHANGED <<fed, step, work, silenced, dedup, alerts, snapshot, restarts,
                 passed, handled>>

(* The next webhook target is tried; a failure is logged and the next one   *)
(* is tried.                                                                *)
Send(t) ==
  /\ step[t] = "send" /\ left[t] > 0
  /\ left' = [left EXCEPT ![t] = @ - 1]
  /\ UNCHANGED <<fed, step, work, silenced, dedup, alerts, snapshot, restarts,
                 passed, handled>>

(* All targets tried: route() returns. *)
RouteDone(t) ==
  /\ step[t] = "send" /\ left[t] = 0
  /\ handled' = handled \cup {work[t].fp}
  /\ Return(t)
  /\ UNCHANGED <<fed, left, silenced, dedup, alerts, snapshot, restarts,
                 passed>>

-----------------------------------------------------------------------------
\* The confidence of an auto-escalated alert.
Bumped(c) == IF c + 15 < 95 THEN c + 15 ELSE 95

\* What run_auto_escalation() routes for alert a.
Escalated(a) == [fp |-> a.fp, conf |-> Bumped(a.conf)]

\* Active alerts, old enough to escalate and not yet at the top.
Due(a) == a.active /\ a.overdue /\ a.conf < 90

(* run_auto_escalation(): the interval is over and list_active_alerts()     *)
(* succeeds: the dates in the answer can be read, or there are none.  (If   *)
(* it fails the task sleeps again.)                                         *)
ListActive ==
  /\ step["escalator"] = "idle"
  /\ AnswersAsAsked \/ \A i \in DOMAIN alerts : ~alerts[i].active
  /\ snapshot' = alerts
  /\ step' = [step EXCEPT !["escalator"] = "pass"]
  /\ UNCHANGED <<fed, work, left, silenced, dedup, alerts, restarts, passed, handled>>

\* The newest row the pass has not yet dealt with, and the rows after that.
Newest == snapshot[Len(snapshot)]
Older == SubSeq(snapshot, 1, Len(snapshot) - 1)

(* The next alert of the pass, newest first, is routed if it was due when   *)
(* it was listed, whatever became of it meanwhile.                          *)
EscalateNext ==
  /\ step["escalator"] = "pass" /\ snapshot # <<>>
  /\ snapshot' = Older
  /\ IF Due(Newest)
     THEN Route("escalator", Escalated(Newest))
     ELSE UNCHANGED <<step, work>>
  /\ UNCHANGED <<fed, left, silenced, dedup, alerts, restarts, passed, handled>>

(* The pass is over. *)
PassDone ==
  /\ step["escalator"] = "pass" /\ snapshot = <<>>
  /\ step' = [step EXCEPT !["escalator"] = "idle"]
  /\ UNCHANGED <<fed, work, left, silenced, dedup, alerts, snapshot, restarts,
                 passed, handled>>

-----------------------------------------------------------------------------
(* timeout_secs have passed since alert i fired. *)
Overdue(i) ==
  /\ i \in 1..Len(alerts) /\ ~alerts[i].overdue
  /\ alerts' = [alerts EXCEPT ![i].overdue = TRUE]
  /\ UNCHANGED <<fed, step, work, left, silenced, dedup, snapshot, restarts,
                 passed, handled>>

(* resolve_alert(), from the API.  The cache is not touched. *)
Resolve(i) ==
  /\ i \in 1..Len(alerts) /\ alerts[i].active
  /\ alerts' = [alerts EXCEPT ![i].active = FALSE]
  /\ UNCHANGED <<fed, step, work, left, silenced, dedup, snapshot, restarts,
                 passed, handled>>

(* create_silence(), from the API. *)
Silence(f) ==
  /\ f \notin silenced
  /\ silenced' = silenced \cup {f}
  /\ UNCHANGED <<fed, step, work, left, dedup, alerts, snapshot, restarts,
                 passed, handled>>

(* expire_silence(), from the API, or its time is over. *)
Unsilence(f) ==
  /\ f \in silenced
  /\ silenced' = silenced \ {f}
  /\ UNCHANGED <<fed, step, work, left, dedup, alerts, snapshot, restarts,
                 passed, handled>>

(* The time to live of f in the cache is over, or it is evicted: the next   *)
(* alert opens a new window.                                                *)
Forget(f) ==
  /\ f \in dedup
  /\ dedup' = dedup \ {f}
  /\ passed' = [t \in AlertTasks |-> passed[t] \ {f}]
  /\ UNCHANGED <<fed, step, work, left, silenced, alerts, snapshot, restarts,
                 handled>>

(* The gateway is restarted: tasks and cache start afresh. *)
Restart ==
  /\ restarts < MaxRestarts
  /\ restarts' = restarts + 1
  /\ step' = [t \in AlertTasks |-> "idle"]
  /\ work' = [t \in AlertTasks |-> NoAnomaly]
  /\ left' = [t \in AlertTasks |-> 0]
  /\ dedup' = {}
  /\ passed' = [t \in AlertTasks |-> {}]
  /\ snapshot' = <<>>
  /\ UNCHANGED <<fed, silenced, alerts, handled>>

RouteStep(t) ==
  \/ AskSilenced(t) \/ AskProceed(t) \/ ContainsKey(t) \/ Insert(t)
  \/ Persist(t) \/ Send(t) \/ RouteDone(t)

EscalatorStep == ListActive \/ EscalateNext \/ PassDone

AlertNext ==
  \/ \E t \in Reporters, f \in Fingerprints, c \in Confidences :
       Report(t, [fp |-> f, conf |-> c])
  \/ \E t \in AlertTasks : RouteStep(t)
  \/ EscalatorStep
  \/ \E i \in 1..Len(alerts) : Overdue(i) \/ Resolve(i)
  \/ \E f \in Fingerprints : Silence(f) \/ Unsilence(f) \/ Forget(f)
  \/ Restart

AlertSpec == AlertInit /\ [][AlertNext]_alertVars

-----------------------------------------------------------------------------
AlertTypeOK ==
  /\ fed \in 0..NumAnomalies
  /\ step \in [AlertTasks -> Steps \cup {"idle", "pass"}]
  /\ work \in [AlertTasks -> Anomaly \cup {NoAnomaly}]
  /\ left \in [AlertTasks -> 0..NumTargets]
  /\ silenced \subseteq Fingerprints /\ dedup \subseteq Fingerprints
  /\ alerts \in Seq(Alert) /\ Len(alerts) <= MaxAlerts
  /\ snapshot \in Seq(Alert)
  /\ restarts \in 0..MaxRestarts
  /\ passed \in [AlertTasks -> SUBSET Fingerprints]
  /\ handled \subseteq Fingerprints

(* In one window of the cache a task gets a fingerprint past it only once:  *)
(* duplicates come only from tasks that ask the cache before one of them    *)
(* has filled it.                                                           *)
OncePerTask == \A t \in AlertTasks : step[t] = "insert" => work[t].fp \notin passed[t]

(* What suppresses an alert is an alert that was sent out, or is on its way *)
(* through route(): neither a silence nor a failed insert into the history  *)
(* leaves a fingerprint behind that hides the next alert.                   *)
SuppressedOnlyIfSent ==
  \A f \in dedup :
    \/ f \in handled
    \/ \E t \in AlertTasks : step[t] \in {"persist", "send"} /\ work[t].fp = f

(* escalation.rs on run_auto_escalation(): alerts "older than timeout_secs  *)
(* -> escalates them one level higher" - when it has dealt with an alert    *)
(* that is not silenced, all targets have been sent the next level.         *)
EscalatedOneHigher ==
  [][step["escalator"] \in Steps /\ step'["escalator"] = "pass"
     /\ work["escalator"].fp \notin silenced
     => /\ step["escalator"] = "send" /\ left["escalator"] = 0
        /\ FromConfidence(work["escalator"].conf)
             > FromConfidence(work["escalator"].conf - 15)]_alertVars
=============================================================================
