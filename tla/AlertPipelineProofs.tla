------------------------ MODULE AlertPipelineProofs ------------------------
(***************************************************************************)
(* Type correctness of AlertPipeline and the two invariants of its         *)
(* deduplication, for any fingerprints, confidences, rules and targets.    *)
(***************************************************************************)
EXTENDS AlertPipeline, TLAPS

-----------------------------------------------------------------------------
(* The assumptions on the constants, and what they say of confidences. *)
LEMMA Constants ==
  /\ Confidences \subseteq 0..100
  /\ NumTargets \in Nat /\ NumAnomalies \in Nat /\ MaxAlerts \in Nat
  /\ MaxRestarts \in Nat
BY ConfidencesAssumption, TargetsAssumption, BoundsAssumption DEF Percent

(* A bumped confidence is still a confidence. *)
LEMMA BumpedType == \A c \in Percent : Bumped(c) \in Percent
BY DEF Bumped, Percent

(* A call or a return of route() keeps the types of step and work. *)
LEMMA RouteType ==
  ASSUME AlertTypeOK, NEW t \in AlertTasks, NEW a \in Anomaly, Route(t, a)
  PROVE  /\ step' \in [AlertTasks -> Steps \cup {"idle", "pass"}]
         /\ work' \in [AlertTasks -> Anomaly \cup {NoAnomaly}]
BY DEF AlertTypeOK, Route, Return, Resume, Steps

\* When route() returns, the task's state has its type.
LEMMA ReturnType ==
  ASSUME AlertTypeOK, NEW t \in AlertTasks, Return(t)
  PROVE  /\ step' \in [AlertTasks -> Steps \cup {"idle", "pass"}]
         /\ work' \in [AlertTasks -> Anomaly \cup {NoAnomaly}]
BY DEF AlertTypeOK, Return, Resume, Steps

(* A task inside route() works on a real anomaly. *)
Busy == \A t \in AlertTasks : step[t] \in Steps => work[t] \in Anomaly

(* What the cache has let through in this window is in the cache. *)
WindowsOpen == \A t \in AlertTasks : passed[t] \subseteq dedup

IndInv == AlertTypeOK /\ Busy /\ WindowsOpen /\ OncePerTask /\ SuppressedOnlyIfSent

(* The initial states satisfy the inductive invariant. *)
LEMMA InitIndInv == AlertInit => IndInv
BY Constants DEF AlertInit, IndInv, AlertTypeOK, Busy, WindowsOpen, OncePerTask,
   SuppressedOnlyIfSent, Steps, AlertTasks, Reporters

(* Every step keeps the types and the busy tasks' anomalies. *)
LEMMA TypeStep == AlertTypeOK /\ Busy /\ [AlertNext]_alertVars => AlertTypeOK' /\ Busy'
<1> SUFFICES ASSUME AlertTypeOK, Busy, [AlertNext]_alertVars PROVE AlertTypeOK' /\ Busy'
  OBVIOUS
<1> USE Constants
<1>1. ASSUME NEW t \in Reporters, NEW f \in Fingerprints, NEW c \in Confidences,
             Report(t, [fp |-> f, conf |-> c])
      PROVE  AlertTypeOK' /\ Busy'
  <2>1. t \in AlertTasks /\ [fp |-> f, conf |-> c] \in Anomaly
    BY DEF AlertTasks, Anomaly, Percent
  <2>2. /\ step' \in [AlertTasks -> Steps \cup {"idle", "pass"}]
        /\ work' \in [AlertTasks -> Anomaly \cup {NoAnomaly}]
    BY <1>1, <2>1, RouteType DEF Report
  <2>3. AlertTypeOK' BY <1>1, <2>2 DEF Report, AlertTypeOK
  <2>4. Busy' BY <1>1, <2>1 DEF Report, Route, Return, Resume, AlertTypeOK, Busy, Steps
  <2> QED BY <2>3, <2>4
<1>2. ASSUME NEW t \in AlertTasks, RouteStep(t) PROVE AlertTypeOK' /\ Busy'
  <2>1. CASE AskSilenced(t)
    BY <2>1, ReturnType DEF AskSilenced, Return, Resume, AlertTypeOK, Busy, Steps
  <2>2. CASE AskProceed(t) BY <2>2 DEF AskProceed, AlertTypeOK, Busy, Steps
  <2>3. CASE ContainsKey(t)
    BY <2>3, ReturnType DEF ContainsKey, Return, Resume, AlertTypeOK, Busy, Steps
  <2>4. CASE Insert(t)
    <3>1. work[t].fp \in Fingerprints
      BY <2>4 DEF Insert, Busy, Steps, Anomaly
    <3> QED BY <2>4, <3>1 DEF Insert, AlertTypeOK, Busy, Steps
  <2>5. CASE Persist(t)
    <3>1. [fp |-> work[t].fp, conf |-> work[t].conf, active |-> TRUE,
           overdue |-> FALSE] \in Alert
      BY <2>5 DEF Persist, Busy, Steps, Anomaly, Alert
    <3>2. alerts' \in Seq(Alert) /\ Len(alerts') <= MaxAlerts
      <4>1. CASE Len(alerts) < MaxAlerts /\ alerts' = WithRow(t)
        <5> DEFINE row == [fp |-> work[t].fp, conf |-> work[t].conf,
                           active |-> TRUE, overdue |-> FALSE]
        <5>1. alerts' = Append(alerts, row) BY <4>1 DEF WithRow
        <5>2. row \in Alert BY <3>1
        <5> HIDE DEF row
        <5> QED BY <4>1, <5>1, <5>2 DEF AlertTypeOK
      <4>2. CASE UNCHANGED alerts BY <4>2 DEF AlertTypeOK
      <4> QED BY <2>5, <4>1, <4>2 DEF Persist
    <3> QED BY <2>5, <3>2 DEF Persist, AlertTypeOK, Busy, Steps
  <2>6. CASE Send(t) BY <2>6 DEF Send, AlertTypeOK, Busy, Steps
  <2>7. CASE RouteDone(t)
    <3>1. work[t].fp \in Fingerprints
      BY <2>7 DEF RouteDone, Busy, Steps, Anomaly
    <3> QED
      BY <2>7, <3>1, ReturnType DEF RouteDone, Return, Resume, AlertTypeOK, Busy, Steps
  <2> QED BY <1>2, <2>1, <2>2, <2>3, <2>4, <2>5, <2>6, <2>7 DEF RouteStep
<1>3. ASSUME EscalatorStep PROVE AlertTypeOK' /\ Busy'
  <2> "escalator" \in AlertTasks BY DEF AlertTasks
  <2>1. CASE ListActive BY <2>1 DEF ListActive, AlertTypeOK, Busy, Steps
  <2>2. CASE EscalateNext
    <3>1. Newest \in Alert /\ Older \in Seq(Alert)
      BY <2>2 DEF EscalateNext, Newest, Older, AlertTypeOK
    <3>2. Escalated(Newest) \in Anomaly
      BY <3>1, BumpedType DEF Escalated, Anomaly, Alert
    <3>3. /\ step' \in [AlertTasks -> Steps \cup {"idle", "pass"}]
          /\ work' \in [AlertTasks -> Anomaly \cup {NoAnomaly}]
      BY <2>2, <3>2, RouteType DEF EscalateNext, AlertTypeOK
    <3>4. AlertTypeOK' BY <2>2, <3>1, <3>3 DEF EscalateNext, AlertTypeOK
    <3>5. Busy'
      BY <2>2, <3>2 DEF EscalateNext, Route, Return, Resume, AlertTypeOK, Busy, Steps
    <3> QED BY <3>4, <3>5
  <2>3. CASE PassDone BY <2>3 DEF PassDone, AlertTypeOK, Busy, Steps
  <2> QED BY <1>3, <2>1, <2>2, <2>3 DEF EscalatorStep
<1>4. ASSUME NEW i \in 1..Len(alerts), Overdue(i) \/ Resolve(i)
      PROVE  AlertTypeOK' /\ Busy'
  <2>1. alerts' \in Seq(Alert) /\ Len(alerts') = Len(alerts)
    <3>1. alerts[i] \in Alert BY DEF AlertTypeOK
    <3>2. \E a \in Alert : alerts' = [alerts EXCEPT ![i] = a]
      <4>1. CASE Overdue(i)
        <5>1. [alerts[i] EXCEPT !.overdue = TRUE] \in Alert BY <3>1 DEF Alert
        <5> QED BY <4>1, <5>1 DEF Overdue
      <4>2. CASE Resolve(i)
        <5>1. [alerts[i] EXCEPT !.active = FALSE] \in Alert BY <3>1 DEF Alert
        <5> QED BY <4>2, <5>1 DEF Resolve
      <4> QED BY <1>4, <4>1, <4>2
    <3> QED BY <3>2 DEF AlertTypeOK
  <2> QED BY <1>4, <2>1 DEF Overdue, Resolve, AlertTypeOK, Busy
<1>5. ASSUME NEW f \in Fingerprints, Silence(f) \/ Unsilence(f) \/ Forget(f)
      PROVE  AlertTypeOK' /\ Busy'
  BY <1>5 DEF Silence, Unsilence, Forget, AlertTypeOK, Busy
<1>6. CASE Restart BY <1>6 DEF Restart, AlertTypeOK, Busy, Steps
<1>7. CASE UNCHANGED alertVars BY <1>7 DEF alertVars, AlertTypeOK, Busy
<1> QED BY <1>1, <1>2, <1>3, <1>4, <1>5, <1>6, <1>7 DEF AlertNext

(* A task that neither inserts nor handles an alert disturbs no other. *)
LEMMA OthersStay ==
  ASSUME IndInv, NEW t \in AlertTasks, step[t] \in {"idle", "pass"},
         step' = [step EXCEPT ![t] = step'[t]], step'[t] # "insert",
         work' = [work EXCEPT ![t] = work'[t]], UNCHANGED <<dedup, passed, handled>>
  PROVE  OncePerTask' /\ SuppressedOnlyIfSent'
<1>1. DOMAIN step = AlertTasks /\ DOMAIN work = AlertTasks /\ OncePerTask /\ SuppressedOnlyIfSent
  BY DEF IndInv, AlertTypeOK
<1>2. ASSUME NEW u \in AlertTasks, u # t
      PROVE  step'[u] = step[u] /\ work'[u] = work[u]
  BY <1>1, <1>2
<1>3. OncePerTask'
  BY <1>1, <1>2 DEF OncePerTask
<1>4. SuppressedOnlyIfSent'
  BY <1>1, <1>2 DEF SuppressedOnlyIfSent
<1> QED
  BY <1>3, <1>4

(* Every step keeps the invariants of the cache. *)
LEMMA CacheStep ==
  IndInv /\ [AlertNext]_alertVars => WindowsOpen' /\ OncePerTask' /\ SuppressedOnlyIfSent'
<1> SUFFICES ASSUME IndInv, [AlertNext]_alertVars
             PROVE  WindowsOpen' /\ OncePerTask' /\ SuppressedOnlyIfSent'
  OBVIOUS
<1> USE DEF IndInv, AlertTypeOK, WindowsOpen, OncePerTask, SuppressedOnlyIfSent
<1>1. ASSUME NEW t \in Reporters, NEW f \in Fingerprints, NEW c \in Confidences,
             Report(t, [fp |-> f, conf |-> c])
      PROVE  WindowsOpen' /\ OncePerTask' /\ SuppressedOnlyIfSent'
  <2>1. t \in AlertTasks /\ step[t] = "idle" BY <1>1 DEF AlertTasks, Report
  <2>2. /\ step' = [step EXCEPT ![t] = step'[t]] /\ step'[t] \in {"idle", "pass", "ask"}
        /\ work' = [work EXCEPT ![t] = work'[t]]
    BY <1>1, <2>1 DEF Report, Route, Return, Resume
  <2>3. UNCHANGED <<dedup, passed, handled>> BY <1>1 DEF Report
  <2> HIDE DEF IndInv, AlertTypeOK, OncePerTask, SuppressedOnlyIfSent
  <2>4. OncePerTask' /\ SuppressedOnlyIfSent' BY <2>1, <2>2, <2>3, OthersStay
  <2> QED BY <2>3, <2>4 DEF IndInv
<1>2. ASSUME NEW t \in AlertTasks, RouteStep(t)
      PROVE  WindowsOpen' /\ OncePerTask' /\ SuppressedOnlyIfSent'
  <2>1. CASE AskSilenced(t) BY <2>1 DEF AskSilenced, Return, Resume
  <2>2. CASE AskProceed(t) BY <2>2 DEF AskProceed
  <2>3. CASE ContainsKey(t)
    <3>1. OncePerTask'
      <4>1. CASE work[t].fp \in dedup BY <2>3, <4>1 DEF ContainsKey, Return, Resume
      <4>2. CASE work[t].fp \notin dedup
        <5>1. work[t].fp \notin passed[t] BY <4>2
        <5> QED BY <2>3, <4>2, <5>1 DEF ContainsKey
      <4> QED BY <4>1, <4>2
    <3>2. SuppressedOnlyIfSent' BY <2>3 DEF ContainsKey, Return, Resume
    <3> QED BY <2>3, <3>1, <3>2 DEF ContainsKey
  <2>4. CASE Insert(t)
    <3>1. WindowsOpen' BY <2>4 DEF Insert
    <3>2. OncePerTask' BY <2>4 DEF Insert
    <3>3. SuppressedOnlyIfSent' BY <2>4 DEF Insert
    <3> QED BY <3>1, <3>2, <3>3
  <2>5. CASE Persist(t) BY <2>5 DEF Persist
  <2>6. CASE Send(t) BY <2>6 DEF Send
  <2>7. CASE RouteDone(t) BY <2>7 DEF RouteDone, Return, Resume
  <2> QED BY <1>2, <2>1, <2>2, <2>3, <2>4, <2>5, <2>6, <2>7 DEF RouteStep
<1>3. ASSUME EscalatorStep
      PROVE  WindowsOpen' /\ OncePerTask' /\ SuppressedOnlyIfSent'
  <2> "escalator" \in AlertTasks BY DEF AlertTasks
  <2>1. CASE ListActive BY <2>1 DEF ListActive
  <2>2. CASE EscalateNext
    <3>1. /\ step["escalator"] = "pass"
          /\ step' = [step EXCEPT !["escalator"] = step'["escalator"]]
          /\ step'["escalator"] \in {"idle", "pass", "ask"}
          /\ work' = [work EXCEPT !["escalator"] = work'["escalator"]]
      <4>1. CASE Due(Newest) BY <2>2, <4>1 DEF EscalateNext, Route, Return, Resume
      <4>2. CASE ~Due(Newest) BY <2>2, <4>2 DEF EscalateNext
      <4> QED BY <4>1, <4>2
    <3>2. UNCHANGED <<dedup, passed, handled>> BY <2>2 DEF EscalateNext
    <3> HIDE DEF IndInv, AlertTypeOK, OncePerTask, SuppressedOnlyIfSent
    <3>3. OncePerTask' /\ SuppressedOnlyIfSent' BY <3>1, <3>2, OthersStay
    <3> QED BY <3>2, <3>3 DEF IndInv
  <2>3. CASE PassDone BY <2>3 DEF PassDone
  <2> QED BY <1>3, <2>1, <2>2, <2>3 DEF EscalatorStep
<1>4. ASSUME NEW i \in 1..Len(alerts), Overdue(i) \/ Resolve(i)
      PROVE  WindowsOpen' /\ OncePerTask' /\ SuppressedOnlyIfSent'
  BY <1>4 DEF Overdue, Resolve
<1>5. ASSUME NEW f \in Fingerprints, Silence(f) \/ Unsilence(f) \/ Forget(f)
      PROVE  WindowsOpen' /\ OncePerTask' /\ SuppressedOnlyIfSent'
  <2>1. CASE Silence(f) \/ Unsilence(f)
    BY <2>1 DEF Silence, Unsilence
  <2>2. CASE Forget(f)
    <3>1. /\ dedup' = dedup \ {f} /\ UNCHANGED <<step, work, handled>>
          /\ \A t \in AlertTasks : passed'[t] = passed[t] \ {f}
      BY <2>2 DEF Forget
    <3> QED BY <3>1
  <2> QED BY <1>5, <2>1, <2>2
<1>6. CASE Restart BY <1>6 DEF Restart
<1>7. CASE UNCHANGED alertVars BY <1>7 DEF alertVars
<1> QED BY <1>1, <1>2, <1>3, <1>4, <1>5, <1>6, <1>7 DEF AlertNext

(* IndInv is an invariant. *)
LEMMA Invariance == AlertSpec => []IndInv
<1>1. IndInv /\ [AlertNext]_alertVars => IndInv' BY TypeStep, CacheStep DEF IndInv
<1> QED BY InitIndInv, <1>1, PTL DEF AlertSpec

-----------------------------------------------------------------------------
(* Type correctness of the alert pipeline. *)
THEOREM TypeCorrect == AlertSpec => []AlertTypeOK
<1>1. IndInv => AlertTypeOK BY DEF IndInv
<1> QED BY Invariance, <1>1, PTL

(* In one window of the cache a task gets a fingerprint past is_new() only  *)
(* once, however many tasks share the router.                               *)
THEOREM OnlyRacesDuplicate == AlertSpec => []OncePerTask
<1>1. IndInv => OncePerTask BY DEF IndInv
<1> QED BY Invariance, <1>1, PTL

(* A fingerprint in the cache stands for an alert that was sent out, or is  *)
(* on its way: silences and failed inserts suppress nothing.                *)
THEOREM SuppressionIsJustified == AlertSpec => []SuppressedOnlyIfSent
<1>1. IndInv => SuppressedOnlyIfSent BY DEF IndInv
<1> QED BY Invariance, <1>1, PTL
=============================================================================
