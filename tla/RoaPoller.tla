----------------------------- MODULE RoaPoller -----------------------------
(***************************************************************************)
(* The ROA poller (roa_poller.rs): every five minutes it compares          *)
(* Routinator's ROAs with those it knows, reports the removed ones on the  *)
(* alert channel and writes the changes to the history in ClickHouse.      *)
(***************************************************************************)
EXTENDS Integers, FiniteSets

CONSTANTS Roas, MaxPolls   \* bound: poll cycles

VARIABLES
  published,  \* the ROAs Routinator has
  known_roas,
  poller,     \* "idle", "fetched", "alerting"
  new_roas,   \* the answer of fetch_roas()
  added, removed,  \* the deltas of this cycle
  toAlert,    \* removed ones not yet reported
  polls,      \* cycles begun
  roaHistory, \* [Roas -> the last action the history has]
  roaAlerts,  \* [Roas -> alerts sent]
  removals,   \* history: [Roas -> removals found]
  unsure      \* history: ROAs a failed write or a restart may have left wrong

roaVars == <<published, known_roas, poller, new_roas, added, removed, toAlert, polls,
             roaHistory, roaAlerts, removals, unsure>>

RoaInit ==
  /\ published \in SUBSET Roas
  /\ known_roas = {} /\ poller = "idle" /\ new_roas = {}
  /\ added = {} /\ removed = {} /\ toAlert = {} /\ polls = 0
  /\ roaHistory = [e \in Roas |-> "none"]
  /\ roaAlerts = [e \in Roas |-> 0] /\ removals = [e \in Roas |-> 0]
  /\ unsure = {}

(* ROAs come and go; one whose ASN does not parse counts as absent. *)
Publish ==
  /\ published' \in (SUBSET Roas) \ {published}
  /\ UNCHANGED <<known_roas, poller, new_roas, added, removed, toAlert, polls,
                 roaHistory, roaAlerts, removals, unsure>>

(* poll_once(): fetch_roas() answers, or fails and the cycle is over. *)
FetchRoas ==
  /\ poller = "idle" /\ polls < MaxPolls
  /\ polls' = polls + 1
  /\ \/ poller' = "fetched" /\ new_roas' = published
     \/ UNCHANGED <<poller, new_roas>>
  /\ UNCHANGED <<published, known_roas, added, removed, toAlert,
                 roaHistory, roaAlerts, removals, unsure>>

\* Mutation: what is new is added to what is known.
KnownAfterMerged(known, new) == known \cup new

\* What compute_deltas() leaves in known_roas.
KnownAfter(known, new) == new

(* compute_deltas(): replaces the known ROAs before anything is written.    *)
ComputeDeltas ==
  /\ poller = "fetched"
  /\ known_roas' = KnownAfter(known_roas, new_roas)
  /\ added' = new_roas \ known_roas
  /\ removed' = known_roas \ new_roas
  /\ toAlert' = removed'
  /\ removals' = [e \in Roas |-> IF e \in removed' THEN removals[e] + 1 ELSE removals[e]]
  /\ poller' = IF added' \cup removed' = {} THEN "idle" ELSE "alerting"
  /\ new_roas' = {}
  /\ UNCHANGED <<published, polls, roaHistory, roaAlerts, unsure>>

(* write_deltas(): send().await, which waits while the channel is full.     *)
SendRemoved(e) ==
  /\ poller = "alerting" /\ e \in toAlert
  /\ toAlert' = toAlert \ {e}
  /\ roaAlerts' = [roaAlerts EXCEPT ![e] = @ + 1]
  /\ UNCHANGED <<published, known_roas, poller, new_roas, added, removed, polls,
                 roaHistory, removals, unsure>>

\* The history with the deltas of this cycle.
WithDeltas ==
  [e \in Roas |-> IF e \in added THEN "added"
                  ELSE IF e \in removed THEN "removed" ELSE roaHistory[e]]

(* One INSERT for all deltas: it succeeds, fails, or is carried out though  *)
(* it seemed to fail.  They are not computed again.                         *)
WriteDeltas ==
  /\ poller = "alerting" /\ toAlert = {}
  /\ poller' = "idle" /\ added' = {} /\ removed' = {}
  /\ \/ roaHistory' = WithDeltas /\ unsure' = unsure \ (added \cup removed)
     \/ /\ roaHistory' \in {roaHistory, WithDeltas}
        /\ unsure' = unsure \cup added \cup removed
  /\ UNCHANGED <<published, known_roas, new_roas, toAlert, polls, roaAlerts, removals>>

(* The gateway restarts: nothing is known, all of it will be new.           *)
RestartPoller ==
  /\ polls < MaxPolls
  /\ known_roas' = {} /\ poller' = "idle" /\ new_roas' = {}
  /\ added' = {} /\ removed' = {} /\ toAlert' = {}
  /\ removals' = [e \in Roas |-> IF e \in toAlert THEN removals[e] - 1 ELSE removals[e]]
  /\ unsure' = unsure \cup added \cup removed \cup {e \in Roas : roaHistory[e] = "added"}
  /\ UNCHANGED <<published, polls, roaHistory, roaAlerts>>

RoaNext ==
  Publish \/ FetchRoas \/ ComputeDeltas \/ (\E e \in Roas : SendRemoved(e)) \/ WriteDeltas
    \/ RestartPoller

RoaSpec == RoaInit /\ [][RoaNext]_roaVars

-----------------------------------------------------------------------------
(* Between two cycles the history tells of every ROA whether the poller     *)
(* knows it, unless the write of its last change failed or the gateway was  *)
(* restarted after it; and every removal found was reported once, also if   *)
(* the write then fails (a restart loses those still to be sent).           *)
RoaChangesAccounted ==
  /\ \A e \in Roas : roaAlerts[e] = removals[e] - (IF e \in toAlert THEN 1 ELSE 0)
  /\ poller \in {"idle", "fetched"} =>
       \A e \in Roas \ unsure : e \in known_roas <=> roaHistory[e] = "added"
=============================================================================
