----------------------------- MODULE MCAlerting -----------------------------
(***************************************************************************)
(* The two components between the detectors and the webhooks, Propagation  *)
(* and AlertPipeline.  They share no state, and a behaviour lets one of    *)
(* them run, so that their states add up and do not multiply.  Fairness is *)
(* Propagation's.                                                          *)
(***************************************************************************)
EXTENDS MCPropagation, AlertPipeline

VARIABLE part

AlertingInit ==
  /\ part \in {"propagation", "alerts"}
  /\ Init /\ AlertInit
  \* the aggregator, when it does not run, starts in one state
  /\ part = "alerts" => record = CHOOSE r \in Record : TRUE

AlertingNext ==
  /\ UNCHANGED part
  /\ \/ part = "propagation" /\ Next /\ UNCHANGED alertVars
     \/ part = "alerts" /\ AlertNext /\ UNCHANGED vars

AlertingSpec ==
  AlertingInit /\ [][AlertingNext]_<<part, vars, alertVars>> /\ Fairness
=============================================================================
