----------------------------- MODULE RecordLog -----------------------------
(***************************************************************************)
(* What the storage sink promises, without its queues, files and tasks: a  *)
(* log that takes records in and settles each once and for good.  It       *)
(* stores records a batch at a time and oldest first; a record that is not *)
(* stored yet may be given up, a stored one may not.                       *)
(***************************************************************************)
EXTENDS Naturals

VARIABLES sent,    \* records accepted so far: 1, 2, ..., sent
          stored,  \* records stored
          gone     \* records given up

vars == <<sent, stored, gone>>

Pending == 1..sent \ (stored \cup gone)

Init == sent = 0 /\ stored = {} /\ gone = {}

(* A record is taken in, or refused on the spot. *)
Accept ==
  /\ sent' = sent + 1
  /\ gone' \in {gone, gone \cup {sent + 1}}
  /\ UNCHANGED stored

(* The oldest records that are pending are stored. *)
Store ==
  /\ \E S \in SUBSET Pending :
       /\ S # {}
       /\ \A r \in S, p \in Pending \ S : r < p
       /\ stored' = stored \cup S
  /\ UNCHANGED <<sent, gone>>

(* Pending records are given up. *)
GiveUp ==
  /\ \E S \in SUBSET Pending : gone' = gone \cup S
  /\ UNCHANGED <<sent, stored>>

Next == Accept \/ Store \/ GiveUp

Spec == Init /\ [][Next]_vars
=============================================================================
