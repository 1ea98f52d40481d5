------------------------------ MODULE MCIngest ------------------------------
(***************************************************************************)
(* One message in both cases, another in one, and bodies that contain them.*)
(***************************************************************************)
EXTENDS Ingest, TLC

CONSTANTS route, login

Msg(w, u) == [valid |-> TRUE, msg |-> [words |-> w, upper |-> u]]

MCBodies == {Garbage,
             [kind |-> "single", entries |-> <<Malformed>>],
             [kind |-> "single", entries |-> <<Msg(login, FALSE)>>],
             [kind |-> "single", entries |-> <<Msg(route, FALSE)>>],
             [kind |-> "batch", entries |-> <<>>],
             [kind |-> "batch", entries |-> <<Malformed, Msg(route, TRUE)>>],
             [kind |-> "batch", entries |-> <<Msg(route, FALSE), Msg(route, TRUE)>>],
             [kind |-> "batch", entries |-> <<Malformed, Malformed, Malformed>>]}

Symmetry == Permutations(Requests)
=============================================================================
