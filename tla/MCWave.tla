------------------------------- MODULE MCWave -------------------------------
(***************************************************************************)
(* Three collectors, two of which the registry knows, and baseline entries *)
(* of fast and slow prefixes, with and without a deviation and an order.   *)
(***************************************************************************)
EXTENDS WaveScore

MCPosition == [c \in {1, 2} |-> 3 * c]
MCEntries == {[p50 |-> m, p99 |-> m + 10, std_dev |-> s, expected_order |-> o] :
                m \in {2, 20}, s \in {0, 5}, o \in {<<>>, <<1, 2, 3>>, <<3>>}}
=============================================================================
