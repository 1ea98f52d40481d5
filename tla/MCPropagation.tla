--------------------------- MODULE MCPropagation ---------------------------
(***************************************************************************)
(* Propagation on three groups, two of them in one shard.                  *)
(***************************************************************************)
EXTENDS Propagation

CONSTANTS k1, k2, k3

MCKeys == {k1, k2, k3}
MCShardOf == [k \in MCKeys |-> IF k = k3 THEN 2 ELSE 1]
MCUnparsable == {k2}
=============================================================================
