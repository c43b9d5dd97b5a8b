---------------------------- MODULE MCAaveYield ----------------------------
(* Two reserves and a vault of each factory on the first of them. *)
EXTENDS AaveYield

CONSTANTS r1, r2, v1, v2, t1

AssetOf == [v \in {v1, v2} |-> r1]
=============================================================================
