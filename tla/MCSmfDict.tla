------------------------------ MODULE MCSmfDict ------------------------------
(* SmfDict for TLC: three keys, two of which have the same hash, and arrays that double once. *)
EXTENDS SmfDict, TLC

CONSTANTS k1, k2, k3, v1, v2

ThreeKeys == {k1, k2, k3}
TwoValues == {v1, v2}
Colliding == k1 :> 1 @@ k2 :> 1 @@ k3 :> 2
=============================================================================
