------------------------------ MODULE MCRowPool ------------------------------
(* Instances of RowPool for TLC.  Two calls share a pool of two workers;   *)
(* a third is below kSerialBelow and serves itself, beside them.           *)
EXTENDS RowPool, TLC

CONSTANTS big1, big2, small, w1, w2

Counts == (big1 :> 3) @@ (big2 :> 2) @@ (small :> 1)
=============================================================================
