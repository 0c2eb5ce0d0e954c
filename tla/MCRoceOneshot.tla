----------------------------- MODULE MCRoceOneshot -----------------------------
(* Instances of RoceOneshot for TLC.  The operations alternate between     *)
(* grids of one and of two blocks; the smallest leaves the second HCA an   *)
(* empty stripe.                                                           *)
EXTENDS RoceOneshot

MCPacks == [k \in 1 .. MaxOps |-> IF k % 2 = 1 THEN 1 ELSE 3]
===============================================================================
