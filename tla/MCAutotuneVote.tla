---------------------------- MODULE MCAutotuneVote ----------------------------
(* Instances of AutotuneVote for TLC: three ranks, one of which can be     *)
(* outvoted, and two environments and tables to disagree about.            *)
EXTENDS AutotuneVote

CONSTANTS r1, r2, r3, e1, e2, t1, t2

(* Every node is upgraded between two boots, or none.                      *)
UniformFleet == {[r \in Ranks |-> e] : e \in Environments}
(* One node at a time may be upgraded.                                     *)
DriftingFleet == [Ranks -> Environments]
(* Every rank holds the table it tuned with the others and saved under its *)
(* own environment: what a cold boot of such a fleet leaves behind.        *)
DriftSpec == Init /\ (\E t \in Tables : Settled(t)) /\ [][Next]_vars
=============================================================================
