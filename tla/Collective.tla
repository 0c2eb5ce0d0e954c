------------------------------ MODULE Collective ------------------------------
(***************************************************************************)
(* What the all-reduce of b12x/comm/roce promises the model that uses it:  *)
(* every rank gives its inputs in the same order, and a result a rank      *)
(* takes is the reduction of the inputs of all ranks for that operation.   *)
(***************************************************************************)
EXTENDS Naturals, Sequences

CONSTANTS Ranks, MaxOps

VARIABLES
    given,   (* given[r]: how many operations r handed over                *)
    taken    (* taken[r]: the reductions r took, each a set of <<rank, op>> *)

Sum(k) == {<<r, k>> : r \in Ranks}

Init ==
    /\ given = [r \in Ranks |-> 0]
    /\ taken = [r \in Ranks |-> <<>>]

Give(r) ==
    /\ given[r] < MaxOps
    /\ given' = [given EXCEPT ![r] = @ + 1]
    /\ UNCHANGED taken

(* The host takes the results of its operations up to one that all ranks   *)
(* have given.                                                             *)
Take(r) ==
    /\ \E n \in 1 .. given[r] :
          /\ DOMAIN taken[r] \subseteq 1 .. n
          /\ \A p \in Ranks : given[p] >= n
          /\ taken' = [taken EXCEPT ![r] = [k \in 1 .. n |-> Sum(k)]]
    /\ UNCHANGED given

Next == \E r \in Ranks : Give(r) \/ Take(r)

Spec == Init /\ [][Next]_<<given, taken>>
===============================================================================
