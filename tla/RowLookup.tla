------------------------------ MODULE RowLookup ------------------------------
(***************************************************************************)
(* What row_store_lookup promises a caller, without threads: every         *)
(* position of its id list is served exactly once, and only while the call *)
(* is under way, so the id list and the output buffers may be reused as    *)
(* soon as it returns.  RowPool implements this.                           *)
(***************************************************************************)
EXTENDS Naturals

CONSTANTS Calls, Count

VARIABLES served,   (* how often each position of each call was served     *)
          returned  (* the calls that have returned                        *)

lookupVars == <<served, returned>>

Positions(c) == 0 .. Count[c] - 1

LookupInit ==
    /\ served = [c \in Calls |-> [i \in Positions(c) |-> 0]]
    /\ returned = {}

ServeOne(c) ==
    /\ c \notin returned
    /\ \E i \in Positions(c) :
          /\ served[c][i] = 0
          /\ served' = [served EXCEPT ![c][i] = 1]
    /\ UNCHANGED returned

Return(c) ==
    /\ c \notin returned
    /\ \A i \in Positions(c) : served[c][i] = 1
    /\ returned' = returned \cup {c}
    /\ UNCHANGED served

LookupNext == \E c \in Calls : ServeOne(c) \/ Return(c)

LookupSpec == LookupInit /\ [][LookupNext]_lookupVars
=============================================================================
