------------------------------ MODULE Admission ------------------------------
(***************************************************************************)
(* What the gateway promises the engine, without queues, timers or         *)
(* failures: at most Limit clients are inside at any time, and of the      *)
(* clients that ask for exclusive use of a key no two are inside with the  *)
(* same key.  A client enters, may claim its key, gives the claim up, and  *)
(* leaves; it leaves with nothing claimed.  Gateway implements this.       *)
(***************************************************************************)
EXTENDS Naturals, FiniteSets

CONSTANTS Clients, Limit, Key(_)

VARIABLES inside, claims

adVars == <<inside, claims>>

AdInit == inside = {} /\ claims = {}

Enter(c) ==
    /\ c \notin inside
    /\ Cardinality(inside) < Limit
    /\ inside' = inside \cup {c}
    /\ UNCHANGED claims

Claim(c) ==
    /\ c \in inside
    /\ \A d \in claims : Key(d) # Key(c)
    /\ claims' = claims \cup {c}
    /\ UNCHANGED inside

GiveUp(c) ==
    /\ c \in claims
    /\ claims' = claims \ {c}
    /\ UNCHANGED inside

Leave(c) ==
    /\ c \in inside
    /\ inside' = inside \ {c}
    /\ claims' = claims \ {c}

AdNext == \E c \in Clients : Enter(c) \/ Claim(c) \/ GiveUp(c) \/ Leave(c)

AdSpec == AdInit /\ [][AdNext]_adVars
=============================================================================
