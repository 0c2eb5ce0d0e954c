------------------------------ MODULE MCGateway ------------------------------
(* Instances of Gateway for TLC: five POST requests and a GET compete for  *)
(* two slots.  r1, r2 and r3 are streams, r1 and r2 retries of one body;   *)
(* p1 and p2 are not streamed.                                             *)
EXTENDS Gateway

CONSTANTS r1, r2, r3, p1, p2, g1

Body(len, head, rest) == [len |-> len, head |-> head, rest |-> rest]
PromptA == Body(2, "a", "x")
PromptB == Body(1, "b", "")

DistinctBodies ==
    [r \in Requests |-> IF r \in {r1, r2} THEN PromptA ELSE PromptB]
=============================================================================
