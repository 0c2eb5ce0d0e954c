------------------------------ MODULE ClientView ------------------------------
(***************************************************************************)
(* What a client of the gateway may see of one stream, whatever happens    *)
(* behind it: chunks of the engine's answer in the engine's order with     *)
(* none missing, then possibly error frames, then the end of the response. *)
(* Once an error frame is out no chunk follows it, and once the response   *)
(* has ended nothing does.  Keep-alive comments are stuttering steps.      *)
(* This is the module docstring's contract of concurrency_proxy_v2.py      *)
(* (lines 31-50) as a state machine; GatewayStream implements it.          *)
(***************************************************************************)
EXTENDS Naturals

CONSTANT Modulus    (* chunks are numbered modulo this                     *)

VARIABLES chunks,   (* number of the last chunk handed to the client       *)
          phase     (* "answering", "failed" or "ended"                    *)

viewVars == <<chunks, phase>>

ViewInit == chunks = 0 /\ phase = "answering"

Chunk == /\ phase = "answering"
         /\ chunks' = (chunks + 1) % Modulus
         /\ UNCHANGED phase

Fail == phase = "answering" /\ phase' = "failed" /\ UNCHANGED chunks

End == phase # "ended" /\ phase' = "ended" /\ UNCHANGED chunks

ViewNext == Chunk \/ Fail \/ End

ViewSpec == ViewInit /\ [][ViewNext]_viewVars
=============================================================================
