------------------------------ MODULE FleetServe ------------------------------
(***************************************************************************)
(* start.sh serve and stop.sh: one script at a time drives docker on the   *)
(* head (host 0) and, over ssh, on the workers (hosts 1 .. N).  Every      *)
(* remote call can fail, before or after it had its effect, every          *)
(* container can die, and the script can be interrupted anywhere.  Images  *)
(* and the calibration tables of DSpark are replaced between two scripts.  *)
(*                                                                         *)
(* What the engines of the containers do together is external: each reads  *)
(* the table of its host when it boots, and the head reports ready when    *)
(* all ranks are up.  The gates on GPU, fabric and weights, which only     *)
(* read, are part of "the preflight refuses".                              *)
(***************************************************************************)
EXTENDS Naturals

CONSTANTS
    N,         (* number of workers                                        *)
    Versions,  (* versions of an image and of a calibration table          *)
    MaxRuns    (* bound: scripts run                                       *)

ASSUME FleetAssumption ==
    N \in Nat \ {0} /\ Versions # {} /\ MaxRuns \in Nat

Hosts == 0 .. N
Workers == 1 .. N

(* A container: the script that created it, whether it got the variables   *)
(* of EXTRA_DOCKER_ENV that name an engine gate (_ENGINE_GATE_KEYS; nobody *)
(* compares the others), its image, whether it runs, the table it read.    *)
NoContainer == [of |-> 0, gated |-> FALSE, image |-> {}, up |-> FALSE, table |-> {}]

VARIABLES
    ctn,      (* ctn[h]: the container named dsv41-head or dsv41-worker    *)
    image,    (* image[h]: what the tag IMAGE names                        *)
    table,    (* table[h]: dspark_sps.json and dspark_sts.json             *)
    ready,    (* the head's container has printed its banner               *)
    run,      (* number of the current or last script                      *)
    pc, at,   (* where the script is, and at which host                    *)
    failed,   (* stop.sh: the workers it reports as not clean              *)
    unseen,   (* ghost: the workers whose docker did not answer stop.sh    *)
    verdict   (* how the last script ended                                 *)

worldVars == <<ctn, image, table, ready>>
stopVars == <<failed, unseen>>
scriptVars == <<run, pc, at, stopVars, verdict>>
vars == <<worldVars, scriptVars>>

Exists(h) == ctn[h] # NoContainer

Init ==
    /\ ctn = [h \in Hosts |-> NoContainer]
    /\ \E v \in Versions : image = [h \in Hosts |-> v]
    /\ table \in [Hosts -> Versions]
    /\ ready = FALSE /\ run = 0 /\ pc = "none" /\ at = 0
    /\ failed = {} /\ unseen = {} /\ verdict = "none"

-----------------------------------------------------------------------------
(* The hosts and the operator.                                             *)

Replace(h) ==
    /\ pc = "none"
    /\ \E v \in Versions :
          \/ image' = [image EXCEPT ![h] = v] /\ UNCHANGED table
          \/ h = 0 /\ table' = [table EXCEPT ![h] = v] /\ UNCHANGED image
    /\ UNCHANGED <<ctn, ready, scriptVars>>

ReadTable(h) ==
    /\ ctn[h].up /\ ctn[h].table = {}
    /\ ctn' = [ctn EXCEPT ![h].table = {table[h]}]
    /\ UNCHANGED <<image, table, ready, scriptVars>>

BecomeReady ==
    /\ ~ready /\ \A h \in Hosts : ctn[h].up /\ ctn[h].table # {}
    /\ ready' = TRUE
    /\ UNCHANGED <<ctn, image, table, scriptVars>>

Die(h) ==
    /\ ctn[h].up
    /\ ctn' = [ctn EXCEPT ![h].up = FALSE]
    /\ UNCHANGED <<image, table, ready, scriptVars>>

-----------------------------------------------------------------------------
End(how) == pc' = "none" /\ at' = 0 /\ verdict' = how /\ UNCHANGED <<run, stopVars>>

(* On to the next worker, and from the last one to step next.              *)
NextWorker_PastLast(here, next) ==
    /\ IF at <= N THEN at' = at + 1 /\ pc' = here ELSE at' = 1 /\ pc' = next
    /\ UNCHANGED <<run, stopVars, verdict>>
NextWorker(here, next) ==
    /\ IF at < N THEN at' = at + 1 /\ pc' = here ELSE at' = 1 /\ pc' = next
    /\ UNCHANGED <<run, stopVars, verdict>>

(* docker rm -f, on the head or over ssh; nobody looks at its exit code.   *)
Removed(h) ==
    /\ ctn' \in {ctn, [ctn EXCEPT ![h] = NoContainer]}
    /\ ready' = (ready /\ (h = 0 => ctn' = ctn))
    /\ UNCHANGED <<image, table>>

(* docker run --name: refused while a container of that name exists.       *)
Run(h, alive) ==
    /\ ~Exists(h)
    /\ \E b \in BOOLEAN :
          ctn' = [ctn EXCEPT ![h] = [of |-> run, gated |-> b, image |-> {image[h]},
                                     up |-> alive, table |-> {}]]
    /\ UNCHANGED <<image, table, ready>>

Begin(script) ==
    /\ pc = "none" /\ run < MaxRuns
    /\ run' = run + 1 /\ pc' = script /\ at' = 1
    /\ failed' = {} /\ unseen' = {} /\ verdict' = "none"
    /\ UNCHANGED worldVars

(* A docker run that fails may leave a container, started or not.          *)
RunFails(h) ==
    /\ (\E alive \in BOOLEAN : Run(h, alive)) \/ UNCHANGED worldVars
    /\ End("die")

Interrupt == pc # "none" /\ End("interrupted") /\ UNCHANGED worldVars

-----------------------------------------------------------------------------
(* cmd_serve.                                                              *)

(* The preflight refuses for many reasons; it passes when every host has   *)
(* the head's image and, without FORCE=1, nothing runs on the head's GPU.  *)
Preflight ==
    /\ pc = "preflight"
    /\ \/ End("die")
       \/ /\ \A h \in Workers : image[h] = image[0]
          /\ \E force \in BOOLEAN : force \/ ~ctn[0].up
          /\ pc' = "rmHead" /\ UNCHANGED <<run, at, stopVars, verdict>>
    /\ UNCHANGED worldVars

RemoveHead ==
    /\ pc = "rmHead" /\ Removed(0)
    /\ pc' = "rmWorkers" /\ UNCHANGED <<run, at, stopVars, verdict>>

RemoveWorker == pc = "rmWorkers" /\ Removed(at) /\ NextWorker("rmWorkers", "push")

(* push_spec_tables: the head's table, to every worker, or none at all.    *)
Push ==
    /\ pc = "push"
    /\ \/ /\ table' = [table EXCEPT ![at] = table[0]]
          /\ NextWorker("push", "run") \/ End("die")
       \/ UNCHANGED table /\ End("die")
    /\ UNCHANGED <<ctn, image, ready>>

RunWorker_Tolerant ==
    /\ pc = "run"
    /\ \/ Run(at, TRUE) /\ pc' = "check" /\ UNCHANGED <<run, at, stopVars, verdict>>
       \/ UNCHANGED worldVars /\ NextWorker("run", "runHead")
RunWorker ==
    /\ pc = "run"
    /\ \/ Run(at, TRUE) /\ pc' = "check" /\ UNCHANGED <<run, at, stopVars, verdict>>
       \/ RunFails(at)

(* The container's environment lists each gate variable; one that cannot   *)
(* be read lists none, which every check below allows for.                 *)
engine_env_assert(h) == ctn[h].gated

(* Eight seconds later it must still run, with its gates.                  *)
CheckWorker ==
    /\ pc = "check"
    /\ \/ ctn[at].up /\ engine_env_assert(at) /\ NextWorker("run", "runHead")
       \/ End("die")
    /\ UNCHANGED worldVars

RunHead ==
    /\ pc = "runHead"
    /\ \/ Run(0, TRUE) /\ pc' = "checkHead" /\ UNCHANGED <<run, at, stopVars, verdict>>
       \/ RunFails(0)

(* The head is checked behind its start, and only for its gates.           *)
CheckHead ==
    /\ pc = "checkHead"
    /\ \/ engine_env_assert(0) /\ pc' = "wait" /\ UNCHANGED <<run, at, stopVars, verdict>>
       \/ End("refused")
    /\ UNCHANGED worldVars

(* Poll the banner, then the head's state, READY_TIMEOUT times at most.  A *)
(* log that cannot be read has no banner, and a state that cannot be read  *)
(* is that of a dead head.                                                 *)
Wait ==
    /\ pc = "wait"
    /\ \/ ready /\ End("ready")
       \/ End("dead") \/ End("timeout")
    /\ UNCHANGED worldVars

-----------------------------------------------------------------------------
(* stop.sh.                                                                *)

StopHead ==
    /\ pc = "stop" /\ Removed(0)
    /\ pc' = "stopWorkers" /\ UNCHANGED <<run, at, stopVars, verdict>>

StopWorker == pc = "stopWorkers" /\ Removed(at) /\ NextWorker("stopWorkers", "verify")

(* List what is left on a worker.  A call that fails counts as left over;  *)
(* but the listing is the head of a pipeline whose exit code is that of    *)
(* tr, so a docker that does not answer looks like an empty list.          *)
Listed(dirty) ==
    /\ failed' = IF dirty THEN failed \cup {at} ELSE failed
    /\ IF at < N
       THEN at' = at + 1 /\ UNCHANGED <<pc, verdict>>
       ELSE /\ at' = 0 /\ pc' = "none"
            /\ verdict' = IF failed' = {} THEN "clean" ELSE "residue"
    /\ UNCHANGED <<run, worldVars>>
Verify_IgnoresSsh ==
    /\ pc = "verify"
    /\ \/ (Listed(Exists(at)) \/ Listed(FALSE)) /\ UNCHANGED unseen
       \/ Listed(FALSE) /\ unseen' = unseen \cup {at}
Verify ==
    /\ pc = "verify"
    /\ \/ (Listed(Exists(at)) \/ Listed(TRUE)) /\ UNCHANGED unseen
       \/ Listed(FALSE) /\ unseen' = unseen \cup {at}

Next ==
    \/ \E h \in Hosts : Replace(h) \/ ReadTable(h) \/ Die(h)
    \/ BecomeReady \/ Begin("preflight") \/ Begin("stop") \/ Interrupt
    \/ Preflight \/ RemoveHead \/ RemoveWorker \/ Push \/ RunWorker \/ CheckWorker
    \/ RunHead \/ CheckHead \/ Wait
    \/ StopHead \/ StopWorker \/ Verify

Spec == Init /\ [][Next]_vars

-----------------------------------------------------------------------------
Verdicts == {"none", "interrupted", "die", "refused", "ready", "dead", "timeout",
             "clean", "residue"}
Sets == {{}} \cup {{v} : v \in Versions}
(* Types; of note is that no loop over the workers runs past the last.     *)
TypeOK ==
    /\ ctn \in [Hosts -> [of : 0 .. MaxRuns, gated : BOOLEAN, image : Sets,
                          up : BOOLEAN, table : Sets]]
    /\ image \in [Hosts -> Versions] /\ table \in [Hosts -> Versions]
    /\ ready \in BOOLEAN /\ run \in 0 .. MaxRuns /\ at \in Hosts
    /\ failed \subseteq Workers /\ unseen \subseteq Workers /\ verdict \in Verdicts
    /\ pc \in {"none", "preflight", "rmHead", "rmWorkers", "push", "run", "check",
               "runHead", "checkHead", "wait", "stop", "stopWorkers", "verify"}

(* When serve reports ready, every rank is a container of this very serve, *)
(* with its gate variables, one image and one table: nothing is left of an *)
(* earlier run, whose removal may have failed unnoticed.  Nothing is said  *)
(* of the variables outside _ENGINE_GATE_KEYS: they are not compared.      *)
ReadyIsThisServe ==
    verdict = "ready" => \A h \in Hosts :
        /\ ctn[h].of = run /\ ctn[h].gated
        /\ ctn[h].image = ctn[0].image /\ ctn[h].table = ctn[0].table

(* When stop reports that all workers are clean, none of those whose docker *)
(* answered has a container, whatever calls failed before the listing.     *)
CleanMeansClean ==
    verdict = "clean" => \A h \in Workers \ unseen : ~Exists(h)

(* What start.sh says of a head that lacks a gate variable: the start is   *)
(* refused, lest it serve with that gate silently off.  Its container is   *)
(* left running, and goes on to serve without the gate.                    *)
RefusedNeverServes == verdict = "refused" /\ ~ctn[0].gated => ~ready
===============================================================================
