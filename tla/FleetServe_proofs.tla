-------------------------- MODULE FleetServe_proofs ---------------------------
(* Proofs about FleetServe, for any number of workers and of runs: types,  *)
(* what a ready serve stands on, and what a clean stop has seen.           *)
EXTENDS FleetServe, TLAPS

USE FleetAssumption DEF FleetAssumption

(* The container of h was created by this script, from the head's image,   *)
(* and reads the head's table.                                             *)
Mine(h) ==
    /\ ctn[h].of = run /\ ctn[h].image = {image[0]}
    /\ ctn[h].table \in {{}, {table[0]}}

SameImage ==
    pc \in {"rmHead", "rmWorkers", "push", "run", "check", "runHead", "checkHead", "wait"}
        => \A h \in Hosts : image[h] = image[0]
SameTable ==
    /\ pc = "push" => \A h \in 1 .. at - 1 : table[h] = table[0]
    /\ pc \in {"run", "check", "runHead", "checkHead", "wait"}
        => \A h \in Hosts : table[h] = table[0]
WorkersUp ==
    /\ pc \in {"run", "check"} => \A h \in 1 .. at - 1 : Mine(h) /\ ctn[h].gated
    /\ pc = "check" => Mine(at)
    /\ pc \in {"runHead", "checkHead", "wait"} => \A h \in Workers : Mine(h) /\ ctn[h].gated
HeadUp ==
    /\ pc \in {"checkHead", "wait"} => Mine(0)
    /\ pc = "wait" => ctn[0].gated
(* The banner is the head's: it comes after every rank has read its table. *)
BannerIsTrue ==
    /\ ready => Exists(0) /\ ctn[0].table # {}
    /\ ready /\ pc \in {"checkHead", "wait"} => \A h \in Hosts : ctn[h].table # {}
AtWorker == pc # "none" => at \in Workers
Stands ==
    verdict = "ready" => \A h \in Hosts :
        /\ ctn[h].of = run /\ ctn[h].gated /\ ctn[h].table # {}
        /\ ctn[h].image = ctn[0].image /\ ctn[h].table = ctn[0].table
Idle == verdict # "none" => pc = "none"

Listings ==
    /\ pc = "verify" => \A h \in 1 .. at - 1 : h \notin failed \cup unseen => ~Exists(h)
    /\ CleanMeansClean

ServeInv ==
    /\ Idle /\ SameImage /\ SameTable /\ WorkersUp /\ HeadUp /\ BannerIsTrue /\ Stands

-----------------------------------------------------------------------------
Typed == TypeOK /\ AtWorker
Container == [of : 0 .. MaxRuns, gated : BOOLEAN, image : Sets, up : BOOLEAN, table : Sets]

LEMMA NoContainerType == NoContainer \in Container /\ 0 \in Hosts
  BY DEF NoContainer, Container, Sets, Hosts

LEMMA InitTyped == Init => Typed
<1> SUFFICES ASSUME Init PROVE Typed
  OBVIOUS
<1>1. ctn \in [Hosts -> Container]
  BY NoContainerType DEF Init
<1>2. image \in [Hosts -> Versions] /\ table \in [Hosts -> Versions]
  BY DEF Init
<1>3. at \in Hosts /\ run \in 0 .. MaxRuns
  BY NoContainerType DEF Init
<1> QED
  BY <1>1, <1>2, <1>3 DEF Init, Typed, TypeOK, AtWorker, Verdicts, Container

(* Types and the position of the loops are kept by every step.             *)
LEMMA StepTyped ==
    ASSUME Typed, [Next]_vars
    PROVE  Typed'
<1> USE DEF Typed, TypeOK, AtWorker, Hosts, Workers, worldVars, scriptVars, stopVars
<1>1. \A h \in Hosts : Removed(h) => ctn' \in [Hosts -> Container]
  BY NoContainerType DEF Removed, Container
<1>2. \A h \in Hosts : Removed(h) => image' = image /\ table' = table /\ ready' \in BOOLEAN
  BY DEF Removed
<1>3. \A h \in Hosts, alive \in BOOLEAN : Run(h, alive) => ctn' \in [Hosts -> Container]
  <2> SUFFICES ASSUME NEW h \in Hosts, NEW alive \in BOOLEAN, Run(h, alive)
               PROVE  ctn' \in [Hosts -> Container]
    OBVIOUS
  <2>1. PICK b \in BOOLEAN : ctn' = [ctn EXCEPT ![h] =
            [of |-> run, gated |-> b, image |-> {image[h]}, up |-> alive, table |-> {}]]
    BY DEF Run
  <2>2. {image[h]} \in Sets /\ {} \in Sets
    BY DEF Sets
  <2> QED BY <2>1, <2>2 DEF Container
<1>4. \A h \in Hosts, alive \in BOOLEAN : Run(h, alive) =>
         image' = image /\ table' = table /\ ready' = ready
  BY DEF Run
<1> DEFINE ScriptTyped ==
      /\ run' \in 0 .. MaxRuns /\ at' \in Hosts
      /\ failed' \subseteq Workers /\ unseen' \subseteq Workers /\ verdict' \in Verdicts
      /\ pc' \in {"none", "preflight", "rmHead", "rmWorkers", "push", "run", "check",
               "runHead", "checkHead", "wait", "stop", "stopWorkers", "verify"}
      /\ AtWorker'
<1>5. ASSUME NEW how \in Verdicts, End(how) PROVE ScriptTyped
  BY <1>5 DEF End
<1>6. ASSUME NEW here \in {"rmWorkers", "push", "run", "stopWorkers"},
             NEW next \in {"push", "run", "runHead", "verify"},
             at \in Workers, NextWorker(here, next)
      PROVE  ScriptTyped
  BY <1>6 DEF NextWorker
<1>7. CASE \E h \in Hosts : Replace(h) \/ ReadTable(h) \/ Die(h)
  <2> SUFFICES ASSUME NEW h \in Hosts, Replace(h) \/ ReadTable(h) \/ Die(h)
               PROVE  Typed'
    BY <1>7
  <2>1. CASE Replace(h)
    BY <2>1 DEF Replace
  <2>2. CASE ReadTable(h)
    BY <2>2 DEF ReadTable, Sets
  <2>3. CASE Die(h)
    BY <2>3 DEF Die
  <2> QED BY <2>1, <2>2, <2>3
<1>8. CASE BecomeReady
  BY <1>8 DEF BecomeReady
<1>9. CASE Begin("preflight") \/ Begin("stop")
  BY <1>9 DEF Begin, Verdicts
<1>10. CASE Interrupt
  BY <1>10, <1>5 DEF Interrupt, Verdicts
<1>11. CASE Preflight
  BY <1>11, <1>5 DEF Preflight, Verdicts
<1>12. CASE RemoveHead
  BY <1>12, <1>1, <1>2, NoContainerType DEF RemoveHead, Container
<1>13. CASE RemoveWorker
  BY <1>13, <1>1, <1>2, <1>6 DEF RemoveWorker, Container
<1>14. CASE Push
  <2>1. table' \in [Hosts -> Versions] /\ ctn' = ctn /\ image' = image /\ ready' = ready
    BY <1>14 DEF Push
  <2>2. ScriptTyped
    BY <1>14, <1>5, <1>6 DEF Push, Verdicts
  <2> QED BY <2>1, <2>2
<1>15. CASE RunWorker
  BY <1>15, <1>3, <1>4, <1>5 DEF RunWorker, RunFails, Verdicts, Container
<1>16. CASE CheckWorker
  BY <1>16, <1>5, <1>6 DEF CheckWorker, Verdicts
<1>17. CASE RunHead
  <2>1. CASE Run(0, TRUE) /\ pc' = "checkHead" /\ UNCHANGED <<run, at, stopVars, verdict>>
    BY <1>17, <2>1, <1>3, <1>4, NoContainerType DEF RunHead, Container
  <2>2. CASE RunFails(0)
    BY <2>2, <1>3, <1>4, <1>5, NoContainerType DEF RunFails, Verdicts, Container
  <2> QED BY <1>17, <2>1, <2>2 DEF RunHead
<1>18. CASE CheckHead
  BY <1>18, <1>5 DEF CheckHead, Verdicts
<1>19. CASE Wait
  BY <1>19, <1>5 DEF Wait, Verdicts
<1>20. CASE StopHead
  BY <1>20, <1>1, <1>2, NoContainerType DEF StopHead, Container
<1>21. CASE StopWorker
  BY <1>21, <1>1, <1>2, <1>6 DEF StopWorker, Container
<1>22. CASE Verify
  <2>1. PICK d \in BOOLEAN : Listed(d)
    BY <1>22 DEF Verify, Exists
  <2>2. unseen' \subseteq Workers
    BY <1>22 DEF Verify
  <2>3. at \in Workers /\ failed' \subseteq Workers
    BY <1>22, <2>1 DEF Verify, Listed
  <2>4. ScriptTyped
    BY <1>22, <2>1, <2>2, <2>3 DEF Verify, Listed, Verdicts
  <2> QED BY <2>1, <2>4 DEF Listed
<1>23. CASE UNCHANGED vars
  BY <1>23 DEF vars
<1> QED
  BY <1>7, <1>8, <1>9, <1>10, <1>11, <1>12, <1>13, <1>14, <1>15, <1>16, <1>17, <1>18,
     <1>19, <1>20, <1>21, <1>22, <1>23 DEF Next

-----------------------------------------------------------------------------
(* The step of serve or of the world keeps what a ready serve stands on.   *)
LEMMA StepServe ==
    ASSUME Typed, Typed', ServeInv, [Next]_vars
    PROVE  ServeInv'
<1> USE DEF Typed, TypeOK, AtWorker, Hosts, Workers, worldVars, scriptVars, stopVars
<1>1. \A k \in 1 .. at - 1 : at \in Workers => k \in Workers /\ k # at
  BY FleetAssumption DEF FleetAssumption
<1>2. \A k \in Workers : at \in Workers => k \in 1 .. at - 1 \/ k = at \/ at < k
  OBVIOUS
<1>7. CASE \E h \in Hosts : Replace(h) \/ ReadTable(h) \/ Die(h)
  <2> SUFFICES ASSUME NEW h \in Hosts, Replace(h) \/ ReadTable(h) \/ Die(h)
               PROVE  ServeInv'
    BY <1>7
  <2>1. CASE Replace(h)
    <3>1. Idle' /\ SameImage' /\ SameTable'
      BY <2>1 DEF ServeInv, Idle, SameImage, SameTable, Replace
    <3>2. WorkersUp'
      BY <2>1 DEF ServeInv, WorkersUp, Mine, SameImage, SameTable, Replace
    <3>3. HeadUp'
      BY <2>1 DEF ServeInv, HeadUp, Mine, SameImage, SameTable, Replace
    <3>4. BannerIsTrue'
      BY <2>1 DEF ServeInv, BannerIsTrue, Exists, NoContainer, HeadUp, WorkersUp, Mine, Replace
    <3>5. Stands'
      BY <2>1 DEF ServeInv, Stands, Idle, BannerIsTrue, WorkersUp, HeadUp, Mine, Replace
    <3> QED BY <3>1, <3>2, <3>3, <3>4, <3>5 DEF ServeInv
  <2>2. CASE ReadTable(h)
    <3>1. Idle' /\ SameImage' /\ SameTable'
      BY <2>2 DEF ServeInv, Idle, SameImage, SameTable, ReadTable
    <3>2. WorkersUp'
      <4>1. \A k \in Hosts : pc \in {"run", "check", "runHead", "checkHead", "wait"}
                => (Mine(k) => Mine(k)') /\ ctn'[k].gated = ctn[k].gated
        BY <2>2 DEF ServeInv, Mine, SameTable, ReadTable
      <4>2. pc' = pc /\ at' = at
        BY <2>2 DEF ReadTable
      <4> QED BY <1>1, <4>1, <4>2 DEF ServeInv, WorkersUp
    <3>3. HeadUp'
      BY <2>2 DEF ServeInv, HeadUp, Mine, SameImage, SameTable, ReadTable
    <3>4. BannerIsTrue'
      BY <2>2 DEF ServeInv, BannerIsTrue, Exists, NoContainer, HeadUp, WorkersUp, Mine, ReadTable
    <3>5. Stands'
      BY <2>2 DEF ServeInv, Stands, Idle, BannerIsTrue, WorkersUp, HeadUp, Mine, ReadTable
    <3> QED BY <3>1, <3>2, <3>3, <3>4, <3>5 DEF ServeInv
  <2>3. CASE Die(h)
    <3>1. Idle' /\ SameImage' /\ SameTable'
      BY <2>3 DEF ServeInv, Idle, SameImage, SameTable, Die
    <3>2. WorkersUp'
      <4>1. \A k \in Hosts : (Mine(k) => Mine(k)') /\ ctn'[k].gated = ctn[k].gated
        BY <2>3 DEF Mine, Die
      <4>2. pc' = pc /\ at' = at
        BY <2>3 DEF Die
      <4> QED BY <1>1, <4>1, <4>2 DEF ServeInv, WorkersUp
    <3>3. HeadUp'
      BY <2>3 DEF ServeInv, HeadUp, Mine, SameImage, SameTable, Die
    <3>4. BannerIsTrue'
      <4>1. \A k \in Hosts : ctn'[k].table = ctn[k].table
        BY <2>3 DEF Die
      <4>2. ready' = ready /\ pc' = pc
        BY <2>3 DEF Die
      <4>3. ready => ctn[0].table # {}
        BY DEF ServeInv, BannerIsTrue
      <4>4. ready' => Exists(0)'
        BY <4>1, <4>2, <4>3, NoContainerType DEF Exists, NoContainer
      <4> QED BY <4>1, <4>2, <4>3, <4>4, NoContainerType DEF ServeInv, BannerIsTrue
    <3>5. Stands'
      BY <2>3 DEF ServeInv, Stands, Idle, BannerIsTrue, WorkersUp, HeadUp, Mine, Die
    <3> QED BY <3>1, <3>2, <3>3, <3>4, <3>5 DEF ServeInv
  <2> QED BY <2>1, <2>2, <2>3
<1>8. CASE BecomeReady
  <2>1. Idle' /\ SameImage' /\ SameTable'
    BY <1>8 DEF ServeInv, Idle, SameImage, SameTable, BecomeReady
  <2>2. WorkersUp'
    BY <1>8 DEF ServeInv, WorkersUp, Mine, SameImage, SameTable, BecomeReady
  <2>3. HeadUp'
    BY <1>8 DEF ServeInv, HeadUp, Mine, SameImage, SameTable, BecomeReady
  <2>4. BannerIsTrue'
    <3>1. \A h \in Hosts : ctn'[h].table # {}
      BY <1>8 DEF BecomeReady
    <3>2. ctn'[0].table # {}
      BY <3>1, NoContainerType
    <3>3. Exists(0)'
      BY <3>2 DEF NoContainer, Exists
    <3> QED BY <3>1, <3>2, <3>3 DEF BannerIsTrue
  <2>5. Stands'
    BY <1>8 DEF ServeInv, Stands, Idle, BannerIsTrue, WorkersUp, HeadUp, Mine, BecomeReady
  <2> QED BY <2>1, <2>2, <2>3, <2>4, <2>5 DEF ServeInv
<1>9. CASE Begin("preflight") \/ Begin("stop")
  <2>1. Idle' /\ SameImage' /\ SameTable'
    BY <1>9 DEF ServeInv, Idle, SameImage, SameTable, Begin
  <2>2. WorkersUp'
    BY <1>9 DEF ServeInv, WorkersUp, Mine, SameImage, SameTable, Begin
  <2>3. HeadUp'
    BY <1>9 DEF ServeInv, HeadUp, Mine, SameImage, SameTable, Begin
  <2>4. BannerIsTrue'
    BY <1>9 DEF ServeInv, BannerIsTrue, Exists, NoContainer, HeadUp, WorkersUp, Mine, Begin
  <2>5. Stands'
    BY <1>9 DEF ServeInv, Stands, Idle, BannerIsTrue, WorkersUp, HeadUp, Mine, Begin
  <2> QED BY <2>1, <2>2, <2>3, <2>4, <2>5 DEF ServeInv
<1>10. CASE Interrupt
  <2>1. Idle' /\ SameImage' /\ SameTable'
    BY <1>10 DEF ServeInv, Idle, SameImage, SameTable, Interrupt, End
  <2>2. WorkersUp'
    BY <1>10 DEF ServeInv, WorkersUp, Mine, SameImage, SameTable, Interrupt, End
  <2>3. HeadUp'
    BY <1>10 DEF ServeInv, HeadUp, Mine, SameImage, SameTable, Interrupt, End
  <2>4. BannerIsTrue'
    BY <1>10 DEF ServeInv, BannerIsTrue, Exists, NoContainer, HeadUp, WorkersUp, Mine, Interrupt, End
  <2>5. Stands'
    BY <1>10 DEF ServeInv, Stands, Idle, BannerIsTrue, WorkersUp, HeadUp, Mine, Interrupt, End
  <2> QED BY <2>1, <2>2, <2>3, <2>4, <2>5 DEF ServeInv
<1>11. CASE Preflight
  <2>1. Idle' /\ SameImage' /\ SameTable'
    <3>1. CASE End("die") /\ UNCHANGED worldVars
      BY <3>1 DEF End, Idle, SameImage, SameTable
    <3>2. CASE pc' = "rmHead" /\ UNCHANGED <<run, at, stopVars, verdict>>
      <4>1. \A h \in Hosts : image'[h] = image'[0]
        BY <1>11, <3>2 DEF Preflight, End
      <4>2. pc = "preflight" /\ verdict' = verdict
        BY <1>11, <3>2 DEF Preflight
      <4> QED BY <3>2, <4>1, <4>2 DEF ServeInv, Idle, SameImage, SameTable
    <3> QED BY <1>11, <3>1, <3>2 DEF Preflight
  <2>2. WorkersUp'
    BY <1>11 DEF ServeInv, WorkersUp, Mine, SameImage, SameTable, Preflight, End
  <2>3. HeadUp'
    BY <1>11 DEF ServeInv, HeadUp, Mine, SameImage, SameTable, Preflight, End
  <2>4. BannerIsTrue'
    BY <1>11 DEF ServeInv, BannerIsTrue, Exists, NoContainer, HeadUp, WorkersUp, Mine, Preflight, End
  <2>5. Stands'
    BY <1>11 DEF ServeInv, Stands, Idle, BannerIsTrue, WorkersUp, HeadUp, Mine, Preflight, End
  <2> QED BY <2>1, <2>2, <2>3, <2>4, <2>5 DEF ServeInv
<1>12. CASE RemoveHead
  <2>1. Idle' /\ SameImage' /\ SameTable'
    BY <1>12 DEF ServeInv, Idle, SameImage, SameTable, RemoveHead, Removed
  <2>2. WorkersUp'
    BY <1>12 DEF ServeInv, WorkersUp, Mine, SameImage, SameTable, RemoveHead, Removed
  <2>3. HeadUp'
    BY <1>12 DEF ServeInv, HeadUp, Mine, SameImage, SameTable, RemoveHead, Removed
  <2>4. BannerIsTrue'
    BY <1>12 DEF ServeInv, BannerIsTrue, Exists, NoContainer, HeadUp, WorkersUp, Mine, RemoveHead, Removed
  <2>5. Stands'
    BY <1>12 DEF ServeInv, Stands, Idle, BannerIsTrue, WorkersUp, HeadUp, Mine, RemoveHead, Removed
  <2> QED BY <2>1, <2>2, <2>3, <2>4, <2>5 DEF ServeInv
<1>13. CASE RemoveWorker
  <2>1. Idle' /\ SameImage' /\ SameTable'
    <3>1. pc = "rmWorkers" /\ pc' \in {"rmWorkers", "push"} /\ (pc' = "push" => at' = 1)
          /\ UNCHANGED <<image, table, verdict>>
      BY <1>13 DEF RemoveWorker, Removed, NextWorker
    <3>2. ASSUME NEW h \in 1 .. at' - 1, pc' = "push" PROVE FALSE
      <4>1. at' = 1
        BY <3>1, <3>2
      <4>2. h \in 1 .. 0
        BY <4>1, <3>2
      <4> QED BY <4>2
    <3> QED BY <3>1, <3>2 DEF ServeInv, Idle, SameImage, SameTable
  <2>2. WorkersUp'
    BY <1>13 DEF ServeInv, WorkersUp, Mine, SameImage, SameTable, RemoveWorker, Removed, NextWorker
  <2>3. HeadUp'
    BY <1>13 DEF ServeInv, HeadUp, Mine, SameImage, SameTable, RemoveWorker, Removed, NextWorker
  <2>4. BannerIsTrue'
    <3>1. at \in Workers /\ pc' \notin {"checkHead", "wait"}
      BY <1>13 DEF RemoveWorker, NextWorker
    <3>2. ctn'[0] = ctn[0] /\ (ready' => ready)
      BY <1>13, <3>1 DEF RemoveWorker, Removed
    <3> QED BY <3>1, <3>2 DEF ServeInv, BannerIsTrue, Exists
  <2>5. Stands'
    BY <1>13 DEF ServeInv, Stands, Idle, BannerIsTrue, WorkersUp, HeadUp, Mine, RemoveWorker, Removed, NextWorker
  <2> QED BY <2>1, <2>2, <2>3, <2>4, <2>5 DEF ServeInv
<1>14. CASE Push
  <2>1. Idle' /\ SameImage' /\ SameTable'
    <3>1. CASE End("die")
      BY <1>14, <3>1 DEF Push, End, Idle, SameImage, SameTable
    <3>2. CASE NextWorker("push", "run")
      <4>1. table' = [table EXCEPT ![at] = table[0]] /\ at \in Workers /\ UNCHANGED image
        BY <1>14, <3>2 DEF Push, End, NextWorker
      <4>2. table'[at] = table[0] /\ table'[0] = table[0]
            /\ \A h \in 1 .. at - 1 : table'[h] = table[0]
        BY <1>1, <1>14, <4>1 DEF ServeInv, SameTable, Push
      <4>3. pc = "push" /\ verdict' = verdict /\ verdict = "none"
        BY <1>14, <3>2 DEF ServeInv, Idle, Push, NextWorker
      <4>4. SameTable'
        <5>1. CASE at < N
          BY <3>2, <4>1, <4>2, <5>1 DEF NextWorker, SameTable
        <5>2. CASE ~(at < N)
          <6>1. \A h \in Hosts : h = 0 \/ h = at \/ h \in 1 .. at - 1
            BY <4>1, <5>2, FleetAssumption DEF FleetAssumption
          <6> QED BY <3>2, <4>2, <5>2, <6>1 DEF NextWorker, SameTable
        <5> QED BY <5>1, <5>2
      <4> QED BY <3>2, <4>1, <4>3, <4>4 DEF ServeInv, Idle, SameImage, NextWorker
    <3> QED BY <1>14, <3>1, <3>2 DEF Push
  <2>2. WorkersUp'
    <3>1. pc' \in {"push", "run", "none"} /\ (pc' = "run" => at' = 1)
      BY <1>14 DEF Push, NextWorker, End
    <3>2. ASSUME NEW h \in 1 .. at' - 1, pc' = "run" PROVE FALSE
      <4>1. at' = 1
        BY <3>1, <3>2
      <4>2. h \in 1 .. 0
        BY <4>1, <3>2
      <4> QED BY <4>2
    <3> QED BY <3>1, <3>2 DEF WorkersUp
  <2>3. HeadUp'
    BY <1>14 DEF ServeInv, HeadUp, Mine, SameImage, SameTable, Push, NextWorker, End
  <2>4. BannerIsTrue'
    BY <1>14 DEF ServeInv, BannerIsTrue, Exists, NoContainer, HeadUp, WorkersUp, Mine, Push, NextWorker, End
  <2>5. Stands'
    BY <1>14 DEF ServeInv, Stands, Idle, BannerIsTrue, WorkersUp, HeadUp, Mine, Push, NextWorker, End
  <2> QED BY <2>1, <2>2, <2>3, <2>4, <2>5 DEF ServeInv
<1>15. CASE RunWorker
  <2>1. Idle' /\ SameImage' /\ SameTable'
    BY <1>15 DEF ServeInv, Idle, SameImage, SameTable, RunWorker, RunFails, Run, End
  <2>2. WorkersUp'
    <3>1. CASE End("die")
      BY <3>1 DEF End, WorkersUp
    <3>2. CASE Run(at, TRUE) /\ pc' = "check" /\ UNCHANGED <<run, at, stopVars, verdict>>
      <4>1. pc = "run" /\ at \in Workers
        BY <1>15 DEF RunWorker
      <4>2. Mine(at)'
        BY <3>2, <4>1 DEF Run, Mine, ServeInv, SameImage
      <4>3. \A k \in 1 .. at - 1 : (Mine(k) => Mine(k)') /\ ctn'[k].gated = ctn[k].gated
        BY <1>1, <3>2, <4>1 DEF Run, Mine
      <4> QED BY <3>2, <4>1, <4>2, <4>3 DEF ServeInv, WorkersUp
    <3> QED BY <1>15, <3>1, <3>2 DEF RunWorker, RunFails
  <2>3. HeadUp'
    BY <1>15 DEF ServeInv, HeadUp, Mine, SameImage, SameTable, RunWorker, RunFails, Run, End
  <2>4. BannerIsTrue'
    <3>1. at \in Workers /\ at # 0 /\ 0 \in Hosts
      BY <1>15 DEF RunWorker
    <3>2. ctn'[0] = ctn[0] /\ ready' = ready
      <4>1. CASE \E alive \in BOOLEAN : Run(at, alive)
        BY <4>1, <3>1 DEF Run
      <4>2. CASE UNCHANGED worldVars
        BY <4>2
      <4> QED BY <1>15, <4>1, <4>2 DEF RunWorker, RunFails
    <3>3. pc' \notin {"checkHead", "wait"}
      BY <1>15 DEF RunWorker, RunFails, End
    <3> QED BY <3>2, <3>3 DEF ServeInv, BannerIsTrue, Exists
  <2>5. Stands'
    BY <1>15 DEF ServeInv, Stands, Idle, BannerIsTrue, WorkersUp, HeadUp, Mine, RunWorker, RunFails, Run, End
  <2> QED BY <2>1, <2>2, <2>3, <2>4, <2>5 DEF ServeInv
<1>16. CASE CheckWorker
  <2>1. Idle' /\ SameImage' /\ SameTable'
    BY <1>16 DEF ServeInv, Idle, SameImage, SameTable, CheckWorker, NextWorker, End
  <2>2. WorkersUp'
    <3>1. CASE End("die")
      BY <3>1 DEF End, WorkersUp
    <3>2. CASE ctn[at].gated /\ NextWorker("run", "runHead")
      <4>1. pc = "check" /\ at \in Workers /\ UNCHANGED <<ctn, image, table, run>>
        BY <1>16, <3>2 DEF CheckWorker, NextWorker
      <4>2. \A k \in Hosts : Mine(k)' = Mine(k)
        BY <4>1 DEF Mine
      <4>3. Mine(at) /\ \A k \in 1 .. at - 1 : Mine(k) /\ ctn[k].gated
        BY <4>1 DEF ServeInv, WorkersUp
      <4>4. CASE at < N
        <5>1. \A k \in 1 .. at' - 1 : k \in Hosts /\ (k = at \/ k \in 1 .. at - 1)
          BY <3>2, <4>1, <4>4 DEF NextWorker
        <5>2. pc' = "run"
          BY <3>2, <4>4 DEF NextWorker
        <5> QED BY <3>2, <4>1, <4>2, <4>3, <5>1, <5>2 DEF WorkersUp
      <4>5. CASE ~(at < N)
        <5>1. \A k \in Workers : k \in Hosts /\ (k = at \/ k \in 1 .. at - 1)
          BY <4>1, <4>5
        <5>2. pc' = "runHead"
          BY <3>2, <4>5 DEF NextWorker
        <5> QED BY <3>2, <4>1, <4>2, <4>3, <5>1, <5>2 DEF WorkersUp
      <4> QED BY <4>4, <4>5
    <3> QED BY <1>16, <3>1, <3>2 DEF CheckWorker, engine_env_assert
  <2>3. HeadUp'
    BY <1>16 DEF ServeInv, HeadUp, Mine, SameImage, SameTable, CheckWorker, NextWorker, End
  <2>4. BannerIsTrue'
    BY <1>16 DEF ServeInv, BannerIsTrue, Exists, NoContainer, HeadUp, WorkersUp, Mine, CheckWorker, NextWorker, End
  <2>5. Stands'
    BY <1>16 DEF ServeInv, Stands, Idle, BannerIsTrue, WorkersUp, HeadUp, Mine, CheckWorker, NextWorker, End
  <2> QED BY <2>1, <2>2, <2>3, <2>4, <2>5 DEF ServeInv
<1>17. CASE RunHead
  <2>1. Idle' /\ SameImage' /\ SameTable'
    BY <1>17 DEF ServeInv, Idle, SameImage, SameTable, RunHead, RunFails, Run, End
  <2>2. WorkersUp'
    <3>1. CASE End("die")
      BY <3>1 DEF End, WorkersUp
    <3>2. CASE Run(0, TRUE) /\ pc' = "checkHead" /\ UNCHANGED <<run, at, stopVars, verdict>>
      <4>1. \A k \in Workers : (Mine(k) => Mine(k)') /\ ctn'[k].gated = ctn[k].gated
        BY <3>2 DEF Run, Mine
      <4> QED BY <1>17, <3>2, <4>1 DEF ServeInv, WorkersUp, RunHead
    <3> QED BY <1>17, <3>1, <3>2 DEF RunHead, RunFails
  <2>3. HeadUp'
    BY <1>17 DEF ServeInv, HeadUp, Mine, SameImage, SameTable, RunHead, RunFails, Run, End
  <2>4. BannerIsTrue'
    BY <1>17 DEF ServeInv, BannerIsTrue, Exists, NoContainer, HeadUp, WorkersUp, Mine, RunHead, RunFails, Run, End
  <2>5. Stands'
    BY <1>17 DEF ServeInv, Stands, Idle, BannerIsTrue, WorkersUp, HeadUp, Mine, RunHead, RunFails, Run, End
  <2> QED BY <2>1, <2>2, <2>3, <2>4, <2>5 DEF ServeInv
<1>18. CASE CheckHead
  <2>1. Idle' /\ SameImage' /\ SameTable'
    BY <1>18 DEF ServeInv, Idle, SameImage, SameTable, CheckHead, End
  <2>2. WorkersUp'
    BY <1>18 DEF ServeInv, WorkersUp, Mine, SameImage, SameTable, CheckHead, End
  <2>3. HeadUp'
    BY <1>18 DEF ServeInv, HeadUp, Mine, SameImage, SameTable, CheckHead, engine_env_assert, End
  <2>4. BannerIsTrue'
    BY <1>18 DEF ServeInv, BannerIsTrue, Exists, NoContainer, HeadUp, WorkersUp, Mine, CheckHead, End
  <2>5. Stands'
    BY <1>18 DEF ServeInv, Stands, Idle, BannerIsTrue, WorkersUp, HeadUp, Mine, CheckHead, End
  <2> QED BY <2>1, <2>2, <2>3, <2>4, <2>5 DEF ServeInv
<1>19. CASE Wait
  <2>1. Idle' /\ SameImage' /\ SameTable'
    BY <1>19 DEF ServeInv, Idle, SameImage, SameTable, Wait, End
  <2>2. WorkersUp'
    BY <1>19 DEF ServeInv, WorkersUp, Mine, SameImage, SameTable, Wait, End
  <2>3. HeadUp'
    BY <1>19 DEF ServeInv, HeadUp, Mine, SameImage, SameTable, Wait, End
  <2>4. BannerIsTrue'
    BY <1>19 DEF ServeInv, BannerIsTrue, Exists, NoContainer, HeadUp, WorkersUp, Mine, Wait, End
  <2>5. Stands'
    <3>1. CASE verdict' # "ready"
      BY <3>1 DEF Stands
    <3>2. CASE verdict' = "ready"
      <4>1. pc = "wait" /\ ready /\ UNCHANGED <<ctn, run>>
        BY <1>19, <3>2 DEF Wait, End
      <4>2. \A h \in Hosts : Mine(h) /\ ctn[h].gated /\ ctn[h].table # {}
        <5>1. \A h \in Hosts : h = 0 \/ h \in Workers
          OBVIOUS
        <5> QED BY <4>1, <5>1 DEF ServeInv, WorkersUp, HeadUp, BannerIsTrue
      <4>3. \A h \in Hosts : ctn[h].image = {image[0]} /\ ctn[h].table = {table[0]}
        BY <4>2 DEF Mine
      <4> QED BY <4>1, <4>2, <4>3, NoContainerType DEF Mine, Stands
    <3> QED BY <3>1, <3>2
  <2> QED BY <2>1, <2>2, <2>3, <2>4, <2>5 DEF ServeInv
<1>20. CASE StopHead
  <2>1. Idle' /\ SameImage' /\ SameTable'
    BY <1>20 DEF ServeInv, Idle, SameImage, SameTable, StopHead, Removed
  <2>2. WorkersUp'
    BY <1>20 DEF ServeInv, WorkersUp, Mine, SameImage, SameTable, StopHead, Removed
  <2>3. HeadUp'
    BY <1>20 DEF ServeInv, HeadUp, Mine, SameImage, SameTable, StopHead, Removed
  <2>4. BannerIsTrue'
    BY <1>20 DEF ServeInv, BannerIsTrue, Exists, NoContainer, HeadUp, WorkersUp, Mine, StopHead, Removed
  <2>5. Stands'
    BY <1>20 DEF ServeInv, Stands, Idle, BannerIsTrue, WorkersUp, HeadUp, Mine, StopHead, Removed
  <2> QED BY <2>1, <2>2, <2>3, <2>4, <2>5 DEF ServeInv
<1>21. CASE StopWorker
  <2>1. Idle' /\ SameImage' /\ SameTable'
    BY <1>21 DEF ServeInv, Idle, SameImage, SameTable, StopWorker, Removed, NextWorker
  <2>2. WorkersUp'
    BY <1>21 DEF ServeInv, WorkersUp, Mine, SameImage, SameTable, StopWorker, Removed, NextWorker
  <2>3. HeadUp'
    BY <1>21 DEF ServeInv, HeadUp, Mine, SameImage, SameTable, StopWorker, Removed, NextWorker
  <2>4. BannerIsTrue'
    <3>1. at \in Workers /\ pc' \notin {"checkHead", "wait"}
      BY <1>21 DEF StopWorker, NextWorker
    <3>2. ctn'[0] = ctn[0] /\ (ready' => ready)
      BY <1>21, <3>1 DEF StopWorker, Removed
    <3> QED BY <3>1, <3>2 DEF ServeInv, BannerIsTrue, Exists
  <2>5. Stands'
    BY <1>21 DEF ServeInv, Stands, Idle, BannerIsTrue, WorkersUp, HeadUp, Mine, StopWorker, Removed, NextWorker
  <2> QED BY <2>1, <2>2, <2>3, <2>4, <2>5 DEF ServeInv
<1>22. CASE Verify
  <2>1. Idle' /\ SameImage' /\ SameTable'
    BY <1>22 DEF ServeInv, Idle, SameImage, SameTable, Verify, Listed
  <2>2. WorkersUp'
    BY <1>22 DEF ServeInv, WorkersUp, Mine, SameImage, SameTable, Verify, Listed
  <2>3. HeadUp'
    BY <1>22 DEF ServeInv, HeadUp, Mine, SameImage, SameTable, Verify, Listed
  <2>4. BannerIsTrue'
    BY <1>22 DEF ServeInv, BannerIsTrue, Exists, NoContainer, HeadUp, WorkersUp, Mine, Verify, Listed
  <2>5. Stands'
    BY <1>22 DEF ServeInv, Stands, Idle, BannerIsTrue, WorkersUp, HeadUp, Mine, Verify, Listed
  <2> QED BY <2>1, <2>2, <2>3, <2>4, <2>5 DEF ServeInv
<1>23. CASE UNCHANGED vars
  <2>1. Idle' /\ SameImage' /\ SameTable'
    BY <1>23 DEF ServeInv, Idle, SameImage, SameTable, vars
  <2>2. WorkersUp'
    BY <1>23 DEF ServeInv, WorkersUp, Mine, SameImage, SameTable, vars
  <2>3. HeadUp'
    BY <1>23 DEF ServeInv, HeadUp, Mine, SameImage, SameTable, vars
  <2>4. BannerIsTrue'
    BY <1>23 DEF ServeInv, BannerIsTrue, Exists, NoContainer, HeadUp, WorkersUp, Mine, vars
  <2>5. Stands'
    BY <1>23 DEF ServeInv, Stands, Idle, BannerIsTrue, WorkersUp, HeadUp, Mine, vars
  <2> QED BY <2>1, <2>2, <2>3, <2>4, <2>5 DEF ServeInv
<1> QED
  BY <1>7, <1>8, <1>9, <1>10, <1>11, <1>12, <1>13, <1>14, <1>15, <1>16, <1>17, <1>18,
     <1>19, <1>20, <1>21, <1>22, <1>23 DEF Next

-----------------------------------------------------------------------------
(* A worker that was listed clean stays so: only docker run makes a        *)
(* container, and stop.sh runs none.                                       *)
LEMMA StepListings ==
    ASSUME Typed, ServeInv, Listings, [Next]_vars
    PROVE  Listings'
<1> USE DEF Typed, TypeOK, AtWorker, Hosts, Workers, worldVars, scriptVars, stopVars
<1>1. ASSUME pc \notin {"verify"}, pc' # "verify", verdict # "clean", verdict' # "clean"
      PROVE  Listings'
  BY <1>1 DEF Listings, CleanMeansClean
<1>2. ASSUME NEW h \in Hosts, ~Exists(h), ReadTable(h) \/ Die(h) PROVE FALSE
  BY <1>2 DEF Exists, NoContainer, ReadTable, Die
<1>3. ASSUME NEW h \in Hosts, ReadTable(h) \/ Die(h) PROVE Listings'
  <2>1. \A k \in Hosts : ~Exists(k) => k # h
    BY <1>2, <1>3
  <2>2. \A k \in Hosts : k # h => ctn'[k] = ctn[k]
    BY <1>3 DEF ReadTable, Die
  <2>3. \A k \in Hosts : ~Exists(k) => ~Exists(k)'
    BY <2>1, <2>2 DEF Exists
  <2>4. UNCHANGED scriptVars
    BY <1>3 DEF ReadTable, Die
  <2>5. at \in Hosts
    BY DEF Typed, TypeOK
  <2> QED BY <2>3, <2>4, <2>5 DEF Listings, CleanMeansClean, scriptVars, stopVars
<1>4. CASE UNCHANGED <<ctn, pc, at, failed, unseen, verdict>>
  BY <1>4 DEF Listings, CleanMeansClean, Exists
<1>5. ASSUME NEW h \in Hosts, Replace(h) PROVE Listings'
  BY <1>4, <1>5 DEF Replace, scriptVars, stopVars
<1>6. CASE BecomeReady \/ UNCHANGED vars
  BY <1>4, <1>6 DEF BecomeReady, vars, worldVars, scriptVars, stopVars
<1>7. CASE Begin("preflight") \/ Begin("stop")
  <2>1. pc' # "verify" /\ verdict' = "none"
    BY <1>7 DEF Begin
  <2> QED BY <2>1 DEF Listings, CleanMeansClean
<1>8. CASE Interrupt
  BY <1>8 DEF Interrupt, End, Listings, CleanMeansClean
<1>9. CASE Preflight \/ RemoveHead \/ RemoveWorker \/ Push \/ RunWorker \/ CheckWorker
           \/ RunHead \/ CheckHead \/ Wait \/ StopHead
  <2>1. pc \notin {"none", "verify"} /\ pc' # "verify" /\ verdict' # "clean"
    BY <1>9 DEF Preflight, RemoveHead, RemoveWorker, Push, RunWorker, CheckWorker, RunHead,
                RunFails, CheckHead, Wait, StopHead, End, NextWorker, ServeInv, Idle
  <2> QED BY <1>1, <2>1 DEF ServeInv, Idle
<1>10. CASE StopWorker
  <2>1. verdict' = "none" /\ (pc' = "verify" => at' = 1)
    BY <1>10 DEF StopWorker, NextWorker, ServeInv, Idle
  <2>2. ASSUME NEW h \in 1 .. at' - 1, pc' = "verify" PROVE FALSE
    <3>1. h \in 1 .. 0
      BY <2>1, <2>2
    <3> QED BY <3>1
  <2> QED BY <2>1, <2>2 DEF Listings, CleanMeansClean
<1>11. CASE Verify
  <2>1. at \in Workers /\ pc = "verify" /\ ctn' = ctn
    BY <1>11 DEF Verify, Listed, worldVars, Typed, AtWorker
  <2>2. \A h \in Hosts : Exists(h)' = Exists(h)
    BY <2>1 DEF Exists
  <2>3. failed \subseteq failed' /\ unseen \subseteq unseen'
    BY <1>11 DEF Verify, Listed
  <2>4. at \in failed' \cup unseen' \/ ~Exists(at)
    BY <1>11 DEF Verify, Listed
  <2>5. \A h \in 1 .. at : h \in failed' \cup unseen' \/ ~Exists(h)'
    <3>1. \A h \in 1 .. at : h \in Hosts /\ (h = at \/ h \in 1 .. at - 1)
      BY <2>1
    <3> QED BY <2>1, <2>2, <2>3, <2>4, <3>1 DEF Listings
  <2>6. CASE at < N
    <3>1. at' = at + 1 /\ verdict' = "none" /\ 1 .. at' - 1 = 1 .. at
      BY <1>11, <2>1, <2>6 DEF Verify, Listed, ServeInv, Idle
    <3> QED BY <2>5, <3>1 DEF Listings, CleanMeansClean
  <2>7. CASE ~(at < N)
    <3>1. pc' = "none" /\ at = N /\ (verdict' = "clean" => failed' = {})
      BY <1>11, <2>1, <2>7 DEF Verify, Listed
    <3> QED BY <2>5, <3>1 DEF Listings, CleanMeansClean
  <2> QED BY <2>6, <2>7
<1> QED
  BY <1>3, <1>5, <1>6, <1>7, <1>8, <1>9, <1>10, <1>11 DEF Next

LEMMA InitServe == Init => ServeInv /\ Listings
  BY NoContainerType DEF Init, ServeInv, Listings, CleanMeansClean, Idle, SameImage, SameTable,
     WorkersUp, HeadUp, BannerIsTrue, Stands

-----------------------------------------------------------------------------
(* The variables keep their types, for any number of workers: no loop of   *)
(* the scripts over the workers runs past the last one.                    *)
THEOREM TypeCorrect == Spec => []TypeOK
<1>1. Init => Typed
  BY InitTyped
<1>2. Typed /\ [Next]_vars => Typed'
  BY StepTyped
<1>3. Typed => TypeOK
  BY DEF Typed
<1> QED BY <1>1, <1>2, <1>3, PTL DEF Spec

(* What the other two theorems rest on: the types, what the script knows   *)
(* of the hosts at each of its steps, and what stop.sh has listed.         *)
LEMMA FleetInvariant == Spec => [](Typed /\ ServeInv /\ Listings)
<1>1. Init => Typed /\ ServeInv /\ Listings
  BY InitTyped, InitServe
<1>2. Typed /\ ServeInv /\ Listings /\ [Next]_vars => (Typed /\ ServeInv /\ Listings)'
  BY StepTyped, StepServe, StepListings
<1> QED BY <1>1, <1>2, PTL DEF Spec

(* When serve reports ready, every rank is a container that this serve has *)
(* created, with the gate variables that engine_env_assert compares, the   *)
(* head's image and calibration table: whatever removals failed unnoticed, *)
(* and whatever died, before.                                              *)
THEOREM ReadyStandsOnThisServe == Spec => []ReadyIsThisServe
<1>1. Typed /\ ServeInv /\ Listings => ReadyIsThisServe
  BY DEF ServeInv, Stands, ReadyIsThisServe
<1> QED BY <1>1, FleetInvariant, PTL

(* When stop reports that all workers are clean, no worker whose docker    *)
(* answered has a container, however many calls failed on the way.         *)
THEOREM CleanIsSeen == Spec => []CleanMeansClean
<1>1. Typed /\ ServeInv /\ Listings => CleanMeansClean
  BY DEF Listings
<1> QED BY <1>1, FleetInvariant, PTL
===============================================================================
