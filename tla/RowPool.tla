------------------------------- MODULE RowPool -------------------------------
(***************************************************************************)
(* The thread pool behind row_store_lookup (adapter/row_store.cpp): Pool's *)
(* run, drain and loop, and the serial path of small lookups.              *)
(*                                                                         *)
(* A thread's pc names the next thing it does.  A block under mutex_ is    *)
(* one action, since every access of the state it guards is under mutex_   *)
(* as well; each access of an atomic outside mutex_ is an action of its    *)
(* own.  A thread in a condition variable's wait set has pc "parked":      *)
(* notify moves it back to where it evaluates its predicate again, and so  *)
(* does a spurious wake-up.  What serving one position does (fetch_row) is *)
(* left out here.                                                          *)
(***************************************************************************)
EXTENDS Naturals, FiniteSets

CONSTANTS
    Calls,         (* invocations of row_store_lookup, by any threads      *)
    Count,         (* Count[c]: the number of row ids of call c            *)
    Workers,       (* threads of the pool; none if DSV41_IO_THREADS <= 1   *)
    kSerialBelow,  (* calls with fewer ids do not use the pool             *)
    nullptr

ASSUME PoolAssumption ==
    /\ IsFiniteSet(Workers) /\ IsFiniteSet(Calls)
    /\ Calls \cap Workers = {}
    /\ Count \in [Calls -> Nat]
    /\ kSerialBelow \in Nat
    /\ nullptr \notin Calls

VARIABLES
    pc,
    ticket,      (* local: the ticket drawn, the index of a serial loop    *)
    work,        (* local of a worker: the job it took, or nullptr         *)
    seen,        (* local of a worker: the last generation it looked at    *)
    caller_,     (* the call that holds the mutex caller_, or nullptr      *)
    job_, next_, chunks_, remaining_, active_, generation_,
    served       (* served[c][i]: how often position i was served          *)

locals == <<ticket, work, seen>>
guarded == <<job_, chunks_, generation_>>
vars == <<pc, locals, caller_, guarded, next_, remaining_, active_, served>>

Threads == Calls \cup Workers
Positions(c) == 0 .. Count[c] - 1
Work(t) == IF t \in Calls THEN t ELSE work[t]

Go(t, label) == pc' = [pc EXCEPT ![t] = label]

Init ==
    /\ pc = [t \in Threads |-> IF t \in Calls THEN "call" ELSE "loop"]
    /\ ticket = [t \in Threads |-> 0]
    /\ work = [k \in Workers |-> nullptr]
    /\ seen = [k \in Workers |-> 0]
    /\ caller_ = nullptr /\ job_ = nullptr
    /\ next_ = 0 /\ chunks_ = 0 /\ remaining_ = 0 /\ active_ = 0
    /\ generation_ = 0
    /\ served = [c \in Calls |-> [i \in Positions(c) |-> 0]]

-----------------------------------------------------------------------------
(* row_store_lookup, and its serial loop.                                  *)

Lookup(c) ==
    /\ pc[c] = "call"
    /\ IF Workers = {} \/ Count[c] < kSerialBelow
       THEN Go(c, "serial") ELSE Go(c, "lock")
    /\ UNCHANGED <<locals, caller_, guarded, next_, remaining_, active_, served>>

SerialStep(c) ==
    /\ pc[c] = "serial"
    /\ \/ /\ ticket[c] < Count[c]
          /\ served' = [served EXCEPT ![c][ticket[c]] = @ + 1]
          /\ ticket' = [ticket EXCEPT ![c] = @ + 1]
          /\ UNCHANGED pc
       \/ /\ ticket[c] = Count[c]
          /\ Go(c, "returned")
          /\ UNCHANGED <<served, ticket>>
    /\ UNCHANGED <<work, seen, caller_, guarded, next_, remaining_, active_>>

-----------------------------------------------------------------------------
(* Pool::run.                                                              *)

LockCaller(c) ==
    /\ pc[c] = "lock" /\ caller_ = nullptr
    /\ caller_' = c
    /\ Go(c, "publish")
    /\ UNCHANGED <<locals, guarded, next_, remaining_, active_, served>>

(* Mutant: the countdown is not set up for the new job.                    *)
Publish_KeepsRemaining(c) ==
    /\ pc[c] = "publish"
    /\ job_' = c /\ next_' = 0 /\ chunks_' = Count[c]
    /\ generation_' = generation_ + 1
    /\ Go(c, "notify")
    /\ UNCHANGED <<locals, caller_, remaining_, active_, served>>

Publish(c) ==
    /\ pc[c] = "publish"
    /\ job_' = c /\ next_' = 0
    /\ chunks_' = Count[c] /\ remaining_' = Count[c]
    /\ generation_' = generation_ + 1
    /\ Go(c, "notify")
    /\ UNCHANGED <<locals, caller_, active_, served>>

(* ready_.notify_all().                                                    *)
NotifyReady(c) ==
    /\ pc[c] = "notify"
    /\ pc' = [t \in Threads |->
                 IF t = c THEN "draw"
                 ELSE IF t \in Workers /\ pc[t] = "parked" THEN "loop"
                 ELSE pc[t]]
    /\ UNCHANGED <<locals, caller_, guarded, next_, remaining_, active_, served>>

(* Mutants: the predicate forgets the workers still in drain(); caller_    *)
(* stays locked.                                                           *)
AwaitDone_IgnoresActive(c) ==
    /\ pc[c] = "wait"
    /\ \/ /\ remaining_ = 0
          /\ job_' = nullptr /\ caller_' = nullptr
          /\ Go(c, "returned")
       \/ /\ remaining_ # 0
          /\ Go(c, "parked")
          /\ UNCHANGED <<job_, caller_>>
    /\ UNCHANGED <<locals, chunks_, generation_, next_, remaining_, active_, served>>
AwaitDone_KeepsCaller(c) ==
    /\ pc[c] = "wait"
    /\ \/ /\ remaining_ = 0 /\ active_ = 0
          /\ job_' = nullptr
          /\ Go(c, "returned")
       \/ /\ ~(remaining_ = 0 /\ active_ = 0)
          /\ Go(c, "parked")
          /\ UNCHANGED job_
    /\ UNCHANGED <<locals, caller_, chunks_, generation_, next_, remaining_, active_,
                   served>>

(* The caller evaluates the predicate of done_.wait: it waits, or it takes *)
(* the job down and lets the next call in.                                 *)
AwaitDone(c) ==
    /\ pc[c] = "wait"
    /\ \/ /\ remaining_ = 0 /\ active_ = 0
          /\ job_' = nullptr /\ caller_' = nullptr
          /\ Go(c, "returned")
       \/ /\ ~(remaining_ = 0 /\ active_ = 0)
          /\ Go(c, "parked")
          /\ UNCHANGED <<job_, caller_>>
    /\ UNCHANGED <<locals, chunks_, generation_, next_, remaining_, active_, served>>

-----------------------------------------------------------------------------
(* Pool::drain, of the caller and of the workers.                          *)

Draw(t) ==
    /\ pc[t] = "draw"
    /\ ticket' = [ticket EXCEPT ![t] = next_]
    /\ next_' = next_ + 1
    /\ Go(t, IF next_ < chunks_ THEN "serve"
             ELSE IF t \in Calls THEN "wait" ELSE "leave")
    /\ UNCHANGED <<work, seen, caller_, guarded, remaining_, active_, served>>

(* serve of one chunk, which is one position (kChunk = 1).                 *)
Serve(t) ==
    /\ pc[t] = "serve"
    /\ served' = [served EXCEPT ![Work(t)][ticket[t]] = @ + 1]
    /\ Go(t, "count")
    /\ UNCHANGED <<locals, caller_, guarded, next_, remaining_, active_>>

CountDown(t) ==
    /\ pc[t] = "count"
    /\ remaining_' = remaining_ - 1
    /\ Go(t, IF remaining_ = 1 THEN "last" ELSE "draw")
    /\ UNCHANGED <<locals, caller_, guarded, next_, active_, served>>

(* done_.notify_one(): only the holder of caller_ ever waits there.        *)
NotifyDone(t, label) ==
    pc' = [u \in Threads |->
              IF u = t THEN label
              ELSE IF u \in Calls /\ pc[u] = "parked" THEN "wait"
              ELSE pc[u]]

NotifyLast(t) ==
    /\ pc[t] = "last"
    /\ NotifyDone(t, "draw")
    /\ UNCHANGED <<locals, caller_, guarded, next_, remaining_, active_, served>>

-----------------------------------------------------------------------------
(* Pool::loop.                                                             *)

(* Mutant: a worker takes the job without being counted in active_.        *)
TakeJob_Uncounted(k) ==
    /\ pc[k] = "loop"
    /\ \/ /\ generation_ = seen[k]
          /\ Go(k, "parked")
          /\ UNCHANGED <<work, seen>>
       \/ /\ generation_ # seen[k] /\ job_ # nullptr
          /\ seen' = [seen EXCEPT ![k] = generation_]
          /\ work' = [work EXCEPT ![k] = job_]
          /\ Go(k, "draw")
    /\ UNCHANGED <<ticket, caller_, guarded, next_, remaining_, active_, served>>

(* ready_.wait evaluates its predicate: the worker waits, or takes the job *)
(* there is, if there is one, and is counted before it lets mutex_ go.     *)
TakeJob(k) ==
    /\ pc[k] = "loop"
    /\ \/ /\ generation_ = seen[k]
          /\ Go(k, "parked")
          /\ UNCHANGED <<work, seen, active_>>
       \/ /\ generation_ # seen[k] /\ job_ = nullptr
          /\ seen' = [seen EXCEPT ![k] = generation_]
          /\ UNCHANGED <<pc, work, active_>>
       \/ /\ generation_ # seen[k] /\ job_ # nullptr
          /\ seen' = [seen EXCEPT ![k] = generation_]
          /\ work' = [work EXCEPT ![k] = job_]
          /\ active_' = active_ + 1
          /\ Go(k, "draw")
    /\ UNCHANGED <<ticket, caller_, guarded, next_, remaining_, served>>

(* Mutant: a worker leaves drain() without notifying the caller.           *)
Leave_NoNotify(k) ==
    /\ pc[k] = "leave"
    /\ active_' = active_ - 1
    /\ work' = [work EXCEPT ![k] = nullptr]
    /\ Go(k, "loop")
    /\ UNCHANGED <<ticket, seen, caller_, guarded, next_, remaining_, served>>

Leave(k) ==
    /\ pc[k] = "leave"
    /\ active_' = active_ - 1
    /\ work' = [work EXCEPT ![k] = nullptr]
    /\ NotifyDone(k, "loop")
    /\ UNCHANGED <<ticket, seen, caller_, guarded, next_, remaining_, served>>

SpuriousWakeUp(t) ==
    /\ pc[t] = "parked"
    /\ Go(t, IF t \in Calls THEN "wait" ELSE "loop")
    /\ UNCHANGED <<locals, caller_, guarded, next_, remaining_, active_, served>>

-----------------------------------------------------------------------------
CallStep(c) ==
    \/ Lookup(c) \/ SerialStep(c)
    \/ LockCaller(c) \/ Publish(c) \/ NotifyReady(c) \/ AwaitDone(c)

DrainStep(t) == Draw(t) \/ Serve(t) \/ CountDown(t) \/ NotifyLast(t)

Next ==
    \/ \E c \in Calls : CallStep(c)
    \/ \E t \in Threads : DrainStep(t) \/ SpuriousWakeUp(t)
    \/ \E k \in Workers : TakeJob(k) \/ Leave(k)

Spec == Init /\ [][Next]_vars

(* Threads that run keep running; a worker need never wake up: the caller  *)
(* works too, so progress never depends on a wakeup (line 234).            *)
Fairness ==
    /\ \A c \in Calls : WF_vars(CallStep(c)) /\ WF_vars(DrainStep(c))
    /\ \A k \in Workers : WF_vars(DrainStep(k)) /\ WF_vars(Leave(k))

FairSpec == Spec /\ Fairness

-----------------------------------------------------------------------------
Labels == {"call", "serial", "lock", "publish", "notify", "draw", "serve",
           "count", "last", "wait", "parked", "leave", "loop", "returned"}
Draining == {"draw", "serve", "count", "last"}

TypeOK ==
    /\ pc \in [Threads -> Labels]
    /\ ticket \in [Threads -> Nat]
    /\ work \in [Workers -> Calls \cup {nullptr}]
    /\ seen \in [Workers -> Nat]
    /\ {caller_, job_} \subseteq Calls \cup {nullptr}
    /\ {next_, chunks_, remaining_, active_, generation_} \subseteq Nat
    /\ DOMAIN served = Calls
    /\ \A c \in Calls : served[c] \in [Positions(c) -> Nat]

(* No straggler: a thread that may still draw a ticket, serve a position   *)
(* or count one down does so for the job that is published, whose call has *)
(* not returned (its ids and buffers are the caller's and may be gone).    *)
NoStraggler ==
    \A t \in Threads : pc[t] \in Draining =>
        /\ Work(t) = job_
        /\ pc[job_] \in Draining \cup {"notify", "wait", "parked"}
        /\ chunks_ = Count[job_]

(* No lost completion: while the caller waits, some worker that is counted *)
(* in active_ will still leave, and notify it when it does.                *)
NoLostCompletion ==
    \A c \in Calls : pc[c] = "parked" =>
        \E k \in Workers : pc[k] \in Draining \cup {"leave"}

(* The contract of row_store_lookup, as a refinement.                      *)
Contract == INSTANCE RowLookup WITH
    returned <- {c \in Calls : pc[c] = "returned"}
LookupSpec == Contract!LookupSpec

(* Every lookup returns, though no worker ever has to wake up.             *)
CallsReturn == \A c \in Calls : <>(pc[c] = "returned")
=============================================================================
