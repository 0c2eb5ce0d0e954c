------------------------------- MODULE Gateway -------------------------------
(***************************************************************************)
(* Admission, dedup and accounting of gateway/concurrency_proxy_v2.py for  *)
(* many concurrent requests: dispatch, acquire_or_none, the dedup claim of *)
(* handle_stream and the points where a request gives things back.  What   *)
(* happens inside one open stream is module GatewayStream; here it is the  *)
(* label "streaming", which ends whenever it likes.                        *)
(*                                                                         *)
(* asyncio is single-threaded: an action is the code between two awaits.   *)
(* asyncio.Semaphore is a library; it is modelled in as much detail as the *)
(* gateway depends on it: a FIFO of waiters whose futures are set by       *)
(* release, and a waiter that times out after its future was set hands the *)
(* unit on.                                                                *)
(***************************************************************************)
EXTENDS Naturals, Sequences, SequencesExt, FiniteSets

CONSTANTS
    Requests,        (* the requests clients may send                      *)
    Reads,           (* those that are GET or HEAD                         *)
    Streaming,       (* those that are POST with "stream": true            *)
    BodyOf,          (* the body of each request, sanitized and injected   *)
    MAX_CONCURRENCY, (* slots of the gateway                               *)
    DEDUP_ENABLE     (* suppression of identical in-flight streams         *)

(* A body, as far as body_key tells bodies apart: its length, its first    *)
(* MAX_HASH_BYTES bytes, and whatever follows them.                        *)
Bodies == [len : Nat, head : STRING, rest : STRING]

ASSUME GatewayAssumption ==
    /\ IsFiniteSet(Requests)
    /\ Streaming \subseteq Requests /\ Reads \subseteq Requests
    /\ Streaming \cap Reads = {}
    /\ BodyOf \in [Requests -> Bodies]
    /\ MAX_CONCURRENCY \in Nat \ {0}
    /\ DEDUP_ENABLE \in BOOLEAN

VARIABLES
    pc,         (* the await each request is parked at                     *)
    value,      (* SEM._value                                              *)
    waiters,    (* SEM._waiters, the requests parked in SEM.acquire        *)
    woken,      (* waiters whose future is set; they own a unit of SEM     *)
    INFLIGHT,   (* keys of the streams in flight                           *)
    registered, (* streams that put their key there themselves             *)
    METRICS     (* counters and gauges                                     *)

vars == <<pc, value, waiters, woken, INFLIGHT, registered, METRICS>>

Stages == {"idle", "queued", "body", "prepare", "streaming", "finishing",
           "relaying", "done"}
Holding == {"body", "prepare", "streaming", "finishing", "relaying"}
At(stage) == {r \in Requests : pc[r] = stage}
Holders == {r \in Requests : pc[r] \in Holding}

body_key(b) == <<b.len, b.head>>
KeyOf(r) == body_key(BodyOf[r])

Counters == {"requests_total", "rejected_429_queue", "rejected_429_duplicate",
             "streams_total", "active_streams", "queue_now"}

Count(c) == METRICS' = [METRICS EXCEPT ![c] = @ + 1]
Go(r, stage) == pc' = [pc EXCEPT ![r] = stage]

Init ==
    /\ pc = [r \in Requests |-> "idle"]
    /\ value = MAX_CONCURRENCY
    /\ waiters = <<>> /\ woken = {}
    /\ INFLIGHT = {} /\ registered = {}
    /\ METRICS = [c \in Counters |-> 0]

-----------------------------------------------------------------------------
(* asyncio.Semaphore.                                                      *)

NotWoken(queue, set) == {i \in 1 .. Len(queue) : queue[i] \notin set}

(* _wake_up_next: with v free units, set the future of the first waiter    *)
(* that has none, and give it one of them.                                 *)
WakeUpNext(v, queue, set) ==
    IF NotWoken(queue, set) = {}
    THEN value' = v /\ woken' = set
    ELSE \E i \in NotWoken(queue, set) :
            /\ \A j \in NotWoken(queue, set) : i <= j
            /\ value' = v - 1
            /\ woken' = set \cup {queue[i]}

locked == value = 0 \/ waiters # <<>>

(* Mutants: the unit returns and nobody is told; it returns twice.         *)
Release_NoWakeUp == value' = value + 1 /\ UNCHANGED <<waiters, woken>>
Release_Twice == WakeUpNext(value + 2, waiters, woken) /\ UNCHANGED waiters

(* SEM.release, in the finally block of dispatch.                          *)
Release == WakeUpNext(value + 1, waiters, woken) /\ UNCHANGED waiters

-----------------------------------------------------------------------------
(* dispatch and acquire_or_none.                                           *)

(* A GET or HEAD is relayed without a slot (one request, 30 s).            *)
RelayGet(r) ==
    /\ pc[r] = "idle" /\ r \in Reads
    /\ Go(r, "done")
    /\ Count("requests_total")
    /\ UNCHANGED <<value, waiters, woken, INFLIGHT, registered>>

(* Any other request finds a free unit, or parks in SEM.acquire.           *)
ArriveFree(r) ==
    /\ pc[r] = "idle" /\ r \notin Reads /\ ~locked
    /\ value' = value - 1
    /\ Go(r, "body")
    /\ Count("requests_total")
    /\ UNCHANGED <<waiters, woken, INFLIGHT, registered>>

ArriveLocked(r) ==
    /\ pc[r] = "idle" /\ r \notin Reads /\ locked
    /\ waiters' = Append(waiters, r)
    /\ Go(r, "queued")
    /\ METRICS' = [METRICS EXCEPT !["requests_total"] = @ + 1,
                                  !["queue_now"] = @ + 1]
    /\ UNCHANGED <<value, woken, INFLIGHT, registered>>

(* Its future leaves the deque, however the wait ended.                    *)
Dequeue(r) ==
    \E i \in 1 .. Len(waiters) :
        waiters[i] = r /\ waiters' = RemoveAt(waiters, i)

(* Mutant: an admitted waiter leaves a spare unit lying.                   *)
Admit_KeepsSpare(r) ==
    /\ pc[r] = "queued" /\ r \in woken
    /\ Dequeue(r)
    /\ woken' = woken \ {r}
    /\ Go(r, "body")
    /\ METRICS' = [METRICS EXCEPT !["queue_now"] = @ - 1]
    /\ UNCHANGED <<value, INFLIGHT, registered>>

(* A woken waiter runs: it has its slot, and passes a spare unit on.       *)
Admit(r) ==
    /\ pc[r] = "queued" /\ r \in woken
    /\ Dequeue(r)
    /\ IF value > 0 THEN WakeUpNext(value, waiters', woken \ {r})
                    ELSE value' = value /\ woken' = woken \ {r}
    /\ Go(r, "body")
    /\ METRICS' = [METRICS EXCEPT !["queue_now"] = @ - 1]
    /\ UNCHANGED <<INFLIGHT, registered>>

(* Mutant: a waiter that gives up after its future was set keeps the unit. *)
LeaveQueue_LosesUnit(r) ==
    /\ pc[r] = "queued"
    /\ Dequeue(r)
    /\ woken' = woken \ {r}
    /\ Go(r, "done")
    /\ UNCHANGED <<value, INFLIGHT, registered>>

(* A waiter leaves the queue without a slot; a unit it was already given   *)
(* goes back and on to the next waiter.                                    *)
LeaveQueue(r) ==
    /\ pc[r] = "queued"
    /\ Dequeue(r)
    /\ IF r \in woken THEN WakeUpNext(value + 1, waiters', woken \ {r})
                      ELSE UNCHANGED <<value, woken>>
    /\ Go(r, "done")
    /\ UNCHANGED <<INFLIGHT, registered>>

(* Mutant: queue_now is lowered in the except branch and in finally.       *)
QueueTimeout_Twice(r) ==
    /\ LeaveQueue(r)
    /\ METRICS' = [METRICS EXCEPT !["queue_now"] = @ - 2,
                                  !["rejected_429_queue"] = @ + 1]

(* QUEUE_TIMEOUT: 429 with Retry-After.                                    *)
QueueTimeout(r) ==
    /\ LeaveQueue(r)
    /\ METRICS' = [METRICS EXCEPT !["queue_now"] = @ - 1,
                                  !["rejected_429_queue"] = @ + 1]

(* The server cancels the handler while it waits.                          *)
CancelQueued(r) ==
    /\ LeaveQueue(r)
    /\ METRICS' = [METRICS EXCEPT !["queue_now"] = @ - 1]

(* The request leaves dispatch through the finally block.                  *)
Return(r) == Go(r, "done") /\ Release

(* The head of handle_stream: a stream claims its key in the same segment  *)
(* that checked it, or is refused with 429.                                *)
ClaimKey(r) ==
    \/ /\ DEDUP_ENABLE /\ KeyOf(r) \in INFLIGHT
       /\ Count("rejected_429_duplicate")
       /\ Return(r)
       /\ UNCHANGED <<INFLIGHT, registered>>
    \/ /\ DEDUP_ENABLE /\ KeyOf(r) \notin INFLIGHT
       /\ INFLIGHT' = INFLIGHT \cup {KeyOf(r)}
       /\ registered' = registered \cup {r}
       /\ Go(r, "prepare")
       /\ UNCHANGED <<value, waiters, woken, METRICS>>
    \/ /\ ~DEDUP_ENABLE
       /\ Go(r, "prepare")
       /\ UNCHANGED <<value, waiters, woken, INFLIGHT, registered, METRICS>>

(* The body is complete: a plain request is relayed, a stream is handled.  *)
ReadBody(r) ==
    /\ pc[r] = "body"
    /\ \/ /\ r \notin Streaming
          /\ Go(r, "relaying")
          /\ UNCHANGED <<value, waiters, woken, INFLIGHT, registered, METRICS>>
       \/ r \in Streaming /\ ClaimKey(r)

(* The client is gone, the body too large, or the handler cancelled.       *)
BodyFails(r) ==
    /\ pc[r] = "body"
    /\ Return(r)
    /\ UNCHANGED <<INFLIGHT, registered, METRICS>>

(* INFLIGHT.pop(key, None), for a stream that registered it.               *)
PopKey(r) ==
    /\ registered' = registered \ {r}
    /\ INFLIGHT' = IF r \in registered THEN INFLIGHT \ {KeyOf(r)} ELSE INFLIGHT

StreamOpens(r) ==
    /\ pc[r] = "prepare"
    /\ Go(r, "streaming")
    /\ METRICS' = [METRICS EXCEPT !["streams_total"] = @ + 1,
                                  !["active_streams"] = @ + 1]
    /\ UNCHANGED <<value, waiters, woken, INFLIGHT, registered>>

(* Mutant: the claim is not undone when prepare fails.                     *)
PrepareFails_LeaksKey(r) ==
    /\ pc[r] = "prepare"
    /\ Return(r)
    /\ UNCHANGED <<INFLIGHT, registered, METRICS>>

(* resp.prepare raises: the key must not stay behind.                      *)
PrepareFails(r) ==
    /\ pc[r] = "prepare"
    /\ PopKey(r)
    /\ Return(r)
    /\ UNCHANGED METRICS

(* The finally block of handle_stream, up to its await.                    *)
StreamCleanup(r) ==
    /\ pc[r] = "streaming"
    /\ PopKey(r)
    /\ Go(r, "finishing")
    /\ METRICS' = [METRICS EXCEPT !["active_streams"] = @ - 1]
    /\ UNCHANGED <<value, waiters, woken>>

(* write_eof is over (or relay_plain is): dispatch returns.                *)
Finish(r) ==
    /\ pc[r] \in {"finishing", "relaying"}
    /\ Return(r)
    /\ UNCHANGED <<INFLIGHT, registered, METRICS>>

Step(r) ==
    \/ RelayGet(r) \/ ArriveFree(r) \/ ArriveLocked(r)
    \/ Admit(r) \/ QueueTimeout(r) \/ CancelQueued(r)
    \/ ReadBody(r) \/ BodyFails(r) \/ StreamOpens(r) \/ PrepareFails(r)
    \/ StreamCleanup(r) \/ Finish(r)

Next == \E r \in Requests : Step(r)

Spec == Init /\ [][Next]_vars

(* Every request that holds a slot eventually moves on (GatewayStream's    *)
(* HandlerReturns; relay_plain has a total timeout; the body arrives or    *)
(* the connection dies).  QUEUE_TIMEOUT is not needed for progress.        *)
Fairness ==
    \A r \in Requests :
        /\ WF_vars(Admit(r))
        /\ WF_vars(ReadBody(r) \/ BodyFails(r))
        /\ WF_vars(StreamOpens(r) \/ PrepareFails(r))
        /\ WF_vars(StreamCleanup(r)) /\ WF_vars(Finish(r))

FairSpec == Spec /\ Fairness

-----------------------------------------------------------------------------
TypeOK ==
    /\ pc \in [Requests -> Stages]
    /\ value \in Nat
    /\ waiters \in Seq(Requests)
    /\ woken \subseteq Requests
    /\ registered \subseteq Streaming
    /\ INFLIGHT \subseteq {KeyOf(r) : r \in Requests}
    /\ METRICS \in [Counters -> Nat]

(* Units of the semaphore are neither lost nor made: the free ones, those  *)
(* on their way to a woken waiter and those held add up, whatever timeouts *)
(* and failures happened.  In particular at most MAX_CONCURRENCY requests  *)
(* are between their admission and the release in dispatch's finally.      *)
SlotsConserved ==
    value + Cardinality(woken) + Cardinality(Holders) = MAX_CONCURRENCY

(* A free unit and a waiter without one never coexist, unless a woken      *)
(* waiter is about to run and will pass the unit on: no lost wake-up.      *)
NoStrandedWaiter == value > 0 /\ waiters # <<>> => woken # {}

(* The waiters' queue is FIFO and holds each queued request once: units go *)
(* to a prefix of it, so nobody is overtaken.                              *)
InOrder(queue, set) ==
    \A i, j \in 1 .. Len(queue) :
        /\ queue[i] = queue[j] => i = j
        /\ i < j /\ queue[j] \in set => queue[i] \in set
WaitersInOrder ==
    /\ Range(waiters) = At("queued")
    /\ woken \subseteq Range(waiters)
    /\ InOrder(waiters, woken)

(* A unit that comes free while requests wait is always on its way to one, *)
(* and to the one that has waited longest.                                 *)
WaitersAreServed == NoStrandedWaiter /\ WaitersInOrder

(* INFLIGHT holds exactly the keys of the streams between their claim and  *)
(* their cleanup, each claimed by one stream: two identical streams never  *)
(* both reach the engine, and no key outlives its stream (a leaked key     *)
(* would refuse every retry until a restart).                              *)
Claimed == {r \in Streaming : pc[r] \in {"prepare", "streaming"}}
KeysAreExact ==
    DEDUP_ENABLE =>
        /\ registered = Claimed
        /\ INFLIGHT = {KeyOf(r) : r \in Claimed}
        /\ \A r, s \in Claimed : KeyOf(r) = KeyOf(s) => r = s

(* The gauges an operator reads from /gw/metrics are true at every await.  *)
GaugesAreExact ==
    /\ METRICS["queue_now"] = Cardinality(At("queued"))
    /\ METRICS["active_streams"] = Cardinality(At("streaming"))

(* Keys and gauges, which every exit of three functions must give back,    *)
(* are true at every await: none leaks on any path.                        *)
BooksAreExact == KeysAreExact /\ GaugesAreExact

(* Nobody queues forever even if no queue timer ever fired.                *)
QueueDrains == \A r \in Requests : pc[r] = "queued" ~> pc[r] # "queued"

(* The contract towards the engine, as a refinement: holding a slot is     *)
(* being inside, a registered key is a claim.                              *)
Engine == INSTANCE Admission WITH
    Clients <- Requests, Limit <- MAX_CONCURRENCY, Key <- KeyOf,
    inside <- Holders, claims <- registered
AdmissionSpec == Engine!AdSpec
=============================================================================
