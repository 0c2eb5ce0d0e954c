---------------------------- MODULE GatewayStream ----------------------------
(***************************************************************************)
(* One streamed request inside gateway/concurrency_proxy_v2.py, from the   *)
(* moment handle_stream has claimed its dedup key (line 360) to the        *)
(* release of the admission slot in dispatch (line 747).                   *)
(*                                                                         *)
(* Four asyncio tasks share one bounded queue: the handler itself ("main"),*)
(* the producer (engine side), the consumer (client side) and the          *)
(* heartbeat.  asyncio runs one task at a time and switches only where a   *)
(* task awaits, so an action below is one segment of a task, from the      *)
(* await it is parked at (its pc) to the next one.  The engine, the client *)
(* and the clock are the environment: which answer an await gets, and      *)
(* which of several armed timers fires first, is nondeterministic.         *)
(***************************************************************************)
EXTENDS Naturals, Sequences, FiniteSets

CONSTANTS
    QueueSize,      (* asyncio.Queue(maxsize=256), line 382                *)
    RETRY_CONNECT,  (* reconnections allowed before the first byte         *)
    Budgeted,       (* FIRST_TOKEN_TIMEOUT > 0: the TTFT budget is armed   *)
    Cancellable,    (* the server may cancel a handler (shutdown)          *)
    TornChunks      (* chunks whose last byte is inside an SSE event       *)

(* Chunks are numbered modulo Window, so an engine that never stops has a  *)
(* finite model; a chunk in flight is never confused with another because  *)
(* at most QueueSize + 2 are in flight between the engine and the client.  *)
Window == QueueSize + 3

ASSUME StreamAssumption ==
    /\ QueueSize \in Nat \ {0}
    /\ RETRY_CONNECT \in Nat
    /\ Budgeted \in BOOLEAN
    /\ Cancellable \in BOOLEAN
    /\ TornChunks \subseteq 0 .. Window - 1

VARIABLES
    pc,         (* the await each task is parked at                        *)
    cancelled,  (* tasks with a CancelledError to be raised at their await *)
    q,          (* the frame queue                                         *)
    attempt,    (* index of the connection attempt                         *)
    upstream,   (* the engine response bound to the handler                *)
    first_seen, (* asyncio.Event: first byte, or producer gone             *)
    rx,         (* number of the last chunk read from the engine           *)
    eof_seen,   (* the engine ended its response normally                  *)
    wire,       (* what was handed to the client's transport               *)
    client,     (* "up" or "gone"                                          *)
    expired,    (* TOTAL_STREAM_TIMEOUT has passed since the stream opened *)
    registered, (* the body's key is in INFLIGHT                           *)
    slot,       (* the request holds a unit of SEM                         *)
    METRICS     (* the counters this stream touches                        *)

engine  == <<attempt, upstream, first_seen, rx, eof_seen>>
outside == <<client, expired>>
grants  == <<registered, slot>>
vars == <<pc, cancelled, q, engine, wire, outside, grants, METRICS>>

Tasks == {"main", "producer", "consumer", "heartbeat"}

Data(n)   == [kind |-> "data", n |-> n]
HEARTBEAT == [kind |-> "heartbeat", n |-> 0]
ErrFrame  == [kind |-> "error", n |-> 0]     (* err_frame: error + [DONE]  *)
DONE      == [kind |-> "done", n |-> 0]
Items     == {Data(n) : n \in 0 .. Window - 1} \cup {HEARTBEAT, ErrFrame, DONE}

Counters == {"active_streams", "first_token_timeouts", "chunk_idle_timeouts",
             "queue_full_drops", "write_timeouts", "stream_total_timeouts",
             "upstream_errors", "client_disconnects", "internal_retries"}

Succ(n) == (n + 1) % Window
HasRoom(queue) == Len(queue) < QueueSize
Count(c) == METRICS' = [METRICS EXCEPT ![c] = @ + 1]

Init ==
    /\ pc = [t \in Tasks |-> IF t = "main" THEN "prepare" ELSE "none"]
    /\ cancelled = {}
    /\ q = <<>>
    /\ attempt = 0 /\ upstream = "none" /\ first_seen = FALSE
    /\ rx = 0 /\ eof_seen = FALSE
    /\ wire = [last |-> 0, torn |-> FALSE, spliced |-> FALSE, errs |-> 0,
               end |-> "open"]
    /\ client = "up" /\ expired = FALSE
    /\ registered = TRUE /\ slot = TRUE
    /\ METRICS = [c \in Counters |-> 0]

-----------------------------------------------------------------------------
(* Mutant: the queue has no maxsize.                                       *)
PutFrame_Unbounded(queue, frame) == Append(queue, frame)

(* put_frame never raises: on a full queue the frame is dropped, counted.  *)
PutFrame(queue, frame) == IF HasRoom(queue) THEN Append(queue, frame) ELSE queue
Drops(queue, frame) == IF HasRoom(queue) THEN 0 ELSE 1

(* finish_err of the handler: an error frame, then the DONE sentinel.      *)
FinishErr ==
    LET q1 == PutFrame(q, ErrFrame)
    IN  /\ q' = PutFrame(q1, DONE)
        /\ METRICS' = [METRICS EXCEPT
              !["queue_full_drops"] = @ + Drops(q, ErrFrame) + Drops(q1, DONE),
              !["first_token_timeouts"] = IF pc["main"] = "ttft" THEN @ + 1 ELSE @]

-----------------------------------------------------------------------------
(* The handler.                                                            *)

(* resp.prepare succeeded: count the stream, start the three tasks.  Each  *)
(* runs to its first await before anything can reach the handler again     *)
(* (the loop's ready queue is FIFO), so they start parked at that await.   *)
MainPrepared ==
    /\ pc["main"] = "prepare" /\ "main" \notin cancelled
    /\ pc' = [main |-> "first", producer |-> "connect", consumer |-> "get",
              heartbeat |-> "sleep"]
    /\ Count("active_streams")
    /\ UNCHANGED <<cancelled, q, engine, wire, outside, grants>>

(* Mutant: the key stays in INFLIGHT.                                      *)
MainPrepareFails_LeaksKey ==
    /\ pc["main"] = "prepare" /\ ("main" \in cancelled \/ client = "gone")
    /\ pc' = [pc EXCEPT !["main"] = "done"]
    /\ slot' = FALSE
    /\ cancelled' = {}
    /\ wire' = [wire EXCEPT !.end = "closed"]
    /\ Count("client_disconnects")
    /\ UNCHANGED <<q, engine, outside, registered>>

(* resp.prepare raised, or was cancelled: give the key back and re-raise;  *)
(* dispatch counts the disconnect and releases the slot.                   *)
MainPrepareFails ==
    /\ pc["main"] = "prepare" /\ ("main" \in cancelled \/ client = "gone")
    /\ pc' = [pc EXCEPT !["main"] = "done"]
    /\ registered' = FALSE /\ slot' = FALSE
    /\ cancelled' = {}
    /\ wire' = [wire EXCEPT !.end = "closed"]
    /\ Count("client_disconnects")
    /\ UNCHANGED <<q, engine, outside>>

(* first_seen.wait() returned in time.                                     *)
MainFirstSeen ==
    /\ pc["main"] = "first" /\ "main" \notin cancelled /\ first_seen
    /\ pc' = [pc EXCEPT !["main"] = "drain"]
    /\ UNCHANGED <<cancelled, q, engine, wire, outside, grants, METRICS>>

(* The wait_for timer of the TTFT budget fires.  The handler resumes a few *)
(* turns of the loop later, so other tasks still act in between, and a     *)
(* first_seen set meanwhile no longer helps.                               *)
MainTimerFires ==
    /\ pc["main"] = "first" /\ Budgeted
    /\ pc' = [pc EXCEPT !["main"] = "ttft"]
    /\ UNCHANGED <<cancelled, q, engine, wire, outside, grants, METRICS>>

(* Mutant: the producer is left running after the error frame.             *)
MainFirstTokenTimeout_NoCancel ==
    /\ pc["main"] = "ttft" /\ "main" \notin cancelled
    /\ FinishErr
    /\ pc' = [pc EXCEPT !["main"] = "drain"]
    /\ UNCHANGED <<cancelled, engine, wire, outside, grants>>

(* ... and the handler cancels the producer and queues the error frame.    *)
MainFirstTokenTimeout ==
    /\ pc["main"] = "ttft" /\ "main" \notin cancelled
    /\ cancelled' = IF pc["producer"] = "done" THEN cancelled
                    ELSE cancelled \cup {"producer"}
    /\ FinishErr
    /\ pc' = [pc EXCEPT !["main"] = "drain"]
    /\ UNCHANGED <<engine, wire, outside, grants>>

(* The finally block, up to its await: cancel every task that still runs,  *)
(* close the engine response, give the key back, leave active_streams.     *)
Cleanup(next) ==
    /\ cancelled' = {t \in Tasks \ {"main"} : pc[t] \notin {"done", "raised"}}
    /\ upstream' = IF upstream = "open" THEN "closed" ELSE upstream
    /\ registered' = FALSE
    /\ pc' = [pc EXCEPT !["main"] = next]
    /\ UNCHANGED <<attempt, first_seen, rx, eof_seen, wire, outside, slot>>

(* consumer_t finished: return resp, through the finally block.            *)
MainDrained ==
    /\ pc["main"] = "drain" /\ "main" \notin cancelled
    /\ pc["consumer"] = "done"
    /\ Cleanup("eof")
    /\ METRICS' = [METRICS EXCEPT !["active_streams"] = @ - 1]
    /\ UNCHANGED q

(* consumer_t raised something unforeseen: queue an error frame nobody     *)
(* will read, then end the response.                                       *)
MainConsumerRaised ==
    /\ pc["main"] = "drain" /\ "main" \notin cancelled
    /\ pc["consumer"] = "raised"
    /\ FinishErr
    /\ pc' = [pc EXCEPT !["main"] = "eof_err"]
    /\ UNCHANGED <<cancelled, engine, wire, outside, grants>>

(* write_eof of that branch returns, fails or is cancelled: force_close.   *)
MainEofAfterRaise ==
    /\ pc["main"] = "eof_err"
    /\ Cleanup("eof")
    /\ METRICS' = [METRICS EXCEPT !["active_streams"] = @ - 1]
    /\ UNCHANGED q

(* CancelledError at one of the two waits: count it, clean up, re-raise.   *)
MainCancelled ==
    /\ pc["main"] \in {"first", "ttft", "drain"} /\ "main" \in cancelled
    /\ Cleanup("eof_raise")
    /\ METRICS' = [METRICS EXCEPT !["client_disconnects"] = @ + 1,
                                  !["active_streams"] = @ - 1]
    /\ UNCHANGED q

(* The last write_eof: it returns, or it times out, fails or is cancelled  *)
(* and the connection is force-closed.  Either way dispatch releases the   *)
(* slot, and counts the disconnect a second time when it re-raises.        *)
MainEof ==
    /\ pc["main"] \in {"eof", "eof_raise"}
    /\ \E end \in {"eof", "closed"} :
          /\ end = "eof" => client = "up" /\ "main" \notin cancelled
          /\ wire' = [wire EXCEPT !.end = end]
    /\ slot' = FALSE
    /\ METRICS' = IF pc["main"] = "eof" THEN METRICS
                  ELSE [METRICS EXCEPT !["client_disconnects"] = @ + 1]
    /\ pc' = [pc EXCEPT !["main"] = "done"]
    /\ cancelled' = cancelled \ {"main"}
    /\ UNCHANGED <<q, engine, outside, registered>>

MainStep ==
    \/ MainPrepared \/ MainPrepareFails \/ MainFirstSeen \/ MainTimerFires
    \/ MainFirstTokenTimeout \/ MainDrained \/ MainConsumerRaised
    \/ MainEofAfterRaise \/ MainCancelled \/ MainEof

-----------------------------------------------------------------------------
(* The producer.                                                           *)

ProducerAt(label) == pc["producer"] = label /\ "producer" \notin cancelled
ProducerGoes(label) == pc' = [pc EXCEPT !["producer"] = label]

(* The finally block: set first_seen, then `await q.put(DONE)`, which      *)
(* parks the task when the queue is full.                                  *)
Finally(queue) ==
    /\ first_seen' = TRUE
    /\ IF HasRoom(queue)
       THEN q' = Append(queue, DONE) /\ ProducerGoes("done")
       ELSE q' = queue /\ ProducerGoes("finally")

(* Mutant: the failure is counted but the client is not told.              *)
ProducerFails_NoFrame(counter) == Count(counter) /\ Finally(q)

(* A failure the producer reports: count it, queue the error frame.        *)
ProducerFails(counter) ==
    /\ METRICS' = [METRICS EXCEPT ![counter] = @ + 1,
                                  !["queue_full_drops"] = @ + Drops(q, ErrFrame)]
    /\ Finally(PutFrame(q, ErrFrame))

(* `await q.put(data)`: immediate when there is room.                      *)
Pump(n) ==
    /\ rx' = n
    /\ IF HasRoom(q) THEN q' = Append(q, Data(n)) /\ ProducerGoes("read")
                     ELSE UNCHANGED q /\ ProducerGoes("put")

(* status 200: bind the response.                                          *)
ConnectOk ==
    /\ ProducerAt("connect")
    /\ upstream' = "open"
    /\ ProducerGoes("first")
    /\ UNCHANGED <<cancelled, q, attempt, first_seen, rx, eof_seen, wire,
                   outside, grants, METRICS>>

(* A 5xx with attempts left, or an exception with attempts left: back off. *)
ConnectRetry ==
    /\ ProducerAt("connect") \/ ProducerAt("reject")
    /\ attempt < RETRY_CONNECT
    /\ Count("internal_retries")
    /\ ProducerGoes("backoff")
    /\ UNCHANGED <<cancelled, q, engine, wire, outside, grants>>

Backoff ==
    /\ ProducerAt("backoff")
    /\ attempt' = attempt + 1
    /\ ProducerGoes("connect")
    /\ UNCHANGED <<cancelled, q, upstream, first_seen, rx, eof_seen, wire,
                   outside, grants, METRICS>>

(* Any other status: counted first, then the body is read for the log.     *)
ConnectRejected ==
    /\ ProducerAt("connect")
    /\ Count("upstream_errors")
    /\ ProducerGoes("reject")
    /\ UNCHANGED <<cancelled, q, engine, wire, outside, grants>>

(* Mutant: the rejection branch returns without its error frame.           *)
RejectedBodyRead_NoFrame ==
    /\ ProducerAt("reject")
    /\ Finally(q)
    /\ UNCHANGED <<cancelled, attempt, upstream, rx, eof_seen, wire, outside,
                   grants, METRICS>>

RejectedBodyRead ==
    /\ ProducerAt("reject")
    /\ METRICS' = [METRICS EXCEPT !["queue_full_drops"] = @ + Drops(q, ErrFrame)]
    /\ Finally(PutFrame(q, ErrFrame))
    /\ UNCHANGED <<cancelled, attempt, upstream, rx, eof_seen, wire, outside,
                   grants>>

(* An exception on the last attempt (also while reading a rejection body). *)
ConnectFails ==
    /\ ProducerAt("connect") \/ ProducerAt("reject")
    /\ attempt = RETRY_CONNECT
    /\ ProducerFails("upstream_errors")
    /\ UNCHANGED <<cancelled, attempt, upstream, rx, eof_seen, wire, outside,
                   grants>>

(* The first read: a chunk, a failure, or the end of an empty response.    *)
FirstChunk ==
    /\ ProducerAt("first")
    /\ first_seen' = TRUE
    /\ Pump(Succ(0))
    /\ UNCHANGED <<cancelled, attempt, upstream, eof_seen, wire, outside,
                   grants, METRICS>>

FirstReadTimeout ==
    /\ ProducerAt("first") /\ Budgeted
    /\ ProducerFails("first_token_timeouts")
    /\ UNCHANGED <<cancelled, attempt, upstream, rx, eof_seen, wire, outside,
                   grants>>

(* Later reads; each is bounded by CHUNK_IDLE_TIMEOUT.                     *)
NextChunk ==
    /\ ProducerAt("read")
    /\ Pump(Succ(rx))
    /\ UNCHANGED <<cancelled, attempt, upstream, first_seen, eof_seen, wire,
                   outside, grants, METRICS>>

ChunkIdle ==
    /\ ProducerAt("read")
    /\ ProducerFails("chunk_idle_timeouts")
    /\ UNCHANGED <<cancelled, attempt, upstream, rx, eof_seen, wire, outside,
                   grants>>

ReadFails ==
    /\ ProducerAt("first") \/ ProducerAt("read")
    /\ ProducerFails("upstream_errors")
    /\ UNCHANGED <<cancelled, attempt, upstream, rx, eof_seen, wire, outside,
                   grants>>

EngineEnds ==
    /\ ProducerAt("first") \/ ProducerAt("read")
    /\ eof_seen' = TRUE
    /\ Finally(q)
    /\ UNCHANGED <<cancelled, attempt, upstream, rx, wire, outside, grants,
                   METRICS>>

(* A parked put finds room: the chunk, or the DONE of the finally block.   *)
PutUnblocks ==
    /\ HasRoom(q)
    /\ \/ /\ ProducerAt("put")
          /\ q' = Append(q, Data(rx)) /\ ProducerGoes("read")
       \/ /\ ProducerAt("finally")
          /\ q' = Append(q, DONE) /\ ProducerGoes("done")
    /\ UNCHANGED <<cancelled, engine, wire, outside, grants, METRICS>>

(* CancelledError: a task parked in the try runs its finally block; one    *)
(* parked in the finally block gives up DONE.                              *)
ProducerCancelled ==
    /\ "producer" \in cancelled
    /\ cancelled' = cancelled \ {"producer"}
    /\ \/ /\ pc["producer"] = "finally"
          /\ ProducerGoes("done")
          /\ UNCHANGED <<q, first_seen>>
       \/ /\ pc["producer"] # "finally"
          /\ Finally(q)
    /\ UNCHANGED <<attempt, upstream, rx, eof_seen, wire, outside, grants,
                   METRICS>>

ProducerStep ==
    \/ ConnectOk \/ ConnectRetry \/ Backoff
    \/ ConnectRejected \/ RejectedBodyRead \/ ConnectFails \/ FirstChunk
    \/ FirstReadTimeout \/ NextChunk \/ ChunkIdle \/ ReadFails
    \/ EngineEnds \/ PutUnblocks \/ ProducerCancelled

-----------------------------------------------------------------------------
(* The consumer and the heartbeat.                                         *)

ConsumerAt(label) == pc["consumer"] = label /\ "consumer" \notin cancelled
ConsumerGoes(label) == pc' = [pc EXCEPT !["consumer"] = label]

(* resp.write hands the item to the transport before it waits for drain.   *)
(* `spliced` records a frame that landed inside a half-sent SSE event.     *)
Handed(item) ==
    CASE item.kind = "data" ->
            [wire EXCEPT !.last = item.n, !.torn = item.n \in TornChunks]
      [] item.kind = "error" ->
            [wire EXCEPT !.errs = @ + 1, !.spliced = @ \/ wire.torn,
                         !.torn = FALSE]
      [] OTHER ->
            [wire EXCEPT !.spliced = @ \/ wire.torn, !.torn = FALSE]

(* Mutant: a write to a closed connection is ignored.                      *)
ConsumerTake_IgnoresGone ==
    /\ ConsumerAt("get") /\ q # <<>>
    /\ q' = Tail(q)
    /\ \/ /\ Head(q) = DONE
          /\ ConsumerGoes("done")
          /\ UNCHANGED <<wire, METRICS>>
       \/ /\ Head(q) # DONE /\ expired
          /\ ConsumerGoes("done")
          /\ Count("stream_total_timeouts")
          /\ UNCHANGED wire
       \/ /\ Head(q) # DONE /\ ~expired /\ client = "gone"
          /\ UNCHANGED <<pc, wire, METRICS>>
       \/ /\ Head(q) # DONE /\ ~expired /\ client = "up"
          /\ ConsumerGoes("write")
          /\ wire' = Handed(Head(q))
          /\ UNCHANGED METRICS
    /\ UNCHANGED <<cancelled, engine, outside, grants>>

(* An item arrives: stop at DONE, cut an expired stream, else write it.    *)
ConsumerTake ==
    /\ ConsumerAt("get") /\ q # <<>>
    /\ q' = Tail(q)
    /\ \/ /\ Head(q) = DONE
          /\ ConsumerGoes("done")
          /\ UNCHANGED <<wire, METRICS>>
       \/ /\ Head(q) # DONE /\ expired
          /\ ConsumerGoes("done")
          /\ Count("stream_total_timeouts")
          /\ UNCHANGED wire
       \/ /\ Head(q) # DONE /\ ~expired /\ client = "gone"
          /\ ConsumerGoes("done")
          /\ Count("client_disconnects")
          /\ UNCHANGED wire
       \/ /\ Head(q) # DONE /\ ~expired /\ client = "up"
          /\ ConsumerGoes("write")
          /\ wire' = Handed(Head(q))
          /\ UNCHANGED METRICS
    /\ UNCHANGED <<cancelled, engine, outside, grants>>

ConsumerWritten ==
    /\ ConsumerAt("write") /\ client = "up"
    /\ ConsumerGoes("get")
    /\ UNCHANGED <<cancelled, q, engine, wire, outside, grants, METRICS>>

(* Mutant: writes have no timeout.                                         *)
ConsumerWriteTimeout_Never == FALSE

(* The client does not drain within WRITE_TIMEOUT.                         *)
ConsumerWriteTimeout ==
    /\ ConsumerAt("write")
    /\ ConsumerGoes("done")
    /\ Count("write_timeouts")
    /\ UNCHANGED <<cancelled, q, engine, wire, outside, grants>>

(* The connection is lost during the drain: ConnectionResetError, or an    *)
(* exception of another class, which the consumer does not catch.          *)
ConsumerConnectionLost ==
    /\ ConsumerAt("write") /\ client = "gone"
    /\ \/ ConsumerGoes("done") /\ Count("client_disconnects")
       \/ ConsumerGoes("raised") /\ UNCHANGED METRICS
    /\ UNCHANGED <<cancelled, q, engine, wire, outside, grants>>

(* CancelledError inside the loop is counted as a disconnect and swallowed.*)
ConsumerCancelled ==
    /\ "consumer" \in cancelled
    /\ cancelled' = cancelled \ {"consumer"}
    /\ ConsumerGoes("done")
    /\ Count("client_disconnects")
    /\ UNCHANGED <<q, engine, wire, outside, grants>>

ConsumerStep ==
    \/ ConsumerTake \/ ConsumerWritten
    \/ ConsumerWriteTimeout \/ ConsumerConnectionLost \/ ConsumerCancelled

(* HEARTBEAT_INTERVAL passed; on a full queue the keep-alive is skipped.   *)
HeartbeatBeats ==
    /\ pc["heartbeat"] = "sleep" /\ "heartbeat" \notin cancelled
    /\ HasRoom(q)
    /\ q' = Append(q, HEARTBEAT)
    /\ UNCHANGED <<pc, cancelled, engine, wire, outside, grants, METRICS>>

HeartbeatCancelled ==
    /\ "heartbeat" \in cancelled
    /\ cancelled' = cancelled \ {"heartbeat"}
    /\ pc' = [pc EXCEPT !["heartbeat"] = "done"]
    /\ UNCHANGED <<q, engine, wire, outside, grants, METRICS>>

-----------------------------------------------------------------------------
(* The environment.                                                        *)

ClientLeaves ==
    /\ client = "up" /\ pc["main"] # "done"
    /\ client' = "gone"
    /\ UNCHANGED <<pc, cancelled, q, engine, wire, expired, grants, METRICS>>

TotalElapses ==
    /\ ~expired /\ pc["main"] \notin {"prepare", "done"}
    /\ expired' = TRUE
    /\ UNCHANGED <<pc, cancelled, q, engine, wire, client, grants, METRICS>>

(* The server cancels the handler.  A task awaiting another task passes    *)
(* the cancellation on to it, so at `await consumer_t` a running consumer  *)
(* receives it instead of the handler.                                     *)
ServerCancels ==
    /\ Cancellable /\ pc["main"] # "done" /\ "main" \notin cancelled
    /\ cancelled' = cancelled \cup
         {IF pc["main"] = "drain" /\ pc["consumer"] \notin {"done", "raised"}
          THEN "consumer" ELSE "main"}
    /\ UNCHANGED <<pc, q, engine, wire, outside, grants, METRICS>>

Next ==
    \/ MainStep \/ ProducerStep \/ ConsumerStep
    \/ HeartbeatBeats \/ HeartbeatCancelled
    \/ ClientLeaves \/ TotalElapses \/ ServerCancels

Spec == Init /\ [][Next]_vars

(* The event loop runs every ready task and every armed timer fires: the   *)
(* first-token timers, the idle timer of a read, WRITE_TIMEOUT, the        *)
(* back-off sleep, the heartbeat.  Nothing is assumed of the engine (it    *)
(* may leave a connect or a read unanswered) nor of the client (it may     *)
(* never drain a write).                                                   *)
Fairness ==
    /\ WF_vars(MainStep)
    /\ WF_vars(Backoff) /\ WF_vars(FirstReadTimeout) /\ WF_vars(ChunkIdle)
    /\ WF_vars(PutUnblocks) /\ WF_vars(ProducerCancelled)
    /\ WF_vars(ConsumerTake) /\ WF_vars(ConsumerWriteTimeout)
    /\ WF_vars(ConsumerCancelled)
    /\ WF_vars(HeartbeatBeats) /\ WF_vars(HeartbeatCancelled)

FairSpec == Spec /\ Fairness

-----------------------------------------------------------------------------
Labels ==
    [main      : {"prepare", "first", "ttft", "drain", "eof_err", "eof",
                  "eof_raise", "done"},
     producer  : {"none", "connect", "backoff", "reject", "first",
                  "put", "read", "finally", "done"},
     consumer  : {"none", "get", "write", "done", "raised"},
     heartbeat : {"none", "sleep", "done"}]

(* Types, with the bounds that are not by construction: the queue never    *)
(* exceeds its maxsize, the gauge active_streams stays in 0..1, connection *)
(* attempts never exceed 1 + RETRY_CONNECT.                                *)
TypeOK ==
    /\ pc \in Labels
    /\ cancelled \subseteq Tasks
    /\ q \in Seq(Items) /\ Len(q) <= QueueSize
    /\ attempt \in 0 .. RETRY_CONNECT
    /\ upstream \in {"none", "open", "closed"}
    /\ {first_seen, eof_seen, expired, registered, slot} \subseteq BOOLEAN
    /\ rx \in 0 .. Window - 1
    /\ wire \in [last : 0 .. Window - 1, torn : BOOLEAN, spliced : BOOLEAN,
                 errs : Nat, end : {"open", "eof", "closed"}]
    /\ client \in {"up", "gone"}
    /\ METRICS \in [Counters -> Nat]
    /\ METRICS["active_streams"] \in 0 .. 1

(* What the gateway acquired for a stream it gives back exactly when it    *)
(* should: a handler that has returned holds no slot, no dedup key, no     *)
(* open engine response and is not counted as active; until then it holds  *)
(* the slot, so a client waiting out its write_eof cannot be overtaken.    *)
FinishedReleasesAll ==
    /\ slot <=> pc["main"] # "done"
    /\ pc["main"] = "done" =>
          /\ ~registered
          /\ upstream # "open"
          /\ METRICS["active_streams"] = 0

(* The response ends cleanly after a partial answer only when an error     *)
(* frame precedes the end or one of the cut counters says why: every       *)
(* truncation is attributable afterwards (docstring lines 35-50).          *)
Complete == eof_seen /\ wire.last = rx
TruncationIsAttributable ==
    wire.end = "eof" /\ ~Complete =>
        \/ wire.errs > 0
        \/ \E c \in {"stream_total_timeouts", "write_timeouts",
                      "queue_full_drops", "client_disconnects"} : METRICS[c] > 0

(* The error frames a client receives and the counters an operator reads   *)
(* agree: each frame was counted by the path that raised it, and a counted *)
(* failure shows up on every stream that ended cleanly, unless the frame   *)
(* was dropped or the client side was already cut.                         *)
Failures == METRICS["upstream_errors"] + METRICS["first_token_timeouts"]
            + METRICS["chunk_idle_timeouts"]
ErrorFramesMatchCounters ==
    /\ wire.errs <= Failures
    /\ wire.end = "eof" /\ Failures > 0 /\ wire.errs = 0 /\ ~Complete =>
          \E c \in {"stream_total_timeouts", "write_timeouts",
                    "queue_full_drops", "client_disconnects"} : METRICS[c] > 0

(* The client-side contract, as a refinement.                              *)
View == INSTANCE ClientView WITH
    Modulus <- Window,
    chunks  <- wire.last,
    phase   <- IF wire.end # "open" THEN "ended"
               ELSE IF wire.errs > 0 THEN "failed" ELSE "answering"
ViewSpec == View!ViewSpec

(* TOTAL_STREAM_TIMEOUT is a hard cap on the stream's lifetime (line 61):  *)
(* once it has passed the handler returns, whatever engine and client do.  *)
(* It rests on the first-token budget: the cap itself is only looked at    *)
(* when an item arrives.                                                   *)
HandlerReturns == expired ~> pc["main"] = "done"

(* A client that left does not keep its slot until the total cap: the next *)
(* write notices, also when the engine never stops sending.                *)
DisconnectReleasesSlot == client = "gone" ~> ~slot

(* --- what the documentation states, and the code does not do ----------- *)

(* Docstring lines 35-37: no clean EOF after partial content.              *)
CutsAreExplicit ==
    /\ wire.end = "eof" /\ METRICS["stream_total_timeouts"] > 0
    /\ wire.last # 0 /\ ~Complete
    => wire.errs > 0

(* Docstring lines 43-44: a mid-flight upstream read failure emits an      *)
(* error frame before the terminator.                                      *)
ReadFailuresAreExplicit ==
    /\ wire.end = "eof" /\ ~Complete /\ wire.last # 0
    /\ METRICS["upstream_errors"] > 0
    /\ \A c \in {"stream_total_timeouts", "write_timeouts",
                  "client_disconnects", "first_token_timeouts"} : METRICS[c] = 0
    => wire.errs > 0

(* Line 126: a heartbeat is an SSE comment frame that clients ignore; that *)
(* takes a stream on which every frame starts at an event boundary.        *)
FramesStartAtBoundaries == ~wire.spliced

(* Line 19, README line 14: a disconnect cancels the upstream request, so  *)
(* the first-token budget never is what ends a stream whose consumer has   *)
(* already met the disconnect.                                             *)
DisconnectIsPropagated ==
    [][MainTimerFires => METRICS["client_disconnects"] = 0]_vars
=============================================================================
