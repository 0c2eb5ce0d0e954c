------------------------- MODULE GatewayStream_proofs -------------------------
(***************************************************************************)
(* Theorems about GatewayStream for any queue size, any number of          *)
(* reconnections, with and without a first-token budget and cancellations  *)
(* by the server.                                                          *)
(*                                                                         *)
(* The control invariant Phases says which task may be where.  On top of   *)
(* it, for as long as the consumer reads: the chunks in the queue continue *)
(* those on the wire (Order), no chunk follows an error frame (Silence),   *)
(* whoever ended the stream has left the reason behind (Explain), and no   *)
(* error frame is uncounted (Counted).                                     *)
(***************************************************************************)
EXTENDS GatewayStream, SequenceTheorems, FiniteSetTheorems, TLAPS

Others  == {"producer", "consumer", "heartbeat"}
Serving == {"first", "ttft", "drain", "eof_err"}
Closing == {"eof", "eof_raise", "done"}
Over    == {"none", "done", "raised"}

(* Control, and what is held where: a handler behind its finally block     *)
(* leaves no task that could still act on the stream.                      *)
Phases ==
    /\ \A t \in Others : t \in cancelled => pc[t] \notin Over
    /\ pc["main"] = "prepare" =>
          (\A t \in Others : pc[t] = "none") /\ q = <<>> /\ upstream = "none"
    /\ pc["main"] \in Serving => \A t \in Others : pc[t] # "none"
    /\ pc["main"] \in Closing =>
          \A t \in Others : t \in cancelled \/ pc[t] \in Over \cup {"finally"}
    /\ slot <=> pc["main"] # "done"
    /\ registered <=> pc["main"] \in Serving \cup {"prepare"}
    /\ upstream = "open" => pc["main"] \in Serving
    /\ METRICS["active_streams"] = IF pc["main"] \in Serving THEN 1 ELSE 0
    /\ wire.end = "open" <=> pc["main"] # "done"
    /\ pc["main"] = "eof" => pc["consumer"] \in {"done", "raised"}
    /\ pc["main"] = "eof_err" => pc["consumer"] = "raised"
    /\ pc["main"] = "eof_raise" => METRICS["client_disconnects"] > 0
    /\ pc["consumer"] = "raised" => client = "gone"
    /\ pc["producer"] = "backoff" => attempt < RETRY_CONNECT
    /\ eof_seen => pc["producer"] \in {"finally", "done"}

-----------------------------------------------------------------------------
(* Items and queues.                                                       *)

LEMMA WindowIsNat == Window \in Nat /\ Window > 3 /\ QueueSize \in Nat /\ QueueSize > 0
  BY StreamAssumption DEF StreamAssumption, Window

LEMMA SuccType == ASSUME NEW n \in Nat PROVE Succ(n) \in 0 .. Window - 1
  BY WindowIsNat DEF Succ

LEMMA ItemKinds ==
    ASSUME NEW x \in Items
    PROVE  /\ x.kind \in {"data", "heartbeat", "error", "done"}
           /\ x.kind = "error" <=> x = ErrFrame
           /\ x.kind = "done" <=> x = DONE
           /\ x.kind = "data" => x.n \in 0 .. Window - 1
  BY DEF Items, Data, HEARTBEAT, ErrFrame, DONE

LEMMA Frames ==
    /\ {HEARTBEAT, ErrFrame, DONE} \subseteq Items
    /\ HEARTBEAT.kind = "heartbeat" /\ ErrFrame.kind = "error" /\ DONE.kind = "done"
    /\ \A n \in 0 .. Window - 1 : Data(n) \in Items /\ Data(n).kind = "data" /\ Data(n).n = n
  BY DEF Items, Data, HEARTBEAT, ErrFrame, DONE

LEMMA AppendFacts ==
    ASSUME NEW s \in Seq(Items), NEW x \in Items
    PROVE  /\ Append(s, x) \in Seq(Items) /\ Len(s) \in Nat
           /\ Len(Append(s, x)) = Len(s) + 1
           /\ \A i \in 1 .. Len(s) : Append(s, x)[i] = s[i]
           /\ Append(s, x)[Len(s) + 1] = x
  BY AppendProperties, LenProperties

LEMMA TailFacts ==
    ASSUME NEW s \in Seq(Items), s # <<>>
    PROVE  /\ Tail(s) \in Seq(Items) /\ Len(s) \in Nat /\ Len(s) > 0
           /\ Len(Tail(s)) = Len(s) - 1
           /\ \A i \in 1 .. Len(s) - 1 : Tail(s)[i] = s[i + 1]
           /\ Head(s) = s[1] /\ s[1] \in Items
  BY HeadTailProperties, EmptySeq, LenProperties, ElementOfSeq

LEMMA PutFrameFacts ==
    ASSUME NEW s \in Seq(Items), NEW x \in Items, Len(s) <= QueueSize
    PROVE  /\ PutFrame(s, x) \in Seq(Items) /\ Len(PutFrame(s, x)) <= QueueSize
           /\ \/ PutFrame(s, x) = Append(s, x) /\ Drops(s, x) = 0
              \/ PutFrame(s, x) = s /\ Drops(s, x) = 1
  BY AppendFacts, WindowIsNat DEF PutFrame, Drops, HasRoom

-----------------------------------------------------------------------------
(* Types, and counters that only grow.                                     *)

WireType == [last : 0 .. Window - 1, torn : BOOLEAN, spliced : BOOLEAN,
             errs : Nat, end : {"open", "eof", "closed"}]

LEMMA HandedType ==
    ASSUME wire \in WireType, NEW x \in Items, wire' = Handed(x)
    PROVE  /\ wire' \in WireType /\ wire'.end = wire.end
           /\ wire'.last = IF x.kind = "data" THEN x.n ELSE wire.last
           /\ wire'.errs = IF x.kind = "error" THEN wire.errs + 1 ELSE wire.errs
<1> USE DEF WireType
<1>0. /\ x.kind \in {"data", "heartbeat", "error", "done"}
      /\ x.kind = "data" => x.n \in 0 .. Window - 1
  BY ItemKinds
<1> DEFINE torn == x.n \in TornChunks
           spliced == wire.spliced \/ wire.torn
           errs == wire.errs + 1
<1>1. torn \in BOOLEAN /\ spliced \in BOOLEAN /\ errs \in Nat
  <2>1. torn \in BOOLEAN /\ spliced \in BOOLEAN
    OBVIOUS
  <2>2. errs \in Nat
    OBVIOUS
  <2> QED BY <2>1, <2>2
<1>2. CASE x.kind = "data"
  <2>1. wire' = [wire EXCEPT !.last = x.n, !.torn = torn]
    BY <1>2 DEF Handed
  <2> HIDE DEF torn
  <2> QED BY <1>0, <1>1, <1>2, <2>1
<1>3. CASE x.kind = "error"
  <2>1. wire' = [wire EXCEPT !.errs = errs, !.spliced = spliced, !.torn = FALSE]
    BY <1>3 DEF Handed
  <2>2. errs = wire.errs + 1
    OBVIOUS
  <2> HIDE DEF errs, spliced
  <2> QED BY <1>1, <1>3, <2>1, <2>2
<1>4. CASE x.kind \notin {"data", "error"}
  <2>1. wire' = [wire EXCEPT !.spliced = spliced, !.torn = FALSE]
    BY <1>4 DEF Handed
  <2> HIDE DEF spliced
  <2> QED BY <1>1, <1>4, <2>1
<1> QED BY <1>0, <1>2, <1>3, <1>4

Grown == /\ METRICS' \in [Counters -> Nat]
         /\ \A c \in Counters : c = "active_streams" \/ METRICS'[c] >= METRICS[c]

LEMMA CountGrows ==
    ASSUME METRICS \in [Counters -> Nat], NEW c \in Counters, Count(c)
    PROVE  /\ Grown /\ METRICS'[c] = METRICS[c] + 1
           /\ \A d \in Counters : d # c => METRICS'[d] = METRICS[d]
  BY DEF Count, Grown

LEMMA FailsGrows ==
    ASSUME METRICS \in [Counters -> Nat], NEW c \in Counters, NEW n \in 0 .. 1,
           c # "queue_full_drops",
           METRICS' = [METRICS EXCEPT ![c] = @ + 1, !["queue_full_drops"] = @ + n]
    PROVE  /\ c # "active_streams" => Grown
           /\ METRICS'[c] = METRICS[c] + 1
           /\ METRICS'["queue_full_drops"] = METRICS["queue_full_drops"] + n
           /\ \A d \in Counters \ {c, "queue_full_drops"} : METRICS'[d] = METRICS[d]
  BY DEF Counters, Grown

(* What a FinishErr does to the queue and the counters.                    *)
LEMMA FinishErrFacts ==
    ASSUME TypeOK, FinishErr
    PROVE  /\ q' \in Seq(Items) /\ Len(q') <= QueueSize
           /\ Grown
           /\ \A c \in Counters : c \notin {"queue_full_drops", "first_token_timeouts"} =>
                 METRICS'[c] = METRICS[c]
           /\ pc["main"] = "ttft" =>
                 METRICS'["first_token_timeouts"] = METRICS["first_token_timeouts"] + 1
           /\ \/ METRICS'["queue_full_drops"] > 0
                 /\ (q' = q \/ q' = Append(q, ErrFrame) \/ q' = Append(q, DONE))
              \/ q' = Append(Append(q, ErrFrame), DONE)
<1> DEFINE q1 == PutFrame(q, ErrFrame)
           n  == Drops(q, ErrFrame) + Drops(q1, DONE)
           m  == IF pc["main"] = "ttft" THEN 1 ELSE 0
<1>0. q \in Seq(Items) /\ Len(q) <= QueueSize /\ METRICS \in [Counters -> Nat]
  BY DEF TypeOK
<1>1. /\ q1 \in Seq(Items) /\ Len(q1) <= QueueSize
      /\ \/ q1 = Append(q, ErrFrame) /\ Drops(q, ErrFrame) = 0
         \/ q1 = q /\ Drops(q, ErrFrame) = 1
  BY <1>0, PutFrameFacts, Frames
<1>2. q' = PutFrame(q1, DONE)
  BY DEF FinishErr
<1> HIDE DEF q1
<1>3. /\ q' \in Seq(Items) /\ Len(q') <= QueueSize
      /\ \/ q' = Append(q1, DONE) /\ Drops(q1, DONE) = 0
         \/ q' = q1 /\ Drops(q1, DONE) = 1
  BY <1>1, <1>2, PutFrameFacts, Frames
<1>4. n \in Nat /\ m \in Nat
  BY <1>1, <1>3
<1>5. n > 0 \/ (q1 = Append(q, ErrFrame) /\ q' = Append(q1, DONE))
  BY <1>1, <1>3
<1>6. q' = q \/ q' = Append(q, ErrFrame) \/ q' = Append(q, DONE) \/ q' = Append(Append(q, ErrFrame), DONE)
  BY <1>1, <1>3
<1>12. METRICS' = [METRICS EXCEPT !["queue_full_drops"] = @ + n,
                                    !["first_token_timeouts"] = @ + m]
  <2>1. METRICS["queue_full_drops"] \in Nat /\ METRICS["first_token_timeouts"] \in Nat
    BY <1>0 DEF Counters
  <2>2. METRICS["queue_full_drops"] + Drops(q, ErrFrame) + Drops(q1, DONE)
        = METRICS["queue_full_drops"] + n
    BY <1>1, <1>3, <2>1
  <2>3. METRICS["first_token_timeouts"] + m = IF pc["main"] = "ttft"
             THEN METRICS["first_token_timeouts"] + 1 ELSE METRICS["first_token_timeouts"]
    BY <2>1
  <2>4. METRICS' = [METRICS EXCEPT
          !["queue_full_drops"] = METRICS["queue_full_drops"] + Drops(q, ErrFrame) + Drops(q1, DONE),
          !["first_token_timeouts"] = IF pc["main"] = "ttft"
             THEN METRICS["first_token_timeouts"] + 1 ELSE METRICS["first_token_timeouts"]]
    BY <1>0 DEF FinishErr, q1
  <2> HIDE DEF n, m
  <2> QED BY <2>2, <2>3, <2>4
<1>7. pc["main"] = "ttft" => m = 1
  OBVIOUS
<1> HIDE DEF n, m
<1>8. /\ Grown
      /\ METRICS'["queue_full_drops"] = METRICS["queue_full_drops"] + n
      /\ METRICS'["first_token_timeouts"] = METRICS["first_token_timeouts"] + m
      /\ \A c \in Counters : c \notin {"queue_full_drops", "first_token_timeouts"} =>
                 METRICS'[c] = METRICS[c]
  BY <1>0, <1>12, <1>4, SMTT(30) DEF Grown, Counters
<1>9. METRICS["queue_full_drops"] \in Nat /\ METRICS["first_token_timeouts"] \in Nat
  BY <1>0 DEF Counters
<1>10. CASE n > 0
  <2>1. METRICS'["queue_full_drops"] > 0
    BY <1>4, <1>8, <1>9, <1>10
  <2> QED BY <1>3, <1>6, <1>7, <1>8, <2>1
<1>11. CASE q1 = Append(q, ErrFrame) /\ q' = Append(q1, DONE)
  BY <1>3, <1>7, <1>8, <1>11
<1> QED BY <1>5, <1>10, <1>11

(* What the producer's Finally block does to the queue, given the queue it *)
(* finds.                                                                  *)
LEMMA FinallyFacts ==
    ASSUME TypeOK, NEW s \in Seq(Items), Len(s) <= QueueSize, Finally(s)
    PROVE  /\ q' \in Seq(Items) /\ Len(q') <= QueueSize /\ first_seen' = TRUE
           /\ \/ q' = Append(s, DONE) /\ pc' = [pc EXCEPT !["producer"] = "done"]
              \/ q' = s /\ pc' = [pc EXCEPT !["producer"] = "finally"]
  BY AppendFacts, Frames, WindowIsNat DEF Finally, HasRoom, ProducerGoes

LEMMA ProducerFailsFacts ==
    ASSUME TypeOK, NEW c \in Counters \ {"queue_full_drops", "active_streams"}, ProducerFails(c)
    PROVE  /\ q' \in Seq(Items) /\ Len(q') <= QueueSize /\ first_seen' = TRUE
           /\ Grown /\ METRICS'[c] = METRICS[c] + 1
           /\ \A d \in Counters \ {c, "queue_full_drops"} : METRICS'[d] = METRICS[d]
           /\ \E s \in Seq(Items) :
                 /\ s = Append(q, ErrFrame) \/ (s = q /\ METRICS'["queue_full_drops"] > 0)
                 /\ \/ q' = Append(s, DONE) /\ pc' = [pc EXCEPT !["producer"] = "done"]
                    \/ q' = s /\ pc' = [pc EXCEPT !["producer"] = "finally"]
<1>0. q \in Seq(Items) /\ Len(q) <= QueueSize /\ METRICS \in [Counters -> Nat]
      /\ "queue_full_drops" \in Counters
  BY DEF TypeOK, Counters
<1> DEFINE s == PutFrame(q, ErrFrame)
           n == Drops(q, ErrFrame)
<1>1. /\ s \in Seq(Items) /\ Len(s) <= QueueSize
      /\ \/ s = Append(q, ErrFrame) /\ n = 0
         \/ s = q /\ n = 1
  BY <1>0, PutFrameFacts, Frames
<1>2. METRICS' = [METRICS EXCEPT ![c] = @ + 1, !["queue_full_drops"] = @ + n] /\ Finally(s)
  BY DEF ProducerFails
<1> HIDE DEF s, n
<1>3. /\ q' \in Seq(Items) /\ Len(q') <= QueueSize /\ first_seen' = TRUE
      /\ \/ q' = Append(s, DONE) /\ pc' = [pc EXCEPT !["producer"] = "done"]
         \/ q' = s /\ pc' = [pc EXCEPT !["producer"] = "finally"]
  BY <1>1, <1>2, FinallyFacts
<1>4. /\ Grown /\ METRICS'[c] = METRICS[c] + 1
      /\ METRICS'["queue_full_drops"] = METRICS["queue_full_drops"] + n
      /\ \A d \in Counters \ {c, "queue_full_drops"} : METRICS'[d] = METRICS[d]
  <2>1. n \in 0 .. 1 /\ c \in Counters /\ c # "queue_full_drops" /\ c # "active_streams"
    BY <1>1
  <2> QED BY <1>0, <1>2, <2>1, FailsGrows
<1>5. n = 1 => METRICS'["queue_full_drops"] > 0
  <2>1. METRICS["queue_full_drops"] \in Nat
    BY <1>0
  <2> QED BY <1>4, <2>1
<1>6. /\ s = Append(q, ErrFrame) \/ (s = q /\ METRICS'["queue_full_drops"] > 0)
      /\ \/ q' = Append(s, DONE) /\ pc' = [pc EXCEPT !["producer"] = "done"]
         \/ q' = s /\ pc' = [pc EXCEPT !["producer"] = "finally"]
  <2>1. s = Append(q, ErrFrame) \/ (s = q /\ METRICS'["queue_full_drops"] > 0)
    BY <1>1, <1>5
  <2> QED BY <1>3, <2>1, Zenon
<1> QED BY <1>1, <1>3, <1>4, <1>6

LEMMA CountersHave ==
    {"active_streams", "first_token_timeouts", "chunk_idle_timeouts", "queue_full_drops",
     "write_timeouts", "stream_total_timeouts", "upstream_errors", "client_disconnects",
     "internal_retries"} = Counters
  BY DEF Counters

LEMMA MainGrows == ASSUME TypeOK, Phases, MainStep PROVE Grown
<1> USE CountersHave
<1>0. METRICS \in [Counters -> Nat]
  BY DEF TypeOK
<1>1. CASE MainPrepared \/ MainPrepareFails
  BY <1>0, <1>1, CountGrows DEF MainPrepared, MainPrepareFails
<1>2. CASE MainFirstSeen \/ MainTimerFires
  BY <1>0, <1>2 DEF MainFirstSeen, MainTimerFires, Grown
<1>3. CASE MainFirstTokenTimeout \/ MainConsumerRaised
  BY <1>3, FinishErrFacts DEF MainFirstTokenTimeout, MainConsumerRaised
<1>4. CASE MainDrained \/ MainEofAfterRaise
  <2>1. METRICS["active_streams"] = 1
    BY <1>4 DEF MainDrained, MainEofAfterRaise, Phases, Serving
  <2>2. METRICS' = [METRICS EXCEPT !["active_streams"] = @ - 1]
    BY <1>4 DEF MainDrained, MainEofAfterRaise
  <2> QED BY <1>0, <2>1, <2>2 DEF Grown
<1>5. CASE MainCancelled
  <2>1. METRICS["active_streams"] = 1
    BY <1>5 DEF MainCancelled, Phases, Serving
  <2>2. METRICS' = [METRICS EXCEPT !["client_disconnects"] = @ + 1, !["active_streams"] = @ - 1]
    BY <1>5 DEF MainCancelled
  <2> QED BY <1>0, <2>1, <2>2 DEF Grown
<1>6. CASE MainEof
  BY <1>0, <1>6 DEF MainEof, Grown
<1> QED BY <1>1, <1>2, <1>3, <1>4, <1>5, <1>6 DEF MainStep

LEMMA ProducerGrows == ASSUME TypeOK, ProducerStep PROVE Grown
<1> USE CountersHave
<1>0. METRICS \in [Counters -> Nat] /\ q \in Seq(Items) /\ Len(q) <= QueueSize
  BY DEF TypeOK
<1>1. CASE UNCHANGED METRICS
  BY <1>0, <1>1 DEF Grown
<1>2. CASE ConnectRetry \/ ConnectRejected
  BY <1>0, <1>2, CountGrows DEF ConnectRetry, ConnectRejected
<1>3. CASE RejectedBodyRead
  <2>1. Drops(q, ErrFrame) \in Nat
    BY DEF Drops
  <2>2. METRICS' = [METRICS EXCEPT !["queue_full_drops"] = @ + Drops(q, ErrFrame)]
    BY <1>3 DEF RejectedBodyRead
  <2> QED BY <1>0, <2>1, <2>2 DEF Grown
<1>4. CASE ConnectFails \/ FirstReadTimeout \/ ChunkIdle \/ ReadFails
  BY <1>4, ProducerFailsFacts DEF ConnectFails, FirstReadTimeout, ChunkIdle, ReadFails
<1> QED BY <1>1, <1>2, <1>3, <1>4 DEF ProducerStep, ConnectOk, Backoff, FirstChunk, NextChunk,
           EngineEnds, PutUnblocks, ProducerCancelled

LEMMA ConsumerGrows == ASSUME TypeOK, ConsumerStep PROVE Grown
<1> USE CountersHave
<1>0. METRICS \in [Counters -> Nat]
  BY DEF TypeOK
<1>1. CASE UNCHANGED METRICS
  BY <1>0, <1>1 DEF Grown
<1>2. CASE \E c \in Counters : Count(c)
  BY <1>0, <1>2, CountGrows
<1> QED BY <1>1, <1>2 DEF ConsumerStep, ConsumerTake, ConsumerWritten, ConsumerWriteTimeout,
           ConsumerConnectionLost, ConsumerCancelled

LEMMA Grows == ASSUME TypeOK, Phases, [Next]_vars PROVE Grown
<1>1. CASE UNCHANGED METRICS
  BY <1>1 DEF TypeOK, Grown
<1> QED BY <1>1, MainGrows, ProducerGrows, ConsumerGrows DEF Next, vars, HeartbeatBeats,
           HeartbeatCancelled, ClientLeaves, TotalElapses, ServerCancels

-----------------------------------------------------------------------------
(* Control.                                                                *)

LEMMA PcType ==
    ASSUME TypeOK
    PROVE  /\ DOMAIN pc = Tasks
           /\ pc["main"] \in {"prepare"} \cup Serving \cup Closing
           /\ pc["producer"] \in {"none", "connect", "backoff", "reject", "first", "put", "read",
                                  "finally", "done"}
           /\ pc["consumer"] \in {"none", "get", "write", "done", "raised"}
           /\ pc["heartbeat"] \in {"none", "sleep", "done"}
  BY DEF TypeOK, Labels, Tasks, Serving, Closing

LEMMA InitTypes == Init => TypeOK
<1> SUFFICES ASSUME Init PROVE TypeOK
  OBVIOUS
<1>1. pc \in Labels
  <2>1. pc = [t \in {"main", "producer", "consumer", "heartbeat"} |->
                 IF t = "main" THEN "prepare" ELSE "none"]
    BY DEF Init, Tasks
  <2>2. pc = [main |-> "prepare", producer |-> "none", consumer |-> "none", heartbeat |-> "none"]
    BY <2>1
  <2> QED BY <2>2 DEF Labels
<1>2. q \in Seq(Items) /\ Len(q) <= QueueSize
  BY EmptySeq, WindowIsNat DEF Init
<1>3. METRICS \in [Counters -> Nat] /\ METRICS["active_streams"] \in 0 .. 1
  BY DEF Init, Counters
<1>4. wire \in WireType /\ rx \in 0 .. Window - 1 /\ attempt \in 0 .. RETRY_CONNECT
  BY WindowIsNat, StreamAssumption DEF Init, WireType, StreamAssumption
<1> QED BY <1>1, <1>2, <1>3, <1>4 DEF Init, TypeOK, WireType

LEMMA InitPhases == Init => Phases
  BY DEF Init, Phases, Tasks, Others, Serving, Closing, Over, Counters

LEMMA MainPhases == ASSUME TypeOK, Phases, MainStep PROVE Phases'
<1> USE DEF engine, outside, grants, Others, Serving, Closing, Over
<1>0. METRICS \in [Counters -> Nat] /\ Grown
  BY MainGrows DEF TypeOK
<1>m. /\ "active_streams" \in Counters /\ "client_disconnects" \in Counters
      /\ METRICS["client_disconnects"] \in Nat
      /\ METRICS'["client_disconnects"] >= METRICS["client_disconnects"]
  BY <1>0, CountersHave DEF Grown
<1>1. CASE MainPrepared
  <2>1. METRICS'["active_streams"] = 1
    BY <1>0, <1>1, <1>m, CountGrows DEF MainPrepared, Phases
  <2> QED BY <1>1, <1>m, <2>1, PcType DEF MainPrepared, Phases, Tasks
<1>2. CASE MainPrepareFails
  <2>1. METRICS'["active_streams"] = 0
    BY <1>0, <1>2, <1>m, CountGrows DEF MainPrepareFails, Phases
  <2>2. wire'.end = "closed"
    BY <1>2 DEF MainPrepareFails, TypeOK
  <2> QED BY <1>2, <1>m, <2>1, <2>2, PcType DEF MainPrepareFails, Phases, Tasks
<1>3. CASE MainFirstSeen \/ MainTimerFires
  BY <1>3, PcType DEF MainFirstSeen, MainTimerFires, Phases, Tasks
<1>4. CASE MainFirstTokenTimeout
  <2>1. METRICS'["active_streams"] = METRICS["active_streams"]
    BY <1>4, <1>m, FinishErrFacts DEF MainFirstTokenTimeout
  <2> QED BY <1>4, <1>m, <2>1, PcType DEF MainFirstTokenTimeout, Phases, Tasks
<1>5. CASE MainConsumerRaised
  <2>1. METRICS'["active_streams"] = METRICS["active_streams"]
    BY <1>5, <1>m, FinishErrFacts DEF MainConsumerRaised
  <2> QED BY <1>5, <1>m, <2>1, PcType DEF MainConsumerRaised, Phases, Tasks
<1>6. CASE MainDrained \/ MainEofAfterRaise
  <2>1. METRICS'["active_streams"] = 0
    BY <1>0, <1>6, <1>m DEF MainDrained, MainEofAfterRaise, Phases
  <2> QED BY <1>6, <1>m, <2>1, PcType DEF MainDrained, MainEofAfterRaise, Cleanup, Phases, Tasks
<1>7. CASE MainCancelled
  <2>1. METRICS'["active_streams"] = 0 /\ METRICS'["client_disconnects"] = METRICS["client_disconnects"] + 1
    BY <1>0, <1>7, <1>m DEF MainCancelled, Phases
  <2> QED BY <1>7, <1>m, <2>1, PcType DEF MainCancelled, Cleanup, Phases, Tasks
<1>8. CASE MainEof
  <2>1. METRICS'["active_streams"] = 0
    BY <1>0, <1>8, <1>m DEF MainEof, Phases
  <2>2. wire'.end # "open"
    BY <1>8 DEF MainEof, TypeOK
  <2> QED BY <1>8, <1>m, <2>1, <2>2, PcType DEF MainEof, Phases, Tasks
<1> QED BY <1>1, <1>2, <1>3, <1>4, <1>5, <1>6, <1>7, <1>8 DEF MainStep

(* A producer that acts is not in the way of a handler that is closing.    *)
LEMMA ProducerActs ==
    ASSUME TypeOK, Phases, ProducerStep
    PROVE  /\ pc["producer"] \notin Over
           /\ UNCHANGED <<grants, outside, wire>>
           /\ METRICS'["active_streams"] = METRICS["active_streams"]
           /\ \E l \in {"connect", "backoff", "reject", "first", "put", "read", "finally", "done"} :
                 pc' = [pc EXCEPT !["producer"] = l]
           /\ pc["main"] \in Closing => "producer" \in cancelled \/ pc["producer"] = "finally"
<1> USE DEF outside, grants, ProducerAt, ProducerGoes, engine
<1>0. METRICS \in [Counters -> Nat] /\ q \in Seq(Items) /\ Len(q) <= QueueSize
  BY DEF TypeOK
<1>1. pc["producer"] \notin Over /\ UNCHANGED <<grants, outside, wire>>
  BY DEF ProducerStep, ConnectOk, ConnectRetry, Backoff, ConnectRejected, RejectedBodyRead,
         ConnectFails, FirstChunk, FirstReadTimeout, NextChunk, ChunkIdle, ReadFails, EngineEnds,
         PutUnblocks, ProducerCancelled, Over, Phases, Others
<1>2. \E l \in {"connect", "backoff", "reject", "first", "put", "read", "finally", "done"} :
           pc' = [pc EXCEPT !["producer"] = l]
  BY DEF ProducerStep, ConnectOk, ConnectRetry, Backoff, ConnectRejected, RejectedBodyRead,
         ConnectFails, FirstChunk, FirstReadTimeout, NextChunk, ChunkIdle, ReadFails, EngineEnds,
         PutUnblocks, ProducerCancelled, Finally, ProducerFails, Pump
<1>3. METRICS'["active_streams"] = METRICS["active_streams"]
  <2> USE CountersHave
  <2>1. CASE UNCHANGED METRICS
    BY <2>1
  <2>2. CASE ConnectRetry \/ ConnectRejected
    BY <1>0, <2>2, CountGrows DEF ConnectRetry, ConnectRejected
  <2>3. CASE RejectedBodyRead
    BY <1>0, <2>3 DEF RejectedBodyRead
  <2>4. CASE ConnectFails \/ FirstReadTimeout \/ ChunkIdle \/ ReadFails
    <3>1. \E c \in {"upstream_errors", "first_token_timeouts", "chunk_idle_timeouts"} :
             ProducerFails(c)
      BY <2>4 DEF ConnectFails, FirstReadTimeout, ChunkIdle, ReadFails
    <3>2. PICK c \in Counters \ {"queue_full_drops", "active_streams"} : ProducerFails(c)
      BY <3>1
    <3>3. "active_streams" \in Counters \ {c, "queue_full_drops"}
      OBVIOUS
    <3> QED BY <3>2, <3>3, ProducerFailsFacts
  <2> QED BY <2>1, <2>2, <2>3, <2>4 DEF ProducerStep, ConnectOk, Backoff, FirstChunk, NextChunk,
             EngineEnds, PutUnblocks, ProducerCancelled
<1>4. pc["main"] \in Closing => "producer" \in cancelled \/ pc["producer"] = "finally"
  BY <1>1 DEF Phases, Others, Over
<1> QED BY <1>1, <1>2, <1>3, <1>4

LEMMA ProducerPhases == ASSUME TypeOK, Phases, ProducerStep PROVE Phases'
<1> USE DEF outside, grants, engine, Others, Serving, Closing, Over
<1>0. METRICS \in [Counters -> Nat] /\ Grown
  BY ProducerGrows DEF TypeOK
<1>1. METRICS["client_disconnects"] \in Nat /\ METRICS'["client_disconnects"] \in Nat
      /\ METRICS'["client_disconnects"] >= METRICS["client_disconnects"]
  BY <1>0, CountersHave DEF Grown
<1>2. PICK l \in {"connect", "backoff", "reject", "first", "put", "read", "finally", "done"} :
           pc' = [pc EXCEPT !["producer"] = l]
  BY ProducerActs
<1>3. /\ pc'["main"] = pc["main"] /\ pc'["consumer"] = pc["consumer"]
      /\ pc'["heartbeat"] = pc["heartbeat"] /\ pc'["producer"] = l
  BY <1>2, PcType DEF Tasks
<1>4. /\ UNCHANGED <<grants, outside, wire>> /\ pc["producer"] \notin Over
      /\ METRICS'["active_streams"] = METRICS["active_streams"]
      /\ pc["main"] \in Closing => "producer" \in cancelled \/ pc["producer"] = "finally"
  BY ProducerActs
<1>5. \/ cancelled' = cancelled /\ ("producer" \notin cancelled \/ UNCHANGED pc)
      \/ ProducerCancelled
  BY DEF ProducerStep, ConnectOk, ConnectRetry, Backoff, ConnectRejected, RejectedBodyRead,
         ConnectFails, FirstChunk, FirstReadTimeout, NextChunk, ChunkIdle, ReadFails, EngineEnds,
         PutUnblocks, ProducerCancelled, ProducerAt
<1>6. ProducerCancelled => l \in {"finally", "done"} /\ cancelled' = cancelled \ {"producer"}
  BY <1>3, PcType DEF ProducerCancelled, Finally, ProducerGoes, Tasks
<1>7. l \in {"connect", "backoff", "reject", "first", "put", "read"} => "producer" \notin cancelled
  BY <1>5, <1>6, <1>3, PcType DEF ProducerStep, ConnectOk, ConnectRetry, Backoff, ConnectRejected, RejectedBodyRead,
         ConnectFails, FirstChunk, FirstReadTimeout, NextChunk, ChunkIdle, ReadFails, EngineEnds,
         PutUnblocks, ProducerCancelled, ProducerAt
<1>8. pc["main"] \in Closing => l \in {"finally", "done"}
  <2>1. pc["producer"] = "finally" /\ "producer" \notin cancelled => l = "done"
    BY <1>3, PcType DEF ProducerStep, ConnectOk, ConnectRetry, Backoff, ConnectRejected, RejectedBodyRead,
         ConnectFails, FirstChunk, FirstReadTimeout, NextChunk, ChunkIdle, ReadFails, EngineEnds,
         PutUnblocks, ProducerCancelled, ProducerAt, ProducerGoes, Tasks
  <2> QED BY <1>4, <1>7, <2>1
<1>9. /\ upstream' = "open" => upstream = "open" \/ l = "first"
      /\ l = "backoff" => attempt' < RETRY_CONNECT
      /\ eof_seen' => eof_seen \/ l \in {"finally", "done"}
  BY <1>3, PcType DEF ProducerStep, ConnectOk, ConnectRetry, Backoff, ConnectRejected, RejectedBodyRead,
         ConnectFails, FirstChunk, FirstReadTimeout, NextChunk, ChunkIdle, ReadFails, EngineEnds,
         PutUnblocks, ProducerCancelled, ProducerAt, ProducerGoes, Finally, ProducerFails, Pump, Tasks
<1>10. pc["producer"] \in {"finally", "done"} => l \in {"finally", "done"}
  BY <1>3, <1>4, PcType DEF ProducerStep, ConnectOk, ConnectRetry, Backoff, ConnectRejected, RejectedBodyRead,
         ConnectFails, FirstChunk, FirstReadTimeout, NextChunk, ChunkIdle, ReadFails, EngineEnds,
         PutUnblocks, ProducerCancelled, ProducerAt, ProducerGoes, Finally, Tasks
<1>11. pc["main"] # "prepare"
  BY <1>4 DEF Phases
<1>12. pc["main"] \in {"prepare"} \cup Serving \cup Closing
  BY PcType
<1>13. \A t \in Others : t \in cancelled' => pc'[t] \notin Over
  <2>1. "producer" \in cancelled' => "producer" \in cancelled /\ ~ProducerCancelled
    BY <1>5, <1>6
  <2>2. "producer" \notin cancelled' \/ UNCHANGED pc
    BY <1>5, <2>1
  <2>3. \A t \in Others : t \in cancelled' => t \in cancelled
    BY <1>5, <1>6
  <2> QED BY <1>3, <2>2, <2>3 DEF Phases
<1>14. pc["main"] \in Closing => \A t \in Others : t \in cancelled' \/ pc'[t] \in Over \cup {"finally"}
  <2>1. \A t \in Others \ {"producer"} : t \in cancelled' <=> t \in cancelled
    BY <1>5, <1>6
  <2> QED BY <1>3, <1>8, <2>1 DEF Phases
<1>15. eof_seen' => pc'["producer"] \in {"finally", "done"}
  BY <1>3, <1>9, <1>10 DEF Phases
<1>16. pc["main"] \in Serving => \A t \in Others : pc'[t] # "none"
  BY <1>3 DEF Phases
<1>17. upstream' = "open" => pc'["main"] \in Serving
  BY <1>3, <1>8, <1>9, <1>11, <1>12 DEF Phases
<1>18. pc["main"] = "eof_raise" => METRICS'["client_disconnects"] > 0
  BY <1>1 DEF Phases
<1> QED BY <1>3, <1>4, <1>9, <1>11, <1>13, <1>14, <1>15, <1>16, <1>17, <1>18 DEF Phases

LEMMA ConsumerActs ==
    ASSUME TypeOK, ConsumerStep
    PROVE  /\ UNCHANGED <<grants, outside, engine>> /\ cancelled' \subseteq cancelled
           /\ cancelled \ {"consumer"} \subseteq cancelled'
           /\ METRICS'["active_streams"] = METRICS["active_streams"]
           /\ \E l \in {"get", "write", "done", "raised"} :
                 /\ pc' = [pc EXCEPT !["consumer"] = l]
                 /\ \/ "consumer" \in cancelled /\ "consumer" \notin cancelled' /\ l = "done"
                    \/ "consumer" \notin cancelled /\ pc["consumer"] \in {"get", "write"}
                 /\ l = "raised" => client = "gone"
           /\ wire'.end = wire.end
<1>0. METRICS \in [Counters -> Nat] /\ q \in Seq(Items) /\ wire \in WireType
  BY DEF TypeOK, WireType
<1>1. METRICS'["active_streams"] = METRICS["active_streams"]
  <2>1. "active_streams" \in Counters
    BY CountersHave
  <2>2. \/ UNCHANGED METRICS
        \/ \E c \in Counters \ {"active_streams"} : Count(c)
    BY CountersHave DEF ConsumerStep, ConsumerTake, ConsumerWritten, ConsumerWriteTimeout,
       ConsumerConnectionLost, ConsumerCancelled
  <2> QED BY <1>0, <2>1, <2>2, CountGrows
<1>2. wire'.end = wire.end
  <2>1. \/ wire' = wire
        \/ \E x \in Items : wire' = Handed(x)
    BY <1>0, TailFacts DEF ConsumerStep, ConsumerTake, ConsumerWritten, ConsumerWriteTimeout,
       ConsumerConnectionLost, ConsumerCancelled
  <2> QED BY <1>0, <2>1, HandedType
<1>3. UNCHANGED <<grants, outside, engine>>
  BY DEF ConsumerStep, ConsumerTake, ConsumerWritten, ConsumerWriteTimeout,
     ConsumerConnectionLost, ConsumerCancelled, outside
<1>4. cancelled' \subseteq cancelled /\ cancelled \ {"consumer"} \subseteq cancelled'
  BY DEF ConsumerStep, ConsumerTake, ConsumerWritten, ConsumerWriteTimeout,
     ConsumerConnectionLost, ConsumerCancelled
<1>5. \E l \in {"get", "write", "done", "raised"} :
                 /\ pc' = [pc EXCEPT !["consumer"] = l]
                 /\ \/ "consumer" \in cancelled /\ "consumer" \notin cancelled' /\ l = "done"
                    \/ "consumer" \notin cancelled /\ pc["consumer"] \in {"get", "write"}
                 /\ l = "raised" => client = "gone"
  BY DEF ConsumerStep, ConsumerTake, ConsumerWritten, ConsumerWriteTimeout,
     ConsumerConnectionLost, ConsumerCancelled, ConsumerGoes, ConsumerAt
<1> QED BY <1>1, <1>2, <1>3, <1>4, <1>5

LEMMA ConsumerPhases == ASSUME TypeOK, Phases, ConsumerStep PROVE Phases'
<1> USE DEF outside, grants, engine, Others, Serving, Closing, Over
<1>0. METRICS \in [Counters -> Nat] /\ Grown
  BY ConsumerGrows DEF TypeOK
<1>1. METRICS["client_disconnects"] \in Nat /\ METRICS'["client_disconnects"] \in Nat
      /\ METRICS'["client_disconnects"] >= METRICS["client_disconnects"]
  BY <1>0, CountersHave DEF Grown
<1>2. PICK l \in {"get", "write", "done", "raised"} :
                 /\ pc' = [pc EXCEPT !["consumer"] = l]
                 /\ \/ "consumer" \in cancelled /\ "consumer" \notin cancelled' /\ l = "done"
                    \/ "consumer" \notin cancelled /\ pc["consumer"] \in {"get", "write"}
                 /\ l = "raised" => client = "gone"
  BY ConsumerActs
<1>3. /\ pc'["main"] = pc["main"] /\ pc'["producer"] = pc["producer"]
      /\ pc'["heartbeat"] = pc["heartbeat"] /\ pc'["consumer"] = l
  BY <1>2, PcType DEF Tasks
<1>4. /\ UNCHANGED <<grants, outside, engine>> /\ wire'.end = wire.end
      /\ METRICS'["active_streams"] = METRICS["active_streams"]
      /\ cancelled' \subseteq cancelled /\ cancelled \ {"consumer"} \subseteq cancelled'
  BY ConsumerActs
<1>5. pc["main"] # "prepare" /\ pc["consumer"] \in {"get", "write"}
  BY <1>2, PcType DEF Phases
<1>6. pc["main"] \in Closing => l = "done"
  BY <1>2, <1>5 DEF Phases
<1>7. pc["main"] \notin {"eof", "eof_err"}
  BY <1>5 DEF Phases
<1> QED BY <1>1, <1>2, <1>3, <1>4, <1>5, <1>6, <1>7 DEF Phases

LEMMA OtherPhases ==
    ASSUME TypeOK, Phases, HeartbeatBeats \/ HeartbeatCancelled \/ ClientLeaves \/ TotalElapses
                           \/ ServerCancels \/ UNCHANGED vars
    PROVE  Phases'
<1> USE DEF outside, grants, engine, Others, Serving, Closing, Over
<1>1. CASE HeartbeatBeats
  BY <1>1 DEF HeartbeatBeats, Phases
<1>2. CASE HeartbeatCancelled
  BY <1>2, PcType DEF HeartbeatCancelled, Phases, Tasks
<1>3. CASE ClientLeaves \/ TotalElapses
  BY <1>3 DEF ClientLeaves, TotalElapses, Phases
<1>4. CASE ServerCancels
  BY <1>4, PcType DEF ServerCancels, Phases
<1>5. CASE UNCHANGED vars
  BY <1>5 DEF Phases, vars
<1> QED BY <1>1, <1>2, <1>3, <1>4, <1>5

LEMMA StepPhases == TypeOK /\ Phases /\ [Next]_vars => Phases'
  BY MainPhases, ProducerPhases, ConsumerPhases, OtherPhases DEF Next

-----------------------------------------------------------------------------
(* Types.                                                                  *)

LEMMA PcStays ==
    ASSUME TypeOK, Phases, Next
    PROVE  pc' \in Labels
<1>0. pc \in Labels
  BY DEF TypeOK
<1>1. CASE MainStep
  <2>1. MainPrepared => pc' \in Labels
    BY DEF MainPrepared, Labels
  <2>2. ~MainPrepared => \E l \in Serving \cup Closing : pc' = [pc EXCEPT !["main"] = l]
    BY <1>1 DEF MainStep, MainPrepareFails, MainFirstSeen, MainTimerFires, MainFirstTokenTimeout,
       MainDrained, MainConsumerRaised, MainEofAfterRaise, MainCancelled, MainEof, Cleanup,
       Serving, Closing
  <2> QED BY <1>0, <2>1, <2>2 DEF Labels, Serving, Closing
<1>2. CASE ProducerStep
  <2>1. PICK l \in {"connect", "backoff", "reject", "first", "put", "read", "finally", "done"} :
             pc' = [pc EXCEPT !["producer"] = l]
    BY <1>2, ProducerActs
  <2> QED BY <1>0, <2>1 DEF Labels
<1>3. CASE ConsumerStep
  <2>1. PICK l \in {"get", "write", "done", "raised"} : pc' = [pc EXCEPT !["consumer"] = l]
    BY <1>3, ConsumerActs
  <2> QED BY <1>0, <2>1 DEF Labels
<1>4. CASE HeartbeatBeats \/ HeartbeatCancelled \/ ClientLeaves \/ TotalElapses \/ ServerCancels
  BY <1>0, <1>4 DEF HeartbeatBeats, HeartbeatCancelled, ClientLeaves, TotalElapses, ServerCancels,
     Labels
<1> QED BY <1>1, <1>2, <1>3, <1>4 DEF Next

LEMMA QueueStays ==
    ASSUME TypeOK, Phases, Next
    PROVE  q' \in Seq(Items) /\ Len(q') <= QueueSize
<1>0. /\ q \in Seq(Items) /\ Len(q) <= QueueSize /\ rx \in 0 .. Window - 1 /\ rx \in Nat
      /\ Window \in Nat
  BY WindowIsNat DEF TypeOK
<1>1. CASE UNCHANGED q
  BY <1>0, <1>1
<1>2. CASE MainFirstTokenTimeout \/ MainConsumerRaised
  BY <1>2, FinishErrFacts DEF MainFirstTokenTimeout, MainConsumerRaised
<1>3. CASE \E c \in {"upstream_errors", "first_token_timeouts", "chunk_idle_timeouts"} :
              ProducerFails(c)
  <2>1. PICK c \in Counters \ {"queue_full_drops", "active_streams"} : ProducerFails(c)
    BY <1>3, CountersHave
  <2> QED BY <2>1, ProducerFailsFacts
<1>4. CASE \E s \in {q, PutFrame(q, ErrFrame)} : Finally(s)
  <2>1. PICK s \in {q, PutFrame(q, ErrFrame)} : Finally(s)
    BY <1>4
  <2>2. s \in Seq(Items) /\ Len(s) <= QueueSize
    BY <1>0, PutFrameFacts, Frames
  <2> QED BY <2>1, <2>2, FinallyFacts
<1>5. CASE \E n \in 0 .. Window - 1 : HasRoom(q) /\ q' = Append(q, Data(n))
  BY <1>0, <1>5, Frames, AppendFacts, WindowIsNat DEF HasRoom
<1>6. CASE HasRoom(q) /\ (q' = Append(q, DONE) \/ q' = Append(q, HEARTBEAT))
  BY <1>0, <1>6, Frames, AppendFacts, WindowIsNat DEF HasRoom
<1>7. CASE q # <<>> /\ q' = Tail(q)
  BY <1>0, <1>7, TailFacts, WindowIsNat
<1>8. MainStep => <1>1!1 \/ <1>2!1
  BY DEF MainStep, MainPrepared, MainPrepareFails, MainFirstSeen, MainTimerFires,
     MainDrained, MainEofAfterRaise, MainCancelled, MainEof
<1>9. ProducerStep => <1>1!1 \/ <1>3!1 \/ <1>4!1 \/ <1>5!1 \/ <1>6!1
  BY <1>0, SuccType DEF ProducerStep, ConnectOk, ConnectRetry, Backoff, ConnectRejected,
     RejectedBodyRead, ConnectFails, FirstChunk, FirstReadTimeout, NextChunk, ChunkIdle,
     ReadFails, EngineEnds, PutUnblocks, ProducerCancelled, Pump
<1>10. ConsumerStep => <1>1!1 \/ <1>7!1
  BY DEF ConsumerStep, ConsumerTake, ConsumerWritten, ConsumerWriteTimeout,
     ConsumerConnectionLost, ConsumerCancelled
<1>11. HeartbeatBeats \/ HeartbeatCancelled \/ ClientLeaves \/ TotalElapses \/ ServerCancels
       => <1>1!1 \/ <1>6!1
  BY DEF HeartbeatBeats, HeartbeatCancelled, ClientLeaves, TotalElapses, ServerCancels
<1> QED BY <1>1, <1>2, <1>3, <1>4, <1>5, <1>6, <1>7, <1>8, <1>9, <1>10, <1>11 DEF Next

LEMMA WireStays == ASSUME TypeOK, Next PROVE wire' \in WireType
<1>0. wire \in WireType /\ q \in Seq(Items)
  BY DEF TypeOK, WireType
<1>1. \/ wire' = wire
      \/ \E end \in {"eof", "closed"} : wire' = [wire EXCEPT !.end = end]
      \/ \E x \in Items : wire' = Handed(x)
  BY <1>0, TailFacts DEF Next, MainStep, MainPrepared, MainPrepareFails, MainFirstSeen,
     MainTimerFires, MainFirstTokenTimeout, MainDrained, MainConsumerRaised, MainEofAfterRaise,
     MainCancelled, MainEof, Cleanup, ProducerStep, ConnectOk, ConnectRetry, Backoff,
     ConnectRejected, RejectedBodyRead, ConnectFails, FirstChunk, FirstReadTimeout, NextChunk,
     ChunkIdle, ReadFails, EngineEnds, PutUnblocks, ProducerCancelled, ConsumerStep, ConsumerTake,
     ConsumerWritten, ConsumerWriteTimeout, ConsumerConnectionLost, ConsumerCancelled,
     HeartbeatBeats, HeartbeatCancelled, ClientLeaves, TotalElapses, ServerCancels
<1>2. ASSUME NEW end \in {"eof", "closed"}, wire' = [wire EXCEPT !.end = end]
      PROVE  wire' \in WireType
  BY <1>0, <1>2 DEF WireType
<1> QED BY <1>0, <1>1, <1>2, HandedType

LEMMA EngineStays ==
    ASSUME TypeOK, Phases, Next
    PROVE  /\ attempt' \in 0 .. RETRY_CONNECT /\ upstream' \in {"none", "open", "closed"}
           /\ {first_seen', eof_seen'} \subseteq BOOLEAN /\ rx' \in 0 .. Window - 1
<1> USE DEF engine
<1>0. /\ attempt \in 0 .. RETRY_CONNECT /\ upstream \in {"none", "open", "closed"}
      /\ {first_seen, eof_seen} \subseteq BOOLEAN /\ rx \in 0 .. Window - 1 /\ rx \in Nat
  BY WindowIsNat DEF TypeOK
<1>1. CASE UNCHANGED engine
  BY <1>0, <1>1
<1>2. CASE MainStep \/ ConnectOk
  BY <1>0, <1>2 DEF MainStep, MainPrepared, MainPrepareFails, MainFirstSeen, MainTimerFires,
     MainFirstTokenTimeout, MainDrained, MainConsumerRaised, MainEofAfterRaise,
     MainCancelled, MainEof, Cleanup, ConnectOk
<1>3. CASE Backoff
  <2>1. attempt < RETRY_CONNECT
    BY <1>3 DEF Backoff, ProducerAt, Phases
  <2> QED BY <1>0, <1>3, <2>1, StreamAssumption DEF Backoff, StreamAssumption
<1>4. CASE FirstChunk \/ NextChunk
  BY <1>0, <1>4, SuccType DEF FirstChunk, NextChunk, Pump
<1>5. CASE RejectedBodyRead \/ ConnectFails \/ FirstReadTimeout \/ ChunkIdle \/ ReadFails
           \/ EngineEnds \/ ProducerCancelled
  BY <1>0, <1>5 DEF RejectedBodyRead, ConnectFails, FirstReadTimeout, ChunkIdle, ReadFails,
     EngineEnds, ProducerCancelled, ProducerFails, Finally
<1>6. ConsumerStep => UNCHANGED engine
  BY ConsumerActs
<1> QED BY <1>1, <1>2, <1>3, <1>4, <1>5, <1>6 DEF Next, ProducerStep, ConnectRetry, ConnectRejected,
       PutUnblocks, HeartbeatBeats, HeartbeatCancelled, ClientLeaves, TotalElapses, ServerCancels

LEMMA GrantsStay ==
    ASSUME TypeOK, Phases, Next
    PROVE  /\ {expired', registered', slot'} \subseteq BOOLEAN /\ client' \in {"up", "gone"}
           /\ cancelled' \subseteq Tasks
<1> USE DEF outside, grants, Tasks
<1>0. /\ {expired, registered, slot} \subseteq BOOLEAN /\ client \in {"up", "gone"}
      /\ cancelled \subseteq Tasks
  BY DEF TypeOK
<1>1. CASE MainStep
  BY <1>0, <1>1 DEF MainStep, MainPrepared, MainPrepareFails, MainFirstSeen, MainTimerFires,
     MainFirstTokenTimeout, MainDrained, MainConsumerRaised, MainEofAfterRaise,
     MainCancelled, MainEof, Cleanup
<1>2. CASE ProducerStep
  <2>1. cancelled' \subseteq cancelled
    BY <1>2 DEF ProducerStep, ConnectOk, ConnectRetry, Backoff, ConnectRejected,
       RejectedBodyRead, ConnectFails, FirstChunk, FirstReadTimeout, NextChunk, ChunkIdle,
       ReadFails, EngineEnds, PutUnblocks, ProducerCancelled
  <2> QED BY <1>0, <1>2, <2>1, ProducerActs
<1>3. CASE ConsumerStep
  BY <1>0, <1>3, ConsumerActs
<1>4. CASE HeartbeatBeats \/ HeartbeatCancelled \/ ClientLeaves \/ TotalElapses \/ ServerCancels
  BY <1>0, <1>4 DEF HeartbeatBeats, HeartbeatCancelled, ClientLeaves, TotalElapses, ServerCancels
<1> QED BY <1>1, <1>2, <1>3, <1>4 DEF Next

LEMMA StepTypes == TypeOK /\ Phases /\ [Next]_vars => TypeOK'
<1> SUFFICES ASSUME TypeOK, Phases, [Next]_vars PROVE TypeOK'
  OBVIOUS
<1>1. CASE Next
  <2>1. METRICS' \in [Counters -> Nat] /\ METRICS'["active_streams"] \in 0 .. 1
    BY Grows, StepPhases DEF Grown, Phases
  <2> QED BY <1>1, <2>1, PcStays, QueueStays, WireStays, EngineStays, GrantsStay DEF TypeOK, WireType
<1>2. CASE UNCHANGED vars
  BY <1>2 DEF TypeOK, vars, engine, outside, grants
<1> QED BY <1>1, <1>2

LEMMA Control == Spec => [](TypeOK /\ Phases)
<1>1. Init => TypeOK /\ Phases
  BY InitTypes, InitPhases
<1>2. TypeOK /\ Phases /\ [Next]_vars => (TypeOK /\ Phases)'
  BY StepTypes, StepPhases
<1> QED BY <1>1, <1>2, PTL DEF Spec

(* Types, for any queue size and number of reconnections: no more frames   *)
(* are queued than maxsize, no more connections tried than allowed, and    *)
(* the stream is counted as active at most once.                           *)
THEOREM TypeCorrect == Spec => []TypeOK
  BY Control, PTL

(* Slot, dedup key, engine response and active_streams: a handler that has *)
(* returned has given back all four, on every path through its tasks, and  *)
(* holds the slot until then.                                              *)
THEOREM EverythingIsReleased == Spec => []FinishedReleasesAll
<1>1. TypeOK /\ Phases => FinishedReleasesAll
  BY DEF Phases, FinishedReleasesAll, Serving
<1> QED BY <1>1, Control, PTL

-----------------------------------------------------------------------------
(* Sequences of frames.                                                    *)

IsData(x) == x.kind = "data"

(* The chunks in s go on, one by one, from number `from` to number `to`.   *)
Linked(s, from, to) ==
    /\ \A i \in 1 .. Len(s) :
          IsData(s[i]) /\ (\A j \in 1 .. i - 1 : ~IsData(s[j])) => s[i].n = Succ(from)
    /\ \A i, k \in 1 .. Len(s) :
          /\ i < k /\ IsData(s[i]) /\ IsData(s[k])
          /\ \A j \in i + 1 .. k - 1 : ~IsData(s[j])
          => s[k].n = Succ(s[i].n)
    /\ \A i \in 1 .. Len(s) :
          IsData(s[i]) /\ (\A j \in i + 1 .. Len(s) : ~IsData(s[j])) => s[i].n = to
    /\ (\A i \in 1 .. Len(s) : ~IsData(s[i])) => from = to

HasErr(s) == \E i \in 1 .. Len(s) : s[i] = ErrFrame

(* No chunk follows an error frame.                                        *)
Quiet(s) == \A i, j \in 1 .. Len(s) : i < j /\ s[i] = ErrFrame => ~IsData(s[j])

LEMMA LinkedNothing == \A n : Linked(<<>>, n, n)
  BY EmptySeq DEF Linked

LEMMA LinkedFrame ==
    ASSUME NEW s \in Seq(Items), NEW from, NEW to, NEW x \in Items, ~IsData(x),
           Linked(s, from, to)
    PROVE  Linked(Append(s, x), from, to)
<1> DEFINE t == Append(s, x)
<1>1. /\ Len(s) \in Nat /\ Len(t) = Len(s) + 1
      /\ \A i \in 1 .. Len(s) : t[i] = s[i]
      /\ ~IsData(t[Len(s) + 1])
  BY AppendFacts
<1> HIDE DEF t
<1>2. \A i \in 1 .. Len(t) : IsData(t[i]) => i \in 1 .. Len(s)
  BY <1>1
<1>3. ASSUME NEW i \in 1 .. Len(t), IsData(t[i]), \A j \in 1 .. i - 1 : ~IsData(t[j])
      PROVE  t[i].n = Succ(from)
  <2>1. i \in 1 .. Len(s) /\ \A j \in 1 .. i - 1 : j \in 1 .. Len(s)
    BY <1>1, <1>2, <1>3
  <2> QED BY <1>1, <1>3, <2>1 DEF Linked
<1>4. ASSUME NEW i \in 1 .. Len(t), NEW k \in 1 .. Len(t), i < k, IsData(t[i]), IsData(t[k]),
             \A j \in i + 1 .. k - 1 : ~IsData(t[j])
      PROVE  t[k].n = Succ(t[i].n)
  <2>1. i \in 1 .. Len(s) /\ k \in 1 .. Len(s) /\ \A j \in i + 1 .. k - 1 : j \in 1 .. Len(s)
    BY <1>1, <1>2, <1>4
  <2>2. \A j \in i + 1 .. k - 1 : ~IsData(s[j])
    BY <1>1, <1>4, <2>1
  <2>3. t[i] = s[i] /\ t[k] = s[k]
    BY <1>1, <2>1
  <2> QED BY <1>4, <2>1, <2>2, <2>3 DEF Linked
<1>5. ASSUME NEW i \in 1 .. Len(t), IsData(t[i]), \A j \in i + 1 .. Len(t) : ~IsData(t[j])
      PROVE  t[i].n = to
  <2>1. i \in 1 .. Len(s) /\ \A j \in i + 1 .. Len(s) : ~IsData(s[j])
    BY <1>1, <1>2, <1>5
  <2> QED BY <1>1, <1>5, <2>1 DEF Linked
<1>6. (\A i \in 1 .. Len(t) : ~IsData(t[i])) => from = to
  BY <1>1 DEF Linked
<1> QED BY <1>3, <1>4, <1>5, <1>6 DEF Linked, t

LEMMA LinkedChunk ==
    ASSUME NEW s \in Seq(Items), NEW from, NEW to \in 0 .. Window - 1, Linked(s, from, to)
    PROVE  Linked(Append(s, Data(Succ(to))), from, Succ(to))
<1> DEFINE x == Data(Succ(to))
           t == Append(s, x)
<1>1. x \in Items /\ IsData(x) /\ x.n = Succ(to)
  <2>1. Succ(to) \in 0 .. Window - 1
    BY WindowIsNat, SuccType
  <2> QED BY <2>1, Frames DEF IsData
<1>2. /\ Len(s) \in Nat /\ Len(t) = Len(s) + 1
      /\ \A i \in 1 .. Len(s) : t[i] = s[i]
      /\ t[Len(s) + 1] = x
  BY <1>1, AppendFacts
<1> HIDE DEF t, x
<1>3. ASSUME NEW i \in 1 .. Len(t), IsData(t[i]), \A j \in 1 .. i - 1 : ~IsData(t[j])
      PROVE  t[i].n = Succ(from)
  <2>1. \A j \in 1 .. i - 1 : j \in 1 .. Len(s) /\ ~IsData(s[j])
    BY <1>2, <1>3
  <2>2. CASE i \in 1 .. Len(s)
    BY <1>2, <1>3, <2>1, <2>2 DEF Linked
  <2>3. CASE i = Len(s) + 1
    <3>1. from = to
      BY <1>2, <2>1, <2>3 DEF Linked
    <3> QED BY <1>1, <1>2, <2>3, <3>1
  <2> QED BY <1>2, <2>2, <2>3
<1>4. ASSUME NEW i \in 1 .. Len(t), NEW k \in 1 .. Len(t), i < k, IsData(t[i]), IsData(t[k]),
             \A j \in i + 1 .. k - 1 : ~IsData(t[j])
      PROVE  t[k].n = Succ(t[i].n)
  <2>1. /\ i \in 1 .. Len(s) /\ t[i] = s[i]
        /\ \A j \in i + 1 .. k - 1 : j \in 1 .. Len(s) /\ ~IsData(s[j])
    BY <1>2, <1>4
  <2>2. CASE k \in 1 .. Len(s)
    <3>1. t[k] = s[k]
      BY <1>2, <2>2
    <3> QED BY <1>4, <2>1, <2>2, <3>1 DEF Linked
  <2>3. CASE k = Len(s) + 1
    <3>1. \A j \in i + 1 .. Len(s) : ~IsData(s[j])
      BY <1>2, <2>1, <2>3
    <3>2. s[i].n = to
      BY <1>4, <2>1, <3>1 DEF Linked
    <3> QED BY <1>1, <1>2, <2>1, <2>3, <3>2
  <2> QED BY <1>2, <2>2, <2>3
<1>5. ASSUME NEW i \in 1 .. Len(t), IsData(t[i]), \A j \in i + 1 .. Len(t) : ~IsData(t[j])
      PROVE  t[i].n = Succ(to)
  <2>1. i = Len(t)
    BY <1>1, <1>2, <1>5
  <2> QED BY <1>1, <1>2, <2>1
<1>6. ~(\A i \in 1 .. Len(t) : ~IsData(t[i]))
  BY <1>1, <1>2
<1> QED BY <1>3, <1>4, <1>5, <1>6 DEF Linked, t, x

LEMMA LinkedTail ==
    ASSUME NEW s \in Seq(Items), s # <<>>, NEW from, NEW to, Linked(s, from, to)
    PROVE  /\ IsData(Head(s)) => Head(s).n = Succ(from) /\ Linked(Tail(s), Head(s).n, to)
           /\ ~IsData(Head(s)) => Linked(Tail(s), from, to)
<1> DEFINE t == Tail(s)
           next == IF IsData(s[1]) THEN s[1].n ELSE from
<1>1. /\ Len(s) \in Nat /\ Len(s) > 0 /\ Len(t) = Len(s) - 1
      /\ \A i \in 1 .. Len(t) : t[i] = s[i + 1] /\ i + 1 \in 1 .. Len(s)
      /\ Head(s) = s[1] /\ 1 \in 1 .. Len(s)
  BY TailFacts
<1>2. \A i \in 2 .. Len(s) : i - 1 \in 1 .. Len(t) /\ t[i - 1] = s[i]
  BY <1>1
<1>3. IsData(s[1]) => s[1].n = Succ(from)
  BY <1>1 DEF Linked
<1> HIDE DEF t
<1>4. ASSUME NEW i \in 1 .. Len(t), IsData(t[i]), \A j \in 1 .. i - 1 : ~IsData(t[j])
      PROVE  t[i].n = Succ(next)
  <2>1. \A j \in 2 .. (i + 1) - 1 : ~IsData(s[j])
    <3> SUFFICES ASSUME NEW j \in 2 .. (i + 1) - 1 PROVE ~IsData(s[j])
      OBVIOUS
    <3>1. j - 1 \in 1 .. i - 1 /\ j \in 2 .. Len(s)
      BY <1>1
    <3> QED BY <1>2, <1>4, <3>1
  <2>2. i + 1 \in 1 .. Len(s) /\ 1 < i + 1 /\ IsData(s[i + 1]) /\ t[i] = s[i + 1]
    BY <1>1, <1>4
  <2>3. CASE IsData(s[1])
    <3>1. \A j \in 1 + 1 .. (i + 1) - 1 : ~IsData(s[j])
      BY <2>1
    <3>2. s[i + 1].n = Succ(s[1].n)
      BY <1>1, <2>2, <2>3, <3>1 DEF Linked
    <3> QED BY <2>2, <2>3, <3>2
  <2>4. CASE ~IsData(s[1])
    <3>1. \A j \in 1 .. (i + 1) - 1 : ~IsData(s[j])
      BY <1>1, <2>1, <2>4
    <3> QED BY <2>2, <2>4, <3>1 DEF Linked
  <2> QED BY <2>3, <2>4
<1>5. ASSUME NEW i \in 1 .. Len(t), NEW k \in 1 .. Len(t), i < k, IsData(t[i]), IsData(t[k]),
             \A j \in i + 1 .. k - 1 : ~IsData(t[j])
      PROVE  t[k].n = Succ(t[i].n)
  <2>1. /\ i + 1 \in 1 .. Len(s) /\ k + 1 \in 1 .. Len(s) /\ i + 1 < k + 1
        /\ t[i] = s[i + 1] /\ t[k] = s[k + 1]
    BY <1>1, <1>5
  <2>2. \A j \in (i + 1) + 1 .. (k + 1) - 1 : ~IsData(s[j])
    <3> SUFFICES ASSUME NEW j \in (i + 1) + 1 .. (k + 1) - 1 PROVE ~IsData(s[j])
      OBVIOUS
    <3>1. j - 1 \in i + 1 .. k - 1 /\ j \in 2 .. Len(s)
      BY <1>1
    <3> QED BY <1>2, <1>5, <3>1
  <2> QED BY <1>5, <2>1, <2>2 DEF Linked
<1>6. ASSUME NEW i \in 1 .. Len(t), IsData(t[i]), \A j \in i + 1 .. Len(t) : ~IsData(t[j])
      PROVE  t[i].n = to
  <2>1. i + 1 \in 1 .. Len(s) /\ t[i] = s[i + 1]
    BY <1>1
  <2>2. \A j \in (i + 1) + 1 .. Len(s) : ~IsData(s[j])
    <3> SUFFICES ASSUME NEW j \in (i + 1) + 1 .. Len(s) PROVE ~IsData(s[j])
      OBVIOUS
    <3>1. j - 1 \in i + 1 .. Len(t) /\ j \in 2 .. Len(s)
      BY <1>1
    <3> QED BY <1>2, <1>6, <3>1
  <2> QED BY <1>6, <2>1, <2>2 DEF Linked
<1>7. ASSUME \A i \in 1 .. Len(t) : ~IsData(t[i])
      PROVE  next = to
  <2>1. \A j \in 2 .. Len(s) : ~IsData(s[j])
    BY <1>2, <1>7
  <2>2. CASE IsData(s[1])
    <3>1. \A j \in 1 + 1 .. Len(s) : ~IsData(s[j])
      BY <2>1
    <3> QED BY <1>1, <2>2, <3>1 DEF Linked
  <2>3. CASE ~IsData(s[1])
    <3>1. \A j \in 1 .. Len(s) : ~IsData(s[j])
      BY <1>1, <2>1, <2>3
    <3> QED BY <2>3, <3>1 DEF Linked
  <2> QED BY <2>2, <2>3
<1>8. Linked(t, next, to)
  <2> HIDE DEF next
  <2> QED BY <1>4, <1>5, <1>6, <1>7 DEF Linked
<1> QED BY <1>1, <1>3, <1>8 DEF t

LEMMA AppendErr ==
    ASSUME NEW s \in Seq(Items), NEW x \in Items
    PROVE  HasErr(Append(s, x)) <=> HasErr(s) \/ x = ErrFrame
<1>1. /\ Len(s) \in Nat /\ Len(Append(s, x)) = Len(s) + 1
      /\ \A i \in 1 .. Len(s) : Append(s, x)[i] = s[i]
      /\ Append(s, x)[Len(s) + 1] = x
  BY AppendFacts
<1>2. \A i \in 1 .. Len(s) + 1 : i \in 1 .. Len(s) \/ i = Len(s) + 1
  BY <1>1
<1>3. \A i \in 1 .. Len(s) : i \in 1 .. Len(s) + 1
  BY <1>1
<1>4. Len(s) + 1 \in 1 .. Len(s) + 1
  BY <1>1
<1> QED BY <1>1, <1>2, <1>3, <1>4 DEF HasErr

LEMMA TailErr ==
    ASSUME NEW s \in Seq(Items), s # <<>>
    PROVE  HasErr(s) => HasErr(Tail(s)) \/ Head(s) = ErrFrame
<1>1. /\ Len(s) \in Nat /\ Len(s) > 0 /\ Len(Tail(s)) = Len(s) - 1
      /\ \A i \in 1 .. Len(s) - 1 : Tail(s)[i] = s[i + 1]
      /\ Head(s) = s[1]
  BY TailFacts
<1>2. ASSUME NEW i \in 1 .. Len(s), s[i] = ErrFrame, i # 1
      PROVE  HasErr(Tail(s))
  <2>1. i - 1 \in 1 .. Len(Tail(s)) /\ Tail(s)[i - 1] = s[i]
    BY <1>1, <1>2
  <2> QED BY <1>2, <2>1 DEF HasErr
<1> QED BY <1>1, <1>2 DEF HasErr

LEMMA TailHasLess ==
    ASSUME NEW s \in Seq(Items), s # <<>>
    PROVE  /\ HasErr(Tail(s)) => HasErr(s)
           /\ Quiet(s) => Quiet(Tail(s))
           /\ Quiet(s) /\ Head(s) = ErrFrame => \A i \in 1 .. Len(Tail(s)) : ~IsData(Tail(s)[i])
           /\ (\A i \in 1 .. Len(s) : ~IsData(s[i])) => \A i \in 1 .. Len(Tail(s)) : ~IsData(Tail(s)[i])
<1>1. /\ Len(s) \in Nat /\ Len(s) > 0 /\ Len(Tail(s)) = Len(s) - 1
      /\ \A i \in 1 .. Len(Tail(s)) : Tail(s)[i] = s[i + 1] /\ i + 1 \in 1 .. Len(s) /\ 1 < i + 1
      /\ Head(s) = s[1] /\ 1 \in 1 .. Len(s)
  BY TailFacts
<1>2. HasErr(Tail(s)) => HasErr(s)
  BY <1>1 DEF HasErr
<1>3. ASSUME Quiet(s) PROVE Quiet(Tail(s))
  <2> SUFFICES ASSUME NEW i \in 1 .. Len(Tail(s)), NEW j \in 1 .. Len(Tail(s)), i < j,
                      Tail(s)[i] = ErrFrame
               PROVE  ~IsData(Tail(s)[j])
    BY DEF Quiet
  <2>1. i + 1 < j + 1
    BY <1>1
  <2> QED BY <1>1, <1>3, <2>1 DEF Quiet
<1>4. ASSUME Quiet(s), Head(s) = ErrFrame, NEW i \in 1 .. Len(Tail(s)) PROVE ~IsData(Tail(s)[i])
  BY <1>1, <1>4 DEF Quiet
<1> QED BY <1>1, <1>2, <1>3, <1>4

LEMMA QuietAppend ==
    ASSUME NEW s \in Seq(Items), NEW x \in Items, Quiet(s), IsData(x) => ~HasErr(s)
    PROVE  Quiet(Append(s, x))
<1>1. /\ Len(s) \in Nat /\ Len(Append(s, x)) = Len(s) + 1
      /\ \A i \in 1 .. Len(s) : Append(s, x)[i] = s[i]
      /\ Append(s, x)[Len(s) + 1] = x
  BY AppendFacts
<1> SUFFICES ASSUME NEW i \in 1 .. Len(s) + 1, NEW j \in 1 .. Len(s) + 1, i < j,
                    Append(s, x)[i] = ErrFrame
             PROVE  ~IsData(Append(s, x)[j])
  BY <1>1 DEF Quiet
<1>2. i \in 1 .. Len(s)
  BY <1>1
<1>3. CASE j \in 1 .. Len(s)
  BY <1>1, <1>2, <1>3 DEF Quiet
<1>4. CASE j = Len(s) + 1
  BY <1>1, <1>2, <1>4 DEF HasErr
<1> QED BY <1>1, <1>3, <1>4

-----------------------------------------------------------------------------
(* What the client reads: chunks in order, none behind an error frame.     *)

Reading == pc["consumer"] \in {"none", "get", "write"}

(* No more chunks will come from the producer.                             *)
Stopped == pc["producer"] \in {"finally", "done"} \/ "producer" \in cancelled

(* The chunks in the queue go on from the last one on the wire to the last *)
(* one read; a chunk the producer still holds is the next one.             *)
Order ==
    Reading => \E m \in 0 .. Window - 1 :
        /\ Linked(q, wire.last, m)
        /\ pc["producer"] \notin {"put", "finally", "done"} \/ eof_seen => rx = m
        /\ pc["producer"] \in {"none", "connect", "backoff", "reject", "first"} => rx = 0
        /\ pc["producer"] = "put" => rx = Succ(m)

Silence ==
    Reading =>
        /\ wire.errs > 0 \/ HasErr(q) => Stopped
        /\ Quiet(q)
        /\ wire.errs > 0 => \A i \in 1 .. Len(q) : ~IsData(q[i])

Chunkless(s) == \A i \in 1 .. Len(s) : ~IsData(s[i])

(* Frames that are no chunks disturb neither.                              *)
LEMMA FrameAppended ==
    ASSUME NEW s \in Seq(Items), NEW x \in {HEARTBEAT, ErrFrame, DONE}
    PROVE  /\ Append(s, x) \in Seq(Items)
           /\ \A from, to : Linked(s, from, to) => Linked(Append(s, x), from, to)
           /\ Quiet(s) => Quiet(Append(s, x))
           /\ Chunkless(s) => Chunkless(Append(s, x))
           /\ HasErr(Append(s, x)) <=> HasErr(s) \/ x = ErrFrame
<1>1. x \in Items /\ ~IsData(x)
  BY Frames DEF IsData
<1>2. /\ Len(s) \in Nat /\ Len(Append(s, x)) = Len(s) + 1
      /\ \A i \in 1 .. Len(s) : Append(s, x)[i] = s[i]
      /\ Append(s, x)[Len(s) + 1] = x
  BY <1>1, AppendFacts
<1>3. Chunkless(s) => Chunkless(Append(s, x))
  BY <1>1, <1>2 DEF Chunkless
<1> QED BY <1>1, <1>3, AppendFacts, LinkedFrame, QuietAppend, AppendErr

(* The queue after any of the endings: what was there, then an error frame *)
(* or none, then DONE or none.                                             *)
Ending(s) == {s, Append(s, DONE), Append(s, ErrFrame), Append(Append(s, ErrFrame), DONE)}

LEMMA EndingAppended ==
    ASSUME NEW s \in Seq(Items), NEW t \in Ending(s)
    PROVE  /\ t \in Seq(Items)
           /\ \A from, to : Linked(s, from, to) => Linked(t, from, to)
           /\ Quiet(s) => Quiet(t)
           /\ Chunkless(s) => Chunkless(t)
           /\ HasErr(s) => HasErr(t)
<1>1. Append(s, ErrFrame) \in Seq(Items)
  BY FrameAppended
<1>2. CASE t = s
  BY <1>2
<1>3. CASE t = Append(s, DONE)
  BY <1>3, FrameAppended
<1>4. CASE t = Append(s, ErrFrame)
  BY <1>4, FrameAppended
<1>5. CASE t = Append(Append(s, ErrFrame), DONE)
  <2>1. /\ \A from, to : Linked(s, from, to) => Linked(Append(s, ErrFrame), from, to)
        /\ Quiet(s) => Quiet(Append(s, ErrFrame))
        /\ Chunkless(s) => Chunkless(Append(s, ErrFrame))
        /\ HasErr(Append(s, ErrFrame))
    BY FrameAppended
  <2> QED BY <1>1, <1>5, <2>1, FrameAppended
<1> QED BY <1>2, <1>3, <1>4, <1>5 DEF Ending

(* Both parts, for a step that leaves the wire alone.                      *)
LEMMA EndingKeeps ==
    ASSUME TypeOK, Phases, Order, Silence, Reading, q' \in Ending(q),
           wire'.last = wire.last, wire'.errs = wire.errs, rx' = rx, Stopped',
           eof_seen' => pc["producer"] \notin {"put", "finally", "done"} \/ eof_seen,
           pc'["producer"] \in {"none", "connect", "backoff", "reject", "first"} =>
               pc["producer"] \in {"none", "connect", "backoff", "reject", "first"},
           pc'["producer"] \in {pc["producer"], "finally", "done"}
    PROVE  Order' /\ Silence'
<1>0. q \in Seq(Items)
  BY DEF TypeOK
<1>1. PICK m \in 0 .. Window - 1 :
        /\ Linked(q, wire.last, m)
        /\ pc["producer"] \notin {"put", "finally", "done"} \/ eof_seen => rx = m
        /\ pc["producer"] \in {"none", "connect", "backoff", "reject", "first"} => rx = 0
        /\ pc["producer"] = "put" => rx = Succ(m)
  BY DEF Order
<1>2. /\ Linked(q', wire.last, m) /\ Quiet(q')
      /\ Chunkless(q) => Chunkless(q')
  BY <1>0, <1>1, EndingAppended DEF Silence
<1>3. Order'
  BY <1>1, <1>2 DEF Order
<1>4. Silence'
  BY <1>2 DEF Silence, Chunkless
<1> QED BY <1>3, <1>4

LEMMA NoEofBefore ==
    ASSUME TypeOK, Phases, pc["producer"] \notin {"finally", "done"}
    PROVE  ~eof_seen
  BY DEF TypeOK, Phases

LEMMA InitStream == Init => Order /\ Silence
<1> SUFFICES ASSUME Init PROVE Order /\ Silence
  OBVIOUS
<1>1. q = <<>> /\ wire.last = 0 /\ wire.errs = 0 /\ rx = 0 /\ eof_seen = FALSE
      /\ pc["producer"] = "none" /\ Len(q) = 0
  BY EmptySeq DEF Init, Tasks
<1>2. Linked(q, 0, 0) /\ 0 \in 0 .. Window - 1
  BY <1>1, LinkedNothing, WindowIsNat
<1>3. Quiet(q) /\ ~HasErr(q)
  BY <1>1 DEF Quiet, HasErr
<1> QED BY <1>1, <1>2, <1>3 DEF Order, Silence

LEMMA MainStream ==
    ASSUME TypeOK, Phases, Order, Silence, MainStep
    PROVE  Order' /\ Silence'
<1> USE DEF engine, outside, grants
<1>0. wire \in WireType
  BY DEF TypeOK, WireType
<1>1. CASE MainPrepared
  <2>1. /\ pc["producer"] = "none" /\ pc["consumer"] = "none" /\ pc["main"] = "prepare"
        /\ UNCHANGED <<q, wire, rx, eof_seen, cancelled>>
        /\ pc'["producer"] = "connect"
    BY <1>1 DEF MainPrepared, Phases, Others
  <2>2. Reading
    BY <2>1 DEF Reading
  <2> QED BY <2>1, <2>2 DEF Order, Silence, Stopped
<1>2. CASE MainFirstTokenTimeout
  <2>1. q' \in Ending(q)
    BY <1>2, FinishErrFacts DEF MainFirstTokenTimeout, Ending
  <2>2. /\ UNCHANGED <<wire, rx, eof_seen>> /\ pc'["producer"] = pc["producer"]
        /\ pc'["consumer"] = pc["consumer"] /\ Stopped'
    BY <1>2, PcType DEF MainFirstTokenTimeout, Stopped, Tasks
  <2>3. CASE Reading
    <3>1. eof_seen' => pc["producer"] \notin {"put", "finally", "done"} \/ eof_seen
      BY <2>2
    <3> QED BY <2>1, <2>2, <2>3, <3>1, EndingKeeps
  <2>4. CASE ~Reading
    BY <2>2, <2>4 DEF Order, Silence, Reading
  <2> QED BY <2>3, <2>4
<1>3. CASE MainConsumerRaised
  <2>1. ~Reading'
    BY <1>3, PcType DEF MainConsumerRaised, Reading, Tasks
  <2> QED BY <2>1 DEF Order, Silence
<1>4. CASE MainPrepareFails \/ MainFirstSeen \/ MainTimerFires \/ MainDrained \/ MainEofAfterRaise
           \/ MainCancelled \/ MainEof
  <2>1. /\ UNCHANGED <<q, rx, eof_seen>> /\ pc'["producer"] = pc["producer"]
        /\ pc'["consumer"] = pc["consumer"]
    BY <1>4, PcType DEF MainPrepareFails, MainFirstSeen, MainTimerFires, MainDrained,
       MainEofAfterRaise, MainCancelled, MainEof, Cleanup, Tasks
  <2>2. wire'.last = wire.last /\ wire'.errs = wire.errs
    BY <1>0, <1>4 DEF MainPrepareFails, MainFirstSeen, MainTimerFires, MainDrained,
       MainEofAfterRaise, MainCancelled, MainEof, Cleanup, WireType
  <2>3. Reading' => (Stopped => Stopped')
    <3>1. CASE MainPrepareFails
      BY <2>1, <3>1, PcType DEF MainPrepareFails, Phases, Others, Over, Stopped
    <3>2. CASE MainFirstSeen \/ MainTimerFires \/ MainEof
      BY <2>1, <3>2 DEF MainFirstSeen, MainTimerFires, MainEof, Stopped
    <3>3. CASE MainDrained \/ MainEofAfterRaise \/ MainCancelled
      <4>1. cancelled' = {t \in Tasks \ {"main"} : pc[t] \notin {"done", "raised"}}
        BY <3>3 DEF MainDrained, MainEofAfterRaise, MainCancelled, Cleanup
      <4> QED BY <2>1, <4>1, PcType DEF Stopped, Tasks
    <3> QED BY <1>4, <3>1, <3>2, <3>3
  <2>4. Reading' <=> Reading
    BY <2>1 DEF Reading
  <2> QED BY <2>1, <2>2, <2>3, <2>4 DEF Order, Silence
<1> QED BY <1>1, <1>2, <1>3, <1>4 DEF MainStep

LEMMA ProducerStream ==
    ASSUME TypeOK, Phases, Order, Silence, ProducerStep
    PROVE  Order' /\ Silence'
<1> USE DEF engine, outside, grants
<1>0. /\ q \in Seq(Items) /\ pc["producer"] \notin Over /\ wire' = wire
      /\ pc'["consumer"] = pc["consumer"]
  <2>1. PICK l \in {"connect", "backoff", "reject", "first", "put", "read", "finally", "done"} :
             pc' = [pc EXCEPT !["producer"] = l]
    BY ProducerActs
  <2> QED BY <2>1, ProducerActs, PcType DEF TypeOK, Tasks
<1>1. CASE ~Reading
  BY <1>0, <1>1 DEF Order, Silence, Reading
<1> SUFFICES ASSUME Reading PROVE Order' /\ Silence'
  BY <1>1
<1>2. CASE \/ ConnectOk \/ ConnectRetry \/ Backoff \/ ConnectRejected
  <2>1. /\ UNCHANGED <<q, rx, eof_seen, cancelled>>
        /\ pc["producer"] \in {"connect", "backoff", "reject"}
        /\ pc'["producer"] \in {"connect", "backoff", "reject", "first"}
    BY <1>2, PcType DEF ConnectOk, ConnectRetry, Backoff, ConnectRejected, ProducerAt,
       ProducerGoes, Tasks
  <2>2. ~Stopped
    BY <1>2, <2>1 DEF ConnectOk, ConnectRetry, Backoff, ConnectRejected, ProducerAt, Stopped
  <2> QED BY <1>0, <2>1, <2>2 DEF Order, Silence
<1>3. CASE \/ RejectedBodyRead \/ ConnectFails \/ FirstReadTimeout \/ ChunkIdle \/ ReadFails
  <2>1. \E s \in {q, Append(q, ErrFrame)} :
           \/ q' = Append(s, DONE) /\ pc' = [pc EXCEPT !["producer"] = "done"]
           \/ q' = s /\ pc' = [pc EXCEPT !["producer"] = "finally"]
    <3>1. CASE RejectedBodyRead
      BY <3>1 DEF RejectedBodyRead, Finally, PutFrame, ProducerGoes
    <3>2. CASE \/ ConnectFails \/ FirstReadTimeout \/ ChunkIdle \/ ReadFails
      BY <3>2 DEF ConnectFails, FirstReadTimeout, ChunkIdle, ReadFails, ProducerFails, Finally,
         PutFrame, ProducerGoes
    <3> QED BY <1>3, <3>1, <3>2
  <2>2. q' \in Ending(q)
    BY <2>1 DEF Ending
  <2>3. pc'["producer"] \in {"finally", "done"} /\ Stopped'
    BY <2>1, PcType DEF Stopped, Tasks
  <2>4. UNCHANGED <<rx, eof_seen>> /\ pc["producer"] \in {"connect", "reject", "first", "read"}
    BY <1>3 DEF RejectedBodyRead, ConnectFails, FirstReadTimeout, ChunkIdle, ReadFails, ProducerAt
  <2>5. eof_seen' => pc["producer"] \notin {"put", "finally", "done"} \/ eof_seen
    BY <2>4
  <2> QED BY <1>0, <2>2, <2>3, <2>4, <2>5, EndingKeeps
<1>4. CASE EngineEnds
  <2>1. \/ q' = Append(q, DONE) /\ pc' = [pc EXCEPT !["producer"] = "done"]
        \/ q' = q /\ pc' = [pc EXCEPT !["producer"] = "finally"]
    BY <1>4 DEF EngineEnds, Finally, ProducerGoes
  <2>2. q' \in Ending(q)
    BY <2>1 DEF Ending
  <2>3. pc'["producer"] \in {"finally", "done"} /\ Stopped'
    BY <2>1, PcType DEF Stopped, Tasks
  <2>4. rx' = rx /\ pc["producer"] \in {"first", "read"}
    BY <1>4 DEF EngineEnds, ProducerAt
  <2>5. eof_seen' => pc["producer"] \notin {"put", "finally", "done"} \/ eof_seen
    BY <2>4
  <2> QED BY <1>0, <2>2, <2>3, <2>4, <2>5, EndingKeeps
<1>5. CASE ProducerCancelled
  <2>1. /\ rx' = rx /\ eof_seen' = eof_seen
        /\ \/ /\ pc["producer"] = "finally" /\ q' = q
              /\ pc' = [pc EXCEPT !["producer"] = "done"]
           \/ /\ pc["producer"] # "finally"
              /\ \/ q' = Append(q, DONE) /\ pc' = [pc EXCEPT !["producer"] = "done"]
                 \/ q' = q /\ pc' = [pc EXCEPT !["producer"] = "finally"]
    BY <1>5 DEF ProducerCancelled, Finally, ProducerGoes
  <2>2. q' \in Ending(q)
    BY <2>1 DEF Ending
  <2>3. pc'["producer"] \in {"finally", "done"} /\ Stopped'
    BY <2>1, PcType DEF Stopped, Tasks
  <2>5. eof_seen' => pc["producer"] \notin {"put", "finally", "done"} \/ eof_seen
    BY <2>1
  <2> QED BY <1>0, <2>1, <2>2, <2>3, <2>5, EndingKeeps
<1>6. CASE PutUnblocks /\ pc["producer"] = "finally"
  <2>1. /\ rx' = rx /\ eof_seen' = eof_seen /\ q' = Append(q, DONE)
        /\ pc' = [pc EXCEPT !["producer"] = "done"]
    BY <1>6 DEF PutUnblocks, ProducerAt, ProducerGoes
  <2>2. q' \in Ending(q)
    BY <2>1 DEF Ending
  <2>3. pc'["producer"] \in {"finally", "done"} /\ Stopped'
    BY <2>1, PcType DEF Stopped, Tasks
  <2>5. eof_seen' => pc["producer"] \notin {"put", "finally", "done"} \/ eof_seen
    BY <2>1
  <2> QED BY <1>0, <2>1, <2>2, <2>3, <2>5, EndingKeeps
<1>7. CASE FirstChunk \/ NextChunk \/ (PutUnblocks /\ pc["producer"] # "finally")
  <2>1. /\ "producer" \notin cancelled /\ pc["producer"] \in {"first", "read", "put"}
        /\ UNCHANGED <<cancelled, eof_seen>> /\ ~eof_seen
    BY <1>7, NoEofBefore DEF FirstChunk, NextChunk, PutUnblocks, ProducerAt
  <2>2. wire.errs = 0 /\ ~HasErr(q) /\ Quiet(q)
    <3>1. ~Stopped
      BY <2>1 DEF Stopped
    <3>2. wire.errs \in Nat
      BY DEF TypeOK
    <3> QED BY <3>1, <3>2 DEF Silence
  <2>3. PICK m \in 0 .. Window - 1 :
          /\ Linked(q, wire.last, m)
          /\ pc["producer"] \notin {"put", "finally", "done"} \/ eof_seen => rx = m
          /\ pc["producer"] \in {"none", "connect", "backoff", "reject", "first"} => rx = 0
          /\ pc["producer"] = "put" => rx = Succ(m)
    BY DEF Order
  <2>4. Succ(m) \in 0 .. Window - 1
    BY WindowIsNat, SuccType
  <2>5. /\ rx' = Succ(m)
        /\ \/ q' = Append(q, Data(Succ(m))) /\ pc' = [pc EXCEPT !["producer"] = "read"]
           \/ q' = q /\ pc' = [pc EXCEPT !["producer"] = "put"]
    <3>1. CASE FirstChunk
      BY <2>3, <3>1 DEF FirstChunk, Pump, ProducerAt, ProducerGoes
    <3>2. CASE NextChunk
      BY <2>3, <3>2 DEF NextChunk, Pump, ProducerAt, ProducerGoes
    <3>3. CASE PutUnblocks /\ pc["producer"] # "finally"
      BY <2>3, <3>3 DEF PutUnblocks, ProducerAt, ProducerGoes
    <3> QED BY <1>7, <3>1, <3>2, <3>3
  <2>6. CASE q' = Append(q, Data(Succ(m))) /\ pc' = [pc EXCEPT !["producer"] = "read"]
    <3>1. pc'["producer"] = "read"
      BY <2>6, PcType DEF Tasks
    <3>2. Linked(q', wire.last, Succ(m))
      BY <1>0, <2>3, <2>6, LinkedChunk
    <3>3. Data(Succ(m)) \in Items /\ Data(Succ(m)) # ErrFrame
      BY <2>4, Frames
    <3>4. Quiet(q') /\ ~HasErr(q')
      BY <1>0, <2>2, <2>6, <3>3, QuietAppend, AppendErr
    <3>5. Order'
      BY <1>0, <2>1, <2>4, <2>5, <3>1, <3>2 DEF Order
    <3>6. Silence'
      BY <1>0, <2>2, <3>4 DEF Silence
    <3> QED BY <3>5, <3>6
  <2>7. CASE q' = q /\ pc' = [pc EXCEPT !["producer"] = "put"]
    <3>1. pc'["producer"] = "put"
      BY <2>7, PcType DEF Tasks
    <3>2. Order'
      BY <1>0, <2>1, <2>3, <2>5, <2>7, <3>1 DEF Order
    <3>3. Silence'
      BY <1>0, <2>2, <2>7 DEF Silence
    <3> QED BY <3>2, <3>3
  <2> QED BY <2>5, <2>6, <2>7
<1> QED BY <1>2, <1>3, <1>4, <1>5, <1>6, <1>7 DEF ProducerStep

LEMMA ConsumerStream ==
    ASSUME TypeOK, Phases, Order, Silence, ConsumerStep
    PROVE  Order' /\ Silence'
<1> USE DEF engine, outside, grants
<1>0. q \in Seq(Items) /\ wire \in WireType
  BY DEF TypeOK, WireType
<1>1. PICK l \in {"get", "write", "done", "raised"} :
           /\ pc' = [pc EXCEPT !["consumer"] = l]
           /\ \/ "consumer" \in cancelled /\ "consumer" \notin cancelled' /\ l = "done"
              \/ "consumer" \notin cancelled /\ pc["consumer"] \in {"get", "write"}
  BY ConsumerActs
<1>2. /\ pc'["producer"] = pc["producer"] /\ pc'["consumer"] = l
      /\ UNCHANGED <<rx, eof_seen>> /\ (Stopped => Stopped')
  <2>1. pc'["producer"] = pc["producer"] /\ pc'["consumer"] = l
    BY <1>1, PcType DEF Tasks
  <2>2. UNCHANGED <<rx, eof_seen>> /\ cancelled \ {"consumer"} \subseteq cancelled'
    BY ConsumerActs
  <2> QED BY <2>1, <2>2 DEF Stopped
<1>3. CASE l \in {"done", "raised"}
  BY <1>2, <1>3 DEF Order, Silence, Reading
<1> SUFFICES ASSUME l \in {"get", "write"} PROVE Order' /\ Silence'
  BY <1>3
<1>4. Reading
  BY <1>1 DEF Reading
<1>5. CASE l = "get"
  <2>1. UNCHANGED <<q, wire>>
    BY <1>2, <1>5, PcType DEF ConsumerStep, ConsumerTake, ConsumerWritten, ConsumerWriteTimeout,
       ConsumerConnectionLost, ConsumerCancelled, ConsumerGoes, Tasks
  <2> QED BY <1>2, <1>4, <2>1 DEF Order, Silence
<1>6. CASE l = "write"
  <2>1. q # <<>> /\ q' = Tail(q) /\ wire' = Handed(Head(q))
    BY <1>1, <1>2, <1>6, PcType DEF ConsumerStep, ConsumerTake, ConsumerWritten, ConsumerWriteTimeout,
       ConsumerConnectionLost, ConsumerCancelled, ConsumerGoes, Tasks
  <2>2. Head(q) \in Items
    BY <1>0, <2>1, TailFacts
  <2>3. /\ wire'.last = IF Head(q).kind = "data" THEN Head(q).n ELSE wire.last
        /\ wire'.errs = IF Head(q).kind = "error" THEN wire.errs + 1 ELSE wire.errs
    BY <1>0, <2>1, <2>2, HandedType
  <2>4. PICK m \in 0 .. Window - 1 :
          /\ Linked(q, wire.last, m)
          /\ pc["producer"] \notin {"put", "finally", "done"} \/ eof_seen => rx = m
          /\ pc["producer"] \in {"none", "connect", "backoff", "reject", "first"} => rx = 0
          /\ pc["producer"] = "put" => rx = Succ(m)
    BY <1>4 DEF Order
  <2>5. Linked(q', wire'.last, m)
    BY <1>0, <2>1, <2>3, <2>4, LinkedTail DEF IsData
  <2>6. Order'
    BY <1>2, <2>4, <2>5 DEF Order
  <2>7. /\ Quiet(q') /\ (HasErr(q') => HasErr(q))
        /\ Head(q) = ErrFrame => Chunkless(q')
        /\ Chunkless(q) => Chunkless(q')
    BY <1>0, <1>4, <2>1, TailHasLess DEF Silence, Chunkless
  <2>8. Head(q) = ErrFrame => HasErr(q)
    BY <1>0, <2>1, TailFacts DEF HasErr
  <2>9. Head(q).kind = "error" <=> Head(q) = ErrFrame
    BY <2>2, ItemKinds
  <2>10. Silence'
    BY <1>2, <1>4, <2>3, <2>7, <2>8, <2>9 DEF Silence, Chunkless
  <2> QED BY <2>6, <2>10
<1> QED BY <1>5, <1>6

LEMMA OtherStream ==
    ASSUME TypeOK, Phases, Order, Silence,
           HeartbeatBeats \/ HeartbeatCancelled \/ ClientLeaves \/ TotalElapses \/ ServerCancels
           \/ UNCHANGED vars
    PROVE  Order' /\ Silence'
<1> USE DEF engine, outside, grants
<1>0. q \in Seq(Items)
  BY DEF TypeOK
<1>1. CASE HeartbeatBeats
  <2>1. /\ q' = Append(q, HEARTBEAT) /\ UNCHANGED <<pc, cancelled, wire, rx, eof_seen>>
        /\ HEARTBEAT # ErrFrame
    BY <1>1 DEF HeartbeatBeats, HEARTBEAT, ErrFrame
  <2>2. /\ \A m : Linked(q, wire.last, m) => Linked(q', wire.last, m)
        /\ Quiet(q) => Quiet(q')
        /\ Chunkless(q) => Chunkless(q')
        /\ HasErr(q') <=> HasErr(q)
    BY <1>0, <2>1, FrameAppended
  <2>3. Order'
    BY <2>1, <2>2 DEF Order, Reading
  <2>4. Silence'
    BY <2>1, <2>2 DEF Silence, Chunkless, Stopped, Reading
  <2> QED BY <2>3, <2>4
<1>2. CASE HeartbeatCancelled \/ ClientLeaves \/ TotalElapses \/ ServerCancels \/ UNCHANGED vars
  <2>1. /\ UNCHANGED <<q, wire, rx, eof_seen>> /\ (Stopped => Stopped')
        /\ pc'["producer"] = pc["producer"] /\ pc'["consumer"] = pc["consumer"]
    BY <1>2, PcType DEF HeartbeatCancelled, ClientLeaves, TotalElapses, ServerCancels, vars, Stopped,
       Tasks
  <2> QED BY <2>1 DEF Order, Silence, Reading
<1> QED BY <1>1, <1>2

LEMMA StepStream == TypeOK /\ Phases /\ Order /\ Silence /\ [Next]_vars => (Order /\ Silence)'
  BY MainStream, ProducerStream, ConsumerStream, OtherStream DEF Next

LEMMA Stream == Spec => [](TypeOK /\ Phases /\ Order /\ Silence)
<1>1. Init => TypeOK /\ Phases /\ Order /\ Silence
  BY InitTypes, InitPhases, InitStream
<1>2. TypeOK /\ Phases /\ Order /\ Silence /\ [Next]_vars => (TypeOK /\ Phases /\ Order /\ Silence)'
  BY StepTypes, StepPhases, StepStream
<1> QED BY <1>1, <1>2, PTL DEF Spec

-----------------------------------------------------------------------------
(* Why a stream ended.                                                     *)

CutCounters == {"stream_total_timeouts", "write_timeouts", "queue_full_drops",
                "client_disconnects"}
Cut == \E c \in CutCounters : METRICS[c] > 0

(* DONE has an error frame before it, or ends an answer read to its end.   *)
EndsWell(s, eof) ==
    \A i \in 1 .. Len(s) : s[i] = DONE =>
        \/ \E j \in 1 .. i - 1 : s[j] = ErrFrame
        \/ eof /\ \A j \in i + 1 .. Len(s) : ~IsData(s[j])

Explain ==
    /\ pc["consumer"] = "done" => Cut \/ wire.errs > 0 \/ Complete
    /\ Reading /\ (pc["producer"] = "finally" \/ "producer" \in cancelled) =>
          Cut \/ wire.errs > 0 \/ HasErr(q) \/ eof_seen
    /\ Reading => Cut \/ wire.errs > 0 \/ EndsWell(q, eof_seen)
    /\ TruncationIsAttributable

LEMMA EndsWellAppend ==
    ASSUME NEW s \in Seq(Items), NEW x \in Items, NEW eof \in BOOLEAN, EndsWell(s, eof),
           IsData(x) => ~eof, x = DONE => eof \/ HasErr(s)
    PROVE  EndsWell(Append(s, x), eof)
<1> DEFINE t == Append(s, x)
<1>1. /\ Len(s) \in Nat /\ Len(t) = Len(s) + 1
      /\ \A i \in 1 .. Len(s) : t[i] = s[i]
      /\ t[Len(s) + 1] = x
  BY AppendFacts
<1> HIDE DEF t
<1> SUFFICES ASSUME NEW i \in 1 .. Len(t), t[i] = DONE
             PROVE  \/ \E j \in 1 .. i - 1 : t[j] = ErrFrame
                    \/ eof /\ \A j \in i + 1 .. Len(t) : ~IsData(t[j])
  BY DEF EndsWell, t
<1>2. CASE i \in 1 .. Len(s)
  <2>1. s[i] = DONE
    BY <1>1, <1>2
  <2>2. CASE \E j \in 1 .. i - 1 : s[j] = ErrFrame
    <3>1. PICK j \in 1 .. i - 1 : s[j] = ErrFrame
      BY <2>2
    <3>2. j \in 1 .. Len(s)
      BY <1>1, <1>2
    <3> QED BY <1>1, <3>1, <3>2
  <2>3. CASE eof /\ \A j \in i + 1 .. Len(s) : ~IsData(s[j])
    <3>1. ASSUME NEW j \in i + 1 .. Len(t) PROVE ~IsData(t[j])
      <4>1. j \in i + 1 .. Len(s) \/ j = Len(s) + 1
        BY <1>1, <1>2
      <4>2. \A k \in i + 1 .. Len(s) : k \in 1 .. Len(s)
        BY <1>1, <1>2
      <4> QED BY <1>1, <2>3, <4>1, <4>2
    <3> QED BY <2>3, <3>1
  <2> QED BY <1>2, <2>1, <2>2, <2>3 DEF EndsWell
<1>3. CASE i = Len(s) + 1
  <2>1. x = DONE
    BY <1>1, <1>3
  <2>2. CASE eof
    <3>1. \A j \in i + 1 .. Len(t) : FALSE
      BY <1>1, <1>3
    <3> QED BY <2>2, <3>1
  <2>3. CASE HasErr(s)
    <3>1. PICK j \in 1 .. Len(s) : s[j] = ErrFrame
      BY <2>3 DEF HasErr
    <3>2. j \in 1 .. i - 1 /\ t[j] = ErrFrame
      BY <1>1, <1>3, <3>1
    <3> QED BY <3>2
  <2> QED BY <2>1, <2>2, <2>3
<1> QED BY <1>1, <1>2, <1>3

LEMMA EndsWellTail ==
    ASSUME NEW s \in Seq(Items), s # <<>>, NEW eof \in BOOLEAN, EndsWell(s, eof)
    PROVE  /\ Head(s) # ErrFrame => EndsWell(Tail(s), eof)
           /\ Head(s) = DONE => eof /\ Chunkless(s)
<1>1. /\ Len(s) \in Nat /\ Len(s) > 0 /\ Len(Tail(s)) = Len(s) - 1
      /\ \A i \in 1 .. Len(Tail(s)) : Tail(s)[i] = s[i + 1] /\ i + 1 \in 1 .. Len(s)
      /\ Head(s) = s[1] /\ 1 \in 1 .. Len(s)
  BY TailFacts
<1>2. \A i \in 2 .. Len(s) : i - 1 \in 1 .. Len(Tail(s)) /\ Tail(s)[i - 1] = s[i]
  BY <1>1
<1>3. ASSUME Head(s) # ErrFrame, NEW i \in 1 .. Len(Tail(s)), Tail(s)[i] = DONE
      PROVE  \/ \E j \in 1 .. i - 1 : Tail(s)[j] = ErrFrame
             \/ eof /\ \A j \in i + 1 .. Len(Tail(s)) : ~IsData(Tail(s)[j])
  <2>1. i + 1 \in 1 .. Len(s) /\ s[i + 1] = DONE
    BY <1>1, <1>3
  <2>2. CASE \E j \in 1 .. (i + 1) - 1 : s[j] = ErrFrame
    <3>1. PICK j \in 1 .. (i + 1) - 1 : s[j] = ErrFrame
      BY <2>2
    <3>2. j # 1
      BY <1>1, <1>3, <3>1
    <3>3. j \in 2 .. Len(s) /\ j - 1 \in 1 .. i - 1
      BY <1>1, <2>1, <3>2
    <3> QED BY <1>2, <3>1, <3>3
  <2>3. CASE eof /\ \A j \in (i + 1) + 1 .. Len(s) : ~IsData(s[j])
    <3>1. ASSUME NEW j \in i + 1 .. Len(Tail(s)) PROVE ~IsData(Tail(s)[j])
      <4>1. j \in 1 .. Len(Tail(s)) /\ j + 1 \in (i + 1) + 1 .. Len(s)
        BY <1>1, <2>1
      <4> QED BY <1>1, <2>3, <4>1
    <3> QED BY <2>3, <3>1
  <2> QED BY <2>1, <2>2, <2>3 DEF EndsWell
<1>4. ASSUME Head(s) = DONE PROVE eof /\ Chunkless(s)
  <2>1. ~\E j \in 1 .. 1 - 1 : s[j] = ErrFrame
    OBVIOUS
  <2>2. eof /\ \A j \in 1 + 1 .. Len(s) : ~IsData(s[j])
    BY <1>1, <1>4, <2>1 DEF EndsWell
  <2>3. ~IsData(s[1])
    BY <1>1, <1>4, Frames DEF IsData
  <2> QED BY <1>1, <2>2, <2>3 DEF Chunkless
<1> QED BY <1>3, <1>4 DEF EndsWell

(* An ending, put behind a queue that ends well, with its error frame or   *)
(* another reason given.                                                   *)
LEMMA EndsWellEnding ==
    ASSUME NEW s \in Seq(Items), NEW t \in Ending(s), NEW eof \in BOOLEAN, EndsWell(s, eof),
           \/ eof \/ HasErr(s)
           \/ t \in {s, Append(s, ErrFrame), Append(Append(s, ErrFrame), DONE)}
    PROVE  EndsWell(t, eof)
<1>0. /\ {ErrFrame, DONE} \subseteq Items /\ ~IsData(ErrFrame) /\ ~IsData(DONE)
      /\ ErrFrame # DONE
  BY Frames DEF IsData
<1>1. Append(s, ErrFrame) \in Seq(Items) /\ HasErr(Append(s, ErrFrame))
      /\ EndsWell(Append(s, ErrFrame), eof)
  <2>1. EndsWell(Append(s, ErrFrame), eof)
    BY <1>0, EndsWellAppend
  <2> QED BY <2>1, FrameAppended
<1>2. CASE t = Append(s, DONE) /\ (eof \/ HasErr(s))
  BY <1>0, <1>2, EndsWellAppend
<1>3. CASE t = Append(Append(s, ErrFrame), DONE)
  BY <1>0, <1>1, <1>3, EndsWellAppend
<1>4. CASE t = Append(s, DONE) /\ t \in {s, Append(s, ErrFrame)}
  BY <1>1, <1>4
<1> QED BY <1>1, <1>2, <1>3, <1>4 DEF Ending

LEMMA CutStays == ASSUME TypeOK, Grown PROVE Cut => Cut'
<1>1. PICK c \in CutCounters : Cut => METRICS[c] > 0
  BY DEF Cut, CutCounters
<1>2. c \in Counters /\ c # "active_streams"
  BY CountersHave DEF CutCounters
<1>3. METRICS[c] \in Nat /\ METRICS'[c] \in Nat /\ METRICS'[c] >= METRICS[c]
  BY <1>2 DEF Grown, TypeOK
<1> QED BY <1>1, <1>3 DEF Cut

LEMMA CutByCount ==
    ASSUME TypeOK, NEW c \in CutCounters, Count(c)
    PROVE  Cut'
<1>1. c \in Counters
  BY CountersHave DEF CutCounters
<1>2. METRICS \in [Counters -> Nat] /\ METRICS[c] \in Nat
  BY <1>1 DEF TypeOK
<1>3. METRICS'[c] = METRICS[c] + 1
  BY <1>1, <1>2, CountGrows
<1> QED BY <1>2, <1>3 DEF Cut

(* What explained the end of a stream still does after the next step.      *)
LEMMA StaysExplained ==
    ASSUME TypeOK, Phases, Grown, Next, wire'.last = wire.last, wire'.errs = wire.errs,
           Cut \/ wire.errs > 0 \/ Complete
    PROVE  Cut' \/ wire'.errs > 0 \/ Complete'
<1> USE DEF engine, outside, grants
<1>1. Complete => UNCHANGED <<rx, eof_seen>>
  <2>1. Complete => pc["producer"] \in {"finally", "done"}
    BY DEF Complete, Phases
  <2>2. CASE ProducerStep
    BY <2>1, <2>2 DEF Complete, ProducerStep, ConnectOk, ConnectRetry, Backoff, ConnectRejected,
       RejectedBodyRead, ConnectFails, FirstChunk, FirstReadTimeout, NextChunk, ChunkIdle,
       ReadFails, EngineEnds, PutUnblocks, ProducerCancelled, ProducerAt
  <2>3. CASE ConsumerStep
    BY <2>3, ConsumerActs
  <2>4. CASE MainStep
    BY <2>4 DEF MainStep, MainPrepared, MainPrepareFails, MainFirstSeen, MainTimerFires,
       MainFirstTokenTimeout, MainDrained, MainConsumerRaised, MainEofAfterRaise, MainCancelled,
       MainEof, Cleanup
  <2> QED BY <2>2, <2>3, <2>4 DEF Next, HeartbeatBeats, HeartbeatCancelled, ClientLeaves,
         TotalElapses, ServerCancels
<1> QED BY <1>1, CutStays DEF Complete

(* Explain, part by part: Why(q, ..) says that the end now in sight has    *)
(* its reason.                                                             *)
Excused == Cut \/ wire.errs > 0

LEMMA ExcusedStays ==
    ASSUME TypeOK, Grown, wire'.errs >= wire.errs, wire'.errs \in Nat, Excused
    PROVE  Excused'
<1>1. wire.errs \in Nat
  BY DEF TypeOK
<1> QED BY <1>1, CutStays DEF Excused

LEMMA InitExplain == Init => Explain
<1> SUFFICES ASSUME Init PROVE Explain
  OBVIOUS
<1>1. /\ q = <<>> /\ Len(q) = 0 /\ pc["consumer"] = "none" /\ pc["producer"] = "none"
      /\ cancelled = {} /\ wire.end = "open"
  BY EmptySeq DEF Init, Tasks
<1>2. EndsWell(q, eof_seen)
  BY <1>1 DEF EndsWell
<1> QED BY <1>1, <1>2 DEF Explain, TruncationIsAttributable

(* A step that neither moves the consumer nor touches the wire: only the   *)
(* producer's side needs a look.                                           *)
LEMMA BesideConsumer ==
    ASSUME TypeOK, Phases, Explain, Grown, Next, UNCHANGED wire, pc'["consumer"] = pc["consumer"],
           Reading => Excused' \/ /\ EndsWell(q', eof_seen')
                                  /\ pc'["producer"] = "finally" \/ "producer" \in cancelled'
                                        => HasErr(q') \/ eof_seen'
    PROVE  Explain'
<1>1. wire'.last = wire.last /\ wire'.errs = wire.errs /\ wire'.end = wire.end
  OBVIOUS
<1>2. pc'["consumer"] = "done" => Cut' \/ wire'.errs > 0 \/ Complete'
  BY <1>1, StaysExplained DEF Explain
<1>3. TruncationIsAttributable'
  <2>1. CASE wire.end = "eof"
    <3>1. Cut \/ wire.errs > 0 \/ Complete
      BY <2>1 DEF Explain, TruncationIsAttributable, Cut, CutCounters
    <3>2. Cut' \/ wire'.errs > 0 \/ Complete'
      BY <1>1, <3>1, StaysExplained
    <3> QED BY <3>2 DEF TruncationIsAttributable, Cut, CutCounters
  <2>2. CASE wire.end # "eof"
    BY <1>1, <2>2 DEF TruncationIsAttributable
  <2> QED BY <2>1, <2>2
<1> QED BY <1>2, <1>3 DEF Explain, Reading, Excused

LEMMA MainExplain ==
    ASSUME TypeOK, Phases, Order, Silence, Explain, MainStep
    PROVE  Explain'
<1> USE DEF engine, outside, grants
<1>0. /\ wire \in WireType /\ q \in Seq(Items) /\ eof_seen \in BOOLEAN /\ Grown /\ Next
      /\ METRICS \in [Counters -> Nat]
  BY MainGrows DEF TypeOK, WireType, Next
<1>1. CASE MainPrepared \/ MainFirstSeen \/ MainTimerFires
  <2>1. /\ UNCHANGED <<q, wire, rx, eof_seen, cancelled>>
        /\ pc'["producer"] \in {pc["producer"], "connect"}
        /\ Reading <=> Reading'
        /\ pc'["consumer"] = "done" <=> pc["consumer"] = "done"
    BY <1>1, PcType DEF MainPrepared, MainFirstSeen, MainTimerFires, Phases, Others, Tasks, Reading
  <2>2. Cut => Cut'
    BY <1>0, CutStays
  <2> QED BY <2>1, <2>2 DEF Explain, Complete, TruncationIsAttributable, Cut, CutCounters
<1>2. CASE MainPrepareFails
  <2>1. /\ pc["main"] = "prepare" /\ pc["consumer"] = "none" /\ pc["producer"] = "none"
        /\ pc'["consumer"] = "none" /\ pc'["producer"] = "none" /\ cancelled' = {}
        /\ wire'.end = "closed" /\ q = <<>> /\ q' = <<>> /\ Len(q') = 0
    BY <1>0, <1>2, PcType, EmptySeq DEF MainPrepareFails, Phases, Others, Tasks, WireType
  <2>2. EndsWell(q', eof_seen')
    BY <2>1 DEF EndsWell
  <2> QED BY <2>1, <2>2 DEF Explain, TruncationIsAttributable
<1>3. CASE MainFirstTokenTimeout
  <2>1. UNCHANGED <<wire, eof_seen>> /\ pc'["consumer"] = pc["consumer"] /\ FinishErr
    BY <1>3, PcType DEF MainFirstTokenTimeout, Tasks
  <2>2. Excused \/ EndsWell(q, eof_seen) \/ ~Reading
    BY DEF Explain, Excused
  <2>3. CASE METRICS'["queue_full_drops"] > 0
    <3>1. Excused'
      BY <2>3 DEF Excused, Cut, CutCounters
    <3> QED BY <1>0, <2>1, <3>1, BesideConsumer
  <2>4. CASE q' = Append(Append(q, ErrFrame), DONE)
    <3>1. HasErr(q') /\ q' \in Ending(q)
      BY <1>0, <2>4, FrameAppended DEF Ending
    <3>2. EndsWell(q, eof_seen) => EndsWell(q', eof_seen')
      BY <1>0, <2>1, <2>4, <3>1, EndsWellEnding
    <3>3. Excused => Excused'
      BY <1>0, <2>1, ExcusedStays DEF WireType
    <3> QED BY <1>0, <2>1, <2>2, <3>1, <3>2, <3>3, BesideConsumer
  <2> QED BY <2>1, <2>3, <2>4, FinishErrFacts
<1>4. CASE MainConsumerRaised \/ MainDrained \/ MainEofAfterRaise
  <2>1. UNCHANGED wire /\ pc'["consumer"] = pc["consumer"] /\ ~Reading
    BY <1>4, PcType DEF MainConsumerRaised, MainDrained, MainEofAfterRaise, Cleanup, Phases,
       Reading, Tasks
  <2> QED BY <1>0, <2>1, BesideConsumer
<1>5. CASE MainCancelled
  <2>1. UNCHANGED wire /\ pc'["consumer"] = pc["consumer"]
    BY <1>5, PcType DEF MainCancelled, Cleanup, Tasks
  <2>2. METRICS'["client_disconnects"] = METRICS["client_disconnects"] + 1
        /\ METRICS["client_disconnects"] \in Nat
    BY <1>0, <1>5, CountersHave DEF MainCancelled
  <2>3. Excused'
    BY <2>2 DEF Excused, Cut, CutCounters
  <2> QED BY <1>0, <2>1, <2>3, BesideConsumer
<1>6. CASE MainEof
  <2>1. /\ UNCHANGED <<q, rx, eof_seen>> /\ wire'.last = wire.last /\ wire'.errs = wire.errs
        /\ pc'["consumer"] = pc["consumer"] /\ pc'["producer"] = pc["producer"]
        /\ "producer" \in cancelled' <=> "producer" \in cancelled
        /\ wire'.end = "eof" => client = "up"
        /\ pc["main"] \in {"eof", "eof_raise"}
    BY <1>0, <1>6, PcType DEF MainEof, Tasks, WireType
  <2>2. Cut => Cut'
    BY <1>0, CutStays
  <2>3. ASSUME wire'.end = "eof" PROVE Cut \/ wire.errs > 0 \/ Complete
    <3>1. CASE pc["main"] = "eof_raise"
      BY <3>1 DEF Phases, Cut, CutCounters
    <3>2. CASE pc["main"] = "eof"
      <4>1. pc["consumer"] = "done"
        BY <2>1, <2>3, <3>2 DEF Phases
      <4> QED BY <4>1 DEF Explain
    <3> QED BY <2>1, <3>1, <3>2
  <2>4. TruncationIsAttributable'
    BY <2>1, <2>2, <2>3 DEF TruncationIsAttributable, Complete, Cut, CutCounters
  <2> QED BY <2>1, <2>2, <2>4 DEF Explain, Reading, Complete
<1> QED BY <1>1, <1>2, <1>3, <1>4, <1>5, <1>6 DEF MainStep

LEMMA ProducerExplain ==
    ASSUME TypeOK, Phases, Order, Silence, Explain, ProducerStep
    PROVE  Explain'
<1> USE DEF engine, outside, grants
<1>0. /\ wire \in WireType /\ q \in Seq(Items) /\ eof_seen \in BOOLEAN /\ Grown /\ Next
      /\ METRICS \in [Counters -> Nat]
  BY ProducerGrows DEF TypeOK, WireType, Next
<1>1. UNCHANGED wire /\ pc'["consumer"] = pc["consumer"]
  <2>1. PICK l \in {"connect", "backoff", "reject", "first", "put", "read", "finally", "done"} :
             pc' = [pc EXCEPT !["producer"] = l]
    BY ProducerActs
  <2> QED BY <2>1, ProducerActs, PcType DEF Tasks
<1>2. Excused => Excused'
  BY <1>0, <1>1, ExcusedStays DEF WireType
<1>3. Reading => \/ Excused
                 \/ /\ EndsWell(q, eof_seen)
                    /\ pc["producer"] = "finally" \/ "producer" \in cancelled =>
                          HasErr(q) \/ eof_seen
  BY DEF Explain, Excused
<1> DEFINE Fine == /\ EndsWell(q', eof_seen')
                   /\ pc'["producer"] = "finally" \/ "producer" \in cancelled'
                         => HasErr(q') \/ eof_seen'
<1>4. ASSUME Reading, EndsWell(q, eof_seen), ~Excused,
             pc["producer"] = "finally" \/ "producer" \in cancelled => HasErr(q) \/ eof_seen
      PROVE  Excused' \/ Fine
  <2>1. CASE \/ ConnectOk \/ ConnectRetry \/ Backoff \/ ConnectRejected
    <3>1. UNCHANGED <<q, eof_seen, cancelled>> /\ "producer" \notin cancelled
          /\ pc'["producer"] # "finally"
      BY <2>1, PcType DEF ConnectOk, ConnectRetry, Backoff, ConnectRejected, ProducerAt,
         ProducerGoes, Tasks
    <3> QED BY <1>4, <3>1
  <2>2. CASE \/ RejectedBodyRead \/ ConnectFails \/ FirstReadTimeout \/ ChunkIdle \/ ReadFails
    <3>1. \E s \in Seq(Items) :
             /\ s = Append(q, ErrFrame) \/ (s = q /\ METRICS'["queue_full_drops"] > 0)
             /\ \/ q' = Append(s, DONE) /\ pc' = [pc EXCEPT !["producer"] = "done"]
                \/ q' = s /\ pc' = [pc EXCEPT !["producer"] = "finally"]
      <4>1. CASE RejectedBodyRead
        <5> DEFINE s == PutFrame(q, ErrFrame)
                   n == Drops(q, ErrFrame)
        <5>1. /\ s \in Seq(Items)
              /\ (s = Append(q, ErrFrame) /\ n = 0) \/ (s = q /\ n = 1)
          BY <1>0, PutFrameFacts, Frames DEF TypeOK
        <5>2. METRICS' = [METRICS EXCEPT !["queue_full_drops"] = @ + n] /\ Finally(s)
          BY <4>1 DEF RejectedBodyRead
        <5> HIDE DEF s, n
        <5>3. METRICS["queue_full_drops"] \in Nat
              /\ METRICS'["queue_full_drops"] = METRICS["queue_full_drops"] + n
          BY <1>0, <5>2, CountersHave
        <5>4. s = Append(q, ErrFrame) \/ (s = q /\ METRICS'["queue_full_drops"] > 0)
          BY <5>1, <5>3
        <5>5. \/ q' = Append(s, DONE) /\ pc' = [pc EXCEPT !["producer"] = "done"]
              \/ q' = s /\ pc' = [pc EXCEPT !["producer"] = "finally"]
          BY <5>2 DEF Finally, ProducerGoes
        <5> QED BY <5>1, <5>4, <5>5
      <4>2. CASE \/ ConnectFails \/ FirstReadTimeout \/ ChunkIdle \/ ReadFails
        <5>1. PICK c \in Counters \ {"queue_full_drops", "active_streams"} : ProducerFails(c)
          BY <4>2, CountersHave DEF ConnectFails, FirstReadTimeout, ChunkIdle, ReadFails
        <5> QED BY <5>1, ProducerFailsFacts
      <4> QED BY <2>2, <4>1, <4>2
    <3>2. PICK s \in Seq(Items) :
             /\ s = Append(q, ErrFrame) \/ (s = q /\ METRICS'["queue_full_drops"] > 0)
             /\ \/ q' = Append(s, DONE) /\ pc' = [pc EXCEPT !["producer"] = "done"]
                \/ q' = s /\ pc' = [pc EXCEPT !["producer"] = "finally"]
      BY <3>1
    <3>3. CASE METRICS'["queue_full_drops"] > 0
      BY <3>3 DEF Excused, Cut, CutCounters
    <3>4. CASE s = Append(q, ErrFrame)
      <4>1. q' \in Ending(q) /\ q' \in {Append(q, ErrFrame), Append(Append(q, ErrFrame), DONE)}
        BY <3>2, <3>4 DEF Ending
      <4>2. eof_seen' = eof_seen
        BY <2>2 DEF RejectedBodyRead, ConnectFails, FirstReadTimeout, ChunkIdle, ReadFails
      <4>3. EndsWell(q', eof_seen')
        BY <1>0, <1>4, <4>1, <4>2, EndsWellEnding
      <4>4. HasErr(q')
        BY <1>0, <4>1, FrameAppended
      <4> QED BY <4>3, <4>4
    <3> QED BY <3>2, <3>3, <3>4
  <2>3. CASE EngineEnds
    <3>1. eof_seen' = TRUE /\ q' \in {q, Append(q, DONE)} /\ q' \in Ending(q)
      BY <2>3 DEF EngineEnds, Finally, Ending
    <3>2. EndsWell(q, TRUE)
      BY <1>4 DEF EndsWell
    <3>3. EndsWell(q', TRUE)
      BY <1>0, <3>1, <3>2, EndsWellEnding
    <3> QED BY <3>1, <3>3
  <2>4. CASE \/ ProducerCancelled
             \/ PutUnblocks /\ pc["producer"] = "finally"
    <3>1. /\ eof_seen' = eof_seen /\ q' \in {q, Append(q, DONE)} /\ q' \in Ending(q)
          /\ HasErr(q) \/ eof_seen
      BY <1>4, <2>4 DEF ProducerCancelled, PutUnblocks, ProducerAt, Finally, Ending
    <3>2. EndsWell(q', eof_seen')
      BY <1>0, <1>4, <3>1, EndsWellEnding
    <3>3. HasErr(q') \/ eof_seen'
      BY <1>0, <3>1, EndingAppended
    <3> QED BY <3>2, <3>3
  <2>5. CASE FirstChunk \/ NextChunk \/ (PutUnblocks /\ pc["producer"] # "finally")
    <3>1. /\ "producer" \notin cancelled /\ pc["producer"] \in {"first", "read", "put"}
          /\ UNCHANGED <<cancelled, eof_seen>> /\ ~eof_seen
      BY <2>5, NoEofBefore DEF FirstChunk, NextChunk, PutUnblocks, ProducerAt
    <3>2. rx \in 0 .. Window - 1 /\ rx \in Nat
      BY WindowIsNat DEF TypeOK
    <3>3. /\ pc'["producer"] # "finally"
          /\ q' = q \/ \E n \in 0 .. Window - 1 : q' = Append(q, Data(n))
      <4>1. Succ(0) \in 0 .. Window - 1 /\ Succ(rx) \in 0 .. Window - 1
        BY <3>2, SuccType
      <4> QED BY <2>5, <3>2, <4>1, PcType DEF FirstChunk, NextChunk, PutUnblocks, Pump, ProducerAt,
             ProducerGoes, Tasks
    <3>4. EndsWell(q', eof_seen')
      <4>1. ASSUME NEW n \in 0 .. Window - 1, q' = Append(q, Data(n))
            PROVE  EndsWell(q', eof_seen')
        <5>1. Data(n) \in Items /\ Data(n) # DONE
          BY Frames
        <5> QED BY <1>0, <1>4, <3>1, <4>1, <5>1, EndsWellAppend
      <4> QED BY <1>4, <3>1, <3>3, <4>1
    <3> QED BY <3>1, <3>3, <3>4
  <2> QED BY <2>1, <2>2, <2>3, <2>4, <2>5 DEF ProducerStep
<1>5. Reading => Excused' \/ Fine
  BY <1>2, <1>3, <1>4
<1> QED BY <1>0, <1>1, <1>5, BesideConsumer

LEMMA ConsumerExplain ==
    ASSUME TypeOK, Phases, Order, Silence, Explain, ConsumerStep
    PROVE  Explain'
<1> USE DEF engine, outside, grants
<1>0. /\ wire \in WireType /\ q \in Seq(Items) /\ eof_seen \in BOOLEAN /\ Grown /\ Next
      /\ METRICS \in [Counters -> Nat] /\ Order' /\ Silence'
  BY ConsumerGrows, ConsumerStream DEF TypeOK, WireType, Next
<1>1. PICK l \in {"get", "write", "done", "raised"} :
           /\ pc' = [pc EXCEPT !["consumer"] = l]
           /\ \/ "consumer" \in cancelled /\ "consumer" \notin cancelled' /\ l = "done"
              \/ "consumer" \notin cancelled /\ pc["consumer"] \in {"get", "write"}
  BY ConsumerActs
<1>2. /\ pc'["producer"] = pc["producer"] /\ pc'["consumer"] = l
      /\ UNCHANGED <<rx, eof_seen>>
      /\ "producer" \in cancelled' => "producer" \in cancelled
      /\ wire'.end = wire.end
  <2>1. pc'["producer"] = pc["producer"] /\ pc'["consumer"] = l
    BY <1>1, PcType DEF Tasks
  <2> QED BY <2>1, ConsumerActs
<1>3. wire.end = "eof" => l = "done" /\ UNCHANGED wire
  <2>1. wire.end = "eof" => pc["main"] \in Closing
    BY DEF Phases, Closing
  <2>2. wire.end = "eof" => "consumer" \in cancelled
    BY <1>1, <2>1 DEF Phases, Others, Over
  <2> QED BY <1>1, <2>2 DEF ConsumerStep, ConsumerTake, ConsumerWritten, ConsumerWriteTimeout,
             ConsumerConnectionLost, ConsumerCancelled, ConsumerAt
<1>4. Cut => Cut'
  BY <1>0, CutStays
<1>5. TruncationIsAttributable'
  <2>1. CASE wire.end = "eof"
    BY <1>2, <1>3, <1>4, <2>1 DEF Explain, TruncationIsAttributable, Complete, Cut, CutCounters
  <2>2. CASE wire.end # "eof"
    BY <1>2, <2>2 DEF TruncationIsAttributable
  <2> QED BY <2>1, <2>2
<1>6. CASE l = "raised"
  BY <1>2, <1>5, <1>6 DEF Explain, Reading
<1>7. CASE l = "done"
  <2>1. \/ ConsumerTake \/ ConsumerCancelled
        \/ \E c \in {"write_timeouts", "client_disconnects"} : Count(c)
    BY <1>2, <1>7, PcType DEF ConsumerStep, ConsumerWritten, ConsumerWriteTimeout,
             ConsumerConnectionLost, ConsumerGoes, Tasks
  <2>2. Cut' \/ wire'.errs > 0 \/ Complete'
    <3>1. CASE \E c \in CutCounters : Count(c)
      BY <3>1, CutByCount
    <3>2. CASE ConsumerTake /\ Head(q) = DONE
      <4>1. q # <<>> /\ wire' = wire /\ Reading
        BY <3>2, Frames DEF ConsumerTake, Reading, ConsumerAt
      <4>2. CASE Excused
        BY <1>4, <4>1, <4>2 DEF Excused
      <4>3. CASE EndsWell(q, eof_seen)
        <5>1. eof_seen /\ Chunkless(q)
          BY <1>0, <3>2, <4>1, <4>3, EndsWellTail
        <5>2. PICK m \in 0 .. Window - 1 : Linked(q, wire.last, m) /\ rx = m
          BY <4>1, <5>1 DEF Order
        <5>3. wire.last = rx
          BY <5>1, <5>2 DEF Linked, Chunkless
        <5> QED BY <1>2, <4>1, <5>1, <5>3 DEF Complete
      <4> QED BY <4>1, <4>2, <4>3 DEF Explain, Excused
    <3>3. CASE ConsumerTake /\ Head(q) # DONE
      <4>1. \E c \in {"stream_total_timeouts", "client_disconnects"} : Count(c)
        BY <1>2, <1>7, <3>3, PcType DEF ConsumerTake, ConsumerGoes, Tasks
      <4> QED BY <3>1, <4>1 DEF CutCounters
    <3>4. CASE ConsumerCancelled
      BY <3>1, <3>4 DEF ConsumerCancelled, CutCounters
    <3> QED BY <2>1, <3>1, <3>2, <3>3, <3>4 DEF CutCounters
  <2> QED BY <1>2, <1>5, <1>7, <2>2 DEF Explain, Reading
<1>8. CASE l = "get"
  <2>1. UNCHANGED <<q, wire>> /\ Reading
    BY <1>1, <1>2, <1>8, PcType DEF ConsumerStep, ConsumerTake, ConsumerWritten,
       ConsumerWriteTimeout, ConsumerConnectionLost, ConsumerCancelled, ConsumerGoes, Tasks, Reading
  <2> QED BY <1>2, <1>4, <1>5, <1>8, <2>1 DEF Explain, Reading
<1>9. CASE l = "write"
  <2>1. q # <<>> /\ q' = Tail(q) /\ wire' = Handed(Head(q)) /\ Head(q) # DONE /\ Reading
    BY <1>1, <1>2, <1>9, PcType DEF ConsumerStep, ConsumerTake, ConsumerWritten, ConsumerWriteTimeout,
       ConsumerConnectionLost, ConsumerCancelled, ConsumerGoes, Tasks, Reading
  <2>2. Head(q) \in Items
    BY <1>0, <2>1, TailFacts
  <2>3. wire'.errs = IF Head(q) = ErrFrame THEN wire.errs + 1 ELSE wire.errs
    BY <1>0, <2>1, <2>2, HandedType, ItemKinds
  <2>4. wire.errs \in Nat
    BY <1>0 DEF WireType
  <2>5. Excused => Excused'
    BY <1>4, <2>3, <2>4 DEF Excused
  <2>6. CASE Head(q) = ErrFrame
    <3>1. wire'.errs > 0
      BY <2>3, <2>4, <2>6
    <3> QED BY <1>2, <1>5, <1>9, <3>1 DEF Explain
  <2>7. CASE Head(q) # ErrFrame
    <3>1. EndsWell(q, eof_seen) => EndsWell(q', eof_seen')
      BY <1>0, <1>2, <2>1, <2>7, EndsWellTail
    <3>2. HasErr(q) => HasErr(q')
      BY <1>0, <2>1, <2>7, TailErr
    <3> QED BY <1>2, <1>5, <1>9, <2>1, <2>5, <3>1, <3>2 DEF Explain, Excused
  <2> QED BY <2>6, <2>7
<1> QED BY <1>6, <1>7, <1>8, <1>9

LEMMA OtherExplain ==
    ASSUME TypeOK, Phases, Order, Silence, Explain,
           HeartbeatBeats \/ HeartbeatCancelled \/ ClientLeaves \/ TotalElapses \/ ServerCancels
           \/ UNCHANGED vars
    PROVE  Explain'
<1> USE DEF engine, outside, grants
<1>0. q \in Seq(Items) /\ eof_seen \in BOOLEAN
  BY DEF TypeOK
<1>1. /\ UNCHANGED <<wire, rx, eof_seen, METRICS>>
      /\ pc'["producer"] = pc["producer"] /\ pc'["consumer"] = pc["consumer"]
      /\ "producer" \in cancelled' => "producer" \in cancelled
  BY PcType DEF HeartbeatBeats, HeartbeatCancelled, ClientLeaves, TotalElapses, ServerCancels, vars,
     Tasks
<1>2. /\ HasErr(q) => HasErr(q')
      /\ EndsWell(q, eof_seen) => EndsWell(q', eof_seen)
  <2>1. CASE HeartbeatBeats
    <3>1. q' = Append(q, HEARTBEAT)
      BY <2>1 DEF HeartbeatBeats
    <3>2. HEARTBEAT \in Items /\ ~IsData(HEARTBEAT) /\ HEARTBEAT # DONE
      BY Frames DEF IsData
    <3> QED BY <1>0, <3>1, <3>2, AppendErr, EndsWellAppend
  <2>2. CASE q' = q
    BY <2>2
  <2> QED BY <2>1, <2>2 DEF HeartbeatCancelled, ClientLeaves, TotalElapses, ServerCancels, vars
<1>3. Cut' = Cut
  BY <1>1 DEF Cut
<1> QED BY <1>1, <1>2, <1>3 DEF Explain, Reading, Complete, TruncationIsAttributable

LEMMA StepExplain ==
    TypeOK /\ Phases /\ Order /\ Silence /\ Explain /\ [Next]_vars => Explain'
  BY MainExplain, ProducerExplain, ConsumerExplain, OtherExplain DEF Next

LEMMA Explained == Spec => []Explain
<1>1. Init => TypeOK /\ Phases /\ Order /\ Silence /\ Explain
  BY InitTypes, InitPhases, InitStream, InitExplain
<1>2. TypeOK /\ Phases /\ Order /\ Silence /\ Explain /\ [Next]_vars
      => (TypeOK /\ Phases /\ Order /\ Silence /\ Explain)'
  BY StepTypes, StepPhases, StepStream, StepExplain
<1> QED BY <1>1, <1>2, PTL DEF Spec

(* A response that ended cleanly without the whole answer carries an error *)
(* frame, or a counter of a cut says why.                                  *)
THEOREM TruncationsAreAttributable == Spec => []TruncationIsAttributable
  BY Explained, PTL DEF Explain


-----------------------------------------------------------------------------
(* Error frames and counted failures.                                      *)

ErrAt(s) == {i \in 1 .. Len(s) : s[i] = ErrFrame}
ErrCount(s) == Cardinality(ErrAt(s))

(* A rejection is counted before its error frame is queued.                *)
Owed == IF pc["producer"] = "reject" THEN 1 ELSE 0

Counted ==
    /\ wire.errs <= Failures
    /\ Reading => wire.errs + ErrCount(q) + Owed <= Failures

LEMMA ErrCountNat ==
    ASSUME NEW s \in Seq(Items)
    PROVE  IsFiniteSet(ErrAt(s)) /\ ErrCount(s) \in Nat
<1>1. IsFiniteSet(1 .. Len(s))
  BY FS_Interval, LenProperties
<1>2. IsFiniteSet(ErrAt(s))
  BY <1>1, FS_Subset DEF ErrAt
<1> QED BY <1>2, FS_CardinalityType DEF ErrCount

LEMMA ErrCountAppend ==
    ASSUME NEW s \in Seq(Items), NEW x \in Items
    PROVE  ErrCount(Append(s, x)) = ErrCount(s) + IF x = ErrFrame THEN 1 ELSE 0
<1> DEFINE t == Append(s, x)
<1>1. /\ Len(s) \in Nat /\ Len(t) = Len(s) + 1
      /\ \A i \in 1 .. Len(s) : t[i] = s[i]
      /\ t[Len(s) + 1] = x
  BY AppendFacts
<1> HIDE DEF t
<1>2. \A i : i \in 1 .. Len(t) <=> i \in 1 .. Len(s) \/ i = Len(s) + 1
  BY <1>1
<1>3. Len(s) + 1 \notin ErrAt(s)
  BY <1>1 DEF ErrAt
<1>4. CASE x = ErrFrame
  <2>1. ErrAt(t) = ErrAt(s) \cup {Len(s) + 1}
    BY <1>1, <1>2, <1>4 DEF ErrAt
  <2>2. Cardinality(ErrAt(s) \cup {Len(s) + 1}) = Cardinality(ErrAt(s)) + 1
    BY <1>3, ErrCountNat, FS_AddElement
  <2> QED BY <1>4, <2>1, <2>2 DEF ErrCount, t
<1>5. CASE x # ErrFrame
  <2>1. ErrAt(t) = ErrAt(s)
    BY <1>1, <1>2, <1>5 DEF ErrAt
  <2>2. ErrCount(s) \in Nat
    BY ErrCountNat
  <2> QED BY <1>5, <2>1, <2>2 DEF ErrCount, t
<1> QED BY <1>4, <1>5

LEMMA ErrCountTail ==
    ASSUME NEW s \in Seq(Items), s # <<>>
    PROVE  ErrCount(Tail(s)) + (IF Head(s) = ErrFrame THEN 1 ELSE 0) <= ErrCount(s)
<1> DEFINE t == Tail(s)
           rest == ErrAt(s) \ {1}
<1>1. /\ Len(s) \in Nat /\ Len(s) > 0 /\ Len(t) = Len(s) - 1 /\ t \in Seq(Items)
      /\ \A i \in 1 .. Len(t) : t[i] = s[i + 1]
      /\ Head(s) = s[1]
  BY TailFacts
<1> HIDE DEF t
<1>2. IsFiniteSet(ErrAt(s)) /\ ErrCount(s) \in Nat /\ IsFiniteSet(ErrAt(t)) /\ ErrCount(t) \in Nat
  BY <1>1, ErrCountNat
<1>3. IsFiniteSet(rest) /\ Cardinality(rest) \in Nat
  BY <1>2, FS_Subset, FS_CardinalityType
<1>4. Cardinality(ErrAt(t)) <= Cardinality(rest)
  <2> DEFINE f == [i \in ErrAt(t) |-> i + 1]
  <2>1. f \in Injection(ErrAt(t), rest)
    <3>1. \A i \in ErrAt(t) : i \in 1 .. Len(t) /\ i + 1 \in rest
      BY <1>1 DEF ErrAt
    <3>2. f \in [ErrAt(t) -> rest]
      BY <3>1
    <3>3. \A i, j \in ErrAt(t) : f[i] = f[j] => i = j
      BY <3>1
    <3> QED BY <3>2, <3>3 DEF Injection, IsInjective
  <2> QED BY <1>3, <2>1, FS_Injection DEF ExistsInjection
<1>5. CASE Head(s) = ErrFrame
  <2>1. 1 \in ErrAt(s)
    BY <1>1, <1>5 DEF ErrAt
  <2>2. Cardinality(rest) = ErrCount(s) - 1
    BY <1>2, <2>1, FS_RemoveElement DEF ErrCount
  <2> QED BY <1>2, <1>3, <1>4, <1>5, <2>2 DEF ErrCount, t
<1>6. CASE Head(s) # ErrFrame
  <2>1. Cardinality(rest) <= ErrCount(s)
    BY <1>2, FS_Subset DEF ErrCount
  <2> QED BY <1>2, <1>3, <1>4, <1>6, <2>1 DEF ErrCount, t
<1> QED BY <1>5, <1>6

LEMMA ErrCountEnding ==
    ASSUME NEW s \in Seq(Items), NEW t \in Ending(s)
    PROVE  /\ ErrCount(t) \in Nat /\ ErrCount(t) <= ErrCount(s) + 1
           /\ t \in {s, Append(s, DONE)} => ErrCount(t) = ErrCount(s)
<1>1. ErrFrame \in Items /\ DONE \in Items /\ DONE # ErrFrame
  BY Frames
<1>2. ErrCount(s) \in Nat /\ Append(s, ErrFrame) \in Seq(Items)
  BY <1>1, ErrCountNat, AppendFacts
<1>3. ErrCount(Append(s, DONE)) = ErrCount(s)
  <2>1. ErrCount(Append(s, DONE)) = ErrCount(s) + IF DONE = ErrFrame THEN 1 ELSE 0
    BY <1>1, ErrCountAppend
  <2> QED BY <1>1, <1>2, <2>1
<1>4. ErrCount(Append(s, ErrFrame)) = ErrCount(s) + 1
  <2>1. ErrCount(Append(s, ErrFrame)) = ErrCount(s) + IF ErrFrame = ErrFrame THEN 1 ELSE 0
    BY <1>1, ErrCountAppend
  <2> QED BY <2>1
<1>5. ErrCount(Append(Append(s, ErrFrame), DONE)) = ErrCount(s) + 1
  <2> DEFINE u == Append(s, ErrFrame)
  <2>1. u \in Seq(Items) /\ ErrCount(u) = ErrCount(s) + 1
    BY <1>2, <1>4
  <2> HIDE DEF u
  <2>2. ErrCount(Append(u, DONE)) = ErrCount(u) + IF DONE = ErrFrame THEN 1 ELSE 0
    BY <1>1, <2>1, ErrCountAppend
  <2>3. ErrCount(Append(u, DONE)) = ErrCount(s) + 1
    BY <1>1, <1>2, <2>1, <2>2
  <2> QED BY <2>3 DEF u
<1>6. t = s \/ t = Append(s, DONE) \/ t = Append(s, ErrFrame) \/ t = Append(Append(s, ErrFrame), DONE)
  BY DEF Ending
<1>7. ErrCount(t) = ErrCount(s) \/ ErrCount(t) = ErrCount(s) + 1
  BY <1>3, <1>4, <1>5, <1>6
<1>8. t \in {s, Append(s, DONE)} => ErrCount(t) = ErrCount(s)
  BY <1>3
<1> QED BY <1>2, <1>7, <1>8

FailCounters == {"upstream_errors", "first_token_timeouts", "chunk_idle_timeouts"}

LEMMA FailuresGrow ==
    ASSUME TypeOK, Grown
    PROVE  /\ Failures \in Nat /\ Failures' \in Nat /\ Failures' >= Failures
           /\ \A c \in FailCounters : METRICS'[c] = METRICS[c] + 1 => Failures' >= Failures + 1
<1>1. FailCounters \subseteq Counters \ {"active_streams"}
  BY CountersHave DEF FailCounters
<1>2. \A c \in FailCounters : METRICS[c] \in Nat /\ METRICS'[c] \in Nat /\ METRICS'[c] >= METRICS[c]
  BY <1>1 DEF TypeOK, Grown
<1> QED BY <1>2 DEF Failures, FailCounters

(* A step keeps the balance when what it adds to the queue, or owes, is    *)
(* counted in the same step.                                               *)
LEMMA Balanced ==
    ASSUME TypeOK, Counted, Grown, q' \in Seq(Items), wire'.errs = wire.errs,
           Reading' => Reading /\ \/ ErrCount(q') + Owed' <= ErrCount(q) + Owed
                                  \/ /\ ErrCount(q') + Owed' <= ErrCount(q) + Owed + 1
                                     /\ \E c \in FailCounters : METRICS'[c] = METRICS[c] + 1
    PROVE  Counted'
<1>1. /\ wire.errs \in Nat /\ ErrCount(q) \in Nat /\ ErrCount(q') \in Nat
      /\ Owed \in Nat /\ Owed' \in Nat
  BY ErrCountNat DEF TypeOK, Owed
<1>2. /\ Failures \in Nat /\ Failures' \in Nat /\ Failures' >= Failures
      /\ (\E c \in FailCounters : METRICS'[c] = METRICS[c] + 1) => Failures' >= Failures + 1
  BY FailuresGrow
<1>3. wire'.errs <= Failures'
  BY <1>1, <1>2 DEF Counted
<1>4. ASSUME Reading' PROVE wire'.errs + ErrCount(q') + Owed' <= Failures'
  <2>1. Reading /\ wire.errs + ErrCount(q) + Owed <= Failures
    BY <1>4 DEF Counted
  <2> DEFINE e1 == ErrCount(q)
             e2 == ErrCount(q')
             o1 == Owed
             o2 == Owed'
             f1 == Failures
             f2 == Failures'
  <2>2. \/ e2 + o2 <= e1 + o1 /\ f2 >= f1
        \/ e2 + o2 <= e1 + o1 + 1 /\ f2 >= f1 + 1
    BY <1>2, <1>4
  <2>3. wire.errs + e1 + o1 <= f1 /\ wire'.errs = wire.errs
    BY <2>1
  <2>4. e1 \in Nat /\ e2 \in Nat /\ o1 \in Nat /\ o2 \in Nat /\ f1 \in Nat /\ f2 \in Nat
    BY <1>1, <1>2
  <2> HIDE DEF e1, e2, o1, o2, f1, f2
  <2>5. wire'.errs + e2 + o2 <= f2
    BY <1>1, <2>2, <2>3, <2>4
  <2> QED BY <2>5 DEF e2, o2, f2
<1> QED BY <1>3, <1>4 DEF Counted

LEMMA InitCounted == Init => Counted
<1> SUFFICES ASSUME Init PROVE Counted
  OBVIOUS
<1>1. /\ q = <<>> /\ Len(q) = 0 /\ pc["producer"] = "none" /\ wire.errs = 0
      /\ METRICS["upstream_errors"] = 0 /\ METRICS["first_token_timeouts"] = 0
      /\ METRICS["chunk_idle_timeouts"] = 0
  BY EmptySeq, CountersHave DEF Init, Tasks
<1>2. ErrCount(q) = 0
  <2>1. ErrAt(q) = {}
    BY <1>1 DEF ErrAt
  <2> QED BY <2>1, FS_EmptySet DEF ErrCount
<1>3. Failures = 0 /\ Owed = 0
  BY <1>1 DEF Failures, Owed
<1> QED BY <1>1, <1>2, <1>3 DEF Counted

LEMMA MainCounted == ASSUME TypeOK, Phases, Counted, MainStep PROVE Counted'
<1> USE DEF engine, outside, grants
<1>0. wire \in WireType /\ q \in Seq(Items) /\ Grown /\ q' \in Seq(Items) /\ ErrCount(q) \in Nat
  BY MainGrows, QueueStays, ErrCountNat DEF TypeOK, WireType, Next
<1>1. CASE MainFirstTokenTimeout
  <2>1. FinishErr /\ pc["main"] = "ttft" /\ wire' = wire
    BY <1>1 DEF MainFirstTokenTimeout
  <2>2. q' \in Ending(q)
        /\ METRICS'["first_token_timeouts"] = METRICS["first_token_timeouts"] + 1
    BY <2>1, FinishErrFacts DEF Ending
  <2>3. pc'["producer"] = pc["producer"] /\ pc'["consumer"] = pc["consumer"]
    BY <1>1, PcType DEF MainFirstTokenTimeout, Tasks
  <2>4. Owed' = Owed /\ Owed \in Nat /\ (Reading' => Reading)
    BY <2>3 DEF Owed, Reading
  <2>5. ErrCount(q') \in Nat /\ ErrCount(q') <= ErrCount(q) + 1
    BY <1>0, <2>2, ErrCountEnding
  <2>6. ErrCount(q') + Owed' <= ErrCount(q) + Owed + 1
    BY <1>0, <2>4, <2>5
  <2> QED BY <1>0, <2>1, <2>2, <2>4, <2>6, Balanced DEF FailCounters
<1>2. CASE MainConsumerRaised
  <2>1. ~Reading' /\ wire' = wire
    BY <1>2, PcType DEF MainConsumerRaised, Reading, Tasks
  <2> QED BY <1>0, <2>1, Balanced
<1>3. CASE ~MainFirstTokenTimeout /\ ~MainConsumerRaised
  <2>1. q' = q /\ pc'["producer"] \in {pc["producer"], "connect"}
        /\ (Reading' => Reading)
    BY <1>3, PcType DEF MainStep, MainPrepared, MainPrepareFails, MainFirstSeen, MainTimerFires,
       MainDrained, MainEofAfterRaise, MainCancelled, MainEof, Cleanup, Phases, Others, Reading, Tasks
  <2>2. wire'.errs = wire.errs
    BY <1>0, <1>3 DEF MainStep, MainPrepared, MainPrepareFails, MainFirstSeen, MainTimerFires,
       MainDrained, MainEofAfterRaise, MainCancelled, MainEof, Cleanup, WireType
  <2>3. Owed' <= Owed /\ Owed' \in Nat /\ Owed \in Nat
    BY <2>1 DEF Owed
  <2>4. ErrCount(q') + Owed' <= ErrCount(q) + Owed
    BY <1>0, <2>1, <2>3
  <2> QED BY <1>0, <2>1, <2>2, <2>4, Balanced
<1> QED BY <1>1, <1>2, <1>3

LEMMA ProducerCounted == ASSUME TypeOK, Phases, Counted, ProducerStep PROVE Counted'
<1> USE DEF engine, outside, grants
<1>0. /\ wire \in WireType /\ q \in Seq(Items) /\ Grown /\ q' \in Seq(Items) /\ ErrCount(q) \in Nat
      /\ METRICS \in [Counters -> Nat]
  BY ProducerGrows, QueueStays, ErrCountNat DEF TypeOK, WireType, Next
<1>1. UNCHANGED wire /\ (Reading' <=> Reading)
  <2>1. PICK l \in {"connect", "backoff", "reject", "first", "put", "read", "finally", "done"} :
             pc' = [pc EXCEPT !["producer"] = l]
    BY ProducerActs
  <2> QED BY <2>1, ProducerActs, PcType DEF Tasks, Reading
<1>2. CASE ConnectRejected
  <2>1. /\ q' = q /\ Owed = 0 /\ Owed' = 1
        /\ METRICS'["upstream_errors"] = METRICS["upstream_errors"] + 1
    BY <1>0, <1>2, PcType, CountersHave, CountGrows DEF ConnectRejected, ProducerAt, ProducerGoes,
       Owed, Tasks
  <2>2. ErrCount(q') + Owed' <= ErrCount(q) + Owed + 1
    BY <1>0, <2>1
  <2> QED BY <1>0, <1>1, <2>1, <2>2, Balanced DEF FailCounters
<1>3. CASE RejectedBodyRead
  <2>1. /\ q' \in Ending(q) /\ pc["producer"] = "reject"
        /\ pc'["producer"] \in {"finally", "done"}
    BY <1>3, PcType DEF RejectedBodyRead, Finally, PutFrame, ProducerAt, ProducerGoes, Ending, Tasks
  <2>2. Owed = 1 /\ Owed' = 0
    BY <2>1 DEF Owed
  <2>3. ErrCount(q') \in Nat /\ ErrCount(q') <= ErrCount(q) + 1
    BY <1>0, <2>1, ErrCountEnding
  <2>4. ErrCount(q') + Owed' <= ErrCount(q) + Owed
    BY <1>0, <2>2, <2>3
  <2> QED BY <1>0, <1>1, <2>4, Balanced
<1>4. CASE \/ ConnectFails \/ FirstReadTimeout \/ ChunkIdle \/ ReadFails
  <2>1. PICK c \in FailCounters : ProducerFails(c)
    BY <1>4 DEF ConnectFails, FirstReadTimeout, ChunkIdle, ReadFails, FailCounters
  <2>2. METRICS'[c] = METRICS[c] + 1
    BY <2>1, CountersHave, ProducerFailsFacts DEF FailCounters
  <2>3. q' \in Ending(q) /\ pc'["producer"] \in {"finally", "done"}
    BY <2>1, PcType DEF ProducerFails, Finally, PutFrame, ProducerGoes, Ending, Tasks
  <2>4. Owed \in Nat /\ Owed' = 0
    BY <2>3 DEF Owed
  <2>5. ErrCount(q') \in Nat /\ ErrCount(q') <= ErrCount(q) + 1
    BY <1>0, <2>3, ErrCountEnding
  <2>6. ErrCount(q') + Owed' <= ErrCount(q) + Owed + 1
    BY <1>0, <2>4, <2>5
  <2> QED BY <1>0, <1>1, <2>1, <2>2, <2>6, Balanced
<1>5. CASE \/ ConnectOk \/ ConnectRetry \/ Backoff \/ FirstChunk \/ NextChunk
           \/ EngineEnds \/ PutUnblocks \/ ProducerCancelled
  <2>1. pc'["producer"] # "reject"
    BY <1>5, PcType DEF ConnectOk, ConnectRetry, Backoff, FirstChunk, NextChunk, EngineEnds,
       PutUnblocks, ProducerCancelled, Pump, Finally, ProducerGoes, Tasks
  <2>2. Owed' = 0 /\ Owed \in Nat
    BY <2>1 DEF Owed
  <2>3. \/ q' \in {q, Append(q, DONE)}
        \/ \E n \in 0 .. Window - 1 : q' = Append(q, Data(n))
    <3>1. rx \in 0 .. Window - 1 /\ rx \in Nat
      BY WindowIsNat DEF TypeOK
    <3>2. Succ(0) \in 0 .. Window - 1 /\ Succ(rx) \in 0 .. Window - 1
      BY <3>1, SuccType
    <3> QED BY <1>5, <3>1, <3>2 DEF ConnectOk, ConnectRetry, Backoff, FirstChunk, NextChunk,
           EngineEnds, PutUnblocks, ProducerCancelled, Pump, Finally
  <2>4. ErrCount(q') = ErrCount(q)
    <3>1. CASE q' \in {q, Append(q, DONE)}
      <4>1. q' \in Ending(q)
        BY <3>1 DEF Ending
      <4> QED BY <1>0, <3>1, <4>1, ErrCountEnding
    <3>2. CASE \E n \in 0 .. Window - 1 : q' = Append(q, Data(n))
      <4>1. PICK n \in 0 .. Window - 1 : q' = Append(q, Data(n))
        BY <3>2
      <4>2. Data(n) \in Items /\ Data(n) # ErrFrame
        BY Frames
      <4>3. ErrCount(q') = ErrCount(q) + IF Data(n) = ErrFrame THEN 1 ELSE 0
        BY <1>0, <4>1, <4>2, ErrCountAppend
      <4> QED BY <1>0, <4>2, <4>3
    <3> QED BY <2>3, <3>1, <3>2
  <2>5. ErrCount(q') + Owed' <= ErrCount(q) + Owed
    BY <1>0, <2>2, <2>4
  <2> QED BY <1>0, <1>1, <2>5, Balanced
<1> QED BY <1>2, <1>3, <1>4, <1>5 DEF ProducerStep

LEMMA ConsumerCounted == ASSUME TypeOK, Phases, Counted, ConsumerStep PROVE Counted'
<1> USE DEF engine, outside, grants
<1>0. /\ wire \in WireType /\ q \in Seq(Items) /\ Grown /\ q' \in Seq(Items) /\ ErrCount(q) \in Nat
      /\ ErrCount(q') \in Nat
  BY ConsumerGrows, QueueStays, ErrCountNat DEF TypeOK, WireType, Next
<1>1. PICK l \in {"get", "write", "done", "raised"} :
           /\ pc' = [pc EXCEPT !["consumer"] = l]
           /\ \/ "consumer" \in cancelled /\ "consumer" \notin cancelled' /\ l = "done"
              \/ "consumer" \notin cancelled /\ pc["consumer"] \in {"get", "write"}
  BY ConsumerActs
<1>2. pc'["producer"] = pc["producer"] /\ pc'["consumer"] = l
  BY <1>1, PcType DEF Tasks
<1>3. Owed' = Owed /\ Owed \in Nat
  BY <1>2 DEF Owed
<1>4. CASE l \in {"done", "raised"}
  <2>1. wire' = wire
    BY <1>1, <1>2, <1>4, PcType DEF ConsumerStep, ConsumerTake, ConsumerWritten, ConsumerWriteTimeout,
       ConsumerConnectionLost, ConsumerCancelled, ConsumerGoes, Tasks
  <2>2. ~Reading'
    BY <1>2, <1>4 DEF Reading
  <2> QED BY <1>0, <2>1, <2>2, Balanced
<1>5. CASE l = "get"
  <2>1. UNCHANGED <<q, wire>> /\ Reading
    BY <1>1, <1>2, <1>5, PcType DEF ConsumerStep, ConsumerTake, ConsumerWritten,
       ConsumerWriteTimeout, ConsumerConnectionLost, ConsumerCancelled, ConsumerGoes, Tasks, Reading
  <2>2. ErrCount(q') + Owed' <= ErrCount(q) + Owed
    BY <1>0, <1>3, <2>1
  <2> QED BY <1>0, <2>1, <2>2, Balanced
<1>6. CASE l = "write"
  <2>1. q # <<>> /\ q' = Tail(q) /\ wire' = Handed(Head(q)) /\ Reading
    BY <1>1, <1>2, <1>6, PcType DEF ConsumerStep, ConsumerTake, ConsumerWritten, ConsumerWriteTimeout,
       ConsumerConnectionLost, ConsumerCancelled, ConsumerGoes, Tasks, Reading
  <2>2. Head(q) \in Items
    BY <1>0, <2>1, TailFacts
  <2>3. wire'.errs = IF Head(q) = ErrFrame THEN wire.errs + 1 ELSE wire.errs
    BY <1>0, <2>1, <2>2, HandedType, ItemKinds
  <2>4. ErrCount(q') + (IF Head(q) = ErrFrame THEN 1 ELSE 0) <= ErrCount(q)
    BY <1>0, <2>1, ErrCountTail
  <2>5. wire.errs + ErrCount(q) + Owed <= Failures
    BY <2>1 DEF Counted
  <2>6. Failures \in Nat /\ Failures' \in Nat /\ Failures' >= Failures /\ wire.errs \in Nat
    BY <1>0, FailuresGrow DEF WireType
  <2> DEFINE e1 == ErrCount(q)
             e2 == ErrCount(q')
             o  == Owed
             f1 == Failures
             f2 == Failures'
             w1 == wire.errs
             w2 == wire'.errs
  <2>7. /\ {e1, e2, o, f1, f2, w1} \subseteq Nat /\ f2 >= f1 /\ w1 + e1 + o <= f1
        /\ (w2 = w1 + 1 /\ e2 + 1 <= e1) \/ (w2 = w1 /\ e2 <= e1)
    <3>1. CASE Head(q) = ErrFrame
      BY <1>0, <1>3, <2>3, <2>4, <2>5, <2>6, <3>1
    <3>2. CASE Head(q) # ErrFrame
      BY <1>0, <1>3, <2>3, <2>4, <2>5, <2>6, <3>2
    <3> QED BY <3>1, <3>2
  <2> HIDE DEF e1, e2, o, f1, f2, w1, w2
  <2>8. w2 + e2 + o <= f2 /\ w2 <= f2
    BY <2>7
  <2> QED BY <1>3, <2>8 DEF Counted, e2, o, f2, w2
<1> QED BY <1>4, <1>5, <1>6

LEMMA OtherCounted ==
    ASSUME TypeOK, Phases, Counted,
           HeartbeatBeats \/ HeartbeatCancelled \/ ClientLeaves \/ TotalElapses \/ ServerCancels
           \/ UNCHANGED vars
    PROVE  Counted'
<1> USE DEF engine, outside, grants
<1>0. q \in Seq(Items) /\ Grown /\ ErrCount(q) \in Nat
  BY Grows, ErrCountNat DEF TypeOK, Next
<1>1. /\ UNCHANGED wire /\ pc'["producer"] = pc["producer"] /\ pc'["consumer"] = pc["consumer"]
      /\ q' = q \/ q' = Append(q, HEARTBEAT)
  BY PcType DEF HeartbeatBeats, HeartbeatCancelled, ClientLeaves, TotalElapses, ServerCancels, vars,
     Tasks
<1>2. HEARTBEAT \in Items /\ HEARTBEAT # ErrFrame
  BY Frames
<1>3. ErrCount(Append(q, HEARTBEAT)) = ErrCount(q) + IF HEARTBEAT = ErrFrame THEN 1 ELSE 0
  BY <1>0, <1>2, ErrCountAppend
<1>4. ErrCount(q') = ErrCount(q) /\ q' \in Seq(Items)
  <2>1. CASE q' = q
    BY <1>0, <2>1
  <2>2. CASE q' = Append(q, HEARTBEAT)
    <3>1. ErrCount(Append(q, HEARTBEAT)) = ErrCount(q)
      BY <1>0, <1>2, <1>3
    <3> QED BY <1>0, <1>2, <2>2, <3>1, AppendFacts
  <2> QED BY <1>1, <2>1, <2>2
<1>5. Owed' = Owed /\ Owed \in Nat /\ (Reading' <=> Reading)
  BY <1>1 DEF Owed, Reading
<1>6. ErrCount(q') + Owed' <= ErrCount(q) + Owed
  BY <1>0, <1>4, <1>5
<1> QED BY <1>0, <1>1, <1>4, <1>5, <1>6, Balanced

LEMMA StepCounted == TypeOK /\ Phases /\ Counted /\ [Next]_vars => Counted'
  BY MainCounted, ProducerCounted, ConsumerCounted, OtherCounted DEF Next

LEMMA AllCounted == Spec => []Counted
<1>1. Init => TypeOK /\ Phases /\ Counted
  BY InitTypes, InitPhases, InitCounted
<1>2. TypeOK /\ Phases /\ Counted /\ [Next]_vars => (TypeOK /\ Phases /\ Counted)'
  BY StepTypes, StepPhases, StepCounted
<1> QED BY <1>1, <1>2, PTL DEF Spec

(* What the client was told and what the operator can read: never more     *)
(* error frames than counted failures, and a counted failure of a stream   *)
(* that ended cleanly and short shows, or a counter of a cut explains why  *)
(* it does not.                                                            *)
THEOREM ErrorFramesAreCounted == Spec => []ErrorFramesMatchCounters
<1>1. Counted /\ TruncationIsAttributable /\ TypeOK => ErrorFramesMatchCounters
  <2> SUFFICES ASSUME Counted, TruncationIsAttributable, TypeOK PROVE ErrorFramesMatchCounters
    OBVIOUS
  <2>1. wire.errs \in Nat
    BY DEF TypeOK
  <2> QED BY <2>1 DEF Counted, TruncationIsAttributable, ErrorFramesMatchCounters
<1> QED BY <1>1, AllCounted, TypeCorrect, TruncationsAreAttributable, PTL

-----------------------------------------------------------------------------
(* The client's view.                                                      *)

ClientPhase == IF wire.end # "open" THEN "ended"
               ELSE IF wire.errs > 0 THEN "failed" ELSE "answering"

LEMMA InitView == Init => View!ViewInit
  BY DEF Init, View!ViewInit

(* Only the handler's last step and a frame handed over change the view.   *)
LEMMA StepView ==
    ASSUME TypeOK, Phases, Order, Silence, [Next]_vars
    PROVE  [View!ViewNext]_(View!viewVars)
<1> USE DEF engine, outside, grants
<1>0. wire \in WireType /\ q \in Seq(Items) /\ wire.errs \in Nat
  BY DEF TypeOK, WireType
<1>1. CASE UNCHANGED wire
  BY <1>1 DEF View!viewVars
<1>2. CASE MainPrepareFails \/ MainEof
  <2>1. PICK end \in {"eof", "closed"} : wire' = [wire EXCEPT !.end = end]
    BY <1>2 DEF MainPrepareFails, MainEof
  <2>2. /\ wire'.end # "open" /\ wire'.last = wire.last
        /\ pc["main"] \in {"prepare", "eof", "eof_raise"}
    BY <1>0, <1>2, <2>1 DEF WireType, MainPrepareFails, MainEof
  <2>3. wire.end = "open"
    BY <2>2 DEF Phases
  <2>4. ClientPhase' = "ended" /\ ClientPhase # "ended"
    BY <2>2, <2>3 DEF ClientPhase
  <2> QED BY <2>2, <2>4 DEF View!ViewNext, View!End, ClientPhase
<1>3. CASE ConsumerTake /\ wire' # wire
  <2>1. q # <<>> /\ wire' = Handed(Head(q)) /\ pc["consumer"] = "get" /\ "consumer" \notin cancelled
    BY <1>3 DEF ConsumerTake, ConsumerAt
  <2>2. Head(q) \in Items
    BY <1>0, <2>1, TailFacts
  <2>3. /\ wire'.end = wire.end
        /\ wire'.last = IF Head(q).kind = "data" THEN Head(q).n ELSE wire.last
        /\ wire'.errs = IF Head(q).kind = "error" THEN wire.errs + 1 ELSE wire.errs
    BY <1>0, <2>1, <2>2, HandedType
  <2>4. wire.end = "open" /\ Reading
    BY <2>1 DEF Phases, Others, Closing, Over, Reading
  <2>5. CASE Head(q).kind = "data"
    <3>1. q[1] = Head(q) /\ 1 \in 1 .. Len(q)
      BY <1>0, <2>1, TailFacts
    <3>2. wire.errs = 0
      BY <1>0, <2>4, <2>5, <3>1 DEF Silence, IsData
    <3>3. PICK m \in 0 .. Window - 1 : Linked(q, wire.last, m)
      BY <2>4 DEF Order
    <3>4. wire'.last = (wire.last + 1) % Window
      BY <1>0, <2>1, <2>3, <2>5, <3>3, LinkedTail DEF IsData, Succ
    <3>5. ClientPhase = "answering" /\ ClientPhase' = "answering"
      BY <2>3, <2>4, <2>5, <3>2 DEF ClientPhase
    <3> QED BY <3>4, <3>5 DEF View!ViewNext, View!Chunk, ClientPhase
  <2>6. CASE Head(q).kind = "error"
    <3>1. wire'.errs > 0 /\ wire'.last = wire.last
      BY <1>0, <2>3, <2>6
    <3>2. ClientPhase \in {"answering", "failed"} /\ ClientPhase' = "failed"
      BY <2>3, <2>4, <3>1 DEF ClientPhase
    <3> QED BY <3>1, <3>2 DEF View!ViewNext, View!Fail, View!viewVars, ClientPhase
  <2>7. CASE Head(q).kind \notin {"data", "error"}
    BY <2>3, <2>7 DEF View!viewVars
  <2> QED BY <2>5, <2>6, <2>7
<1>4. UNCHANGED wire \/ MainPrepareFails \/ MainEof \/ (ConsumerTake /\ wire' # wire)
  <2>1. MainStep => UNCHANGED wire \/ MainPrepareFails \/ MainEof
    BY DEF MainStep, MainPrepared, MainFirstSeen, MainTimerFires, MainFirstTokenTimeout,
       MainDrained, MainConsumerRaised, MainEofAfterRaise, MainCancelled, Cleanup
  <2>2. ProducerStep => UNCHANGED wire
    BY ProducerActs
  <2>3. ConsumerStep => UNCHANGED wire \/ ConsumerTake
    BY DEF ConsumerStep, ConsumerWritten, ConsumerWriteTimeout, ConsumerConnectionLost,
       ConsumerCancelled
  <2> QED BY <2>1, <2>2, <2>3 DEF Next, vars, HeartbeatBeats, HeartbeatCancelled, ClientLeaves,
         TotalElapses, ServerCancels
<1> QED BY <1>1, <1>2, <1>3, <1>4

(* Every run of a stream is one the client's contract allows: chunks in    *)
(* the engine's order with none missing, none after an error frame, and    *)
(* nothing after the end.                                                  *)
THEOREM ImplementsClientView == Spec => ViewSpec
<1>1. TypeOK /\ Phases /\ Order /\ Silence /\ [Next]_vars => [View!ViewNext]_(View!viewVars)
  BY StepView
<1> QED BY <1>1, InitView, Stream, PTL DEF Spec, ViewSpec, View!ViewSpec
===============================================================================
