----------------------------- MODULE RoceOneshot ------------------------------
(***************************************************************************)
(* The one-shot all-reduce over RDMA of b12x/comm/roce: on every rank a    *)
(* kernel of several blocks, a proxy thread polling a doorbell, and one    *)
(* reliable queue pair per peer and HCA writing into the peer's memory.    *)
(*                                                                         *)
(* Nothing is acknowledged between ranks: with two slots per peer, all     *)
(* that keeps a slot from being overwritten too early is that no rank      *)
(* gets two operations ahead of another.                                   *)
(*                                                                         *)
(* A pack holds the number of the operation whose data it is (0: none);    *)
(* the rank it comes from follows from where it is.  A block is one        *)
(* process: its threads meet at barriers, and a flag equal to the awaited  *)
(* sequence number stays so until the rank is done with the operation, so  *)
(* "every thread saw its flag" is one step.  An arrival counter is kept    *)
(* modulo its grid, a divisor of 2^32.  The all-gather kernel runs the     *)
(* same protocol.                                                          *)
(***************************************************************************)
EXTENDS Naturals, Sequences, FiniteSets

CONSTANTS
    World,      (* world size; the ranks are 0 .. World - 1                *)
    Hcas,       (* HCAs per rank                                           *)
    MaxOps,     (* bound: collectives per rank                             *)
    Packs,      (* Packs[k]: 16-byte packs of operation k, on every rank   *)
    SlotPacks,  (* packs a slot holds                                      *)
    Threads,    (* packs one block handles per stride                      *)
    MaxBlocks,  (* largest grid, a power of two                            *)
    Grids,      (* the powers of two up to MaxBlocks                       *)
    Word,       (* 2^32 in the code: modulus of the sequence numbers       *)
    Faults,     (* what may go wrong: of "leave", "link", "late"         *)
    Depth       (* ROCE_SEND_DEPTH / 4                                     *)

ASSUME RoceAssumption ==
    /\ World \in Nat \ {0, 1} /\ Hcas \in Nat \ {0} /\ MaxOps \in Nat
    /\ SlotPacks \in Nat
    /\ Packs \in [1 .. MaxOps -> 1 .. SlotPacks]
    /\ Threads \in Nat \ {0} /\ Depth \in Nat \ {0}
    /\ Word \in Nat /\ Word > 2 /\ Word % 2 = 0
    /\ MaxBlocks \in Nat /\ Grids \subseteq 1 .. MaxBlocks /\ MaxBlocks \in Grids

VARIABLES
    (* the host of a rank, and its stream                                  *)
    host, launched, accepted,
    (* the device: its words, its arrival counters and its blocks          *)
    epoch, poison, stageCount, tailCount, pc, seq, exact,
    (* the pinned region: control record, slots and flags                  *)
    door, nbytes, error, send, recv, flag,
    (* the proxy thread and the queue pairs                                *)
    proxy, lastSeq, target, at, size, wire

hostVars == <<host, launched, accepted>>
deviceVars == <<epoch, poison, stageCount, tailCount, pc, seq, exact>>
regionVars == <<door, nbytes, error, send, recv, flag>>
proxyVars == <<proxy, lastSeq, target, at, size>>
vars == <<hostVars, deviceVars, regionVars, proxyVars, wire>>

Ranks == 0 .. World - 1
Peers(r) == Ranks \ {r}
HcaIds == 1 .. Hcas
PackIds == 0 .. SlotPacks - 1
Blank == [j \in PackIds |-> 0]
Blocks == 0 .. MaxBlocks - 1
Slots == {0, 1}
Slot(s) == s % 2
Succ(s) == IF s + 1 = Word THEN 0 ELSE s + 1
Behind(s, t) == IF t >= s THEN t - s ELSE t + Word - s   (* t - s, unsigned *)

(* _grid_blocks: about two packs per thread, rounded up to a power of two. *)
GridOf(n) ==
    LET required == (n + 2 * Threads - 1) \div (2 * Threads)
        fit == {g \in Grids : g >= required}
    IN  IF fit = {} THEN MaxBlocks ELSE CHOOSE g \in fit : \A f \in fit : g <= f

Grid(r) == GridOf(Packs[launched[r]])
PacksOf(r, b) ==
    {j \in 0 .. Packs[launched[r]] - 1 : (j \div Threads) % Grid(r) = b}

(* The packs that HCA h of n carries: contiguous, the first ones longer.   *)
StripeEnd(h, n) ==
    h * (n \div Hcas) + (IF h < n % Hcas THEN h ELSE n % Hcas)
Stripe(h, n) == StripeEnd(h - 1, n) .. StripeEnd(h, n) - 1

NextPeer(r, p) == IF p + 1 = r THEN p + 2 ELSE p + 1
FirstPlace(r) == <<IF r = 0 THEN 1 ELSE 0, 1>>
NextPlace(r, x) ==
    IF x[2] < Hcas THEN <<x[1], x[2] + 1>> ELSE <<NextPeer(r, x[1]), 1>>

Idle(r) == \A b \in Blocks : pc[r][b] = "exit"
Healthy(r) == error[r] = 0 /\ proxy[r] # "failed"

Init ==
    /\ host = [r \in Ranks |-> "up"]
    /\ launched = [r \in Ranks |-> 0] /\ accepted = [r \in Ranks |-> 0]
    /\ epoch = [r \in Ranks |-> 0] /\ poison = [r \in Ranks |-> 0]
    /\ stageCount = [r \in Ranks |-> [g \in Grids |-> 0]]
    /\ tailCount = [r \in Ranks |-> [g \in Grids |-> 0]]
    /\ pc = [r \in Ranks |-> [b \in Blocks |-> "exit"]]
    /\ seq = [r \in Ranks |-> [b \in Blocks |-> 0]]
    /\ exact = [r \in Ranks |-> [k \in 1 .. MaxOps |-> {}]]
    /\ door = [r \in Ranks |-> 0] /\ error = [r \in Ranks |-> 0]
    /\ nbytes = [r \in Ranks |-> [s \in Slots |-> 0]]
    /\ send = [r \in Ranks |-> [s \in Slots |-> Blank]]
    /\ recv = [r \in Ranks |-> [p \in Ranks |-> [s \in Slots |-> Blank]]]
    /\ flag = [r \in Ranks |-> [p \in Ranks |-> [s \in Slots |-> [h \in HcaIds |-> 0]]]]
    /\ proxy = [r \in Ranks |-> "poll"]
    /\ lastSeq = [r \in Ranks |-> 0] /\ target = [r \in Ranks |-> 0]
    /\ at = [r \in Ranks |-> FirstPlace(r)] /\ size = [r \in Ranks |-> 0]
    /\ wire = [r \in Ranks |-> [p \in Ranks |-> [h \in HcaIds |-> <<>>]]]
-----------------------------------------------------------------------------
(* The host and the stream.  Kernels of a rank run one after the other; a  *)
(* captured graph launches its kernels whatever the state of the runtime.  *)

Launch(r) ==
    /\ host[r] = "up" /\ Idle(r) /\ launched[r] < MaxOps
    /\ launched' = [launched EXCEPT ![r] = @ + 1]
    /\ pc' = [pc EXCEPT ![r] = [b \in Blocks |->
                 IF b < Grid(r)' THEN "begin" ELSE "exit"]]
    /\ UNCHANGED <<host, accepted, epoch, poison, stageCount, tailCount, seq,
                   exact, regionVars, proxyVars, wire>>

(* synchronize_and_check_roce: the host takes the results of a pass when   *)
(* its copy_done event, or the whole device, has finished and the proxy    *)
(* and the error word show no failure; with overlap a later kernel runs.   *)
Finished(r) == IF Idle(r) THEN launched[r] ELSE launched[r] - 1
Results(r) == accepted[r] + 1 .. Finished(r)
Accept_Unchecked(r) ==
    /\ host[r] = "up"
    /\ \E n \in Results(r) : accepted' = [accepted EXCEPT ![r] = n]
    /\ UNCHANGED <<host, launched, deviceVars, regionVars, proxyVars, wire>>
Accept(r) ==
    /\ host[r] = "up" /\ Results(r) # {}
    /\ IF Healthy(r)
       THEN /\ \E n \in Results(r) : accepted' = [accepted EXCEPT ![r] = n]
            /\ UNCHANGED host
       ELSE host' = [host EXCEPT ![r] = "raised"] /\ UNCHANGED accepted
    /\ UNCHANGED <<launched, deviceVars, regionVars, proxyVars, wire>>

(* A rank leaves: its process dies at any point, or close() ends its proxy *)
(* and its queue pairs, which waits for the device but not for doorbells   *)
(* the proxy has not seen.                                                 *)
Leave(r) ==
    /\ "leave" \in Faults /\ host[r] # "gone"
    /\ host' = [host EXCEPT ![r] = "gone"]
    /\ pc' = [pc EXCEPT ![r] = [b \in Blocks |-> "exit"]]
    /\ proxy' = [proxy EXCEPT ![r] = "closed"]
    /\ wire' = [wire EXCEPT ![r] = [p \in Ranks |-> [h \in HcaIds |-> <<>>]]]
    /\ UNCHANGED <<launched, accepted, epoch, poison, stageCount, tailCount, seq,
                   exact, regionVars, lastSeq, target, at, size>>

-----------------------------------------------------------------------------
(* The kernel.                                                             *)

Go(r, b, label) == pc' = [pc EXCEPT ![r][b] = label]

(* A block reads epoch and poison, and stages its packs into a send slot.  *)
Stage(r, b) ==
    LET s == Succ(epoch[r]) IN
    /\ pc[r][b] = "begin"
    /\ seq' = [seq EXCEPT ![r][b] = s]
    /\ \/ /\ poison[r] = 0
          /\ send' = [send EXCEPT ![r][Slot(s)] = [j \in PackIds |->
                         IF j \in PacksOf(r, b) THEN launched[r] ELSE @[j]]]
          /\ Go(r, b, "arrive")
       \/ /\ poison[r] # 0
          /\ Go(r, b, "tail")
          /\ UNCHANGED send
    /\ UNCHANGED <<hostVars, epoch, poison, stageCount, tailCount, exact, door,
                   nbytes, error, recv, flag, proxyVars, wire>>

Tick(count, g) == IF count + 1 = g THEN 0 ELSE count + 1

(* The last block to arrive publishes the size and rings the doorbell.     *)
Arrive(r, b) ==
    LET g == Grid(r)
        s == seq[r][b]
    IN
    /\ pc[r][b] = "arrive"
    /\ stageCount' = [stageCount EXCEPT ![r][g] = Tick(@, g)]
    /\ \/ /\ stageCount'[r][g] = 0
          /\ nbytes' = [nbytes EXCEPT ![r][Slot(s)] = Packs[launched[r]]]
          /\ door' = [door EXCEPT ![r] = s]
       \/ /\ stageCount'[r][g] # 0
          /\ UNCHANGED <<nbytes, door>>
    /\ Go(r, b, "wait")
    /\ UNCHANGED <<hostVars, epoch, poison, tailCount, seq, exact, error, send,
                   recv, flag, proxyVars, wire>>

Delivered_AnyHca(r, s) ==
    \A p \in Peers(r) : \E h \in HcaIds : flag[r][p][Slot(s)][h] = s
Delivered(r, s) ==
    \A p \in Peers(r), h \in HcaIds : flag[r][p][Slot(s)][h] = s

(* Every stripe's flag is there: reduce, unless another block timed out.   *)
Pass(r, b) ==
    /\ pc[r][b] = "wait" /\ Delivered(r, seq[r][b])
    /\ Go(r, b, IF poison[r] = 0 THEN "reduce" ELSE "tail")
    /\ UNCHANGED <<hostVars, epoch, poison, stageCount, tailCount, seq, exact,
                   regionVars, proxyVars, wire>>

(* spin_limit polls without it: record the sequence number in both words,  *)
(* then read poison like any other block.                                  *)
Expire_Reduces(r, b) ==
    /\ pc[r][b] = "wait" /\ ~Delivered(r, seq[r][b]) /\ "late" \in Faults
    /\ error' = [error EXCEPT ![r] = seq[r][b]]
    /\ poison' = [poison EXCEPT ![r] = seq[r][b]]
    /\ Go(r, b, "reduce")
    /\ UNCHANGED <<hostVars, epoch, stageCount, tailCount, seq, exact, door,
                   nbytes, send, recv, flag, proxyVars, wire>>
Expire_PollsOn(r, b) ==
    /\ pc[r][b] = "wait" /\ ~Delivered(r, seq[r][b]) /\ "late" \in Faults
    /\ error' = [error EXCEPT ![r] = seq[r][b]]
    /\ poison' = [poison EXCEPT ![r] = seq[r][b]]
    /\ UNCHANGED <<hostVars, epoch, stageCount, tailCount, pc, seq, exact, door,
                   nbytes, send, recv, flag, proxyVars, wire>>
Expire(r, b) ==
    /\ pc[r][b] = "wait" /\ ~Delivered(r, seq[r][b]) /\ "late" \in Faults
    /\ error' = [error EXCEPT ![r] = seq[r][b]]
    /\ poison' = [poison EXCEPT ![r] = seq[r][b]]
    /\ Go(r, b, IF poison'[r] = 0 THEN "reduce" ELSE "tail")
    /\ UNCHANGED <<hostVars, epoch, stageCount, tailCount, seq, exact, door,
                   nbytes, send, recv, flag, proxyVars, wire>>

Reduce(r, b) ==
    LET k == launched[r]
        slot == Slot(seq[r][b])
    IN
    /\ pc[r][b] = "reduce"
    /\ exact' = [exact EXCEPT ![r][k] = @ \cup {j \in PacksOf(r, b) :
                    \A p \in Peers(r) : recv[r][p][slot][j] = k}]
    /\ Go(r, b, "tail")
    /\ UNCHANGED <<hostVars, epoch, poison, stageCount, tailCount, seq,
                   regionVars, proxyVars, wire>>

(* The last block to finish advances the epoch, unless a wait timed out.   *)
Finish(r, b) ==
    LET g == Grid(r) IN
    /\ pc[r][b] = "tail"
    /\ tailCount' = [tailCount EXCEPT ![r][g] = Tick(@, g)]
    /\ IF tailCount'[r][g] = 0 /\ error[r] = 0
       THEN epoch' = [epoch EXCEPT ![r] = seq[r][b]] ELSE UNCHANGED epoch
    /\ Go(r, b, "exit")
    /\ UNCHANGED <<hostVars, poison, stageCount, seq, exact, regionVars,
                   proxyVars, wire>>

-----------------------------------------------------------------------------
(* The proxy thread.                                                       *)

(* The doorbell is a level: post every sequence number up to it.           *)
Poll_NewestSize(r) ==
    /\ proxy[r] = "poll" /\ door[r] # lastSeq[r]
    /\ proxy' = [proxy EXCEPT ![r] = "post"]
    /\ target' = [target EXCEPT ![r] = door[r]]
    /\ size' = [size EXCEPT ![r] = nbytes[r][Slot(door[r])]]
    /\ at' = [at EXCEPT ![r] = FirstPlace(r)]
    /\ UNCHANGED <<hostVars, deviceVars, regionVars, lastSeq, wire>>
Poll_NewestOnly(r) ==
    /\ proxy[r] = "poll" /\ door[r] # lastSeq[r]
    /\ proxy' = [proxy EXCEPT ![r] = "post"]
    /\ lastSeq' = [lastSeq EXCEPT ![r] = (door[r] + Word - 1) % Word]
    /\ target' = [target EXCEPT ![r] = door[r]]
    /\ size' = [size EXCEPT ![r] = nbytes[r][Slot(door[r])]]
    /\ at' = [at EXCEPT ![r] = FirstPlace(r)]
    /\ UNCHANGED <<hostVars, deviceVars, regionVars, wire>>
Poll(r) ==
    LET s == Succ(lastSeq[r]) IN
    /\ proxy[r] = "poll" /\ door[r] # lastSeq[r]
    /\ IF Behind(lastSeq[r], door[r]) > Cardinality(Slots)
       THEN /\ proxy' = [proxy EXCEPT ![r] = "failed"]
            /\ UNCHANGED <<target, at, size>>
       ELSE /\ proxy' = [proxy EXCEPT ![r] = "post"]
            /\ target' = [target EXCEPT ![r] = door[r]]
            /\ size' = [size EXCEPT ![r] = nbytes[r][Slot(s)]]
            /\ at' = [at EXCEPT ![r] = FirstPlace(r)]
    /\ UNCHANGED <<hostVars, deviceVars, regionVars, lastSeq, wire>>

(* post_op, one queue pair at a time: a data write unless the stripe is    *)
(* empty, chained to a flag write.  After the last one, the next doorbell. *)
Post_Overfull(r) ==
    LET s == Succ(lastSeq[r])
        p == at[r][1]
        h == at[r][2]
        next == NextPlace(r, at[r])
    IN
    /\ proxy[r] = "post"
    /\ wire' = [wire EXCEPT ![r][p][h] = Append(@,
                   [seq |-> s, packs |-> Stripe(h, size[r]),
                    sent |-> Stripe(h, size[r]) = {}])]
    /\ at' = [at EXCEPT ![r] = IF next[1] \in Ranks THEN next ELSE FirstPlace(r)]
    /\ IF next[1] \in Ranks THEN UNCHANGED <<proxy, lastSeq>>
       ELSE /\ lastSeq' = [lastSeq EXCEPT ![r] = s]
            /\ proxy' = [proxy EXCEPT ![r] = "poll"]
    /\ UNCHANGED <<hostVars, deviceVars, regionVars, target, size>>
Post(r) ==
    LET s == Succ(lastSeq[r])
        p == at[r][1]
        h == at[r][2]
        next == NextPlace(r, at[r])
    IN
    /\ proxy[r] = "post" /\ Len(wire[r][p][h]) < Depth
    /\ wire' = [wire EXCEPT ![r][p][h] = Append(@,
                   [seq |-> s, packs |-> Stripe(h, size[r]),
                    sent |-> Stripe(h, size[r]) = {}])]
    /\ \/ /\ next[1] \in Ranks
          /\ at' = [at EXCEPT ![r] = next]
          /\ UNCHANGED <<proxy, lastSeq, size>>
       \/ /\ next[1] \notin Ranks
          /\ lastSeq' = [lastSeq EXCEPT ![r] = s]
          /\ at' = [at EXCEPT ![r] = FirstPlace(r)]
          /\ IF s = target[r]
             THEN proxy' = [proxy EXCEPT ![r] = "poll"] /\ UNCHANGED size
             ELSE /\ size' = [size EXCEPT ![r] = nbytes[r][Slot(Succ(s))]]
                  /\ UNCHANGED proxy
    /\ UNCHANGED <<hostVars, deviceVars, regionVars, target>>

-----------------------------------------------------------------------------
(* The NICs: a queue pair writes in order, into the memory of a live peer. *)

WriteData(r, p, h) ==
    /\ wire[r][p][h] # <<>> /\ host[p] # "gone"
    /\ LET w == Head(wire[r][p][h]) IN
       /\ ~w.sent
       /\ recv' = [recv EXCEPT ![p][r][Slot(w.seq)] = [j \in PackIds |->
                      IF j \in w.packs THEN send[r][Slot(w.seq)][j] ELSE @[j]]]
    /\ wire' = [wire EXCEPT ![r][p][h][1].sent = TRUE]
    /\ UNCHANGED <<hostVars, deviceVars, door, nbytes, error, send, flag, proxyVars>>

WriteFlag(r, p, h) ==
    /\ wire[r][p][h] # <<>> /\ host[p] # "gone"
    /\ LET w == Head(wire[r][p][h]) IN
       /\ w.sent
       /\ flag' = [flag EXCEPT ![p][r][Slot(w.seq)][h] = w.seq]
    /\ wire' = [wire EXCEPT ![r][p][h] = Tail(@)]
    /\ UNCHANGED <<hostVars, deviceVars, door, nbytes, error, send, recv, proxyVars>>

(* A completion with an error, for a lost link or a peer that has left:    *)
(* the queue pair is flushed and drain_cq ends the proxy.                  *)
WriteFails(r, p, h) ==
    /\ wire[r][p][h] # <<>> /\ ("link" \in Faults \/ host[p] = "gone")
    /\ wire' = [wire EXCEPT ![r][p][h] = <<>>]
    /\ proxy' = [proxy EXCEPT ![r] = "failed"]
    /\ UNCHANGED <<hostVars, deviceVars, regionVars, lastSeq, target, at, size>>

-----------------------------------------------------------------------------
Block(r, b) ==
    Stage(r, b) \/ Arrive(r, b) \/ Pass(r, b) \/ Reduce(r, b) \/ Finish(r, b)
Nic(r, p, h) == WriteData(r, p, h) \/ WriteFlag(r, p, h)

Next ==
    \E r \in Ranks :
        \/ Launch(r) \/ Accept(r) \/ Leave(r)
        \/ \E b \in Blocks : Block(r, b) \/ Expire(r, b)
        \/ Poll(r) \/ Post(r)
        \/ \E p \in Peers(r), h \in HcaIds : Nic(r, p, h) \/ WriteFails(r, p, h)

Spec == Init /\ [][Next]_vars
Fairness ==
    \A r \in Ranks :
        /\ WF_vars(Launch(r)) /\ WF_vars(Accept(r))
        /\ WF_vars(Poll(r)) /\ WF_vars(Post(r))
        /\ \A b \in Blocks : WF_vars(Block(r, b))
        /\ \A p \in Peers(r), h \in HcaIds : WF_vars(Nic(r, p, h))

(* Every kernel, proxy and NIC goes on running, and the host goes on using *)
(* the engine; nothing is promised of wires that fail or waits that expire. *)
FairSpec == Spec /\ Fairness

-----------------------------------------------------------------------------
(* Types; of note is that no queue holds more than Depth chained writes.   *)
TypeOK ==
    /\ host \in [Ranks -> {"up", "raised", "gone"}]
    /\ launched \in [Ranks -> 0 .. MaxOps] /\ accepted \in [Ranks -> 0 .. MaxOps]
    /\ epoch \in [Ranks -> 0 .. Word - 1] /\ poison \in [Ranks -> 0 .. Word - 1]
    /\ door \in [Ranks -> 0 .. Word - 1] /\ error \in [Ranks -> 0 .. Word - 1]
    /\ stageCount \in [Ranks -> [Grids -> 0 .. MaxBlocks - 1]]
    /\ tailCount \in [Ranks -> [Grids -> 0 .. MaxBlocks - 1]]
    /\ pc \in [Ranks -> [Blocks ->
                  {"begin", "arrive", "wait", "reduce", "tail", "exit"}]]
    /\ seq \in [Ranks -> [Blocks -> 0 .. Word - 1]]
    /\ exact \in [Ranks -> [1 .. MaxOps -> SUBSET PackIds]]
    /\ nbytes \in [Ranks -> [Slots -> 0 .. SlotPacks]]
    /\ send \in [Ranks -> [Slots -> [PackIds -> 0 .. MaxOps]]]
    /\ recv \in [Ranks -> [Ranks -> [Slots -> [PackIds -> 0 .. MaxOps]]]]
    /\ flag \in [Ranks -> [Ranks -> [Slots -> [HcaIds -> 0 .. Word - 1]]]]
    /\ proxy \in [Ranks -> {"poll", "post", "failed", "closed"}]
    /\ lastSeq \in [Ranks -> 0 .. Word - 1] /\ target \in [Ranks -> 0 .. Word - 1]
    /\ at \in [Ranks -> Ranks \X HcaIds] /\ size \in [Ranks -> 0 .. SlotPacks]
    /\ \A r, p \in Ranks, h \in HcaIds :
          /\ Len(wire[r][p][h]) <= Depth
          /\ \A i \in 1 .. Len(wire[r][p][h]) :
                wire[r][p][h][i] \in [seq : 0 .. Word - 1, packs : SUBSET PackIds,
                                      sent : BOOLEAN]

(* The proxy never finds more doorbells pending than there are slots.      *)
NoDoorbellSkipped ==
    \A r \in Ranks : Behind(lastSeq[r], door[r]) <= Cardinality(Slots)

(* The latest operation of r with sequence number s.                       *)
OpOf(r, s) == CHOOSE k \in 1 .. launched[r] :
                  k % Word = s /\ k + Word > launched[r]

(* A data write waiting in a queue will carry what its operation staged:   *)
(* the send slot is not staged again, and its size is its operation's.     *)
WiresCarryTheirOp ==
    \A r, p \in Ranks, h \in HcaIds : \A i \in 1 .. Len(wire[r][p][h]) :
        LET w == wire[r][p][h][i]
            k == OpOf(r, w.seq)
        IN  /\ w.packs = Stripe(h, Packs[k])
            /\ ~w.sent => \A j \in w.packs : send[r][Slot(w.seq)][j] = k

(* A block that reduces finds, in the slots of all peers, its operation.   *)
ReducersReadTheirOp ==
    \A r \in Ranks, b \in Blocks : pc[r][b] = "reduce" =>
        \A p \in Peers(r), j \in PacksOf(r, b) :
            recv[r][p][Slot(seq[r][b])][j] = launched[r]

Reductions ==
    INSTANCE Collective WITH
        given <- launched,
        taken <- [r \in Ranks |-> [k \in 1 .. accepted[r] |->
                     IF exact[r][k] = 0 .. Packs[k] - 1
                     THEN {<<p, k>> : p \in Ranks} ELSE {}]]
(* The runtime implements the abstract all-reduce, whatever fails: results *)
(* a host takes are sums of the same operation of all ranks.               *)
CollectiveSpec == Reductions!Spec

(* Without a failure every operation of every rank completes, although no  *)
(* write is ever acknowledged and the doorbell forgets what it rang for.   *)
Broken == \E r \in Ranks : ~Healthy(r) \/ host[r] # "up"
CollectivesComplete == <>(Broken \/ \A r \in Ranks : accepted[r] = MaxOps)

(* With a wait that is bounded no rank hangs in a kernel: whatever links,  *)
(* peers and proxies do, it finishes its operations, raises or is gone.    *)
RaisesInsteadOfHanging ==
    (\A r \in Ranks, b \in Blocks : WF_vars(Expire(r, b)))
        => \A r \in Ranks : <>(host[r] # "up" \/ accepted[r] = MaxOps)
===============================================================================
