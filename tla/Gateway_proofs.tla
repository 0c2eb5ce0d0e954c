---------------------------- MODULE Gateway_proofs ----------------------------
(***************************************************************************)
(* Theorems about Gateway for any finite set of requests, any bodies and   *)
(* any number of slots.                                                    *)
(***************************************************************************)
EXTENDS Gateway, SequenceTheorems, FiniteSetTheorems, TLAPS

-----------------------------------------------------------------------------
(* Removing one element of a sequence shifts the later ones down by one.   *)
LEMMA RemoveAtEffect ==
    ASSUME NEW S, NEW s \in Seq(S), NEW k \in 1 .. Len(s)
    PROVE  /\ RemoveAt(s, k) \in Seq(S)
           /\ Len(RemoveAt(s, k)) = Len(s) - 1
           /\ \A j \in 1 .. Len(s) - 1 :
                 RemoveAt(s, k)[j] = IF j < k THEN s[j] ELSE s[j + 1]
<1> DEFINE a == SubSeq(s, 1, k - 1)
           b == SubSeq(s, k + 1, Len(s))
<1>1. /\ Len(s) \in Nat
      /\ \A i \in 1 .. Len(s) : s[i] \in S
  BY LenProperties, ElementOfSeq
<1>2. /\ a \in Seq(S) /\ Len(a) = k - 1
      /\ \A i \in 1 .. k - 1 : a[i] = s[i]
  <2>1. \A i \in 1 .. k - 1 : s[i] \in S
    BY <1>1
  <2>2. /\ a \in Seq(S)
        /\ Len(a) = IF 1 <= k - 1 THEN (k - 1) - 1 + 1 ELSE 0
        /\ \A i \in 1 .. (k - 1) - 1 + 1 : a[i] = s[1 + i - 1]
    BY <1>1, <2>1, SubSeqProperties
  <2> QED BY <1>1, <2>2
<1>3. /\ b \in Seq(S) /\ Len(b) = Len(s) - k
      /\ \A i \in 1 .. Len(s) - k : b[i] = s[k + i]
  <2>1. \A i \in k + 1 .. Len(s) : s[i] \in S
    BY <1>1
  <2>2. /\ b \in Seq(S)
        /\ Len(b) = IF k + 1 <= Len(s) THEN Len(s) - (k + 1) + 1 ELSE 0
        /\ \A i \in 1 .. Len(s) - (k + 1) + 1 : b[i] = s[k + 1 + i - 1]
    BY <1>1, <2>1, SubSeqProperties
  <2> QED BY <1>1, <2>2
<1>4. RemoveAt(s, k) = a \o b
  BY DEF RemoveAt
<1> HIDE DEF a, b
<1>5. /\ a \o b \in Seq(S)
      /\ Len(a \o b) = Len(a) + Len(b)
      /\ \A i \in 1 .. Len(a) + Len(b) :
            (a \o b)[i] = IF i <= Len(a) THEN a[i] ELSE b[i - Len(a)]
  BY <1>2, <1>3, ConcatProperties
<1>6. ASSUME NEW j \in 1 .. Len(s) - 1
      PROVE  (a \o b)[j] = IF j < k THEN s[j] ELSE s[j + 1]
  <2>1. CASE j < k
    BY <2>1, <1>1, <1>2, <1>3, <1>5
  <2>2. CASE ~(j < k)
    <3>1. /\ j - Len(a) \in 1 .. Len(s) - k
          /\ ~(j <= Len(a)) /\ j \in 1 .. Len(a) + Len(b)
      BY <2>2, <1>1, <1>2, <1>3
    <3>2. (a \o b)[j] = b[j - Len(a)]
      BY <3>1, <1>5
    <3>3. b[j - Len(a)] = s[k + (j - Len(a))]
      BY <3>1, <1>3
    <3>4. k + (j - Len(a)) = j + 1
      BY <1>1, <1>2
    <3> QED BY <2>2, <3>2, <3>3, <3>4
  <2> QED BY <2>1, <2>2
<1> QED BY <1>1, <1>2, <1>3, <1>4, <1>5, <1>6

-----------------------------------------------------------------------------
(* Taking a request's future out of the deque keeps the others in order.   *)
LEMMA DequeueEffect ==
    ASSUME waiters \in Seq(Requests), woken \subseteq Range(waiters),
           InOrder(waiters, woken), NEW r, Dequeue(r)
    PROVE  /\ waiters' \in Seq(Requests)
           /\ Range(waiters') = Range(waiters) \ {r}
           /\ r \in Range(waiters)
           /\ InOrder(waiters', woken \ {r})
<1> PICK k \in 1 .. Len(waiters) :
        waiters[k] = r /\ waiters' = RemoveAt(waiters, k)
  BY DEF Dequeue
<1>1. /\ waiters' \in Seq(Requests)
      /\ Len(waiters') = Len(waiters) - 1
      /\ \A j \in 1 .. Len(waiters) - 1 :
            waiters'[j] = IF j < k THEN waiters[j] ELSE waiters[j + 1]
  BY RemoveAtEffect
<1>2. Len(waiters) \in Nat /\ DOMAIN waiters = 1 .. Len(waiters)
      /\ DOMAIN waiters' = 1 .. Len(waiters')
  BY <1>1, LenProperties
<1>3. Range(waiters) = {waiters[i] : i \in 1 .. Len(waiters)}
      /\ Range(waiters') = {waiters'[i] : i \in 1 .. Len(waiters')}
  BY <1>2 DEF Range
<1>4. ASSUME NEW i \in 1 .. Len(waiters), i # k
      PROVE  waiters[i] \in Range(waiters') /\ waiters[i] # r
  <2>1. waiters[i] # r
    BY <1>4 DEF InOrder
  <2>2. CASE i < k
    <3>1. i \in 1 .. Len(waiters') /\ waiters'[i] = waiters[i]
      BY <2>2, <1>1, <1>2
    <3> QED BY <2>1, <3>1, <1>3
  <2>3. CASE i > k
    <3>1. i - 1 \in 1 .. Len(waiters') /\ waiters'[i - 1] = waiters[i]
      BY <2>3, <1>1, <1>2
    <3> QED BY <2>1, <3>1, <1>3
  <2> QED BY <1>4, <1>2, <2>2, <2>3
<1>5. ASSUME NEW i \in 1 .. Len(waiters')
      PROVE  \E m \in 1 .. Len(waiters) :
                /\ m # k /\ waiters'[i] = waiters[m]
                /\ m = IF i < k THEN i ELSE i + 1
  BY <1>1, <1>2
<1>6. Range(waiters') = Range(waiters) \ {r}
  <2>1. ASSUME NEW w \in Range(waiters')
        PROVE  w \in Range(waiters) \ {r}
    <3>1. PICK i \in 1 .. Len(waiters') : w = waiters'[i]
      BY <1>3
    <3> QED BY <3>1, <1>3, <1>4, <1>5
  <2>2. ASSUME NEW w \in Range(waiters) \ {r}
        PROVE  w \in Range(waiters')
    <3>1. PICK i \in 1 .. Len(waiters) : w = waiters[i]
      BY <1>3
    <3> QED BY <3>1, <1>4
  <2> QED BY <2>1, <2>2
<1>7. InOrder(waiters', woken \ {r})
  <2> SUFFICES ASSUME NEW i \in 1 .. Len(waiters'), NEW j \in 1 .. Len(waiters')
               PROVE  /\ waiters'[i] = waiters'[j] => i = j
                      /\ i < j /\ waiters'[j] \in woken \ {r}
                            => waiters'[i] \in woken \ {r}
    BY DEF InOrder
  <2>1. PICK m \in 1 .. Len(waiters) :
            /\ m # k /\ waiters'[i] = waiters[m]
            /\ m = IF i < k THEN i ELSE i + 1
    BY <1>5
  <2>2. PICK n \in 1 .. Len(waiters) :
            /\ n # k /\ waiters'[j] = waiters[n]
            /\ n = IF j < k THEN j ELSE j + 1
    BY <1>5
  <2>3. waiters[m] # r
    BY <1>4, <2>1
  <2>4. i < j => m < n
    BY <2>1, <2>2
  <2>5. m = n => i = j
    BY <2>1, <2>2
  <2> QED BY <2>1, <2>2, <2>3, <2>4, <2>5 DEF InOrder
<1> QED BY <1>1, <1>3, <1>6, <1>7

(* A new waiter goes to the end and owns nothing.                          *)
LEMMA AppendEffect ==
    ASSUME waiters \in Seq(Requests), woken \subseteq Range(waiters),
           InOrder(waiters, woken), NEW r \in Requests, r \notin Range(waiters),
           waiters' = Append(waiters, r)
    PROVE  /\ waiters' \in Seq(Requests)
           /\ Range(waiters') = Range(waiters) \cup {r}
           /\ InOrder(waiters', woken)
<1>1. /\ waiters' \in Seq(Requests)
      /\ Len(waiters') = Len(waiters) + 1
      /\ \A i \in 1 .. Len(waiters) : waiters'[i] = waiters[i]
      /\ waiters'[Len(waiters) + 1] = r
  BY AppendProperties
<1>2. Len(waiters) \in Nat /\ DOMAIN waiters = 1 .. Len(waiters)
      /\ DOMAIN waiters' = 1 .. Len(waiters')
  BY <1>1, LenProperties
<1>3. Range(waiters) = {waiters[i] : i \in 1 .. Len(waiters)}
      /\ Range(waiters') = {waiters'[i] : i \in 1 .. Len(waiters')}
  BY <1>2 DEF Range
<1>4. 1 .. Len(waiters') = (1 .. Len(waiters)) \cup {Len(waiters) + 1}
  BY <1>1, <1>2
<1>5. Range(waiters') = Range(waiters) \cup {r}
  BY <1>1, <1>3, <1>4
<1>6. \A i \in 1 .. Len(waiters) : waiters[i] # r
  BY <1>3
<1>7. InOrder(waiters', woken)
  <2> SUFFICES ASSUME NEW i \in 1 .. Len(waiters'), NEW j \in 1 .. Len(waiters')
               PROVE  /\ waiters'[i] = waiters'[j] => i = j
                      /\ i < j /\ waiters'[j] \in woken => waiters'[i] \in woken
    BY DEF InOrder
  <2>1. r \notin woken
    OBVIOUS
  <2>2. i < j => i \in 1 .. Len(waiters)
    BY <1>1, <1>2
  <2> QED BY <1>1, <1>2, <1>4, <1>6, <2>1, <2>2 DEF InOrder
<1> QED BY <1>1, <1>5, <1>7

(* Waking the next waiter moves a unit from the counter to a prefix of the *)
(* queue, or leaves it in the counter when every waiter has one.           *)
LEMMA WakeUpNextEffect ==
    ASSUME NEW v \in Nat, v # 0, NEW queue \in Seq(Requests),
           NEW set, IsFiniteSet(set), set \subseteq Range(queue),
           InOrder(queue, set), WakeUpNext(v, queue, set)
    PROVE  /\ value' \in Nat
           /\ IsFiniteSet(woken') /\ woken' \subseteq Range(queue)
           /\ InOrder(queue, woken')
           /\ value' + Cardinality(woken') = v + Cardinality(set)
           /\ queue # <<>> => woken' # {}
<1>1. Len(queue) \in Nat /\ DOMAIN queue = 1 .. Len(queue)
      /\ (queue # <<>> => Len(queue) # 0)
  BY LenProperties, EmptySeq
<1>2. Range(queue) = {queue[i] : i \in 1 .. Len(queue)}
  BY <1>1 DEF Range
<1>3. Cardinality(set) \in Nat
  BY FS_CardinalityType
<1>4. CASE NotWoken(queue, set) = {}
  <2>1. value' = v /\ woken' = set
    BY <1>4 DEF WakeUpNext
  <2>2. queue # <<>> => queue[1] \in set
    BY <1>1, <1>4 DEF NotWoken
  <2> QED BY <1>3, <2>1, <2>2
<1>5. CASE NotWoken(queue, set) # {}
  <2>1. PICK i \in NotWoken(queue, set) :
            /\ \A j \in NotWoken(queue, set) : i <= j
            /\ value' = v - 1
            /\ woken' = set \cup {queue[i]}
    BY <1>5 DEF WakeUpNext
  <2>2. i \in 1 .. Len(queue) /\ queue[i] \notin set
    BY DEF NotWoken
  <2>3. IsFiniteSet(woken') /\ Cardinality(woken') = Cardinality(set) + 1
    BY <2>1, <2>2, FS_AddElement
  <2>4. InOrder(queue, woken')
    <3> SUFFICES ASSUME NEW m \in 1 .. Len(queue), NEW n \in 1 .. Len(queue)
                 PROVE  /\ queue[m] = queue[n] => m = n
                        /\ m < n /\ queue[n] \in woken' => queue[m] \in woken'
      BY DEF InOrder
    <3>1. queue[m] = queue[n] => m = n
      BY DEF InOrder
    <3>2. ASSUME m < n, queue[n] \in woken'
          PROVE  queue[m] \in woken'
      <4>1. CASE queue[n] \in set
        BY <2>1, <3>2, <4>1 DEF InOrder
      <4>2. CASE queue[n] = queue[i]
        <5>1. n = i
          BY <2>2, <4>2 DEF InOrder
        <5>2. m \notin NotWoken(queue, set)
          BY <2>1, <2>2, <3>2, <5>1, <1>1
        <5> QED BY <2>1, <5>2 DEF NotWoken
      <4> QED BY <2>1, <3>2, <4>1, <4>2
    <3> QED BY <3>1, <3>2
  <2> QED BY <1>2, <1>3, <2>1, <2>2, <2>3, <2>4
<1> QED BY <1>4, <1>5

-----------------------------------------------------------------------------
(* How one request's move changes the sets that are counted.               *)
PcOK == pc \in [Requests -> Stages]

LEMMA MoveEffect ==
    ASSUME PcOK, NEW r \in Requests, NEW stage \in Stages, Go(r, stage)
    PROVE  /\ PcOK'
           /\ Holders' = IF stage \in Holding THEN Holders \cup {r}
                                              ELSE Holders \ {r}
           /\ \A s \in Stages :
                 At(s)' = IF s = stage THEN At(s) \cup {r} ELSE At(s) \ {r}
<1>1. pc' = [pc EXCEPT ![r] = stage] /\ PcOK'
  BY DEF Go, PcOK
<1>2. ASSUME NEW s \in Stages
      PROVE  At(s)' = IF s = stage THEN At(s) \cup {r} ELSE At(s) \ {r}
  BY <1>1 DEF At, PcOK
<1>3. Holders' = IF stage \in Holding THEN Holders \cup {r} ELSE Holders \ {r}
  BY <1>1 DEF Holders, PcOK
<1> QED BY <1>1, <1>2, <1>3

LEMMA CountsAreFinite ==
    /\ IsFiniteSet(Holders) /\ Cardinality(Holders) \in Nat
    /\ \A s : IsFiniteSet(At(s)) /\ Cardinality(At(s)) \in Nat
<1>1. Holders \in SUBSET Requests /\ \A s : At(s) \in SUBSET Requests
  BY DEF Holders, At
<1> QED BY <1>1, FS_Subset, FS_CardinalityType, GatewayAssumption

-----------------------------------------------------------------------------
(* The slots.  This part of the state is an inductive invariant by itself. *)
SlotInv ==
    /\ PcOK
    /\ value \in Nat
    /\ waiters \in Seq(Requests)
    /\ WaitersInOrder
    /\ SlotsConserved
    /\ NoStrandedWaiter

(* Leaving dispatch, and moving on while holding the slot.                 *)
Leaves(r) == pc[r] \in Holding /\ Return(r)
Proceeds(r) ==
    /\ pc[r] \in Holding
    /\ \E stage \in Holding : Go(r, stage)
    /\ UNCHANGED <<value, waiters, woken>>

LEMMA SlotSteps ==
    ASSUME NEW r \in Requests, Step(r)
    PROVE  \/ RelayGet(r) \/ ArriveFree(r) \/ ArriveLocked(r)
           \/ Admit(r) \/ LeaveQueue(r) \/ Leaves(r) \/ Proceeds(r)
<1>1. CASE ReadBody(r)
  BY <1>1 DEF ReadBody, ClaimKey, Leaves, Proceeds, Holding
<1>2. CASE BodyFails(r) \/ PrepareFails(r) \/ Finish(r)
  BY <1>2 DEF BodyFails, PrepareFails, Finish, Leaves, Holding
<1>3. CASE StreamOpens(r) \/ StreamCleanup(r)
  BY <1>3 DEF StreamOpens, StreamCleanup, Proceeds, Holding
<1> QED BY <1>1, <1>2, <1>3 DEF Step, QueueTimeout, CancelQueued

LEMMA SlotInit == Init => SlotInv
<1> SUFFICES ASSUME Init PROVE SlotInv
  OBVIOUS
<1>1. PcOK /\ value \in Nat /\ waiters \in Seq(Requests)
  BY GatewayAssumption DEF Init, PcOK, Stages
<1>2. At("queued") = {} /\ Holders = {}
  BY DEF Init, At, Holders, Holding
<1>3. Range(waiters) = {} /\ Len(waiters) = 0
  BY DEF Init, Range
<1>4. WaitersInOrder
  <2>1. woken = {} /\ 1 .. Len(waiters) = {}
    BY <1>3 DEF Init
  <2>2. InOrder(waiters, woken)
    BY <2>1 DEF InOrder
  <2> QED BY <1>2, <1>3, <2>1, <2>2 DEF WaitersInOrder
<1>5. SlotsConserved
  BY <1>2, FS_EmptySet, GatewayAssumption DEF Init, SlotsConserved
<1>6. NoStrandedWaiter
  BY DEF Init, NoStrandedWaiter
<1> QED BY <1>1, <1>4, <1>5, <1>6 DEF SlotInv

LEMMA SlotStep == SlotInv /\ [Next]_vars => SlotInv'
<1> SUFFICES ASSUME SlotInv, [Next]_vars PROVE SlotInv'
  OBVIOUS
<1>1. CASE UNCHANGED vars
  BY <1>1 DEF vars, SlotInv, PcOK, WaitersInOrder, InOrder, SlotsConserved,
              NoStrandedWaiter, At, Holders
<1>2. CASE Next
  <2> PICK r \in Requests : Step(r)
    BY <1>2 DEF Next
  <2>0. /\ PcOK /\ value \in Nat /\ waiters \in Seq(Requests)
        /\ Range(waiters) = At("queued")
        /\ woken \subseteq Range(waiters) /\ InOrder(waiters, woken)
        /\ value + Cardinality(woken) + Cardinality(Holders) = MAX_CONCURRENCY
        /\ value > 0 /\ waiters # <<>> => woken # {}
    BY DEF SlotInv, WaitersInOrder, SlotsConserved, NoStrandedWaiter
  <2>f. /\ IsFiniteSet(Holders) /\ Cardinality(Holders) \in Nat
        /\ IsFiniteSet(woken) /\ Cardinality(woken) \in Nat
        /\ MAX_CONCURRENCY \in Nat
    <3>1. woken \in SUBSET Requests
      BY <2>0 DEF At
    <3> QED BY <3>1, CountsAreFinite, FS_Subset, FS_CardinalityType,
               GatewayAssumption
  <2>g. \A s : r \in At(s) <=> pc[r] = s
    BY DEF At
  <2>h. r \in Holders <=> pc[r] \in Holding
    BY DEF Holders
  <2>1. CASE RelayGet(r)
    <3>1. Go(r, "done") /\ pc[r] = "idle" /\ UNCHANGED <<value, waiters, woken>>
      BY <2>1 DEF RelayGet
    <3>2. PcOK' /\ Holders' = Holders /\ At("queued")' = At("queued")
      <4>1. /\ PcOK' /\ Holders' = Holders \ {r}
            /\ At("queued")' = At("queued") \ {r}
        BY <2>0, <3>1, MoveEffect DEF Stages, Holding
      <4> QED BY <4>1, <3>1, <2>g, <2>h DEF Holding
    <3> QED BY <2>0, <3>1, <3>2 DEF SlotInv, WaitersInOrder, SlotsConserved,
                                    NoStrandedWaiter, InOrder
  <2>2. CASE ArriveFree(r)
    <3>1. /\ Go(r, "body") /\ pc[r] = "idle" /\ UNCHANGED <<waiters, woken>>
          /\ value # 0 /\ waiters = <<>> /\ value' = value - 1
      BY <2>2 DEF ArriveFree, locked
    <3>2. /\ PcOK' /\ Holders' = Holders \cup {r}
          /\ At("queued")' = At("queued")
      <4>1. /\ PcOK' /\ Holders' = Holders \cup {r}
            /\ At("queued")' = At("queued") \ {r}
        BY <2>0, <3>1, MoveEffect DEF Stages, Holding
      <4>2. r \notin At("queued")
        BY <3>1, <2>g
      <4> QED BY <4>1, <4>2
    <3>3. Cardinality(Holders') = Cardinality(Holders) + 1
      BY <2>f, <2>h, <3>1, <3>2, FS_AddElement DEF Holding
    <3> QED BY <2>0, <2>f, <3>1, <3>2, <3>3 DEF SlotInv, WaitersInOrder,
                                SlotsConserved, NoStrandedWaiter, InOrder
  <2>3. CASE ArriveLocked(r)
    <3>1. /\ Go(r, "queued") /\ pc[r] = "idle" /\ UNCHANGED <<value, woken>>
          /\ waiters' = Append(waiters, r) /\ (value = 0 \/ waiters # <<>>)
      BY <2>3 DEF ArriveLocked, locked
    <3>2. /\ PcOK' /\ Holders' = Holders
          /\ At("queued")' = At("queued") \cup {r}
      <4>1. /\ PcOK' /\ Holders' = Holders \ {r}
            /\ At("queued")' = At("queued") \cup {r}
        BY <2>0, <3>1, MoveEffect DEF Stages, Holding
      <4> QED BY <4>1, <3>1, <2>h DEF Holding
    <3>3. /\ waiters' \in Seq(Requests) /\ InOrder(waiters', woken)
          /\ Range(waiters') = Range(waiters) \cup {r}
      BY <2>0, <2>g, <3>1, AppendEffect
    <3> QED BY <2>0, <3>1, <3>2, <3>3 DEF SlotInv, WaitersInOrder,
                                SlotsConserved, NoStrandedWaiter
  <2>4. CASE Admit(r)
    <3>1. /\ Go(r, "body") /\ pc[r] = "queued" /\ r \in woken /\ Dequeue(r)
          /\ IF value > 0 THEN WakeUpNext(value, waiters', woken \ {r})
                          ELSE value' = value /\ woken' = woken \ {r}
      BY <2>4 DEF Admit
    <3>2. /\ PcOK' /\ Holders' = Holders \cup {r}
          /\ At("queued")' = At("queued") \ {r}
      BY <2>0, <3>1, MoveEffect DEF Stages, Holding
    <3>3. Cardinality(Holders') = Cardinality(Holders) + 1
      BY <2>f, <2>h, <3>1, <3>2, FS_AddElement DEF Holding
    <3>4. /\ waiters' \in Seq(Requests) /\ InOrder(waiters', woken \ {r})
          /\ Range(waiters') = Range(waiters) \ {r}
      BY <2>0, <3>1, DequeueEffect
    <3>5. /\ IsFiniteSet(woken \ {r})
          /\ Cardinality(woken \ {r}) = Cardinality(woken) - 1
      BY <2>f, <3>1, FS_RemoveElement
    <3>6. woken \ {r} \subseteq Range(waiters')
      BY <2>0, <3>4
    <3>7. CASE value > 0
      <4>1. WakeUpNext(value, waiters', woken \ {r}) /\ value # 0
        BY <3>1, <3>7, <2>0
      <4>2. /\ value' \in Nat /\ woken' \subseteq Range(waiters')
            /\ InOrder(waiters', woken')
            /\ value' + Cardinality(woken') = value + Cardinality(woken \ {r})
            /\ waiters' # <<>> => woken' # {}
            /\ IsFiniteSet(woken')
        BY <2>0, <3>4, <3>5, <3>6, <4>1, WakeUpNextEffect
      <4>3. Cardinality(woken') \in Nat
        BY <4>2, FS_CardinalityType
      <4>4. value' + Cardinality(woken') + Cardinality(Holders') = MAX_CONCURRENCY
        BY <2>0, <2>f, <3>3, <3>5, <4>2, <4>3
      <4> QED BY <3>2, <3>4, <4>2, <4>4 DEF SlotInv, WaitersInOrder,
                 SlotsConserved, NoStrandedWaiter
    <3>8. CASE ~(value > 0)
      <4>1. value' = value /\ woken' = woken \ {r}
        BY <3>1, <3>8
      <4> QED BY <2>0, <2>f, <3>2, <3>3, <3>4, <3>5, <3>6, <3>8, <4>1
              DEF SlotInv, WaitersInOrder, SlotsConserved, NoStrandedWaiter
    <3> QED BY <3>7, <3>8
  <2>5. CASE LeaveQueue(r)
    <3>1. /\ Go(r, "done") /\ pc[r] = "queued" /\ Dequeue(r)
          /\ IF r \in woken THEN WakeUpNext(value + 1, waiters', woken \ {r})
                            ELSE UNCHANGED <<value, woken>>
      BY <2>5 DEF LeaveQueue
    <3>2. /\ PcOK' /\ Holders' = Holders
          /\ At("queued")' = At("queued") \ {r}
      <4>1. /\ PcOK' /\ Holders' = Holders \ {r}
            /\ At("queued")' = At("queued") \ {r}
        BY <2>0, <3>1, MoveEffect DEF Stages, Holding
      <4> QED BY <4>1, <3>1, <2>h DEF Holding
    <3>3. /\ waiters' \in Seq(Requests) /\ InOrder(waiters', woken \ {r})
          /\ Range(waiters') = Range(waiters) \ {r}
          /\ waiters # <<>>
      <4>1. r \in Range(waiters)
        BY <2>0, <2>g, <3>1
      <4>2. waiters # <<>>
        BY <4>1 DEF Range
      <4> QED BY <2>0, <3>1, <4>2, DequeueEffect
    <3>4. woken \ {r} \subseteq Range(waiters')
      BY <2>0, <3>3
    <3>5. CASE r \in woken
      <4>1. /\ IsFiniteSet(woken \ {r})
            /\ Cardinality(woken \ {r}) = Cardinality(woken) - 1
        BY <2>f, <3>5, FS_RemoveElement
      <4>2. /\ WakeUpNext(value + 1, waiters', woken \ {r})
            /\ value + 1 \in Nat /\ value + 1 # 0
        BY <2>0, <3>1, <3>5
      <4>3. /\ value' \in Nat /\ woken' \subseteq Range(waiters')
            /\ InOrder(waiters', woken')
            /\ value' + Cardinality(woken')
                  = (value + 1) + Cardinality(woken \ {r})
            /\ waiters' # <<>> => woken' # {}
            /\ IsFiniteSet(woken')
        BY <3>3, <3>4, <4>1, <4>2, WakeUpNextEffect
      <4>4. Cardinality(woken') \in Nat
        BY <4>3, FS_CardinalityType
      <4>5. value' + Cardinality(woken') = value + Cardinality(woken)
        BY <2>0, <2>f, <4>1, <4>3
      <4> QED BY <2>0, <2>f, <3>2, <3>3, <4>3, <4>4, <4>5 DEF SlotInv,
                 WaitersInOrder, SlotsConserved, NoStrandedWaiter
    <3>6. CASE r \notin woken
      <4>1. UNCHANGED <<value, woken>> /\ woken \ {r} = woken
        BY <3>1, <3>6
      <4> QED BY <2>0, <3>2, <3>3, <3>4, <4>1 DEF SlotInv, WaitersInOrder,
                 SlotsConserved, NoStrandedWaiter
    <3> QED BY <3>5, <3>6
  <2>6. CASE Leaves(r)
    <3>1. /\ Go(r, "done") /\ pc[r] \in Holding /\ UNCHANGED waiters
          /\ WakeUpNext(value + 1, waiters, woken)
      BY <2>6 DEF Leaves, Return, Release
    <3>2. /\ PcOK' /\ Holders' = Holders \ {r}
          /\ At("queued")' = At("queued")
      <4>1. /\ PcOK' /\ Holders' = Holders \ {r}
            /\ At("queued")' = At("queued") \ {r}
        BY <2>0, <3>1, MoveEffect DEF Stages, Holding
      <4> QED BY <4>1, <3>1, <2>g DEF Holding
    <3>3. Cardinality(Holders') = Cardinality(Holders) - 1
      BY <2>f, <2>h, <3>1, <3>2, FS_RemoveElement
    <3>4. /\ value' \in Nat /\ woken' \subseteq Range(waiters)
          /\ InOrder(waiters, woken')
          /\ value' + Cardinality(woken') = (value + 1) + Cardinality(woken)
          /\ waiters # <<>> => woken' # {}
          /\ IsFiniteSet(woken')
      <4>1. value + 1 \in Nat /\ value + 1 # 0
        BY <2>0
      <4> QED BY <2>0, <2>f, <3>1, <4>1, WakeUpNextEffect
    <3>5. Cardinality(woken') \in Nat
      BY <3>4, FS_CardinalityType
    <3> QED BY <2>0, <2>f, <3>1, <3>2, <3>3, <3>4, <3>5 DEF SlotInv,
               WaitersInOrder, SlotsConserved, NoStrandedWaiter
  <2>7. CASE Proceeds(r)
    <3>1. PICK stage \in Holding : Go(r, stage)
      BY <2>7 DEF Proceeds
    <3>2. pc[r] \in Holding /\ UNCHANGED <<value, waiters, woken>>
      BY <2>7 DEF Proceeds
    <3>3. PcOK' /\ Holders' = Holders /\ At("queued")' = At("queued")
      <4>1. /\ PcOK' /\ Holders' = Holders \cup {r}
            /\ At("queued")' = At("queued") \ {r}
        BY <2>0, <3>1, MoveEffect DEF Stages, Holding
      <4> QED BY <4>1, <3>2, <2>g, <2>h DEF Holding
    <3> QED BY <2>0, <3>2, <3>3 DEF SlotInv, WaitersInOrder, SlotsConserved,
                                    NoStrandedWaiter, InOrder
  <2> QED BY <2>1, <2>2, <2>3, <2>4, <2>5, <2>6, <2>7, SlotSteps
<1> QED BY <1>1, <1>2

-----------------------------------------------------------------------------
(* The keys.                                                               *)
KeyInv ==
    /\ PcOK
    /\ registered \subseteq Streaming
    /\ INFLIGHT \subseteq {KeyOf(r) : r \in Requests}
    /\ ~DEDUP_ENABLE => registered = {}
    /\ KeysAreExact

InFlight == {"prepare", "streaming"}
Keeps(r) ==
    /\ \E stage \in Stages : Go(r, stage) /\ (pc[r] \in InFlight <=> stage \in InFlight)
    /\ UNCHANGED <<INFLIGHT, registered>>
Registers(r) ==
    /\ Go(r, "prepare") /\ pc[r] \notin InFlight
    /\ r \in Streaming /\ DEDUP_ENABLE /\ KeyOf(r) \notin INFLIGHT
    /\ INFLIGHT' = INFLIGHT \cup {KeyOf(r)}
    /\ registered' = registered \cup {r}
Unregisters(r) ==
    /\ pc[r] \in InFlight /\ PopKey(r)
    /\ \E stage \in Stages \ InFlight : Go(r, stage)
StartsUndeduped(r) ==
    /\ ~DEDUP_ENABLE /\ Go(r, "prepare") /\ UNCHANGED <<INFLIGHT, registered>>

LEMMA KeySteps ==
    ASSUME NEW r \in Requests, Step(r)
    PROVE  Keeps(r) \/ Registers(r) \/ Unregisters(r) \/ StartsUndeduped(r)
<1>1. CASE RelayGet(r) \/ ArriveFree(r) \/ ArriveLocked(r) \/ Admit(r)
  BY <1>1 DEF RelayGet, ArriveFree, ArriveLocked, Admit, Keeps, Stages, InFlight
<1>2. CASE QueueTimeout(r) \/ CancelQueued(r)
  BY <1>2 DEF QueueTimeout, CancelQueued, LeaveQueue, Keeps, Stages, InFlight
<1>3. CASE ReadBody(r)
  BY <1>3 DEF ReadBody, ClaimKey, Return, Keeps, Registers, StartsUndeduped, Stages, InFlight
<1>4. CASE BodyFails(r) \/ StreamOpens(r) \/ Finish(r)
  BY <1>4 DEF BodyFails, StreamOpens, Finish, Return, Keeps, Stages, InFlight
<1>5. CASE PrepareFails(r) \/ StreamCleanup(r)
  BY <1>5 DEF PrepareFails, StreamCleanup, Return, Unregisters, Stages, InFlight
<1> QED BY <1>1, <1>2, <1>3, <1>4, <1>5 DEF Step

LEMMA ClaimedEffect ==
    ASSUME PcOK, NEW r \in Requests, NEW stage \in Stages, Go(r, stage)
    PROVE  /\ PcOK'
           /\ Claimed' = IF stage \in InFlight /\ r \in Streaming
                         THEN Claimed \cup {r} ELSE Claimed \ {r}
<1>1. pc' = [pc EXCEPT ![r] = stage] /\ PcOK'
  BY DEF Go, PcOK
<1> QED BY <1>1, GatewayAssumption DEF Claimed, PcOK, InFlight

LEMMA KeyInit == Init => KeyInv
<1> SUFFICES ASSUME Init PROVE KeyInv
  OBVIOUS
<1>1. PcOK /\ Claimed = {} /\ INFLIGHT = {} /\ registered = {}
  BY GatewayAssumption DEF Init, PcOK, Stages, Claimed
<1>2. KeysAreExact
  BY <1>1 DEF KeysAreExact
<1> QED BY <1>1, <1>2 DEF KeyInv

LEMMA KeyStep == KeyInv /\ [Next]_vars => KeyInv'
<1> SUFFICES ASSUME KeyInv, [Next]_vars PROVE KeyInv'
  OBVIOUS
<1>1. CASE UNCHANGED vars
  BY <1>1 DEF vars, KeyInv, PcOK, KeysAreExact, Claimed
<1>2. CASE Next
  <2> PICK r \in Requests : Step(r)
    BY <1>2 DEF Next
  <2>0. /\ PcOK /\ registered \subseteq Streaming
        /\ INFLIGHT \subseteq {KeyOf(s) : s \in Requests}
        /\ ~DEDUP_ENABLE => registered = {}
        /\ DEDUP_ENABLE => /\ registered = Claimed
                           /\ INFLIGHT = {KeyOf(s) : s \in Claimed}
                           /\ \A s, t \in Claimed : KeyOf(s) = KeyOf(t) => s = t
    BY DEF KeyInv, KeysAreExact
  <2>g. r \in Claimed <=> r \in Streaming /\ pc[r] \in InFlight
    BY GatewayAssumption DEF Claimed, InFlight
  <2>1. CASE Keeps(r)
    <3>1. PICK stage \in Stages :
              Go(r, stage) /\ (pc[r] \in InFlight <=> stage \in InFlight)
      BY <2>1 DEF Keeps
    <3>2. PcOK' /\ Claimed' = Claimed
      BY <2>0, <2>g, <3>1, ClaimedEffect
    <3>3. UNCHANGED <<INFLIGHT, registered>>
      BY <2>1 DEF Keeps
    <3> QED BY <2>0, <3>2, <3>3 DEF KeyInv, KeysAreExact
  <2>2. CASE Registers(r)
    <3>1. /\ Go(r, "prepare") /\ pc[r] \notin InFlight
          /\ r \in Streaming /\ DEDUP_ENABLE /\ KeyOf(r) \notin INFLIGHT
          /\ INFLIGHT' = INFLIGHT \cup {KeyOf(r)}
          /\ registered' = registered \cup {r}
      BY <2>2 DEF Registers
    <3>2. PcOK' /\ Claimed' = Claimed \cup {r}
      <4>1. "prepare" \in Stages /\ "prepare" \in InFlight
        BY DEF Stages, InFlight
      <4> QED BY <2>0, <3>1, <4>1, ClaimedEffect
    <3>3. \A s \in Claimed : KeyOf(s) # KeyOf(r)
      BY <2>0, <3>1
    <3>4. INFLIGHT' = {KeyOf(s) : s \in Claimed'}
      BY <2>0, <3>1, <3>2
    <3>5. \A s, t \in Claimed' : KeyOf(s) = KeyOf(t) => s = t
      BY <2>0, <3>1, <3>2, <3>3
    <3> QED BY <2>0, <3>1, <3>2, <3>4, <3>5 DEF KeyInv, KeysAreExact
  <2>3. CASE Unregisters(r)
    <3>1. PICK stage \in Stages \ InFlight : Go(r, stage)
      BY <2>3 DEF Unregisters
    <3>2. PcOK' /\ Claimed' = Claimed \ {r}
      BY <2>0, <3>1, ClaimedEffect
    <3>3. /\ pc[r] \in InFlight /\ registered' = registered \ {r}
          /\ INFLIGHT' = IF r \in registered THEN INFLIGHT \ {KeyOf(r)} ELSE INFLIGHT
      BY <2>3 DEF Unregisters, PopKey
    <3>4. DEDUP_ENABLE => INFLIGHT' = {KeyOf(s) : s \in Claimed'}
      <4> SUFFICES ASSUME DEDUP_ENABLE PROVE INFLIGHT' = {KeyOf(s) : s \in Claimed \ {r}}
        BY <3>2
      <4>1. CASE r \in Claimed
        <5>1. INFLIGHT' = {KeyOf(s) : s \in Claimed} \ {KeyOf(r)}
          BY <2>0, <3>3, <4>1
        <5>2. \A s \in Claimed \ {r} : KeyOf(s) # KeyOf(r)
          BY <2>0, <4>1
        <5> QED BY <5>1, <5>2
      <4>2. CASE r \notin Claimed
        BY <2>0, <3>3, <4>2
      <4> QED BY <4>1, <4>2
    <3> QED BY <2>0, <3>2, <3>3, <3>4 DEF KeyInv, KeysAreExact
  <2>4. CASE StartsUndeduped(r)
    <3>1. ~DEDUP_ENABLE /\ Go(r, "prepare") /\ UNCHANGED <<INFLIGHT, registered>>
      BY <2>4 DEF StartsUndeduped
    <3>2. PcOK'
      BY <2>0, <3>1, ClaimedEffect DEF Stages
    <3> QED BY <2>0, <3>1, <3>2 DEF KeyInv, KeysAreExact
  <2> QED BY <2>1, <2>2, <2>3, <2>4, KeySteps
<1> QED BY <1>1, <1>2

-----------------------------------------------------------------------------
(* The gauges.                                                             *)
GaugeInv == PcOK /\ METRICS \in [Counters -> Nat] /\ GaugesAreExact

LEMMA GaugeInit == Init => GaugeInv
<1> SUFFICES ASSUME Init PROVE GaugeInv
  OBVIOUS
<1>1. PcOK /\ At("queued") = {} /\ At("streaming") = {}
  BY DEF Init, PcOK, Stages, At
<1>2. METRICS \in [Counters -> Nat] /\ METRICS["queue_now"] = 0
      /\ METRICS["active_streams"] = 0
  BY DEF Init, Counters
<1> QED BY <1>1, <1>2, FS_EmptySet DEF GaugeInv, GaugesAreExact

LEMMA GaugeStep == GaugeInv /\ [Next]_vars => GaugeInv'
<1> SUFFICES ASSUME GaugeInv, [Next]_vars PROVE GaugeInv'
  OBVIOUS
<1>1. CASE UNCHANGED vars
  BY <1>1 DEF vars, GaugeInv, PcOK, GaugesAreExact, At
<1>2. CASE Next
  <2> PICK r \in Requests : Step(r)
    BY <1>2 DEF Next
  <2> DEFINE queued == At("queued")
             streaming == At("streaming")
  <2>0. /\ PcOK /\ METRICS \in [Counters -> Nat]
        /\ METRICS["queue_now"] = Cardinality(queued)
        /\ METRICS["active_streams"] = Cardinality(streaming)
    BY DEF GaugeInv, GaugesAreExact
  <2>f. /\ IsFiniteSet(queued) /\ Cardinality(queued) \in Nat
        /\ IsFiniteSet(streaming) /\ Cardinality(streaming) \in Nat
    BY CountsAreFinite
  <2>g. /\ r \in queued <=> pc[r] = "queued"
        /\ r \in streaming <=> pc[r] = "streaming"
    BY DEF At
  <2>m. ASSUME NEW stage \in Stages, Go(r, stage)
        PROVE  /\ PcOK'
               /\ queued' = IF stage = "queued" THEN queued \cup {r} ELSE queued \ {r}
               /\ streaming' = IF stage = "streaming" THEN streaming \cup {r}
                                                     ELSE streaming \ {r}
    BY <2>0, <2>m, MoveEffect DEF Stages
  <2>c. /\ Cardinality(queued \cup {r}) =
               IF pc[r] = "queued" THEN Cardinality(queued) ELSE Cardinality(queued) + 1
        /\ Cardinality(queued \ {r}) =
               IF pc[r] = "queued" THEN Cardinality(queued) - 1 ELSE Cardinality(queued)
        /\ Cardinality(streaming \cup {r}) =
               IF pc[r] = "streaming" THEN Cardinality(streaming)
                                      ELSE Cardinality(streaming) + 1
        /\ Cardinality(streaming \ {r}) =
               IF pc[r] = "streaming" THEN Cardinality(streaming) - 1
                                      ELSE Cardinality(streaming)
        /\ Cardinality(queued \ {r}) \in Nat /\ Cardinality(streaming \ {r}) \in Nat
    BY <2>f, <2>g, FS_AddElement, FS_RemoveElement, FS_CardinalityType
  <2> HIDE DEF queued, streaming
  <2>q. SUFFICES /\ PcOK' /\ METRICS' \in [Counters -> Nat]
                 /\ METRICS'["queue_now"] = Cardinality(queued')
                 /\ METRICS'["active_streams"] = Cardinality(streaming')
    BY DEF GaugeInv, GaugesAreExact, queued, streaming
  <2>1. CASE RelayGet(r) \/ ArriveFree(r)
    <3>1. /\ pc[r] = "idle" /\ METRICS' = [METRICS EXCEPT !["requests_total"] = @ + 1]
          /\ Go(r, "done") \/ Go(r, "body")
      BY <2>1 DEF RelayGet, ArriveFree, Count
    <3> QED BY <2>0, <2>m, <2>c, <3>1 DEF Stages, Counters
  <2>2. CASE ArriveLocked(r)
    <3>1. /\ pc[r] = "idle" /\ Go(r, "queued")
          /\ METRICS' = [METRICS EXCEPT !["requests_total"] = @ + 1,
                                        !["queue_now"] = @ + 1]
      BY <2>2 DEF ArriveLocked
    <3>2. PcOK' /\ queued' = queued \cup {r} /\ streaming' = streaming \ {r}
      BY <2>m, <3>1 DEF Stages
    <3>3. /\ METRICS' \in [Counters -> Nat]
          /\ METRICS'["queue_now"] = METRICS["queue_now"] + 1
          /\ METRICS'["active_streams"] = METRICS["active_streams"]
      <4>1. /\ METRICS["queue_now"] + 1 \in Nat
            /\ METRICS["requests_total"] + 1 \in Nat
        BY <2>0 DEF Counters
      <4> QED BY <2>0, <3>1, <4>1 DEF Counters
    <3> QED BY <2>0, <2>c, <3>1, <3>2, <3>3
  <2>3. CASE Admit(r) \/ CancelQueued(r)
    <3>1. /\ pc[r] = "queued" /\ METRICS' = [METRICS EXCEPT !["queue_now"] = @ - 1]
          /\ Go(r, "body") \/ Go(r, "done")
      BY <2>3 DEF Admit, CancelQueued, LeaveQueue
    <3>2. PcOK' /\ queued' = queued \ {r} /\ streaming' = streaming \ {r}
      BY <2>m, <3>1 DEF Stages
    <3>3. /\ METRICS'["queue_now"] = METRICS["queue_now"] - 1
          /\ METRICS'["active_streams"] = METRICS["active_streams"]
          /\ \A c \in Counters : c # "queue_now" => METRICS'[c] = METRICS[c]
      BY <2>0, <3>1 DEF Counters
    <3>4. METRICS' = [c \in Counters |-> METRICS'[c]]
      BY <2>0, <3>1
    <3>5. METRICS' \in [Counters -> Nat]
      <4>1. \A c \in Counters : METRICS'[c] \in Nat
        BY <2>0, <2>f, <2>c, <3>1, <3>3
      <4> QED BY <3>4, <4>1
    <3> QED BY <2>0, <2>c, <3>1, <3>2, <3>3, <3>5
  <2>4. CASE QueueTimeout(r)
    <3>1. /\ pc[r] = "queued" /\ Go(r, "done")
          /\ METRICS' = [METRICS EXCEPT !["queue_now"] = @ - 1,
                                        !["rejected_429_queue"] = @ + 1]
      BY <2>4 DEF QueueTimeout, LeaveQueue
    <3>2. PcOK' /\ queued' = queued \ {r} /\ streaming' = streaming \ {r}
      BY <2>m, <3>1 DEF Stages
    <3>3. /\ METRICS'["queue_now"] = METRICS["queue_now"] - 1
          /\ METRICS'["active_streams"] = METRICS["active_streams"]
          /\ METRICS'["rejected_429_queue"] = METRICS["rejected_429_queue"] + 1
          /\ \A c \in Counters \ {"queue_now", "rejected_429_queue"} :
                METRICS'[c] = METRICS[c]
      BY <2>0, <3>1 DEF Counters
    <3>4. METRICS' = [c \in Counters |-> METRICS'[c]]
      BY <2>0, <3>1
    <3>5. METRICS' \in [Counters -> Nat]
      <4>1. \A c \in Counters : METRICS'[c] \in Nat
        BY <2>0, <2>f, <2>c, <3>1, <3>3
      <4> QED BY <3>4, <4>1
    <3> QED BY <2>0, <2>c, <3>1, <3>2, <3>3, <3>5
  <2>5. CASE ReadBody(r) \/ BodyFails(r) \/ PrepareFails(r) \/ Finish(r)
    <3>1. /\ pc[r] \notin {"queued", "streaming"}
          /\ \/ METRICS' = METRICS
             \/ METRICS' = [METRICS EXCEPT !["rejected_429_duplicate"] = @ + 1]
          /\ Go(r, "done") \/ Go(r, "prepare") \/ Go(r, "relaying")
      BY <2>5 DEF ReadBody, ClaimKey, BodyFails, PrepareFails, Finish, Return, Count
    <3>2. PcOK' /\ queued' = queued \ {r} /\ streaming' = streaming \ {r}
      BY <2>m, <3>1 DEF Stages
    <3>3. /\ METRICS' \in [Counters -> Nat]
          /\ METRICS'["queue_now"] = METRICS["queue_now"]
          /\ METRICS'["active_streams"] = METRICS["active_streams"]
      BY <2>0, <3>1 DEF Counters
    <3> QED BY <2>0, <2>c, <3>1, <3>2, <3>3
  <2>6. CASE StreamOpens(r)
    <3>1. /\ pc[r] = "prepare" /\ Go(r, "streaming")
          /\ METRICS' = [METRICS EXCEPT !["streams_total"] = @ + 1,
                                        !["active_streams"] = @ + 1]
      BY <2>6 DEF StreamOpens
    <3> QED BY <2>0, <2>f, <2>m, <2>c, <3>1 DEF Stages, Counters
  <2>7. CASE StreamCleanup(r)
    <3>1. /\ pc[r] = "streaming" /\ Go(r, "finishing")
          /\ METRICS' = [METRICS EXCEPT !["active_streams"] = @ - 1]
      BY <2>7 DEF StreamCleanup
    <3>2. PcOK' /\ queued' = queued \ {r} /\ streaming' = streaming \ {r}
      BY <2>m, <3>1 DEF Stages
    <3>3. /\ METRICS'["queue_now"] = METRICS["queue_now"]
          /\ METRICS'["active_streams"] = METRICS["active_streams"] - 1
          /\ \A c \in Counters : c # "active_streams" => METRICS'[c] = METRICS[c]
      BY <2>0, <3>1 DEF Counters
    <3>4. METRICS' = [c \in Counters |-> METRICS'[c]]
      BY <2>0, <3>1
    <3>5. METRICS' \in [Counters -> Nat]
      <4>1. \A c \in Counters : METRICS'[c] \in Nat
        BY <2>0, <2>f, <2>c, <3>1, <3>3
      <4> QED BY <3>4, <4>1
    <3> QED BY <2>0, <2>c, <3>1, <3>2, <3>3, <3>5
  <2> QED BY <2>1, <2>2, <2>3, <2>4, <2>5, <2>6, <2>7 DEF Step
<1> QED BY <1>1, <1>2
-----------------------------------------------------------------------------
(* Admission: each step of the gateway is a step of the abstract contract. *)
LEMMA EnterStep ==
    ASSUME SlotInv, NEW r \in Requests, ArriveFree(r) \/ Admit(r)
    PROVE  Engine!Enter(r)
<1>1. /\ PcOK /\ value \in Nat /\ woken \in SUBSET Requests
      /\ value + Cardinality(woken) + Cardinality(Holders) = MAX_CONCURRENCY
  BY DEF SlotInv, WaitersInOrder, SlotsConserved, At
<1>2. /\ IsFiniteSet(woken) /\ Cardinality(woken) \in Nat
      /\ Cardinality(Holders) \in Nat /\ MAX_CONCURRENCY \in Nat
  BY <1>1, CountsAreFinite, FS_Subset, FS_CardinalityType, GatewayAssumption
<1>3. /\ pc[r] \in {"idle", "queued"} /\ Go(r, "body") /\ UNCHANGED registered
      /\ value # 0 \/ woken # {}
  BY DEF ArriveFree, Admit, locked
<1>4. Cardinality(Holders) < MAX_CONCURRENCY
  <2>1. woken # {} => Cardinality(woken) # 0
    BY <1>2, FS_EmptySet
  <2> QED BY <1>1, <1>2, <1>3, <2>1
<1>5. Holders' = Holders \cup {r} /\ r \notin Holders
  <2>1. "body" \in Holding /\ "body" \in Stages
    BY DEF Holding, Stages
  <2>2. Holders' = Holders \cup {r}
    BY <1>1, <1>3, <2>1, MoveEffect
  <2> QED BY <1>3, <2>2 DEF Holders, Holding
<1>6. Engine!Cardinality(Holders) = Cardinality(Holders)
  BY DEF Engine!Cardinality, Cardinality
<1> QED BY <1>3, <1>4, <1>5, <1>6 DEF Engine!Enter

LEMMA AdmissionStep ==
    SlotInv /\ KeyInv /\ [Next]_vars => [Engine!AdNext]_(Engine!adVars)
<1> SUFFICES ASSUME SlotInv, KeyInv, [Next]_vars
             PROVE  Engine!AdNext \/ UNCHANGED <<Holders, registered>>
  BY DEF Engine!adVars
<1>1. CASE UNCHANGED vars
  BY <1>1 DEF vars, Holders
<1>2. CASE Next
  <2> PICK r \in Requests : Step(r)
    BY <1>2 DEF Next
  <2>0. /\ PcOK
        /\ r \in Holders <=> pc[r] \in Holding
        /\ ~DEDUP_ENABLE => registered = {}
        /\ DEDUP_ENABLE => /\ registered = Claimed
                           /\ INFLIGHT = {KeyOf(c) : c \in Claimed}
    BY DEF SlotInv, KeyInv, KeysAreExact, Holders
  <2>r. /\ r \in registered => pc[r] \in {"prepare", "streaming"}
        /\ registered \subseteq Requests
    BY <2>0, GatewayAssumption DEF Claimed
  <2>s. SUFFICES \/ UNCHANGED <<Holders, registered>>
                 \/ Engine!Enter(r) \/ Engine!Claim(r)
                 \/ Engine!GiveUp(r) \/ Engine!Leave(r)
    BY DEF Engine!AdNext
  <2>1. CASE RelayGet(r) \/ ArriveLocked(r) \/ QueueTimeout(r) \/ CancelQueued(r)
    <3>1. /\ UNCHANGED registered /\ pc[r] \in {"idle", "queued"}
          /\ Go(r, "done") \/ Go(r, "queued")
      BY <2>1 DEF RelayGet, ArriveLocked, QueueTimeout, CancelQueued, LeaveQueue
    <3>2. Holders' = Holders \ {r}
      BY <2>0, <3>1, MoveEffect DEF Stages, Holding
    <3> QED BY <2>0, <3>1, <3>2 DEF Holding
  <2>2. CASE ArriveFree(r) \/ Admit(r)
    BY <2>2, EnterStep
  <2>3. CASE /\ pc[r] \in Holding /\ Go(r, "done")
             /\ registered' = registered \ {r}
    <3>1. Holders' = Holders \ {r}
      BY <2>0, <2>3, MoveEffect DEF Stages, Holding
    <3> QED BY <2>0, <2>3, <3>1 DEF Engine!Leave
  <2>4. CASE /\ pc[r] \in Holding /\ UNCHANGED registered
             /\ \E stage \in Holding : Go(r, stage)
    <3>1. PICK stage \in Holding : Go(r, stage)
      BY <2>4
    <3>2. Holders' = Holders \cup {r}
      BY <2>0, <3>1, MoveEffect DEF Stages, Holding
    <3> QED BY <2>0, <2>4, <3>2
  <2>5. CASE /\ pc[r] = "body" /\ Go(r, "prepare")
             /\ DEDUP_ENABLE /\ KeyOf(r) \notin INFLIGHT
             /\ registered' = registered \cup {r}
    <3>1. Holders' = Holders
      <4>1. Holders' = Holders \cup {r}
        BY <2>0, <2>5, MoveEffect DEF Stages, Holding
      <4> QED BY <2>0, <2>5, <4>1 DEF Holding
    <3>2. \A d \in registered : KeyOf(d) # KeyOf(r)
      BY <2>0, <2>5
    <3> QED BY <2>0, <2>5, <3>1, <3>2 DEF Engine!Claim, Holding
  <2>6. CASE StreamCleanup(r)
    <3>1. /\ pc[r] = "streaming" /\ Go(r, "finishing")
          /\ registered' = registered \ {r}
      BY <2>6 DEF StreamCleanup, PopKey
    <3>2. Holders' = Holders
      <4>1. Holders' = Holders \cup {r}
        BY <2>0, <3>1, MoveEffect DEF Stages, Holding
      <4> QED BY <2>0, <3>1, <4>1 DEF Holding
    <3>3. CASE r \in registered
      BY <3>1, <3>2, <3>3 DEF Engine!GiveUp
    <3>4. CASE r \notin registered
      BY <3>1, <3>2, <3>4
    <3> QED BY <3>3, <3>4
  <2>7. CASE ReadBody(r)
    <3>1. \/ Go(r, "relaying") /\ UNCHANGED registered
          \/ Go(r, "done") /\ UNCHANGED registered
          \/ /\ Go(r, "prepare") /\ DEDUP_ENABLE /\ KeyOf(r) \notin INFLIGHT
             /\ registered' = registered \cup {r}
          \/ Go(r, "prepare") /\ UNCHANGED registered
      BY <2>7 DEF ReadBody, ClaimKey, Return
    <3>2. pc[r] = "body" /\ r \notin registered
      BY <2>7, <2>r DEF ReadBody, ClaimKey
    <3> QED BY <2>3, <2>4, <2>5, <3>1, <3>2 DEF Holding
  <2>8. CASE BodyFails(r) \/ Finish(r)
    <3>1. /\ pc[r] \in {"body", "finishing", "relaying"} /\ Go(r, "done")
          /\ UNCHANGED registered
      BY <2>8 DEF BodyFails, Finish, Return
    <3> QED BY <2>3, <2>r, <3>1 DEF Holding
  <2>9. CASE PrepareFails(r)
    BY <2>3, <2>9 DEF PrepareFails, PopKey, Return, Holding
  <2>10. CASE StreamOpens(r)
    BY <2>4, <2>10 DEF StreamOpens, Holding
  <2> QED BY <2>1, <2>2, <2>6, <2>7, <2>8, <2>9, <2>10 DEF Step
<1> QED BY <1>1, <1>2

LEMMA AdmissionInit == Init => Engine!AdInit
BY DEF Init, Engine!AdInit, Holders, Holding

-----------------------------------------------------------------------------
(* The three inductive invariants hold in every reachable state.           *)
LEMMA Invariance == Spec => [](SlotInv /\ KeyInv /\ GaugeInv)
<1>1. Init => SlotInv /\ KeyInv /\ GaugeInv
  BY SlotInit, KeyInit, GaugeInit
<1>2. SlotInv /\ KeyInv /\ GaugeInv /\ [Next]_vars
         => (SlotInv /\ KeyInv /\ GaugeInv)'
  BY SlotStep, KeyStep, GaugeStep
<1> QED BY <1>1, <1>2, PTL DEF Spec

(* Types of the semaphore, the queue, the key table and the counters.      *)
THEOREM TypeCorrect == Spec => []TypeOK
<1>1. SlotInv /\ KeyInv /\ GaugeInv => TypeOK
  <2> SUFFICES ASSUME SlotInv, KeyInv, GaugeInv PROVE TypeOK
    OBVIOUS
  <2>1. woken \subseteq Requests
    BY DEF SlotInv, WaitersInOrder, At
  <2> QED BY <2>1 DEF SlotInv, KeyInv, GaugeInv, PcOK, TypeOK
<1> QED BY <1>1, Invariance, PTL

(* No interleaving of admissions, queue timeouts, cancellations and        *)
(* failing streams loses a unit of SEM or makes one.                       *)
THEOREM SlotsAreConserved == Spec => []SlotsConserved
<1>1. SlotInv => SlotsConserved
  BY DEF SlotInv
<1> QED BY <1>1, Invariance, PTL

(* A unit that comes free while requests wait in SEM.acquire is always on  *)
(* its way to one of them, in the order of their arrival.                  *)
THEOREM NoLostWakeUp == Spec => []WaitersAreServed
<1>1. SlotInv => WaitersAreServed
  BY DEF SlotInv, WaitersAreServed
<1> QED BY <1>1, Invariance, PTL

(* With dedup on, INFLIGHT is the key set of the streams between claim and *)
(* cleanup, one stream to a key, and queue_now and active_streams do not   *)
(* drift: neither leaks on any failure path.                               *)
THEOREM NothingLeaks == Spec => []BooksAreExact
<1>1. KeyInv /\ GaugeInv => BooksAreExact
  BY DEF KeyInv, GaugeInv, BooksAreExact
<1> QED BY <1>1, Invariance, PTL

(* The gateway implements the abstract admission contract: at most         *)
(* MAX_CONCURRENCY inside, and no two of them claiming one key.            *)
THEOREM ImplementsAdmission == Spec => AdmissionSpec
<1>1. Spec => [](SlotInv /\ KeyInv)
  BY Invariance, PTL
<1> QED BY <1>1, AdmissionInit, AdmissionStep, PTL
        DEF Spec, AdmissionSpec, Engine!AdSpec
=============================================================================
