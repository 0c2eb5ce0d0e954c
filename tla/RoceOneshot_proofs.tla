-------------------------- MODULE RoceOneshot_proofs --------------------------
(***************************************************************************)
(* Theorems about RoceOneshot for any number of ranks, HCAs, blocks and    *)
(* operations, any sizes, and any of the faults: while the sequence        *)
(* numbers do not wrap (MaxOps < Word), no doorbell is skipped, queued     *)
(* writes and reductions are of one operation, and the transport           *)
(* implements Collective.                                                  *)
(*                                                                         *)
(* The argument turns on Posted(r, p, h), how many operations rank r has   *)
(* posted to p over h.  No rank gets past an operation that not all peers  *)
(* have posted, so                                                         *)
(*     epoch[r] <= Posted(p, r, h) <= door[p] <= epoch[p] + 1              *)
(* and, the same with r and p exchanged, nobody is two operations ahead.   *)
(***************************************************************************)
EXTENDS RoceOneshot, FiniteSetTheorems, WellFoundedInduction, TLAPS

-----------------------------------------------------------------------------
(* Arithmetic of stripes, grids and slots.                                 *)

(* A non-empty set of numbers has a least element.                         *)
LEMMA LeastExists ==
    ASSUME NEW S \in SUBSET Nat, S # {}
    PROVE  \E x \in S : \A y \in S : x <= y
<1> DEFINE Less == OpToRel(<, Nat)
<1>1. PICK x \in S : \A y \in S : <<y, x>> \notin Less
  BY NatLessThanWellFounded, WFMin
<1>2. \A y \in S : ~(y < x)
  BY <1>1 DEF OpToRel
<1>3. \A y \in S : y \in Nat /\ x \in Nat
  OBVIOUS
<1> HIDE DEF Less
<1>4. \A y \in S : x <= y
  BY <1>2, <1>3
<1> QED BY <1>4

LEMMA GridsAreNat == \A g \in Grids : g \in Nat /\ g >= 1 /\ g <= MaxBlocks /\ MaxBlocks \in Nat
  BY RoceAssumption DEF RoceAssumption

LEMMA HcasIsNat == Hcas \in Nat /\ Hcas >= 1
  BY RoceAssumption DEF RoceAssumption

LEMMA GridType ==
    ASSUME NEW n \in Nat
    PROVE  GridOf(n) \in Grids /\ GridOf(n) \in 1 .. MaxBlocks
<1> DEFINE required == (n + 2 * Threads - 1) \div (2 * Threads)
           fit == {g \in Grids : g >= required}
<1>1. CASE fit = {}
  BY <1>1, RoceAssumption DEF RoceAssumption, GridOf
<1>2. CASE fit # {}
  <2>1. fit \in SUBSET Nat
    BY GridsAreNat
  <2>2. \E g \in fit : \A f \in fit : g <= f
    BY <1>2, <2>1, LeastExists
  <2> HIDE DEF fit
  <2>3. (CHOOSE g \in fit : \A f \in fit : g <= f) \in fit
    BY <2>2
  <2>4. fit \subseteq Grids /\ fit # {}
    BY <1>2 DEF fit
  <2>5. GridOf(n) = CHOOSE g \in fit : \A f \in fit : g <= f
    BY <1>2 DEF fit, GridOf
  <2> QED BY <2>3, <2>4, <2>5, RoceAssumption DEF RoceAssumption
<1> QED BY <1>1, <1>2

(* Stripes are monotone, and the last one ends where the packs end.        *)
LEMMA StripeEnds ==
    ASSUME NEW n \in Nat
    PROVE  /\ StripeEnd(0, n) = 0 /\ StripeEnd(Hcas, n) = n
           /\ \A h \in 0 .. Hcas : StripeEnd(h, n) \in 0 .. n
<1> DEFINE q == n \div Hcas
           m == n % Hcas
<1>1. q \in Nat /\ m \in Nat /\ m < Hcas /\ n = Hcas * q + m
  BY RoceAssumption DEF RoceAssumption
<1> HIDE DEF q, m
<1>2. \A h \in 0 .. Hcas : h * q \in Nat /\ h * q <= Hcas * q
  BY <1>1, RoceAssumption DEF RoceAssumption
<1>3. \A h \in 0 .. Hcas : StripeEnd(h, n) = h * q + (IF h < m THEN h ELSE m)
  BY DEF StripeEnd, q, m
<1>4. \A h \in 0 .. Hcas : StripeEnd(h, n) \in 0 .. n
  <2> TAKE h \in 0 .. Hcas
  <2>1. h * q \in Nat /\ h * q <= Hcas * q /\ Hcas * q \in Nat
    BY <1>1, <1>2, RoceAssumption DEF RoceAssumption
  <2> QED BY <1>1, <1>3, <2>1
<1>5. StripeEnd(0, n) = 0
  <2>1. 0 * q = 0 /\ 0 \in 0 .. Hcas
    BY <1>1, HcasIsNat
  <2> QED BY <1>1, <1>3, <2>1, HcasIsNat
<1>6. StripeEnd(Hcas, n) = n
  <2>1. Hcas \in 0 .. Hcas /\ ~(Hcas < m)
    BY <1>1, HcasIsNat
  <2>2. StripeEnd(Hcas, n) = Hcas * q + m
    BY <1>3, <2>1
  <2> QED BY <1>1, <2>2
<1> QED BY <1>4, <1>5, <1>6

LEMMA StripeInside ==
    ASSUME NEW n \in Nat, NEW h \in HcaIds
    PROVE  Stripe(h, n) \subseteq 0 .. n - 1
<1>1. h - 1 \in 0 .. Hcas /\ h \in 0 .. Hcas
  BY RoceAssumption DEF RoceAssumption, HcaIds
<1>2. StripeEnd(h - 1, n) \in 0 .. n /\ StripeEnd(h, n) \in 0 .. n
  BY <1>1, StripeEnds
<1> QED BY <1>2 DEF Stripe

(* Every pack is in the stripe of some HCA.                                *)
LEMMA StripesCover ==
    ASSUME NEW n \in Nat, NEW j \in 0 .. n - 1
    PROVE  \E h \in HcaIds : j \in Stripe(h, n)
<1> DEFINE beyond == {h \in 1 .. Hcas : j < StripeEnd(h, n)}
<1>1. Hcas \in beyond /\ beyond \in SUBSET Nat
  <2>1. StripeEnd(Hcas, n) = n /\ j < n
    BY StripeEnds
  <2>2. Hcas \in 1 .. Hcas
    BY HcasIsNat
  <2> QED BY <2>1, <2>2
<1>2. PICK h \in beyond : \A g \in beyond : h <= g
  BY <1>1, LeastExists
<1>3. h \in HcaIds /\ j < StripeEnd(h, n) /\ h - 1 \in 0 .. Hcas
  BY <1>2, HcasIsNat DEF HcaIds
<1>4. ~(j < StripeEnd(h - 1, n))
  <2>1. CASE h = 1
    BY <2>1, StripeEnds
  <2>2. CASE h > 1
    BY <2>2, <1>2, <1>3 DEF HcaIds
  <2> QED BY <1>3, <2>1, <2>2 DEF HcaIds
<1>5. StripeEnd(h - 1, n) \in Nat /\ StripeEnd(h, n) \in Nat
  BY <1>3, StripeEnds DEF HcaIds
<1> QED BY <1>3, <1>4, <1>5 DEF Stripe

LEMMA Places ==
    ASSUME NEW r \in Ranks
    PROVE  /\ FirstPlace(r) \in Peers(r) \X HcaIds
           /\ \A x \in Peers(r) \X HcaIds :
                NextPlace(r, x)[1] \in Ranks => NextPlace(r, x) \in Peers(r) \X HcaIds
BY RoceAssumption DEF RoceAssumption, FirstPlace, NextPlace, NextPeer, Peers, Ranks, HcaIds

LEMMA SlotType == \A s \in Nat : Slot(s) \in Slots
  BY DEF Slot, Slots

LEMMA Except2 ==
    ASSUME NEW A, NEW B, NEW C, NEW f \in [A -> [B -> C]], NEW x \in A, NEW y \in B, NEW v \in C
    PROVE  [f EXCEPT ![x][y] = v] \in [A -> [B -> C]]
  OBVIOUS

LEMMA Except3 ==
    ASSUME NEW A, NEW B, NEW C, NEW D, NEW f \in [A -> [B -> [C -> D]]],
           NEW x \in A, NEW y \in B, NEW z \in C, NEW v \in D
    PROVE  [f EXCEPT ![x][y][z] = v] \in [A -> [B -> [C -> D]]]
  OBVIOUS

(* What a nested function holds after one of its values has been put.      *)
LEMMA Put2 ==
    ASSUME NEW A, NEW B, NEW C, NEW f \in [A -> [B -> C]], NEW x \in A, NEW y \in B, NEW v
    PROVE  \A a \in A, b \in B :
              [f EXCEPT ![x][y] = v][a][b] = IF a = x /\ b = y THEN v ELSE f[a][b]
  OBVIOUS

LEMMA Put3 ==
    ASSUME NEW A, NEW B, NEW C, NEW D, NEW f \in [A -> [B -> [C -> D]]],
           NEW x \in A, NEW y \in B, NEW z \in C, NEW v
    PROVE  \A a \in A, b \in B, c \in C :
              [f EXCEPT ![x][y][z] = v][a][b][c] =
                  IF a = x /\ b = y /\ c = z THEN v ELSE f[a][b][c]
<1> DEFINE k == f[x][y]
           row == [k EXCEPT ![z] = v]
           T == [C -> D]
<1>1. k \in [C -> D] /\ f \in [A -> [B -> T]]
  OBVIOUS
<1>2. [f EXCEPT ![x][y][z] = v] = [f EXCEPT ![x][y] = row]
  OBVIOUS
<1> HIDE DEF T, k
<1>3. \A c \in C : row[c] = IF c = z THEN v ELSE k[c]
  BY <1>1
<1> HIDE DEF row
<1>4. \A a \in A, b \in B :
         [f EXCEPT ![x][y] = row][a][b] = IF a = x /\ b = y THEN row ELSE f[a][b]
  BY <1>1
<1> QED BY <1>2, <1>3, <1>4 DEF k

LEMMA Put4 ==
    ASSUME NEW A, NEW B, NEW C, NEW D, NEW E, NEW f \in [A -> [B -> [C -> [D -> E]]]],
           NEW x \in A, NEW y \in B, NEW z \in C, NEW w \in D, NEW v
    PROVE  \A a \in A, b \in B, c \in C, d \in D :
              [f EXCEPT ![x][y][z][w] = v][a][b][c][d] =
                  IF a = x /\ b = y /\ c = z /\ d = w THEN v ELSE f[a][b][c][d]
<1> DEFINE k == f[x][y]
           row == [k EXCEPT ![z][w] = v]
           T == [C -> [D -> E]]
<1>1. k \in [C -> [D -> E]] /\ f \in [A -> [B -> T]]
  OBVIOUS
<1>2. [f EXCEPT ![x][y][z][w] = v] = [f EXCEPT ![x][y] = row]
  OBVIOUS
<1> HIDE DEF T, k
<1>3. \A c \in C, d \in D : row[c][d] = IF c = z /\ d = w THEN v ELSE k[c][d]
  BY <1>1
<1> HIDE DEF row
<1>4. \A a \in A, b \in B :
         [f EXCEPT ![x][y] = row][a][b] = IF a = x /\ b = y THEN row ELSE f[a][b]
  BY <1>1
<1> QED BY <1>2, <1>3, <1>4 DEF k

-----------------------------------------------------------------------------
(* Types, with the counters below their grids and the proxies at a peer.   *)

Numbers == 0 .. Word - 1
Labels == {"begin", "arrive", "wait", "reduce", "tail", "exit"}
Write == [seq : Numbers, packs : SUBSET PackIds, sent : BOOLEAN]

HostTypes ==
    /\ host \in [Ranks -> {"up", "raised", "gone"}]
    /\ launched \in [Ranks -> 0 .. MaxOps] /\ accepted \in [Ranks -> 0 .. MaxOps]
DeviceTypes ==
    /\ epoch \in [Ranks -> Numbers] /\ poison \in [Ranks -> Numbers]
    /\ stageCount \in [Ranks -> [Grids -> 0 .. MaxBlocks - 1]]
    /\ tailCount \in [Ranks -> [Grids -> 0 .. MaxBlocks - 1]]
    /\ pc \in [Ranks -> [Blocks -> Labels]]
    /\ seq \in [Ranks -> [Blocks -> Numbers]]
    /\ exact \in [Ranks -> [1 .. MaxOps -> SUBSET PackIds]]
RegionTypes ==
    /\ door \in [Ranks -> Numbers] /\ error \in [Ranks -> Numbers]
    /\ nbytes \in [Ranks -> [Slots -> 0 .. SlotPacks]]
    /\ send \in [Ranks -> [Slots -> [PackIds -> 0 .. MaxOps]]]
    /\ recv \in [Ranks -> [Ranks -> [Slots -> [PackIds -> 0 .. MaxOps]]]]
    /\ flag \in [Ranks -> [Ranks -> [Slots -> [HcaIds -> Numbers]]]]
ProxyTypes ==
    /\ proxy \in [Ranks -> {"poll", "post", "failed", "closed"}]
    /\ lastSeq \in [Ranks -> Numbers] /\ target \in [Ranks -> Numbers]
    /\ at \in [Ranks -> Ranks \X HcaIds] /\ size \in [Ranks -> 0 .. SlotPacks]
    /\ \A r \in Ranks : at[r] \in Peers(r) \X HcaIds
WireTypes ==
    /\ wire \in [Ranks -> [Ranks -> [HcaIds -> Seq(Write)]]]
    /\ \A r, p \in Ranks, h \in HcaIds : Len(wire[r][p][h]) <= Depth

Counters ==
    /\ \A r \in Ranks, g \in Grids : stageCount[r][g] < g /\ tailCount[r][g] < g
    /\ \A r \in Ranks, b \in Blocks : pc[r][b] # "exit" => launched[r] >= 1

Typed ==
    HostTypes /\ DeviceTypes /\ RegionTypes /\ ProxyTypes /\ WireTypes /\ Counters

LEMMA TypedIsTypeOK == Typed => TypeOK
<1> SUFFICES ASSUME Typed PROVE TypeOK
  OBVIOUS
<1>1. \A r, p \in Ranks, h \in HcaIds :
        /\ Len(wire[r][p][h]) <= Depth
        /\ \A i \in 1 .. Len(wire[r][p][h]) : wire[r][p][h][i] \in Write
  <2> TAKE r, p \in Ranks, h \in HcaIds
  <2>1. wire[r][p][h] \in Seq(Write) /\ Len(wire[r][p][h]) <= Depth
    BY DEF Typed, WireTypes
  <2> QED BY <2>1
<1> QED
  BY <1>1 DEF Typed, HostTypes, DeviceTypes, RegionTypes, ProxyTypes, TypeOK, Numbers,
              Labels, Write

LEMMA Bounds ==
    /\ 0 \in Numbers /\ 0 \in 0 .. MaxOps /\ 0 \in 0 .. SlotPacks /\ 0 \in 0 .. MaxBlocks - 1
    /\ \A s \in Numbers : Succ(s) \in Numbers
  BY RoceAssumption, GridsAreNat DEF RoceAssumption, Numbers, Succ

LEMMA InitTyped == Init => Typed
<1> SUFFICES ASSUME Init PROVE Typed
  OBVIOUS
<1> USE Bounds DEF Init
<1>1. HostTypes
  BY DEF HostTypes
<1>2. DeviceTypes
  BY DEF DeviceTypes, Labels
<1>3. RegionTypes
  BY DEF RegionTypes, Blank
<1>4. ProxyTypes
  <2>1. \A r \in Ranks : FirstPlace(r) \in Peers(r) \X HcaIds /\ FirstPlace(r) \in Ranks \X HcaIds
    BY Places DEF Peers
  <2> QED BY <2>1 DEF ProxyTypes
<1>5. WireTypes
  <2>1. <<>> \in Seq(Write) /\ Len(<<>>) = 0 /\ Depth \in Nat
    BY RoceAssumption DEF RoceAssumption
  <2> QED BY <2>1 DEF WireTypes
<1>6. Counters
  BY GridsAreNat DEF Counters
<1> QED BY <1>1, <1>2, <1>3, <1>4, <1>5, <1>6 DEF Typed

LEMMA GridIn ==
    ASSUME Typed, NEW r \in Ranks, launched[r] >= 1
    PROVE  /\ launched[r] \in 1 .. MaxOps /\ Packs[launched[r]] \in 1 .. SlotPacks
           /\ Grid(r) \in Grids /\ Grid(r) \in Nat /\ Grid(r) >= 1 /\ Grid(r) <= MaxBlocks
<1>1. launched[r] \in 1 .. MaxOps
  BY RoceAssumption DEF RoceAssumption, Typed, HostTypes
<1>2. Packs[launched[r]] \in 1 .. SlotPacks /\ Packs[launched[r]] \in Nat
  BY <1>1, RoceAssumption DEF RoceAssumption
<1> QED BY <1>1, <1>2, GridType, GridsAreNat DEF Grid

(* The host's and the stream's steps.                                      *)
LEMMA TypedHost ==
    ASSUME Typed, NEW r \in Ranks, Launch(r) \/ Accept(r) \/ Leave(r)
    PROVE  Typed'
<1> USE DEF hostVars, deviceVars, regionVars, proxyVars
<1>1. CASE Launch(r)
  <2>1. HostTypes'
    BY <1>1, RoceAssumption DEF RoceAssumption, Launch, Typed, HostTypes
  <2>2. DeviceTypes'
    BY <1>1 DEF Launch, Typed, DeviceTypes, Labels
  <2>3. RegionTypes' /\ ProxyTypes' /\ WireTypes'
    BY <1>1 DEF Launch, Typed, RegionTypes, ProxyTypes, WireTypes
  <2>4. Counters'
    BY <1>1 DEF Launch, Typed, Counters, HostTypes, DeviceTypes
  <2> QED BY <2>1, <2>2, <2>3, <2>4 DEF Typed
<1>2. CASE Accept(r)
  <2>1. HostTypes'
    <3>1. \A n \in Results(r) : n \in 0 .. MaxOps
      <4>1. launched[r] \in 0 .. MaxOps /\ accepted[r] \in 0 .. MaxOps /\ MaxOps \in Nat
        BY RoceAssumption DEF RoceAssumption, Typed, HostTypes
      <4> QED BY <4>1 DEF Results, Finished
    <3> QED BY <1>2, <3>1 DEF Accept, Typed, HostTypes
  <2> QED BY <1>2, <2>1 DEF Accept, Typed, DeviceTypes, RegionTypes, ProxyTypes, WireTypes, Counters
<1>3. CASE Leave(r)
  <2>1. HostTypes' /\ RegionTypes' /\ ProxyTypes'
    BY <1>3 DEF Leave, Typed, HostTypes, RegionTypes, ProxyTypes
  <2>2. DeviceTypes'
    BY <1>3 DEF Leave, Typed, DeviceTypes, Labels
  <2>3. WireTypes'
    <3>1. <<>> \in Seq(Write) /\ Len(<<>>) = 0 /\ Depth \in Nat /\ 0 <= Depth
      BY RoceAssumption DEF RoceAssumption
    <3> QED BY <1>3, <3>1 DEF Leave, Typed, WireTypes
  <2>4. Counters'
    BY <1>3 DEF Leave, Typed, Counters, DeviceTypes
  <2> QED BY <2>1, <2>2, <2>3, <2>4 DEF Typed
<1> QED BY <1>1, <1>2, <1>3

LEMMA TickBelow ==
    ASSUME NEW g \in Nat, g >= 1, NEW c \in Nat, c < g
    PROVE  Tick(c, g) \in Nat /\ Tick(c, g) < g
  BY DEF Tick

(* The kernel's steps.                                                     *)
LEMMA TypedKernel ==
    ASSUME Typed, NEW r \in Ranks, NEW b \in Blocks, Block(r, b) \/ Expire(r, b)
    PROVE  Typed'
<1> USE DEF hostVars, deviceVars, regionVars, proxyVars, Go
<1>1. CASE Stage(r, b)
  <2>1. HostTypes' /\ ProxyTypes' /\ WireTypes'
    BY <1>1 DEF Stage, Typed, HostTypes, ProxyTypes, WireTypes
  <2>2. DeviceTypes'
    <3>1. Succ(epoch[r]) \in Numbers
      BY Bounds DEF Typed, DeviceTypes
    <3>2. seq' \in [Ranks -> [Blocks -> Numbers]]
      BY <1>1, <3>1 DEF Stage, Typed, DeviceTypes
    <3>3. pc' \in [Ranks -> [Blocks -> Labels]]
      <4>1. \E l \in Labels : pc' = [pc EXCEPT ![r][b] = l]
        BY <1>1 DEF Stage, Labels
      <4>2. pc \in [Ranks -> [Blocks -> Labels]]
        BY DEF Typed, DeviceTypes
      <4> QED BY <4>1, <4>2
    <3> QED BY <1>1, <3>2, <3>3 DEF Stage, Typed, DeviceTypes
  <2>3. RegionTypes'
    <3> DEFINE o == Slot(Succ(epoch[r]))
               row == [j \in PackIds |-> IF j \in PacksOf(r, b) THEN launched[r] ELSE send[r][o][j]]
    <3>1. o \in Slots
      BY Bounds, SlotType DEF Typed, DeviceTypes, Numbers
    <3>2. row \in [PackIds -> 0 .. MaxOps]
      BY <3>1 DEF Typed, HostTypes, RegionTypes
    <3>3. send' = [send EXCEPT ![r][o] = row] \/ send' = send
      BY <1>1 DEF Stage
    <3> HIDE DEF o, row
    <3>4. send' \in [Ranks -> [Slots -> [PackIds -> 0 .. MaxOps]]]
      <4> DEFINE D == [PackIds -> 0 .. MaxOps]
      <4>1. send \in [Ranks -> [Slots -> D]] /\ row \in D
        BY <3>2 DEF Typed, RegionTypes
      <4> HIDE DEF D
      <4>2. [send EXCEPT ![r][o] = row] \in [Ranks -> [Slots -> D]]
        BY <3>1, <4>1, Except2, Zenon
      <4>3. send' \in [Ranks -> [Slots -> D]]
        BY <3>3, <4>1, <4>2
      <4> QED BY <4>3 DEF D
    <3> QED BY <1>1, <3>4 DEF Stage, Typed, RegionTypes
  <2>4. Counters'
    BY <1>1 DEF Stage, Typed, Counters, DeviceTypes
  <2> QED BY <2>1, <2>2, <2>3, <2>4 DEF Typed
<1>2. CASE Arrive(r, b)
  <2>1. launched[r] >= 1
    BY <1>2 DEF Arrive, Typed, Counters
  <2>2. Grid(r) \in Grids /\ Grid(r) \in Nat /\ Grid(r) >= 1 /\ Grid(r) <= MaxBlocks
        /\ Packs[launched[r]] \in 0 .. SlotPacks /\ MaxBlocks \in Nat
    BY <2>1, GridIn, GridsAreNat, RoceAssumption DEF RoceAssumption
  <2>3. Tick(stageCount[r][Grid(r)], Grid(r)) \in 0 .. MaxBlocks - 1
        /\ Tick(stageCount[r][Grid(r)], Grid(r)) < Grid(r)
    <3>1. stageCount[r][Grid(r)] \in Nat /\ stageCount[r][Grid(r)] < Grid(r)
      BY <2>2 DEF Typed, DeviceTypes, Counters
    <3>2. Tick(stageCount[r][Grid(r)], Grid(r)) \in Nat
          /\ Tick(stageCount[r][Grid(r)], Grid(r)) < Grid(r)
      BY <2>2, <3>1, TickBelow
    <3> QED BY <2>2, <3>2
  <2>4. HostTypes' /\ ProxyTypes' /\ WireTypes'
    BY <1>2 DEF Arrive, Typed, HostTypes, ProxyTypes, WireTypes
  <2>5. stageCount' = [stageCount EXCEPT ![r][Grid(r)] = Tick(stageCount[r][Grid(r)], Grid(r))]
    BY <1>2 DEF Arrive
  <2>6. DeviceTypes'
    BY <1>2, <2>2, <2>3, <2>5 DEF Arrive, Typed, DeviceTypes, Labels
  <2>7. RegionTypes'
    <3>1. seq[r][b] \in Numbers /\ Slot(seq[r][b]) \in Slots
      BY SlotType DEF Typed, DeviceTypes, Numbers
    <3>2. nbytes' = [nbytes EXCEPT ![r][Slot(seq[r][b])] = Packs[launched[r]]] \/ nbytes' = nbytes
      BY <1>2 DEF Arrive
    <3>3. nbytes' \in [Ranks -> [Slots -> 0 .. SlotPacks]]
      <4>1. nbytes \in [Ranks -> [Slots -> 0 .. SlotPacks]]
        BY DEF Typed, RegionTypes
      <4> QED BY <2>2, <3>1, <3>2, <4>1
    <3>4. door' \in [Ranks -> Numbers]
      BY <1>2, <3>1 DEF Arrive, Typed, RegionTypes
    <3> QED BY <1>2, <3>3, <3>4 DEF Arrive, Typed, RegionTypes
  <2>8. Counters'
    BY <1>2, <2>2, <2>3, <2>5 DEF Arrive, Typed, Counters, DeviceTypes
  <2> QED BY <2>4, <2>6, <2>7, <2>8 DEF Typed
<1>3. CASE Pass(r, b)
  <2>1. DeviceTypes'
    BY <1>3 DEF Pass, Typed, DeviceTypes, Labels
  <2>2. Counters'
    BY <1>3 DEF Pass, Typed, Counters, DeviceTypes
  <2> QED BY <1>3, <2>1, <2>2 DEF Pass, Typed, HostTypes, RegionTypes, ProxyTypes, WireTypes
<1>4. CASE Expire(r, b)
  <2>1. DeviceTypes'
    BY <1>4 DEF Expire, Typed, DeviceTypes, Labels
  <2>2. RegionTypes'
    BY <1>4 DEF Expire, Typed, RegionTypes, DeviceTypes
  <2>3. Counters'
    BY <1>4 DEF Expire, Typed, Counters, DeviceTypes
  <2> QED BY <1>4, <2>1, <2>2, <2>3 DEF Expire, Typed, HostTypes, ProxyTypes, WireTypes
<1>5. CASE Reduce(r, b)
  <2>1. launched[r] \in 1 .. MaxOps /\ Packs[launched[r]] \in 1 .. SlotPacks
    BY <1>5, GridIn DEF Reduce, Typed, Counters
  <2>2. PacksOf(r, b) \subseteq PackIds
    BY <2>1, RoceAssumption DEF RoceAssumption, PacksOf, PackIds
  <2>3. DeviceTypes'
    BY <1>5, <2>1, <2>2 DEF Reduce, Typed, DeviceTypes, Labels
  <2>4. Counters'
    BY <1>5 DEF Reduce, Typed, Counters, DeviceTypes
  <2> QED BY <1>5, <2>3, <2>4 DEF Reduce, Typed, HostTypes, RegionTypes, ProxyTypes, WireTypes
<1>6. CASE Finish(r, b)
  <2>1. launched[r] >= 1
    BY <1>6 DEF Finish, Typed, Counters
  <2>2. Grid(r) \in Grids /\ Grid(r) \in Nat /\ Grid(r) >= 1 /\ Grid(r) <= MaxBlocks
        /\ MaxBlocks \in Nat
    BY <2>1, GridIn, GridsAreNat
  <2>3. Tick(tailCount[r][Grid(r)], Grid(r)) \in 0 .. MaxBlocks - 1
        /\ Tick(tailCount[r][Grid(r)], Grid(r)) < Grid(r)
    <3>1. tailCount[r][Grid(r)] \in Nat /\ tailCount[r][Grid(r)] < Grid(r)
      BY <2>2 DEF Typed, DeviceTypes, Counters
    <3>2. Tick(tailCount[r][Grid(r)], Grid(r)) \in Nat
          /\ Tick(tailCount[r][Grid(r)], Grid(r)) < Grid(r)
      BY <2>2, <3>1, TickBelow
    <3> QED BY <2>2, <3>2
  <2>4. tailCount' = [tailCount EXCEPT ![r][Grid(r)] = Tick(tailCount[r][Grid(r)], Grid(r))]
    BY <1>6 DEF Finish
  <2>5. DeviceTypes'
    <3>1. epoch' = [epoch EXCEPT ![r] = seq[r][b]] \/ epoch' = epoch
      BY <1>6 DEF Finish
    <3>2. epoch' \in [Ranks -> Numbers]
      <4>1. epoch \in [Ranks -> Numbers] /\ seq[r][b] \in Numbers
        BY DEF Typed, DeviceTypes
      <4> QED BY <3>1, <4>1
    <3>3. tailCount' \in [Ranks -> [Grids -> 0 .. MaxBlocks - 1]]
      BY <2>2, <2>3, <2>4 DEF Typed, DeviceTypes
    <3>4. pc' \in [Ranks -> [Blocks -> Labels]]
      BY <1>6 DEF Finish, Typed, DeviceTypes, Labels
    <3> QED BY <1>6, <3>2, <3>3, <3>4 DEF Finish, Typed, DeviceTypes
  <2>6. Counters'
    BY <1>6, <2>2, <2>3, <2>4 DEF Finish, Typed, Counters, DeviceTypes
  <2> QED BY <1>6, <2>5, <2>6 DEF Finish, Typed, HostTypes, RegionTypes, ProxyTypes, WireTypes
<1> QED BY <1>1, <1>2, <1>3, <1>4, <1>5, <1>6 DEF Block

(* The proxy's steps.                                                      *)
LEMMA TypedProxy ==
    ASSUME Typed, NEW r \in Ranks, Poll(r) \/ Post(r)
    PROVE  Typed'
<1> USE DEF hostVars, deviceVars, regionVars, proxyVars
<1>1. Slot(Succ(lastSeq[r])) \in Slots /\ Succ(lastSeq[r]) \in Numbers
      /\ Slot(Succ(Succ(lastSeq[r]))) \in Slots
  BY Bounds, SlotType DEF Typed, ProxyTypes, Numbers
<1>2. \A s \in Slots : nbytes[r][s] \in 0 .. SlotPacks
  BY DEF Typed, RegionTypes
<1>3. CASE Poll(r)
  <2>1. ProxyTypes'
    <3>1. FirstPlace(r) \in Peers(r) \X HcaIds /\ FirstPlace(r) \in Ranks \X HcaIds
      BY Places DEF Peers
    <3>2. door[r] \in Numbers
      BY DEF Typed, RegionTypes
    <3>3. CASE proxy' = [proxy EXCEPT ![r] = "failed"] /\ UNCHANGED <<target, at, size>>
      BY <1>3, <3>3 DEF Poll, Typed, ProxyTypes
    <3>4. CASE proxy' = [proxy EXCEPT ![r] = "post"]
      <4>1. target' = [target EXCEPT ![r] = door[r]] /\ at' = [at EXCEPT ![r] = FirstPlace(r)]
            /\ size' = [size EXCEPT ![r] = nbytes[r][Slot(Succ(lastSeq[r]))]] /\ lastSeq' = lastSeq
        <5>1. proxy'[r] = "post"
          BY <3>4 DEF Typed, ProxyTypes
        <5>2. proxy' # [proxy EXCEPT ![r] = "failed"]
          BY <5>1 DEF Typed, ProxyTypes
        <5> QED BY <1>3, <5>2 DEF Poll
      <4> QED BY <1>1, <1>2, <3>1, <3>2, <3>4, <4>1 DEF Typed, ProxyTypes
    <3> QED BY <1>3, <3>3, <3>4 DEF Poll
  <2> QED BY <1>3, <2>1 DEF Poll, Typed, HostTypes, DeviceTypes, RegionTypes, WireTypes, Counters
<1>4. CASE Post(r)
  <2> DEFINE p == at[r][1]
             h == at[r][2]
             w == [seq |-> Succ(lastSeq[r]), packs |-> Stripe(h, size[r]),
                   sent |-> Stripe(h, size[r]) = {}]
  <2>1. p \in Peers(r) /\ p \in Ranks /\ h \in HcaIds
    BY DEF Typed, ProxyTypes, Peers
  <2>2. size[r] \in Nat /\ size[r] <= SlotPacks /\ SlotPacks \in Nat
    BY RoceAssumption DEF RoceAssumption, Typed, ProxyTypes
  <2>3. Stripe(h, size[r]) \subseteq PackIds
    BY <2>1, <2>2, StripeInside DEF PackIds
  <2>4. w \in Write
    BY <1>1, <2>3 DEF Write
  <2>5. wire' = [wire EXCEPT ![r][p][h] = Append(wire[r][p][h], w)] /\ Len(wire[r][p][h]) < Depth
    BY <1>4 DEF Post
  <2>6. Append(wire[r][p][h], w) \in Seq(Write)
        /\ Len(Append(wire[r][p][h], w)) = Len(wire[r][p][h]) + 1
    BY <2>1, <2>4 DEF Typed, WireTypes
  <2>7. Len(wire[r][p][h]) \in Nat /\ Depth \in Nat
    BY <2>1, RoceAssumption DEF RoceAssumption, Typed, WireTypes
  <2> HIDE DEF w
  <2>8. WireTypes'
    <3> HIDE DEF p, h
    <3> QED BY <2>1, <2>5, <2>6, <2>7 DEF Typed, WireTypes
  <2>9. ProxyTypes'
    <3>1. NextPlace(r, at[r])[1] \in Ranks =>
             /\ NextPlace(r, at[r]) \in Peers(r) \X HcaIds
             /\ NextPlace(r, at[r]) \in Ranks \X HcaIds
      BY Places DEF Peers, Typed, ProxyTypes
    <3>2. FirstPlace(r) \in Peers(r) \X HcaIds /\ FirstPlace(r) \in Ranks \X HcaIds
      BY Places DEF Peers
    <3>3. at' \in [Ranks -> Ranks \X HcaIds] /\ \A q \in Ranks : at'[q] \in Peers(q) \X HcaIds
      <4>1. \E x \in Peers(r) \X HcaIds :
              x \in Ranks \X HcaIds /\ at' = [at EXCEPT ![r] = x]
        BY <1>4, <3>1, <3>2 DEF Post
      <4> QED BY <4>1 DEF Typed, ProxyTypes
    <3>4. size' \in [Ranks -> 0 .. SlotPacks]
      <4>1. size' = size \/ size' = [size EXCEPT ![r] = nbytes[r][Slot(Succ(Succ(lastSeq[r])))]]
        BY <1>4 DEF Post
      <4> QED BY <1>1, <1>2, <4>1 DEF Typed, ProxyTypes
    <3>5. lastSeq' = lastSeq \/ lastSeq' = [lastSeq EXCEPT ![r] = Succ(lastSeq[r])]
      BY <1>4 DEF Post
    <3>6. proxy' = proxy \/ proxy' = [proxy EXCEPT ![r] = "poll"]
      BY <1>4 DEF Post
    <3>7. target' = target
      BY <1>4 DEF Post
    <3>8. lastSeq' \in [Ranks -> Numbers]
      BY <1>1, <3>5 DEF Typed, ProxyTypes
    <3>9. proxy' \in [Ranks -> {"poll", "post", "failed", "closed"}]
      BY <3>6 DEF Typed, ProxyTypes
    <3> QED BY <3>3, <3>4, <3>7, <3>8, <3>9 DEF Typed, ProxyTypes
  <2> QED BY <1>4, <2>8, <2>9 DEF Post, Typed, HostTypes, DeviceTypes, RegionTypes, Counters
<1> QED BY <1>3, <1>4

(* One queue changes.                                                      *)
LEMMA OneQueueTyped ==
    ASSUME WireTypes, NEW r \in Ranks, NEW p \in Ranks, NEW h \in HcaIds,
           NEW s \in Seq(Write), Len(s) <= Depth, wire' = [wire EXCEPT ![r][p][h] = s]
    PROVE  WireTypes'
<1> DEFINE Q == Seq(Write)
<1>1. wire \in [Ranks -> [Ranks -> [HcaIds -> Q]]] /\ s \in Q
  BY DEF WireTypes
<1> HIDE DEF Q
<1>2. \A q, d \in Ranks, g \in HcaIds :
         wire'[q][d][g] = IF q = r /\ d = p /\ g = h THEN s ELSE wire[q][d][g]
  BY <1>1, Put3
<1>3. wire' \in [Ranks -> [Ranks -> [HcaIds -> Q]]]
  BY <1>1, Except3, Zenon
<1>4. \A q, d \in Ranks, g \in HcaIds : Len(wire[q][d][g]) <= Depth
  BY DEF WireTypes
<1>5. \A q, d \in Ranks, g \in HcaIds : Len(wire'[q][d][g]) <= Depth
  BY <1>2, <1>4
<1> QED BY <1>3, <1>5 DEF WireTypes, Q

(* The steps of a queue pair.                                              *)
LEMMA TypedNic ==
    ASSUME Typed, NEW r \in Ranks, NEW p \in Peers(r), NEW h \in HcaIds,
           Nic(r, p, h) \/ WriteFails(r, p, h)
    PROVE  Typed'
<1> USE DEF hostVars, deviceVars, regionVars, proxyVars
<1>1. p \in Ranks /\ wire[r][p][h] \in Seq(Write) /\ Len(wire[r][p][h]) <= Depth /\ Depth \in Nat
  BY RoceAssumption DEF RoceAssumption, Typed, WireTypes, Peers
<1>2. wire[r][p][h] # <<>> =>
        /\ Head(wire[r][p][h]) \in Write /\ Head(wire[r][p][h]) = wire[r][p][h][1]
        /\ Tail(wire[r][p][h]) \in Seq(Write) /\ Len(Tail(wire[r][p][h])) <= Depth
        /\ Slot(Head(wire[r][p][h]).seq) \in Slots
  <2> SUFFICES ASSUME wire[r][p][h] # <<>>
               PROVE  /\ Head(wire[r][p][h]) \in Write /\ Head(wire[r][p][h]) = wire[r][p][h][1]
                      /\ Tail(wire[r][p][h]) \in Seq(Write) /\ Len(Tail(wire[r][p][h])) <= Depth
                      /\ Slot(Head(wire[r][p][h]).seq) \in Slots
    OBVIOUS
  <2>1. Head(wire[r][p][h]) \in Write /\ Head(wire[r][p][h]) = wire[r][p][h][1]
        /\ Tail(wire[r][p][h]) \in Seq(Write) /\ Len(Tail(wire[r][p][h])) <= Depth
    BY <1>1
  <2>2. Head(wire[r][p][h]).seq \in Nat
    BY <2>1 DEF Write, Numbers
  <2> QED BY <2>1, <2>2, SlotType
<1>3. CASE WriteData(r, p, h)
  <2>1. [wire[r][p][h] EXCEPT ![1].sent = TRUE] \in Seq(Write)
        /\ Len([wire[r][p][h] EXCEPT ![1].sent = TRUE]) = Len(wire[r][p][h])
    <3>1. [wire[r][p][h][1] EXCEPT !.sent = TRUE] \in Write
      BY <1>2, <1>3 DEF WriteData, Write
    <3>2. wire[r][p][h] \in Seq(Write) /\ 1 \in 1 .. Len(wire[r][p][h])
      <4>1. wire[r][p][h] # <<>>
        BY <1>3 DEF WriteData
      <4> QED BY <1>1, <4>1
    <3>3. [wire[r][p][h] EXCEPT ![1].sent = TRUE]
            = [wire[r][p][h] EXCEPT ![1] = [wire[r][p][h][1] EXCEPT !.sent = TRUE]]
      OBVIOUS
    <3>4. \A q \in Seq(Write), w \in Write : 1 \in 1 .. Len(q) =>
             [q EXCEPT ![1] = w] \in Seq(Write) /\ Len([q EXCEPT ![1] = w]) = Len(q)
      OBVIOUS
    <3> QED BY <3>1, <3>2, <3>3, <3>4
  <2>2. wire' = [wire EXCEPT ![r][p][h] = [wire[r][p][h] EXCEPT ![1].sent = TRUE]]
    BY <1>3 DEF WriteData
  <2>3. WireTypes'
    <3> DEFINE q == [wire[r][p][h] EXCEPT ![1].sent = TRUE]
    <3>1. q \in Seq(Write) /\ Len(q) <= Depth /\ wire' = [wire EXCEPT ![r][p][h] = q] /\ WireTypes
      BY <1>1, <2>1, <2>2 DEF Typed
    <3> HIDE DEF q
    <3> QED BY <1>1, <3>1, OneQueueTyped
  <2>4. RegionTypes'
    <3> DEFINE w == Head(wire[r][p][h])
               row == [j \in PackIds |-> IF j \in w.packs THEN send[r][Slot(w.seq)][j]
                                         ELSE recv[p][r][Slot(w.seq)][j]]
    <3>1. Slot(w.seq) \in Slots
      BY <1>2, <1>3 DEF WriteData
    <3>2. row \in [PackIds -> 0 .. MaxOps]
      <4>1. send[r][Slot(w.seq)] \in [PackIds -> 0 .. MaxOps]
            /\ recv[p][r][Slot(w.seq)] \in [PackIds -> 0 .. MaxOps]
        <5> DEFINE D == [PackIds -> 0 .. MaxOps]
        <5>1. send \in [Ranks -> [Slots -> D]] /\ recv \in [Ranks -> [Ranks -> [Slots -> D]]]
          BY DEF Typed, RegionTypes
        <5> HIDE DEF D, w
        <5>2. send[r][Slot(w.seq)] \in D /\ recv[p][r][Slot(w.seq)] \in D
          BY <1>1, <3>1, <5>1
        <5> QED BY <5>2 DEF D
      <4> HIDE DEF w
      <4> QED BY <4>1
    <3>3. recv' = [recv EXCEPT ![p][r][Slot(w.seq)] = row]
      BY <1>3 DEF WriteData
    <3> HIDE DEF w, row
    <3>4. recv' \in [Ranks -> [Ranks -> [Slots -> [PackIds -> 0 .. MaxOps]]]]
      <4> DEFINE o == Slot(w.seq)
                 D == [PackIds -> 0 .. MaxOps]
      <4>1. recv \in [Ranks -> [Ranks -> [Slots -> D]]] /\ row \in D
        BY <3>2 DEF Typed, RegionTypes
      <4>2. o \in Slots
        BY <3>1
      <4>3. recv' = [recv EXCEPT ![p][r][o] = row]
        BY <3>3
      <4> HIDE DEF D, o
      <4>4. [recv EXCEPT ![p][r][o] = row] \in [Ranks -> [Ranks -> [Slots -> D]]]
        BY <1>1, <4>1, <4>2, Except3, Zenon
      <4>5. recv' \in [Ranks -> [Ranks -> [Slots -> D]]]
        BY <4>3, <4>4
      <4> QED BY <4>5 DEF D
    <3> QED BY <1>3, <3>4 DEF WriteData, Typed, RegionTypes
  <2> QED BY <1>3, <2>3, <2>4 DEF WriteData, Typed, HostTypes, DeviceTypes, ProxyTypes, Counters
<1>4. CASE WriteFlag(r, p, h)
  <2>1. WireTypes'
    <3> DEFINE q == Tail(wire[r][p][h])
    <3>1. q \in Seq(Write) /\ Len(q) <= Depth /\ wire' = [wire EXCEPT ![r][p][h] = q] /\ WireTypes
      BY <1>2, <1>4 DEF WriteFlag, Typed
    <3> HIDE DEF q
    <3> QED BY <1>1, <3>1, OneQueueTyped
  <2>2. RegionTypes'
    <3> DEFINE w == Head(wire[r][p][h])
               o == Slot(w.seq)
               D == [HcaIds -> Numbers]
               row == [flag[p][r][o] EXCEPT ![h] = w.seq]
    <3>1. o \in Slots /\ w.seq \in Numbers
      BY <1>2, <1>4 DEF WriteFlag, Write
    <3>2. flag \in [Ranks -> [Ranks -> [Slots -> D]]]
      BY DEF Typed, RegionTypes
    <3>3. flag' = [flag EXCEPT ![p][r][o][h] = w.seq]
      BY <1>4 DEF WriteFlag
    <3>4. flag' = [flag EXCEPT ![p][r][o] = row]
      BY <3>3
    <3>5. row \in D
      <4>1. flag[p][r][o] \in D
        <5> HIDE DEF D, o
        <5> QED BY <1>1, <3>1, <3>2
      <4> HIDE DEF w, o
      <4> QED BY <3>1, <4>1
    <3>6. flag' \in [Ranks -> [Ranks -> [Slots -> D]]]
      <4> HIDE DEF D, o, row
      <4>1. [flag EXCEPT ![p][r][o] = row] \in [Ranks -> [Ranks -> [Slots -> D]]]
        BY <1>1, <3>1, <3>2, <3>5, Except3, Zenon
      <4> QED BY <3>4, <4>1
    <3>7. UNCHANGED <<door, error, nbytes, send, recv>>
      BY <1>4 DEF WriteFlag
    <3> QED BY <3>6, <3>7 DEF Typed, RegionTypes
  <2> QED BY <1>4, <2>1, <2>2 DEF WriteFlag, Typed, HostTypes, DeviceTypes, ProxyTypes, Counters
<1>5. CASE WriteFails(r, p, h)
  <2>1. <<>> \in Seq(Write) /\ Len(<<>>) = 0 /\ 0 <= Depth
    BY <1>1
  <2>2. WireTypes' /\ ProxyTypes'
    <3>1. WireTypes'
      BY <1>1, <1>5, <2>1 DEF WriteFails, Typed, WireTypes
    <3>2. ProxyTypes'
      BY <1>5 DEF WriteFails, Typed, ProxyTypes
    <3> QED BY <3>1, <3>2
  <2> QED BY <1>5, <2>2 DEF WriteFails, Typed, HostTypes, DeviceTypes, RegionTypes, Counters
<1> QED BY <1>3, <1>4, <1>5 DEF Nic

LEMMA StepTyped == Typed /\ [Next]_vars => Typed'
<1> SUFFICES ASSUME Typed, [Next]_vars PROVE Typed'
  OBVIOUS
<1>1. CASE Next
  BY <1>1, TypedHost, TypedKernel, TypedProxy, TypedNic DEF Next
<1>2. CASE UNCHANGED vars
  BY <1>2 DEF vars, hostVars, deviceVars, regionVars, proxyVars, Typed, HostTypes, DeviceTypes,
              RegionTypes, ProxyTypes, WireTypes, Counters
<1> QED BY <1>1, <1>2

(* Types of every variable, for any numbers of ranks, HCAs and blocks and  *)
(* any faults; no queue pair holds more than Depth writes.                 *)
THEOREM TypeCorrect == Spec => []TypeOK
<1>1. Spec => []Typed
  BY InitTyped, StepTyped, PTL DEF Spec
<1> QED BY <1>1, TypedIsTypeOK, PTL

-----------------------------------------------------------------------------
(* Who may be how far ahead of whom.                                       *)

Live(r) == host[r] # "gone"
Ahead(x, y) == x[1] < y[1] \/ (x[1] = y[1] /\ x[2] < y[2])

(* How many operations r has posted to p over h: the proxy goes round the  *)
(* queue pairs in the order of Ahead.                                      *)
Posted(r, p, h) == IF Ahead(<<p, h>>, at[r]) THEN lastSeq[r] + 1 ELSE lastSeq[r]

ProxySync(r) ==
    /\ lastSeq[r] <= target[r] /\ target[r] <= door[r]
    /\ proxy[r] = "poll" => at[r] = FirstPlace(r)
    /\ proxy[r] = "post" => lastSeq[r] < target[r]
    /\ at[r] # FirstPlace(r) => lastSeq[r] < target[r]

KernelSync(r) ==
    /\ door[r] <= epoch[r] + 1 /\ door[r] <= launched[r] /\ epoch[r] <= launched[r]
    /\ accepted[r] <= launched[r]
    /\ Live(r) \/ Idle(r)
    /\ Live(r) =>
        /\ poison[r] = 0 <=> error[r] = 0
        /\ Idle(r) /\ error[r] = 0 => launched[r] = epoch[r]
        /\ ~Idle(r) /\ error[r] = 0 => launched[r] = epoch[r] + 1
        /\ ~Idle(r) => epoch[r] < launched[r] /\ accepted[r] < launched[r]
        /\ \A b \in Blocks :
            /\ pc[r][b] \in {"arrive", "wait", "reduce"} => launched[r] = epoch[r] + 1
            /\ pc[r][b] \notin {"begin", "exit"} => seq[r][b] = epoch[r] + 1
            /\ ~Idle(r) /\ b >= Grid(r) => pc[r][b] = "exit"

(* The tail counter counts the blocks that have left a running kernel.     *)
Exited(r) == {b \in 0 .. Grid(r) - 1 : pc[r][b] = "exit"}
TailSync(r) == Live(r) => \A g \in Grids :
    tailCount[r][g] = IF ~Idle(r) /\ g = Grid(r) THEN Cardinality(Exited(r)) ELSE 0

(* The operations r has passed, or is passing, the wait of.                *)
Passed(r, b) == pc[r][b] = "reduce" \/ (pc[r][b] = "tail" /\ error[r] = 0)
Got(r) == {epoch[r]} \cup {seq[r][b] : b \in {c \in Blocks : Passed(r, c)}}

(* From r to p over h: what p has seen, what is on the wire, what r has    *)
(* posted, in this order.                                                  *)
Flow(r, p, h) ==
    /\ \A s \in Got(p) : s <= Posted(r, p, h)
    /\ \A o \in Slots : /\ flag[p][r][o][h] <= Posted(r, p, h)
                        /\ flag[p][r][o][h] # 0 => Slot(flag[p][r][o][h]) = o
    /\ \A i \in 1 .. Len(wire[r][p][h]) :
        /\ wire[r][p][h][i].seq <= Posted(r, p, h)
        /\ \A s \in Got(p) : s < wire[r][p][h][i].seq
        /\ \A o \in Slots : flag[p][r][o][h] < wire[r][p][h][i].seq
        /\ \A j \in 1 .. Len(wire[r][p][h]) :
              i < j => wire[r][p][h][i].seq < wire[r][p][h][j].seq
NoLoop == \A r \in Ranks, h \in HcaIds : wire[r][r][h] = <<>>

Sync ==
    /\ \A r \in Ranks : ProxySync(r) /\ KernelSync(r) /\ TailSync(r)
    /\ \A r \in Ranks : \A p \in Peers(r), h \in HcaIds : Flow(r, p, h)
    /\ NoLoop

(* The words of one rank as numbers.                                       *)
LEMMA OwnTypes ==
    ASSUME Typed, NEW r \in Ranks
    PROVE  /\ Word \in Nat /\ Word > 2 /\ MaxOps \in Nat
           /\ launched[r] \in Nat /\ launched[r] <= MaxOps /\ accepted[r] \in Nat
           /\ epoch[r] \in Nat /\ epoch[r] < Word /\ poison[r] \in Nat
           /\ door[r] \in Nat /\ door[r] < Word /\ error[r] \in Nat
           /\ lastSeq[r] \in Nat /\ lastSeq[r] < Word
           /\ target[r] \in Nat /\ target[r] < Word
           /\ at[r] \in Peers(r) \X HcaIds /\ size[r] \in 0 .. SlotPacks
           /\ \A b \in Blocks : seq[r][b] \in Nat /\ seq[r][b] < Word
<1>1. Word \in Nat /\ Word > 2 /\ MaxOps \in Nat
  BY RoceAssumption DEF RoceAssumption
<1>2. launched[r] \in 0 .. MaxOps /\ accepted[r] \in 0 .. MaxOps
  BY DEF Typed, HostTypes
<1>3. epoch[r] \in Numbers /\ poison[r] \in Numbers /\ \A b \in Blocks : seq[r][b] \in Numbers
  BY DEF Typed, DeviceTypes
<1>4. door[r] \in Numbers /\ error[r] \in Numbers
  BY DEF Typed, RegionTypes
<1>5. /\ lastSeq[r] \in Numbers /\ target[r] \in Numbers
      /\ at[r] \in Peers(r) \X HcaIds /\ size[r] \in 0 .. SlotPacks
  BY DEF Typed, ProxyTypes
<1>6. \A n \in Numbers : n \in Nat /\ n < Word
  BY <1>1 DEF Numbers
<1>7. \A n \in 0 .. MaxOps : n \in Nat /\ n <= MaxOps
  BY <1>1
<1> QED BY <1>1, <1>2, <1>3, <1>4, <1>5, <1>6, <1>7

LEMMA FlagTypes ==
    ASSUME Typed, NEW p \in Ranks, NEW r \in Ranks, NEW h \in HcaIds, NEW o \in Slots
    PROVE  flag[p][r][o][h] \in Nat /\ flag[p][r][o][h] < Word
  BY RoceAssumption DEF RoceAssumption, Typed, RegionTypes, Numbers

LEMMA SentTypes ==
    ASSUME Typed, NEW r \in Ranks, NEW p \in Ranks, NEW h \in HcaIds
    PROVE  /\ wire[r][p][h] \in Seq(Write) /\ Len(wire[r][p][h]) \in Nat
           /\ \A i \in 1 .. Len(wire[r][p][h]) :
                /\ wire[r][p][h][i] \in Write
                /\ wire[r][p][h][i].seq \in Nat /\ wire[r][p][h][i].seq < Word
<1>1. wire[r][p][h] \in Seq(Write)
  BY DEF Typed, WireTypes
<1>2. Word \in Nat
  BY RoceAssumption DEF RoceAssumption
<1>3. \A w \in Write : w.seq \in Nat /\ w.seq < Word
  BY <1>2 DEF Write, Numbers
<1>4. Len(wire[r][p][h]) \in Nat /\ \A i \in 1 .. Len(wire[r][p][h]) : wire[r][p][h][i] \in Write
  BY <1>1
<1> QED BY <1>1, <1>3, <1>4

LEMMA PostedType ==
    ASSUME Typed, NEW r \in Ranks, NEW p \in Ranks, NEW h \in HcaIds
    PROVE  Posted(r, p, h) \in Nat /\ lastSeq[r] <= Posted(r, p, h)
  BY OwnTypes DEF Posted

LEMMA GotType == ASSUME Typed, NEW r \in Ranks PROVE Got(r) \subseteq Nat /\ epoch[r] \in Got(r)
  BY OwnTypes DEF Got

(* A slot number of a sequence number that follows another.                *)
LEMMA SuccIsPlus ==
    ASSUME NEW s \in Nat, NEW t \in Nat, s < t, t < Word
    PROVE  Succ(s) = s + 1
  BY RoceAssumption DEF RoceAssumption, Succ

(* The proxy's round: each place comes once, after all places Ahead of it. *)
LEMMA Round ==
    ASSUME NEW r \in Ranks, NEW x \in Peers(r) \X HcaIds, NEW y \in Peers(r) \X HcaIds
    PROVE  /\ ~Ahead(x, FirstPlace(r)) /\ ~Ahead(x, x)
           /\ Ahead(x, y) \/ Ahead(y, x) \/ x = y
           /\ NextPlace(r, x)[1] \in Ranks =>
                (Ahead(y, NextPlace(r, x)) <=> Ahead(y, x) \/ y = x)
                /\ NextPlace(r, x) # FirstPlace(r)
           /\ NextPlace(r, x)[1] \notin Ranks => Ahead(y, x) \/ y = x
<1>1. PICK a \in Peers(r), g \in HcaIds : x = <<a, g>>
  OBVIOUS
<1>2. PICK c \in Peers(r), k \in HcaIds : y = <<c, k>>
  OBVIOUS
<1>3. /\ a \in Nat /\ c \in Nat /\ g \in Nat /\ k \in Nat /\ r \in Nat /\ World \in Nat
      /\ a < World /\ c < World /\ r < World /\ a # r /\ c # r /\ World > 1
      /\ 1 <= g /\ g <= Hcas /\ 1 <= k /\ k <= Hcas /\ Hcas \in Nat
  BY RoceAssumption DEF RoceAssumption, Peers, Ranks, HcaIds
<1> USE DEF Ahead
<1>4. ~Ahead(x, FirstPlace(r)) /\ ~Ahead(x, x)
  BY <1>1, <1>3 DEF FirstPlace
<1>5. Ahead(x, y) \/ Ahead(y, x) \/ x = y
  BY <1>1, <1>2, <1>3
<1>6. CASE g < Hcas
  <2>1. NextPlace(r, x) = <<a, g + 1>>
    BY <1>1, <1>6 DEF NextPlace
  <2>2. (Ahead(y, <<a, g + 1>>) <=> Ahead(y, x) \/ y = x)
    BY <1>1, <1>2, <1>3
  <2>3. <<a, g + 1>> # FirstPlace(r)
    BY <1>3 DEF FirstPlace
  <2>4. a \in Ranks
    BY DEF Peers
  <2> QED BY <1>4, <1>5, <2>1, <2>2, <2>3, <2>4
<1>7. CASE g = Hcas
  <2>1. NextPlace(r, x) = <<NextPeer(r, a), 1>>
    BY <1>1, <1>3, <1>7 DEF NextPlace
  <2>2. NextPeer(r, a) \in Nat /\ (c < NextPeer(r, a) <=> c <= a) /\ NextPeer(r, a) > a
    BY <1>3 DEF NextPeer
  <2>3. (Ahead(y, <<NextPeer(r, a), 1>>) <=> Ahead(y, x) \/ y = x)
    BY <1>1, <1>2, <1>3, <1>7, <2>2
  <2>4. <<NextPeer(r, a), 1>> # FirstPlace(r)
    BY <1>3, <2>2 DEF FirstPlace, NextPeer
  <2>5. NextPeer(r, a) \notin Ranks => Ahead(y, x) \/ y = x
    <3>1. NextPeer(r, a) \notin Ranks => NextPeer(r, a) > World - 1
      BY <1>3, <2>2 DEF Ranks
    <3> QED BY <1>1, <1>2, <1>3, <1>7, <2>2, <3>1
  <2> QED BY <1>4, <1>5, <2>1, <2>3, <2>4, <2>5
<1> QED BY <1>3, <1>6, <1>7

LEMMA PeersSymmetric ==
    \A r \in Ranks, p \in Ranks : p \in Peers(r) <=> r \in Peers(p)
  BY DEF Peers

LEMMA InitSync == Init => Sync
<1> SUFFICES ASSUME Init PROVE Sync
  OBVIOUS
<1> USE DEF Init
<1>1. ASSUME NEW r \in Ranks PROVE ProxySync(r) /\ KernelSync(r) /\ TailSync(r)
  <2>1. Idle(r)
    BY DEF Idle
  <2> QED BY <2>1 DEF ProxySync, KernelSync, TailSync
<1>2. ASSUME NEW r \in Ranks, NEW p \in Peers(r), NEW h \in HcaIds PROVE Flow(r, p, h)
  <2>1. p \in Ranks
    BY DEF Peers
  <2>2. Got(p) = {0}
    BY <2>1 DEF Got, Passed
  <2>3. Posted(r, p, h) \in {0, 1} /\ wire[r][p][h] = <<>> /\ \A o \in Slots : flag[p][r][o][h] = 0
    BY <2>1 DEF Posted
  <2>4. Len(wire[r][p][h]) = 0 /\ 0 <= Posted(r, p, h)
    BY <2>3
  <2>5. 1 .. Len(wire[r][p][h]) = {}
    BY <2>4
  <2>6. \A s \in Got(p) : s <= Posted(r, p, h)
    BY <2>2, <2>4
  <2> HIDE DEF Init
  <2> QED BY <2>3, <2>4, <2>5, <2>6 DEF Flow
<1>3. NoLoop
  BY DEF NoLoop
<1> QED BY <1>1, <1>2, <1>3 DEF Sync

(* What a step of another rank leaves alone.                               *)
Unmoved(q) ==
    /\ host'[q] = host[q] /\ launched'[q] = launched[q] /\ accepted'[q] = accepted[q]
    /\ epoch'[q] = epoch[q] /\ poison'[q] = poison[q] /\ tailCount'[q] = tailCount[q]
    /\ stageCount'[q] = stageCount[q]
    /\ pc'[q] = pc[q] /\ seq'[q] = seq[q] /\ door'[q] = door[q] /\ error'[q] = error[q]
    /\ exact'[q] = exact[q] /\ nbytes'[q] = nbytes[q] /\ send'[q] = send[q]
    /\ proxy'[q] = proxy[q] /\ lastSeq'[q] = lastSeq[q] /\ target'[q] = target[q]
    /\ at'[q] = at[q] /\ size'[q] = size[q]

HostStep(r) == Launch(r) \/ Accept(r) \/ Leave(r)
KernelStep(r, b) == Block(r, b) \/ Expire(r, b)
ProxyStep(r) == Poll(r) \/ Post(r)
NicStep(r, p, h) == Nic(r, p, h) \/ WriteFails(r, p, h)

LEMMA Others ==
    ASSUME Typed, NEW r \in Ranks, NEW q \in Ranks, q # r,
           \/ HostStep(r) \/ ProxyStep(r)
           \/ \E b \in Blocks : KernelStep(r, b)
           \/ \E p \in Peers(r), h \in HcaIds : NicStep(r, p, h)
    PROVE  Unmoved(q)
<1> USE DEF Unmoved, hostVars, deviceVars, regionVars, proxyVars, Go
<1>1. CASE HostStep(r)
  <2>1. CASE Launch(r)
    BY <2>1 DEF Launch, Typed, HostTypes, DeviceTypes
  <2>2. CASE Accept(r)
    BY <2>2 DEF Accept, Typed, HostTypes
  <2>3. CASE Leave(r)
    BY <2>3 DEF Leave, Typed, HostTypes, DeviceTypes, ProxyTypes
  <2> QED BY <1>1, <2>1, <2>2, <2>3 DEF HostStep
<1>2. CASE ProxyStep(r)
  <2>1. CASE Poll(r)
    BY <2>1 DEF Poll, Typed, ProxyTypes
  <2>2. CASE Post(r)
    BY <2>2 DEF Post, Typed, ProxyTypes
  <2> QED BY <1>2, <2>1, <2>2 DEF ProxyStep
<1>3. ASSUME NEW b \in Blocks, KernelStep(r, b) PROVE Unmoved(q)
  <2>1. CASE Stage(r, b)
    <3>1. pc'[q] = pc[q] /\ seq'[q] = seq[q] /\ send'[q] = send[q]
      BY <2>1 DEF Stage, Typed, DeviceTypes, RegionTypes
    <3> QED BY <2>1, <3>1 DEF Stage
  <2>2. CASE Arrive(r, b)
    <3>1. pc'[q] = pc[q] /\ stageCount'[q] = stageCount[q]
      BY <2>2 DEF Arrive, Typed, DeviceTypes
    <3>2. door'[q] = door[q] /\ nbytes'[q] = nbytes[q]
      BY <2>2 DEF Arrive, Typed, RegionTypes
    <3> QED BY <2>2, <3>1, <3>2 DEF Arrive
  <2>3. CASE Pass(r, b)
    BY <2>3 DEF Pass, Typed, DeviceTypes
  <2>4. CASE Expire(r, b)
    BY <2>4 DEF Expire, Typed, DeviceTypes, RegionTypes
  <2>5. CASE Reduce(r, b)
    BY <2>5 DEF Reduce, Typed, DeviceTypes
  <2>6. CASE Finish(r, b)
    <3>1. pc'[q] = pc[q] /\ tailCount'[q] = tailCount[q] /\ epoch'[q] = epoch[q]
      BY <2>6 DEF Finish, Typed, DeviceTypes
    <3> QED BY <2>6, <3>1 DEF Finish
  <2> QED BY <1>3, <2>1, <2>2, <2>3, <2>4, <2>5, <2>6 DEF KernelStep, Block
<1>4. ASSUME NEW p \in Peers(r), NEW h \in HcaIds, NicStep(r, p, h) PROVE Unmoved(q)
  BY <1>4 DEF NicStep, Nic, WriteData, WriteFlag, WriteFails, Typed, ProxyTypes
<1> QED BY <1>1, <1>2, <1>3, <1>4

LEMMA UnmovedKeeps ==
    ASSUME NEW q \in Ranks, Unmoved(q)
    PROVE  /\ ProxySync(q)' = ProxySync(q) /\ KernelSync(q)' = KernelSync(q)
           /\ TailSync(q)' = TailSync(q)
           /\ Got(q)' = Got(q) /\ (Live(q)' <=> Live(q)) /\ (Idle(q)' <=> Idle(q))
           /\ (launched'[q] = launched[q]) /\ Grid(q)' = Grid(q)
           /\ \A p, h : Posted(q, p, h)' = Posted(q, p, h)
<1> USE DEF Unmoved
<1>1. (Live(q)' <=> Live(q)) /\ (Idle(q)' <=> Idle(q)) /\ Grid(q)' = Grid(q)
  BY DEF Live, Idle, Grid
<1>2. Got(q)' = Got(q)
  BY DEF Got, Passed
<1>3. \A p, h : Posted(q, p, h)' = Posted(q, p, h)
  BY DEF Posted
<1>4. ProxySync(q)' = ProxySync(q)
  BY DEF ProxySync
<1>5. KernelSync(q)' = KernelSync(q)
  BY <1>1 DEF KernelSync
<1>6. TailSync(q)' = TailSync(q)
  BY <1>1 DEF TailSync, Exited
<1> QED BY <1>1, <1>2, <1>3, <1>4, <1>5, <1>6

(* A flow stays in order when p sees more of what was delivered and the    *)
(* queue is as it was or flushed.                                          *)
LEMMA FlowKept ==
    ASSUME Typed, NEW r \in Ranks, NEW p \in Peers(r), NEW h \in HcaIds, Flow(r, p, h),
           Posted(r, p, h)' = Posted(r, p, h),
           \A o \in Slots : flag'[p][r][o][h] = flag[p][r][o][h],
           wire'[r][p][h] \in {wire[r][p][h], <<>>},
           \A s \in Got(p)' : s \in Got(p) \/ \E o \in Slots : flag[p][r][o][h] = s
    PROVE  Flow(r, p, h)'
<1>1. \A s \in Got(p)' : s <= Posted(r, p, h)
  BY DEF Flow
<1>2. CASE wire'[r][p][h] = <<>>
  <2>1. 1 .. Len(wire'[r][p][h]) = {}
    BY <1>2
  <2> QED BY <1>1, <2>1 DEF Flow
<1>3. CASE wire'[r][p][h] = wire[r][p][h]
  <2>1. \A i \in 1 .. Len(wire[r][p][h]) : \A s \in Got(p)' : s < wire[r][p][h][i].seq
    BY DEF Flow
  <2> QED BY <1>1, <1>3, <2>1 DEF Flow
<1> QED BY <1>2, <1>3

(* A step of r that posts and delivers nothing.                            *)
LEMMA SyncKept ==
    ASSUME Typed, Sync, NEW r \in Ranks,
           \A q \in Ranks : q # r => Unmoved(q),
           (ProxySync(r) /\ KernelSync(r) /\ TailSync(r))',
           \A p \in Ranks, h \in HcaIds : Posted(r, p, h)' = Posted(r, p, h),
           flag' = flag,
           \A q, p \in Ranks, h \in HcaIds : wire'[q][p][h] \in {wire[q][p][h], <<>>},
           \A p \in Peers(r), h \in HcaIds : \A s \in Got(r)' :
               s \in Got(r) \/ \E o \in Slots : flag[r][p][o][h] = s
    PROVE  Sync'
<1>1. ASSUME NEW q \in Ranks PROVE (ProxySync(q) /\ KernelSync(q) /\ TailSync(q))'
  <2>1. CASE q = r
    BY <2>1
  <2>2. CASE q # r
    <3>1. ProxySync(q) /\ KernelSync(q) /\ TailSync(q)
      BY DEF Sync
    <3> QED BY <2>2, <3>1, UnmovedKeeps
  <2> QED BY <2>1, <2>2
<1>2. ASSUME NEW q \in Ranks, NEW p \in Peers(q), NEW h \in HcaIds PROVE Flow(q, p, h)'
  <2>1. p \in Ranks /\ q \in Peers(p) /\ Flow(q, p, h)
    BY DEF Peers, Sync
  <2>2. Posted(q, p, h)' = Posted(q, p, h)
    BY <2>1, UnmovedKeeps
  <2>3. \A s \in Got(p)' : s \in Got(p) \/ \E o \in Slots : flag[p][q][o][h] = s
    <3>1. CASE p = r
      BY <2>1, <3>1
    <3>2. CASE p # r
      BY <2>1, <3>2, UnmovedKeeps
    <3> QED BY <3>1, <3>2
  <2>4. wire'[q][p][h] \in {wire[q][p][h], <<>>} /\ flag' = flag
    BY <2>1
  <2> QED BY <2>1, <2>2, <2>3, <2>4, FlowKept
<1>3. NoLoop'
  BY DEF Sync, NoLoop
<1> QED BY <1>1, <1>2, <1>3 DEF Sync

LEMMA SyncHost ==
    ASSUME Typed, Sync, NEW r \in Ranks, HostStep(r)
    PROVE  Sync'
<1> USE DEF hostVars, deviceVars, regionVars, proxyVars
<1>0. ProxySync(r) /\ KernelSync(r) /\ TailSync(r) /\ NoLoop
  BY DEF Sync
<1>1. \A q \in Ranks : q # r => Unmoved(q)
  BY Others
<1>2. CASE Launch(r)
  <2>1. /\ launched'[r] = launched[r] + 1 /\ launched'[r] \in 1 .. MaxOps
        /\ host[r] = "up" /\ Idle(r) /\ launched[r] \in Nat
    BY <1>2, OwnTypes DEF Launch, Typed, HostTypes
  <2>2. \A b \in Blocks : pc'[r][b] = IF b < Grid(r)' THEN "begin" ELSE "exit"
    BY <1>2 DEF Launch, Typed, DeviceTypes
  <2>3. Grid(r)' \in Nat /\ Grid(r)' >= 1 /\ Grid(r)' <= MaxBlocks /\ MaxBlocks \in Nat
    <3>1. Packs[launched'[r]] \in Nat
      BY <2>1, RoceAssumption DEF RoceAssumption
    <3>2. GridOf(Packs[launched'[r]]) \in 1 .. MaxBlocks
      BY <3>1, GridType
    <3>3. Grid(r)' = GridOf(Packs[launched'[r]])
      BY DEF Grid
    <3> QED BY <3>2, <3>3, GridsAreNat, RoceAssumption DEF RoceAssumption
  <2>4. ~Idle(r)'
    <3>1. 0 \in Blocks /\ pc'[r][0] = "begin"
      BY <2>2, <2>3 DEF Blocks
    <3> QED BY <3>1 DEF Idle
  <2>5. Exited(r)' = {}
    BY <2>2, <2>3 DEF Exited, Blocks
  <2>6. UNCHANGED <<host, accepted, epoch, poison, tailCount, seq, door, error, proxy, lastSeq,
                    target, at, flag, wire>>
    BY <1>2 DEF Launch
  <2>7. KernelSync(r)'
    <3>1. epoch[r] \in Nat /\ door[r] \in Nat /\ accepted[r] \in Nat
      BY OwnTypes
    <3>2. door[r] <= launched'[r] /\ epoch[r] < launched'[r] /\ accepted[r] < launched'[r]
          /\ (error[r] = 0 => launched'[r] = epoch[r] + 1) /\ door[r] <= epoch[r] + 1
          /\ (poison[r] = 0 <=> error[r] = 0)
      BY <1>0, <2>1, <3>1 DEF KernelSync, Live
    <3>3. Live(r)'
      BY <2>1, <2>6 DEF Live
    <3>4. \A b \in Blocks :
            pc'[r][b] \in {"begin", "exit"} /\ (b >= Grid(r)' => pc'[r][b] = "exit")
      BY <2>2, <2>3 DEF Blocks
    <3> QED BY <2>1, <2>4, <2>6, <3>1, <3>2, <3>3, <3>4 DEF KernelSync
  <2>8. TailSync(r)'
    <3>1. \A g \in Grids : tailCount[r][g] = 0
      BY <1>0, <2>1 DEF TailSync, Live
    <3> QED BY <2>5, <2>6, <3>1, FS_EmptySet DEF TailSync
  <2>9. ProxySync(r)'
    BY <1>0, <2>6 DEF ProxySync
  <2>10. Got(r)' \subseteq Got(r)
    <3>1. \A b \in Blocks : pc'[r][b] \in {"begin", "exit"}
      BY <2>2
    <3> QED BY <2>6, <3>1 DEF Got, Passed
  <2>11. \A p \in Ranks, h \in HcaIds : Posted(r, p, h)' = Posted(r, p, h)
    BY <2>6 DEF Posted
  <2> QED BY <1>1, <2>6, <2>7, <2>8, <2>9, <2>10, <2>11, SyncKept
<1>3. CASE Accept(r)
  <2>1. UNCHANGED <<launched, epoch, poison, tailCount, pc, seq, door, error, proxy, lastSeq,
                    target, at, flag, wire>>
    BY <1>3 DEF Accept
  <2>2. /\ accepted'[r] <= launched[r] /\ (~Idle(r) /\ Live(r) => accepted'[r] < launched[r])
        /\ Live(r)' <=> Live(r)
    <3>1. \/ accepted' = accepted
          \/ /\ host' = host
             /\ \E n \in Results(r) : accepted' = [accepted EXCEPT ![r] = n]
      BY <1>3 DEF Accept
    <3>2. /\ accepted[r] <= launched[r] /\ launched[r] \in Nat /\ accepted[r] \in Nat
          /\ Live(r) /\ ~Idle(r) => accepted[r] < launched[r]
      BY <1>0, OwnTypes DEF KernelSync
    <3>3. Live(r)' <=> Live(r)
      BY <1>3 DEF Accept, Live, Typed, HostTypes
    <3>4. ASSUME NEW n \in Results(r)
          PROVE  n <= launched[r] /\ (~Idle(r) => n < launched[r])
      BY <3>2 DEF Results, Finished
    <3>5. CASE accepted' = accepted
      BY <3>2, <3>3, <3>5
    <3>6. CASE \E n \in Results(r) : accepted' = [accepted EXCEPT ![r] = n]
      BY <3>3, <3>4, <3>6 DEF Typed, HostTypes
    <3> QED BY <3>1, <3>5, <3>6
  <2>3. Idle(r)' = Idle(r) /\ Grid(r)' = Grid(r) /\ Exited(r)' = Exited(r)
    BY <2>1 DEF Idle, Grid, Exited
  <2>4. KernelSync(r)'
    BY <1>0, <2>1, <2>2, <2>3 DEF KernelSync
  <2>5. TailSync(r)' /\ ProxySync(r)'
    BY <1>0, <2>1, <2>2, <2>3 DEF TailSync, ProxySync
  <2>6. Got(r)' = Got(r) /\ \A p \in Ranks, h \in HcaIds : Posted(r, p, h)' = Posted(r, p, h)
    BY <2>1 DEF Got, Passed, Posted
  <2> QED BY <1>1, <2>1, <2>4, <2>5, <2>6, SyncKept
<1>4. CASE Leave(r)
  <2>1. UNCHANGED <<launched, accepted, epoch, poison, tailCount, seq, door, error, lastSeq,
                    target, at, flag>>
    BY <1>4 DEF Leave
  <2>2. /\ host'[r] = "gone" /\ \A b \in Blocks : pc'[r][b] = "exit"
        /\ proxy'[r] = "closed"
    BY <1>4 DEF Leave, Typed, HostTypes, DeviceTypes, ProxyTypes
  <2>3. Idle(r)' /\ ~Live(r)'
    BY <2>2 DEF Idle, Live
  <2>4. KernelSync(r)' /\ TailSync(r)' /\ ProxySync(r)'
    BY <1>0, <2>1, <2>2, <2>3 DEF KernelSync, TailSync, ProxySync
  <2>5. Got(r)' \subseteq Got(r) /\ \A p \in Ranks, h \in HcaIds : Posted(r, p, h)' = Posted(r, p, h)
    BY <2>1, <2>2 DEF Got, Passed, Posted
  <2>6. \A q, p \in Ranks, h \in HcaIds : wire'[q][p][h] \in {wire[q][p][h], <<>>}
    BY <1>4 DEF Leave, Typed, WireTypes
  <2> QED BY <1>1, <2>1, <2>4, <2>5, <2>6, SyncKept
<1> QED BY <1>2, <1>3, <1>4 DEF HostStep

LEMMA Busy ==
    ASSUME Typed, Sync, NEW r \in Ranks, NEW b \in Blocks, pc[r][b] # "exit"
    PROVE  /\ Live(r) /\ ~Idle(r) /\ epoch[r] < launched[r] /\ (poison[r] = 0 <=> error[r] = 0)
           /\ error[r] = 0 => launched[r] = epoch[r] + 1
           /\ b \in 0 .. Grid(r) - 1 /\ Grid(r) \in Grids /\ Grid(r) \in Nat /\ Grid(r) >= 1
           /\ Grid(r) <= MaxBlocks /\ MaxBlocks \in Nat
<1>1. ~Idle(r) /\ KernelSync(r)
  BY DEF Idle, Sync
<1>2. Live(r) /\ epoch[r] < launched[r]
  BY <1>1 DEF KernelSync
<1>3. launched[r] >= 1
  BY DEF Typed, Counters
<1>4. Grid(r) \in Grids /\ Grid(r) \in Nat /\ Grid(r) >= 1 /\ Grid(r) <= MaxBlocks /\ MaxBlocks \in Nat
  BY <1>3, GridIn, GridsAreNat
<1>5. b \in Nat /\ ~(b >= Grid(r))
  BY <1>1, <1>2, <1>4 DEF KernelSync, Blocks
<1> QED BY <1>1, <1>2, <1>4, <1>5 DEF KernelSync

(* A block that goes on, without leaving the kernel.                       *)
LEMMA GoesOn ==
    ASSUME Typed, NEW r \in Ranks, NEW b \in Blocks, pc[r][b] # "exit", NEW l, l # "exit",
           pc' = [pc EXCEPT ![r][b] = l], launched' = launched
    PROVE  /\ ~Idle(r)' /\ Grid(r)' = Grid(r) /\ Exited(r)' = Exited(r)
           /\ pc'[r][b] = l /\ \A c \in Blocks : c # b => pc'[r][c] = pc[r][c]
<1>1. pc'[r][b] = l /\ \A c \in Blocks : c # b => pc'[r][c] = pc[r][c]
  BY DEF Typed, DeviceTypes
<1>2. \A c : c # b => pc'[r][c] = pc[r][c]
  BY DEF Typed, DeviceTypes
<1>3. ~Idle(r)'
  BY <1>1 DEF Idle
<1>4. Grid(r)' = Grid(r)
  BY DEF Grid
<1>5. Exited(r)' = Exited(r)
  BY <1>1, <1>2, <1>4 DEF Exited
<1> QED BY <1>1, <1>3, <1>4, <1>5

(* A block before the end of its kernel: what is left to show of a step.   *)
LEMMA SyncKernelKept ==
    ASSUME Typed, Sync, NEW r \in Ranks, NEW b \in Blocks, KernelStep(r, b),
           (ProxySync(r) /\ KernelSync(r) /\ TailSync(r))',
           \A p \in Peers(r), h \in HcaIds : \A s \in Got(r)' :
               s \in Got(r) \/ \E o \in Slots : flag[r][p][o][h] = s
    PROVE  Sync'
<1>1. \A q \in Ranks : q # r => Unmoved(q)
  BY Others
<1>2. UNCHANGED <<flag, wire, lastSeq, at>>
  BY DEF KernelStep, Block, Stage, Arrive, Pass, Expire, Reduce, Finish, regionVars, proxyVars
<1>3. \A p \in Ranks, h \in HcaIds : Posted(r, p, h)' = Posted(r, p, h)
  BY <1>2 DEF Posted
<1> QED BY <1>1, <1>2, <1>3, SyncKept

LEMMA SyncStage ==
    ASSUME Typed, Sync, MaxOps < Word, NEW r \in Ranks, NEW b \in Blocks, Stage(r, b)
    PROVE  Sync'
<1> USE DEF hostVars, deviceVars, regionVars, proxyVars, Go
<1>0. ProxySync(r) /\ KernelSync(r) /\ TailSync(r) /\ pc[r][b] = "begin"
  BY DEF Sync, Stage
<1>1. /\ Live(r) /\ ~Idle(r) /\ epoch[r] < launched[r] /\ (poison[r] = 0 <=> error[r] = 0)
      /\ error[r] = 0 => launched[r] = epoch[r] + 1
  BY <1>0, Busy
<1>2. Succ(epoch[r]) = epoch[r] + 1
  BY <1>1, OwnTypes, SuccIsPlus
<1>3. UNCHANGED <<host, launched, accepted, epoch, poison, tailCount, door, error, proxy,
                  lastSeq, target, at, flag, wire>>
  BY DEF Stage
<1>4. PICK l \in {"arrive", "tail"} :
        pc' = [pc EXCEPT ![r][b] = l] /\ (l = "arrive" <=> poison[r] = 0)
  BY DEF Stage
<1>5. /\ ~Idle(r)' /\ Grid(r)' = Grid(r) /\ Exited(r)' = Exited(r)
      /\ pc'[r][b] = l /\ \A c \in Blocks : c # b => pc'[r][c] = pc[r][c]
  BY <1>0, <1>3, <1>4, GoesOn
<1>6. seq'[r][b] = epoch[r] + 1 /\ \A c \in Blocks : c # b => seq'[r][c] = seq[r][c]
  BY <1>2 DEF Stage, Typed, DeviceTypes
<1>7. Live(r)'
  BY <1>1, <1>3 DEF Live
<1>8. KernelSync(r)'
  <2>1. \A c \in Blocks :
          /\ pc'[r][c] \in {"arrive", "wait", "reduce"} => launched[r] = epoch[r] + 1
          /\ pc'[r][c] \notin {"begin", "exit"} => seq'[r][c] = epoch[r] + 1
          /\ c >= Grid(r) => pc'[r][c] = "exit"
    <3> TAKE c \in Blocks
    <3>1. CASE c = b
      <4>1. b \in 0 .. Grid(r) - 1 /\ Grid(r) \in Nat
        BY <1>0, Busy
      <4> QED BY <1>1, <1>4, <1>5, <1>6, <3>1, <4>1
    <3>2. CASE c # b
      BY <1>0, <1>1, <1>5, <1>6, <3>2 DEF KernelSync
    <3> QED BY <3>1, <3>2
  <2> QED BY <1>0, <1>1, <1>3, <1>5, <1>7, <2>1 DEF KernelSync
<1>9. TailSync(r)' /\ ProxySync(r)'
  BY <1>0, <1>1, <1>3, <1>5 DEF TailSync, ProxySync
<1>10. Got(r)' \subseteq Got(r)
  <2>1. \A c \in Blocks : Passed(r, c)' => c # b /\ Passed(r, c)
    BY <1>1, <1>3, <1>4, <1>5 DEF Passed
  <2> QED BY <1>3, <1>6, <2>1 DEF Got
<1> QED BY <1>8, <1>9, <1>10, SyncKernelKept DEF KernelStep, Block

LEMMA SyncArrive ==
    ASSUME Typed, Sync, MaxOps < Word, NEW r \in Ranks, NEW b \in Blocks, Arrive(r, b)
    PROVE  Sync'
<1> USE DEF hostVars, deviceVars, regionVars, proxyVars, Go
<1>0. ProxySync(r) /\ KernelSync(r) /\ TailSync(r) /\ pc[r][b] = "arrive"
  BY DEF Sync, Arrive
<1>1. Live(r) /\ ~Idle(r)
  BY <1>0, Busy
<1>2. launched[r] = epoch[r] + 1 /\ seq[r][b] = epoch[r] + 1
  BY <1>0, <1>1 DEF KernelSync
<1>3. UNCHANGED <<host, launched, accepted, epoch, poison, tailCount, seq, error, proxy,
                  lastSeq, target, at, flag, wire>> /\ pc' = [pc EXCEPT ![r][b] = "wait"]
  BY DEF Arrive
<1>4. door'[r] \in {door[r], epoch[r] + 1}
  BY <1>2 DEF Arrive, Typed, RegionTypes
<1>5. /\ ~Idle(r)' /\ Grid(r)' = Grid(r) /\ Exited(r)' = Exited(r)
      /\ pc'[r][b] = "wait" /\ \A c \in Blocks : c # b => pc'[r][c] = pc[r][c]
  BY <1>0, <1>3, GoesOn
<1>6. Live(r)'
  BY <1>1, <1>3 DEF Live
<1>7. KernelSync(r)'
  <2>1. \A c \in Blocks :
          /\ pc'[r][c] \in {"arrive", "wait", "reduce"} => launched[r] = epoch[r] + 1
          /\ pc'[r][c] \notin {"begin", "exit"} => seq[r][c] = epoch[r] + 1
          /\ c >= Grid(r) => pc'[r][c] = "exit"
    BY <1>0, <1>1, <1>2, <1>5 DEF KernelSync
  <2>2. door'[r] <= epoch[r] + 1 /\ door'[r] <= launched[r]
    BY <1>0, <1>2, <1>4, OwnTypes DEF KernelSync
  <2> QED BY <1>0, <1>1, <1>3, <1>5, <1>6, <2>1, <2>2 DEF KernelSync
<1>8. TailSync(r)'
  BY <1>0, <1>1, <1>3, <1>5 DEF TailSync
<1>9. ProxySync(r)'
  <2>1. door[r] <= door'[r] /\ door'[r] \in Nat
    BY <1>0, <1>4, OwnTypes DEF KernelSync
  <2>2. target[r] <= door'[r]
    BY <1>0, <2>1, OwnTypes DEF ProxySync
  <2> QED BY <1>0, <1>3, <2>2 DEF ProxySync
<1>10. Got(r)' \subseteq Got(r)
  <2>1. \A c \in Blocks : Passed(r, c)' => Passed(r, c)
    BY <1>3, <1>5 DEF Passed
  <2> QED BY <1>3, <2>1 DEF Got
<1> QED BY <1>7, <1>8, <1>9, <1>10, SyncKernelKept DEF KernelStep, Block

LEMMA SyncPass ==
    ASSUME Typed, Sync, NEW r \in Ranks, NEW b \in Blocks, Pass(r, b)
    PROVE  Sync'
<1> USE DEF hostVars, deviceVars, regionVars, proxyVars, Go
<1>0. ProxySync(r) /\ KernelSync(r) /\ TailSync(r) /\ pc[r][b] = "wait"
  BY DEF Sync, Pass
<1>1. Live(r) /\ ~Idle(r) /\ (poison[r] = 0 <=> error[r] = 0)
  BY <1>0, Busy
<1>2. launched[r] = epoch[r] + 1 /\ seq[r][b] = epoch[r] + 1
  BY <1>0, <1>1 DEF KernelSync
<1>3. UNCHANGED <<host, launched, accepted, epoch, poison, tailCount, seq, door, error, proxy,
                  lastSeq, target, at, flag, wire>>
  BY DEF Pass
<1>4. PICK l \in {"reduce", "tail"} :
        pc' = [pc EXCEPT ![r][b] = l] /\ (l = "reduce" <=> poison[r] = 0)
  BY DEF Pass
<1>5. /\ ~Idle(r)' /\ Grid(r)' = Grid(r) /\ Exited(r)' = Exited(r)
      /\ pc'[r][b] = l /\ \A c \in Blocks : c # b => pc'[r][c] = pc[r][c]
  BY <1>0, <1>3, <1>4, GoesOn
<1>6. Live(r)'
  BY <1>1, <1>3 DEF Live
<1>7. KernelSync(r)'
  <2>1. \A c \in Blocks :
          /\ pc'[r][c] \in {"arrive", "wait", "reduce"} => launched[r] = epoch[r] + 1
          /\ pc'[r][c] \notin {"begin", "exit"} => seq[r][c] = epoch[r] + 1
          /\ c >= Grid(r) => pc'[r][c] = "exit"
    BY <1>0, <1>1, <1>2, <1>5 DEF KernelSync
  <2> QED BY <1>0, <1>1, <1>3, <1>5, <1>6, <2>1 DEF KernelSync
<1>8. TailSync(r)' /\ ProxySync(r)'
  BY <1>0, <1>1, <1>3, <1>5 DEF TailSync, ProxySync
<1>9. ASSUME NEW p \in Peers(r), NEW h \in HcaIds, NEW s \in Got(r)'
      PROVE  s \in Got(r) \/ \E o \in Slots : flag[r][p][o][h] = s
  <2>1. flag[r][p][Slot(seq[r][b])][h] = seq[r][b] /\ Slot(seq[r][b]) \in Slots
    BY OwnTypes, SlotType DEF Pass, Delivered
  <2>2. \A c \in Blocks : Passed(r, c)' => c = b \/ Passed(r, c)
    BY <1>3, <1>5 DEF Passed
  <2>3. s \in Got(r) \/ s = seq[r][b]
    BY <1>3, <2>2 DEF Got
  <2> QED BY <2>1, <2>3
<1> QED BY <1>7, <1>8, <1>9, SyncKernelKept DEF KernelStep, Block

LEMMA SyncExpire ==
    ASSUME Typed, Sync, NEW r \in Ranks, NEW b \in Blocks, Expire(r, b)
    PROVE  Sync'
<1> USE DEF hostVars, deviceVars, regionVars, proxyVars, Go
<1>0. ProxySync(r) /\ KernelSync(r) /\ TailSync(r) /\ pc[r][b] = "wait"
  BY DEF Sync, Expire
<1>1. Live(r) /\ ~Idle(r)
  BY <1>0, Busy
<1>2. launched[r] = epoch[r] + 1 /\ seq[r][b] = epoch[r] + 1 /\ epoch[r] \in Nat
  BY <1>0, <1>1, OwnTypes DEF KernelSync
<1>3. UNCHANGED <<host, launched, accepted, epoch, tailCount, seq, door, proxy, lastSeq, target,
                  at, flag, wire>>
  BY DEF Expire
<1>4. error'[r] = seq[r][b] /\ poison'[r] = seq[r][b] /\ seq[r][b] # 0
  BY <1>2 DEF Expire, Typed, DeviceTypes, RegionTypes
<1>5. PICK l \in {"reduce", "tail"} :
        pc' = [pc EXCEPT ![r][b] = l]
  BY DEF Expire
<1>6. /\ ~Idle(r)' /\ Grid(r)' = Grid(r) /\ Exited(r)' = Exited(r)
      /\ pc'[r][b] = l /\ \A c \in Blocks : c # b => pc'[r][c] = pc[r][c]
  BY <1>0, <1>3, <1>5, GoesOn
<1>7. l = "tail"
  BY <1>4, <1>6 DEF Expire, Typed, DeviceTypes
<1>8. Live(r)'
  BY <1>1, <1>3 DEF Live
<1>9. KernelSync(r)'
  <2>1. \A c \in Blocks :
          /\ pc'[r][c] \in {"arrive", "wait", "reduce"} => launched[r] = epoch[r] + 1
          /\ pc'[r][c] \notin {"begin", "exit"} => seq[r][c] = epoch[r] + 1
          /\ c >= Grid(r) => pc'[r][c] = "exit"
    BY <1>0, <1>1, <1>2, <1>6, <1>7 DEF KernelSync
  <2> QED BY <1>0, <1>1, <1>3, <1>4, <1>6, <1>8, <2>1 DEF KernelSync
<1>10. TailSync(r)' /\ ProxySync(r)'
  BY <1>0, <1>1, <1>3, <1>6 DEF TailSync, ProxySync
<1>11. Got(r)' \subseteq Got(r)
  <2>1. \A c \in Blocks : Passed(r, c)' => Passed(r, c)
    BY <1>4, <1>6, <1>7 DEF Passed
  <2> QED BY <1>3, <2>1 DEF Got
<1> QED BY <1>9, <1>10, <1>11, SyncKernelKept DEF KernelStep

LEMMA SyncReduce ==
    ASSUME Typed, Sync, NEW r \in Ranks, NEW b \in Blocks, Reduce(r, b)
    PROVE  Sync'
<1> USE DEF hostVars, deviceVars, regionVars, proxyVars, Go
<1>0. ProxySync(r) /\ KernelSync(r) /\ TailSync(r) /\ pc[r][b] = "reduce"
  BY DEF Sync, Reduce
<1>1. Live(r) /\ ~Idle(r)
  BY <1>0, Busy
<1>2. launched[r] = epoch[r] + 1 /\ seq[r][b] = epoch[r] + 1
  BY <1>0, <1>1 DEF KernelSync
<1>3. UNCHANGED <<host, launched, accepted, epoch, poison, tailCount, seq, door, error, proxy,
                  lastSeq, target, at, flag, wire>> /\ pc' = [pc EXCEPT ![r][b] = "tail"]
  BY DEF Reduce
<1>4. /\ ~Idle(r)' /\ Grid(r)' = Grid(r) /\ Exited(r)' = Exited(r)
      /\ pc'[r][b] = "tail" /\ \A c \in Blocks : c # b => pc'[r][c] = pc[r][c]
  BY <1>0, <1>3, GoesOn
<1>5. Live(r)'
  BY <1>1, <1>3 DEF Live
<1>6. KernelSync(r)'
  <2>1. \A c \in Blocks :
          /\ pc'[r][c] \in {"arrive", "wait", "reduce"} => launched[r] = epoch[r] + 1
          /\ pc'[r][c] \notin {"begin", "exit"} => seq[r][c] = epoch[r] + 1
          /\ c >= Grid(r) => pc'[r][c] = "exit"
    BY <1>0, <1>1, <1>2, <1>4 DEF KernelSync
  <2> QED BY <1>0, <1>1, <1>3, <1>4, <1>5, <2>1 DEF KernelSync
<1>7. TailSync(r)' /\ ProxySync(r)'
  BY <1>0, <1>1, <1>3, <1>4 DEF TailSync, ProxySync
<1>8. Got(r)' \subseteq Got(r)
  <2>1. \A c \in Blocks : Passed(r, c)' => Passed(r, c)
    BY <1>0, <1>3, <1>4 DEF Passed
  <2> QED BY <1>3, <2>1 DEF Got
<1> QED BY <1>6, <1>7, <1>8, SyncKernelKept DEF KernelStep, Block

(* The last of the grid to leave is the one that finds the counter full.   *)
LEMMA LastOut ==
    ASSUME Typed, Sync, NEW r \in Ranks, NEW b \in Blocks, Finish(r, b)
    PROVE  /\ pc'[r][b] = "exit" /\ \A c \in Blocks : c # b => pc'[r][c] = pc[r][c]
           /\ Grid(r)' = Grid(r)
           /\ Cardinality(Exited(r)') = Cardinality(Exited(r)) + 1
           /\ Cardinality(Exited(r)) + 1 = Grid(r) <=> Idle(r)'
           /\ Cardinality(Exited(r)) \in Nat
<1>0. pc[r][b] = "tail"
  BY DEF Finish
<1>1. b \in 0 .. Grid(r) - 1 /\ Grid(r) \in Nat /\ Grid(r) >= 1 /\ Grid(r) <= MaxBlocks
      /\ MaxBlocks \in Nat /\ Live(r) /\ ~Idle(r)
  BY <1>0, Busy
<1>2. pc'[r][b] = "exit" /\ \A c \in Blocks : c # b => pc'[r][c] = pc[r][c]
  BY DEF Finish, Go, Typed, DeviceTypes
<1>3. Grid(r)' = Grid(r)
  BY DEF Finish, Grid, hostVars
<1>4. \A c \in 0 .. Grid(r) - 1 : c \in Blocks
  BY <1>1 DEF Blocks
<1>5. Exited(r)' = Exited(r) \cup {b} /\ b \notin Exited(r)
  BY <1>0, <1>1, <1>2, <1>3, <1>4 DEF Exited
<1>6. IsFiniteSet(0 .. Grid(r) - 1) /\ Cardinality(0 .. Grid(r) - 1) = Grid(r)
  BY <1>1, FS_Interval
<1>7. Exited(r) \subseteq 0 .. Grid(r) - 1 /\ Exited(r)' \subseteq 0 .. Grid(r) - 1
  BY <1>3 DEF Exited
<1>8. IsFiniteSet(Exited(r)) /\ IsFiniteSet(Exited(r)')
  BY <1>6, <1>7, FS_Subset
<1>9. Cardinality(Exited(r)') = Cardinality(Exited(r)) + 1 /\ Cardinality(Exited(r)) \in Nat
  BY <1>5, <1>8, FS_AddElement, FS_CardinalityType
<1>10. Cardinality(Exited(r)') = Grid(r) <=> Exited(r)' = 0 .. Grid(r) - 1
  BY <1>6, <1>7, FS_Subset
<1>11. Exited(r)' = 0 .. Grid(r) - 1 <=> Idle(r)'
  <2>1. KernelSync(r)
    BY DEF Sync
  <2>2. \A c \in Blocks : c >= Grid(r) => pc[r][c] = "exit"
    BY <1>1, <2>1 DEF KernelSync
  <2>3. \A c \in Blocks : c \in 0 .. Grid(r) - 1 \/ (c >= Grid(r) /\ c # b)
    BY <1>1 DEF Blocks
  <2>4. Exited(r)' = 0 .. Grid(r) - 1 <=> \A c \in 0 .. Grid(r) - 1 : pc'[r][c] = "exit"
    BY <1>3 DEF Exited
  <2> QED BY <1>2, <1>4, <2>2, <2>3, <2>4 DEF Idle
<1> QED BY <1>2, <1>3, <1>9, <1>10, <1>11

LEMMA SyncFinish ==
    ASSUME Typed, Sync, NEW r \in Ranks, NEW b \in Blocks, Finish(r, b)
    PROVE  Sync'
<1> USE DEF hostVars, deviceVars, regionVars, proxyVars, Go
<1>0. ProxySync(r) /\ KernelSync(r) /\ TailSync(r) /\ pc[r][b] = "tail"
  BY DEF Sync, Finish
<1>1. /\ Live(r) /\ ~Idle(r) /\ epoch[r] < launched[r] /\ (poison[r] = 0 <=> error[r] = 0)
      /\ error[r] = 0 => launched[r] = epoch[r] + 1
      /\ Grid(r) \in Grids /\ Grid(r) \in Nat /\ Grid(r) >= 1
  BY <1>0, Busy
<1>2. seq[r][b] = epoch[r] + 1 /\ accepted[r] < launched[r]
  BY <1>0, <1>1 DEF KernelSync
<1>3. UNCHANGED <<host, launched, accepted, poison, seq, door, error, proxy, lastSeq, target, at,
                  flag, wire>>
  BY DEF Finish
<1>4. /\ pc'[r][b] = "exit" /\ \A c \in Blocks : c # b => pc'[r][c] = pc[r][c]
      /\ Grid(r)' = Grid(r) /\ Cardinality(Exited(r)') = Cardinality(Exited(r)) + 1
      /\ Cardinality(Exited(r)) + 1 = Grid(r) <=> Idle(r)'
      /\ Cardinality(Exited(r)) \in Nat
  BY LastOut
<1>5. Live(r)'
  BY <1>1, <1>3 DEF Live
<1>6. /\ tailCount'[r][Grid(r)] = IF Idle(r)' THEN 0 ELSE Cardinality(Exited(r)')
      /\ \A g \in Grids : g # Grid(r) => tailCount'[r][g] = tailCount[r][g]
  <2>1. tailCount[r][Grid(r)] = Cardinality(Exited(r))
    BY <1>0, <1>1 DEF TailSync
  <2>2. tailCount'[r][Grid(r)] = Tick(tailCount[r][Grid(r)], Grid(r))
        /\ \A g \in Grids : g # Grid(r) => tailCount'[r][g] = tailCount[r][g]
    BY <1>1 DEF Finish, Typed, DeviceTypes
  <2> QED BY <1>4, <2>1, <2>2 DEF Tick
<1>7. tailCount'[r][Grid(r)] = 0 <=> Idle(r)'
  BY <1>4, <1>6
<1>8. epoch'[r] = IF Idle(r)' /\ error[r] = 0 THEN epoch[r] + 1 ELSE epoch[r]
  BY <1>2, <1>7 DEF Finish, Typed, DeviceTypes
<1>9. TailSync(r)'
  <2>1. \A g \in Grids : g # Grid(r) => tailCount'[r][g] = 0
    BY <1>0, <1>1, <1>6 DEF TailSync
  <2> QED BY <1>4, <1>6, <2>1 DEF TailSync
<1>10. ProxySync(r)'
  BY <1>0, <1>3 DEF ProxySync
<1>11. KernelSync(r)'
  <2>1. epoch[r] \in Nat /\ launched[r] \in Nat /\ door[r] \in Nat
    BY OwnTypes
  <2>2. /\ door[r] <= epoch'[r] + 1 /\ epoch'[r] <= launched[r]
        /\ Idle(r)' /\ error[r] = 0 => launched[r] = epoch'[r]
        /\ ~Idle(r)' => epoch'[r] = epoch[r]
    BY <1>0, <1>1, <1>8, <2>1 DEF KernelSync
  <2>3. \A c \in Blocks :
          /\ pc'[r][c] \in {"arrive", "wait", "reduce"} => launched[r] = epoch'[r] + 1
          /\ pc'[r][c] \notin {"begin", "exit"} => seq[r][c] = epoch'[r] + 1
          /\ c >= Grid(r) => pc'[r][c] = "exit"
    <3> TAKE c \in Blocks
    <3>1. CASE c = b
      BY <1>4, <3>1
    <3>2. CASE c # b
      <4>1. pc'[r][c] = pc[r][c] /\ (pc[r][c] # "exit" => ~Idle(r)')
        BY <1>4, <3>2 DEF Idle
      <4>2. epoch'[r] = epoch[r] \/ pc[r][c] = "exit"
        BY <2>2, <4>1
      <4> QED BY <1>0, <1>1, <4>1, <4>2 DEF KernelSync
    <3> QED BY <3>1, <3>2
  <2> QED BY <1>0, <1>1, <1>2, <1>3, <1>4, <1>5, <2>2, <2>3 DEF KernelSync
<1>12. Got(r)' \subseteq Got(r)
  <2>1. \A c \in Blocks : Passed(r, c)' => Passed(r, c)
    BY <1>3, <1>4 DEF Passed
  <2>2. epoch'[r] \in Got(r)
    <3>1. CASE epoch'[r] = epoch[r]
      BY <3>1 DEF Got
    <3>2. CASE epoch'[r] # epoch[r]
      BY <1>0, <1>2, <1>8, <3>2 DEF Got, Passed
    <3> QED BY <3>1, <3>2
  <2> QED BY <1>3, <2>1, <2>2 DEF Got
<1> QED BY <1>9, <1>10, <1>11, <1>12, SyncKernelKept DEF KernelStep, Block

LEMMA SyncPoll ==
    ASSUME Typed, Sync, NEW r \in Ranks, Poll(r)
    PROVE  Sync'
<1> USE DEF hostVars, deviceVars, regionVars, proxyVars
<1>0. ProxySync(r) /\ KernelSync(r) /\ TailSync(r)
  BY DEF Sync
<1>1. \A q \in Ranks : q # r => Unmoved(q)
  BY Others DEF ProxyStep
<1>2. UNCHANGED <<host, launched, accepted, epoch, poison, tailCount, pc, seq, door, error,
                  lastSeq, flag, wire>>
  BY DEF Poll
<1>3. at[r] = FirstPlace(r) /\ lastSeq[r] < door[r] /\ lastSeq[r] <= target[r] /\ target[r] <= door[r]
  BY <1>0, OwnTypes DEF ProxySync, Poll
<1>4. /\ at'[r] = FirstPlace(r)
      /\ \/ proxy'[r] = "failed" /\ target'[r] = target[r]
         \/ proxy'[r] = "post" /\ target'[r] = door[r]
  BY <1>3 DEF Poll, Typed, ProxyTypes
<1>5. ProxySync(r)'
  BY <1>2, <1>3, <1>4, OwnTypes DEF ProxySync
<1>6. KernelSync(r)' /\ TailSync(r)'
  BY <1>0, <1>2 DEF KernelSync, TailSync, Live, Idle, Grid, Exited
<1>7. \A p \in Ranks, h \in HcaIds : Posted(r, p, h)' = Posted(r, p, h)
  BY <1>2, <1>3, <1>4 DEF Posted
<1>8. Got(r)' = Got(r)
  BY <1>2 DEF Got, Passed
<1> QED BY <1>1, <1>2, <1>5, <1>6, <1>7, <1>8, SyncKept

(* What Post does to the rank that posts.                                  *)
LEMMA PostEffect ==
    ASSUME Typed, Sync, MaxOps < Word, NEW r \in Ranks, Post(r)
    PROVE  /\ at[r][1] \in Peers(r) /\ at[r][2] \in HcaIds /\ at[r] = <<at[r][1], at[r][2]>>
           /\ lastSeq[r] < target[r] /\ Succ(lastSeq[r]) = lastSeq[r] + 1
           /\ \/ /\ NextPlace(r, at[r])[1] \in Ranks
                 /\ at'[r] = NextPlace(r, at[r]) /\ lastSeq'[r] = lastSeq[r]
                 /\ proxy'[r] = proxy[r] /\ size'[r] = size[r]
              \/ /\ NextPlace(r, at[r])[1] \notin Ranks
                 /\ at'[r] = FirstPlace(r) /\ lastSeq'[r] = lastSeq[r] + 1
                 /\ \/ lastSeq[r] + 1 = target[r] /\ proxy'[r] = "poll" /\ size'[r] = size[r]
                    \/ /\ lastSeq[r] + 1 < target[r] /\ proxy'[r] = "post"
                       /\ size'[r] = nbytes[r][Slot(lastSeq[r] + 2)]
<1>1. at[r] \in Peers(r) \X HcaIds
  BY OwnTypes
<1>2. lastSeq[r] < target[r]
  BY DEF Sync, ProxySync, Post
<1>3. Succ(lastSeq[r]) = lastSeq[r] + 1 /\ lastSeq[r] \in Nat /\ target[r] \in Nat /\ target[r] < Word
  BY <1>2, OwnTypes, SuccIsPlus
<1>4. lastSeq[r] + 1 < target[r] => Succ(lastSeq[r] + 1) = lastSeq[r] + 2
  <2>1. lastSeq[r] + 1 \in Nat /\ (lastSeq[r] + 1) + 1 = lastSeq[r] + 2
    BY <1>3
  <2> QED BY <1>3, <2>1, SuccIsPlus
<1>5. CASE NextPlace(r, at[r])[1] \in Ranks
  BY <1>1, <1>2, <1>3, <1>5 DEF Post, Typed, ProxyTypes
<1>6. CASE NextPlace(r, at[r])[1] \notin Ranks
  <2>1. at'[r] = FirstPlace(r) /\ lastSeq'[r] = lastSeq[r] + 1
    BY <1>3, <1>6 DEF Post, Typed, ProxyTypes
  <2>2. CASE lastSeq[r] + 1 = target[r]
    BY <1>1, <1>2, <1>3, <1>6, <2>1, <2>2 DEF Post, Typed, ProxyTypes
  <2>3. CASE lastSeq[r] + 1 # target[r]
    <3>1. lastSeq[r] + 1 < target[r]
      BY <1>2, <1>3, <2>3
    <3>2. proxy'[r] = "post" /\ size'[r] = nbytes[r][Slot(lastSeq[r] + 2)]
      BY <1>3, <1>4, <1>6, <2>3, <3>1 DEF Post, Typed, ProxyTypes
    <3> QED BY <1>1, <1>2, <1>3, <1>6, <2>1, <3>1, <3>2
  <2> QED BY <2>2, <2>3
<1> QED BY <1>5, <1>6

(* A post appends one write to one queue.                                  *)
LEMMA PostQueue ==
    ASSUME Typed, NEW r \in Ranks, Post(r), at[r][1] \in Ranks, at[r][2] \in HcaIds
    PROVE  LET w == [seq |-> Succ(lastSeq[r]), packs |-> Stripe(at[r][2], size[r]),
                     sent |-> Stripe(at[r][2], size[r]) = {}]
           IN  \A q, d \in Ranks, g \in HcaIds :
                  wire'[q][d][g] = IF q = r /\ d = at[r][1] /\ g = at[r][2]
                                   THEN Append(wire[r][at[r][1]][at[r][2]], w)
                                   ELSE wire[q][d][g]
<1> DEFINE w == [seq |-> Succ(lastSeq[r]), packs |-> Stripe(at[r][2], size[r]),
                 sent |-> Stripe(at[r][2], size[r]) = {}]
           x == at[r][1]
           y == at[r][2]
           s == Append(wire[r][x][y], w)
           Q == Seq(Write)
<1>1. wire \in [Ranks -> [Ranks -> [HcaIds -> Q]]]
  BY DEF Typed, WireTypes
<1>2. wire' = [wire EXCEPT ![r][x][y] = s]
  BY DEF Post
<1>3. x \in Ranks /\ y \in HcaIds
  OBVIOUS
<1> HIDE DEF Q, s, x, y
<1>4. \A q, d \in Ranks, g \in HcaIds :
         wire'[q][d][g] = IF q = r /\ d = x /\ g = y THEN s ELSE wire[q][d][g]
  BY <1>1, <1>2, <1>3, Put3
<1> HIDE DEF w
<1>5. \A q, d \in Ranks, g \in HcaIds :
         wire'[q][d][g] = IF q = r /\ d = at[r][1] /\ g = at[r][2]
                          THEN Append(wire[r][at[r][1]][at[r][2]], w) ELSE wire[q][d][g]
  BY <1>4 DEF s, x, y
<1> QED BY <1>5 DEF w

LEMMA PostedStep ==
    ASSUME Typed, Sync, MaxOps < Word, NEW r \in Ranks, Post(r), NEW p \in Peers(r), NEW h \in HcaIds
    PROVE  /\ <<p, h>> = at[r] => Posted(r, p, h) = lastSeq[r] /\ Posted(r, p, h)' = lastSeq[r] + 1
           /\ <<p, h>> # at[r] => Posted(r, p, h)' = Posted(r, p, h)
<1> DEFINE y == <<p, h>>
<1>1. at[r] \in Peers(r) \X HcaIds /\ y \in Peers(r) \X HcaIds /\ lastSeq[r] \in Nat
  BY OwnTypes
<1>2. /\ ~Ahead(at[r], at[r])
      /\ NextPlace(r, at[r])[1] \in Ranks =>
            (Ahead(y, NextPlace(r, at[r])) <=> Ahead(y, at[r]) \/ y = at[r])
      /\ NextPlace(r, at[r])[1] \notin Ranks => Ahead(y, at[r]) \/ y = at[r]
      /\ ~Ahead(y, FirstPlace(r))
  BY <1>1, Round
<1> QED BY <1>1, <1>2, PostEffect DEF Posted

LEMMA SyncPost ==
    ASSUME Typed, Sync, MaxOps < Word, NEW r \in Ranks, Post(r)
    PROVE  Sync'
<1> USE DEF hostVars, deviceVars, regionVars, proxyVars
<1>0. ProxySync(r) /\ KernelSync(r) /\ TailSync(r)
  BY DEF Sync
<1>1. \A q \in Ranks : q # r => Unmoved(q)
  BY Others DEF ProxyStep
<1>2. UNCHANGED <<host, launched, accepted, epoch, poison, tailCount, pc, seq, door, error,
                  flag, target>> /\ proxy[r] = "post"
  BY DEF Post
<1>3. ASSUME NEW q \in Ranks PROVE (ProxySync(q) /\ KernelSync(q) /\ TailSync(q))'
  <2>1. CASE q = r
    <3>1. KernelSync(r)' /\ TailSync(r)'
      BY <1>0, <1>2 DEF KernelSync, TailSync, Live, Idle, Grid, Exited
    <3>2. lastSeq'[r] <= target[r]
      BY OwnTypes, PostEffect
    <3>3. at'[r] # FirstPlace(r) => lastSeq'[r] < target[r]
      BY OwnTypes, PostEffect
    <3>4. proxy'[r] = "poll" => at'[r] = FirstPlace(r)
      BY <1>2, PostEffect
    <3>5. proxy'[r] = "post" => lastSeq'[r] < target[r]
      BY OwnTypes, PostEffect
    <3>6. ProxySync(r)'
      BY <1>0, <1>2, <3>2, <3>3, <3>4, <3>5 DEF ProxySync
    <3> QED BY <2>1, <3>1, <3>6
  <2>2. CASE q # r
    <3>1. ProxySync(q) /\ KernelSync(q) /\ TailSync(q)
      BY DEF Sync
    <3> QED BY <1>1, <2>2, <3>1, UnmovedKeeps
  <2> QED BY <2>1, <2>2
<1>4. \A q \in Ranks : Got(q)' = Got(q)
  BY <1>2 DEF Got, Passed
<1>5. at[r][1] \in Peers(r) /\ at[r][1] \in Ranks /\ at[r][2] \in HcaIds /\ at[r] = <<at[r][1], at[r][2]>>
  BY PostEffect DEF Peers
<1>6. PICK w \in Write : w.seq = lastSeq[r] + 1 /\
        \A q, d \in Ranks, g \in HcaIds :
           wire'[q][d][g] = IF q = r /\ d = at[r][1] /\ g = at[r][2]
                            THEN Append(wire[r][at[r][1]][at[r][2]], w) ELSE wire[q][d][g]
  <2>1. Succ(lastSeq[r]) = lastSeq[r] + 1 /\ Succ(lastSeq[r]) \in Numbers
    BY PostEffect, Bounds DEF Typed, ProxyTypes
  <2>2. size[r] \in Nat /\ size[r] <= SlotPacks /\ SlotPacks \in Nat
    BY RoceAssumption DEF RoceAssumption, Typed, ProxyTypes
  <2>3. Stripe(at[r][2], size[r]) \in SUBSET PackIds
    BY <1>5, <2>2, StripeInside DEF PackIds
  <2> DEFINE v == [seq |-> Succ(lastSeq[r]), packs |-> Stripe(at[r][2], size[r]),
                   sent |-> Stripe(at[r][2], size[r]) = {}]
  <2>4. v \in Write /\ v.seq = lastSeq[r] + 1
    BY <2>1, <2>3 DEF Write
  <2>5. \A q, d \in Ranks, g \in HcaIds :
           wire'[q][d][g] = IF q = r /\ d = at[r][1] /\ g = at[r][2]
                            THEN Append(wire[r][at[r][1]][at[r][2]], v) ELSE wire[q][d][g]
    BY <1>5, PostQueue
  <2> HIDE DEF v
  <2> QED BY <2>4, <2>5
<1>7. ASSUME NEW q \in Ranks, NEW p \in Peers(q), NEW h \in HcaIds PROVE Flow(q, p, h)'
  <2>1. p \in Ranks /\ Flow(q, p, h)
    BY DEF Peers, Sync
  <2>2. CASE q # r \/ <<p, h>> # at[r]
    <3>1. Posted(q, p, h)' = Posted(q, p, h)
      BY <1>1, <2>1, <2>2, PostedStep, UnmovedKeeps
    <3>2. wire'[q][p][h] = wire[q][p][h]
      BY <1>5, <1>6, <2>1, <2>2
    <3> QED BY <1>2, <1>4, <2>1, <3>1, <3>2, FlowKept
  <2>3. CASE q = r /\ <<p, h>> = at[r]
    <3> DEFINE old == wire[r][p][h]
    <3>1. /\ Posted(r, p, h) = lastSeq[r] /\ Posted(r, p, h)' = lastSeq[r] + 1
          /\ lastSeq[r] \in Nat
      BY <2>3, PostedStep, OwnTypes
    <3>2. wire'[r][p][h] = Append(old, w)
      <4>1. p = at[r][1] /\ h = at[r][2]
        BY <1>5, <2>3
      <4> QED BY <1>5, <1>6, <4>1
    <3>3. old \in Seq(Write) /\ Len(old) \in Nat /\ \A i \in 1 .. Len(old) : old[i].seq \in Nat
      BY <2>1, SentTypes
    <3>4. /\ Len(wire'[r][p][h]) = Len(old) + 1
          /\ wire'[r][p][h][Len(old) + 1] = w
          /\ \A i \in 1 .. Len(old) : wire'[r][p][h][i] = old[i]
      BY <3>2, <3>3
    <3>5. \A s \in Got(p) : s \in Nat /\ s <= lastSeq[r]
      BY <2>1, <2>3, <3>1, GotType DEF Flow
    <3>6. \A o \in Slots : /\ flag[p][r][o][h] \in Nat /\ flag[p][r][o][h] <= lastSeq[r]
                           /\ flag[p][r][o][h] # 0 => Slot(flag[p][r][o][h]) = o
      BY <2>1, <2>3, <3>1, FlagTypes DEF Flow
    <3>7. \A i \in 1 .. Len(old) :
             /\ old[i].seq <= lastSeq[r] /\ old[i].seq \in Nat
             /\ \A s \in Got(p) : s < old[i].seq
             /\ \A o \in Slots : flag[p][r][o][h] < old[i].seq
             /\ \A j \in 1 .. Len(old) : i < j => old[i].seq < old[j].seq
      BY <2>1, <2>3, <3>1, <3>3 DEF Flow
    <3> HIDE DEF old
    <3>8. \A i \in 1 .. Len(old) + 1 : i \in 1 .. Len(old) \/ i = Len(old) + 1
      BY <3>3
    <3>9. \A i \in 1 .. Len(old) + 1 :
             /\ wire'[r][p][h][i].seq <= lastSeq[r] + 1
             /\ \A s \in Got(p) : s < wire'[r][p][h][i].seq
             /\ \A o \in Slots : flag[p][r][o][h] < wire'[r][p][h][i].seq
             /\ \A j \in 1 .. Len(old) + 1 :
                   i < j => wire'[r][p][h][i].seq < wire'[r][p][h][j].seq
      <4> TAKE i \in 1 .. Len(old) + 1
      <4>1. CASE i = Len(old) + 1
        <5>1. \A j \in 1 .. Len(old) + 1 : ~(i < j)
          BY <3>3, <4>1
        <5>2. wire'[r][p][h][i].seq = lastSeq[r] + 1
          BY <1>6, <3>4, <4>1
        <5> QED BY <3>1, <3>5, <3>6, <5>1, <5>2
      <4>2. CASE i \in 1 .. Len(old)
        <5>1. wire'[r][p][h][i] = old[i] /\ old[i].seq <= lastSeq[r] /\ old[i].seq \in Nat
          BY <3>4, <3>7, <4>2
        <5>2. \A j \in 1 .. Len(old) + 1 : i < j => old[i].seq < wire'[r][p][h][j].seq
          <6> TAKE j \in 1 .. Len(old) + 1
          <6>1. CASE j \in 1 .. Len(old)
            BY <3>4, <3>7, <4>2, <6>1
          <6>2. CASE j = Len(old) + 1
            <7>1. wire'[r][p][h][j].seq = lastSeq[r] + 1
              BY <1>6, <3>4, <6>2
            <7>2. \A x, y \in Nat : x <= y => x < y + 1
              OBVIOUS
            <7> QED BY <3>1, <5>1, <7>1, <7>2
          <6> QED BY <3>8, <6>1, <6>2
        <5> QED BY <3>1, <3>7, <4>2, <5>1, <5>2
      <4> QED BY <3>8, <4>1, <4>2
    <3>10. \A s \in Got(p) : s <= lastSeq[r] + 1
      BY <3>1, <3>5
    <3>11. \A o \in Slots : flag[p][r][o][h] <= lastSeq[r] + 1
      BY <3>1, <3>6
    <3> QED BY <1>2, <1>4, <2>1, <2>3, <3>1, <3>4, <3>6, <3>9, <3>10, <3>11 DEF Flow
  <2> QED BY <2>2, <2>3
<1>8. NoLoop'
  <2>1. \A q \in Ranks, h \in HcaIds : wire[q][q][h] = <<>> /\ ~(q = r /\ q = at[r][1])
    BY <1>5 DEF Sync, NoLoop, Peers
  <2>2. \A q \in Ranks, h \in HcaIds : wire'[q][q][h] = wire[q][q][h]
    BY <1>6, <2>1
  <2> QED BY <2>1, <2>2 DEF NoLoop
<1> QED BY <1>3, <1>7, <1>8 DEF Sync

(* A queue pair writes one flag and moves one queue, its own.              *)
LEMMA FlagWritten ==
    ASSUME Typed, NEW r \in Ranks, NEW p \in Ranks, NEW h \in HcaIds, WriteFlag(r, p, h)
    PROVE  LET s == Head(wire[r][p][h]).seq IN
           /\ \A d, q \in Ranks, u \in Slots, g \in HcaIds :
                 flag'[d][q][u][g] =
                     IF d = p /\ q = r /\ u = Slot(s) /\ g = h THEN s ELSE flag[d][q][u][g]
           /\ \A d, q \in Ranks : q # r => flag'[d][q] = flag[d][q]
<1> DEFINE s == Head(wire[r][p][h]).seq
           o == Slot(s)
<1>1. flag' = [flag EXCEPT ![p][r][o][h] = s]
  BY DEF WriteFlag
<1>2. o \in Slots
  <2>1. wire[r][p][h] \in Seq(Write) /\ wire[r][p][h] # <<>>
    BY SentTypes DEF WriteFlag
  <2>2. Head(wire[r][p][h]) \in Write
    BY <2>1
  <2> QED BY <2>2, SlotType DEF Write, Numbers
<1>3. flag \in [Ranks -> [Ranks -> [Slots -> [HcaIds -> Numbers]]]]
  BY DEF Typed, RegionTypes
<1> HIDE DEF s, o
<1>4. \A d, q \in Ranks, u \in Slots, g \in HcaIds :
         flag'[d][q][u][g] =
             IF d = p /\ q = r /\ u = o /\ g = h THEN s ELSE flag[d][q][u][g]
  BY <1>1, <1>2, <1>3, Put4
<1>5. \A d, q \in Ranks : q # r => flag'[d][q] = flag[d][q]
  <2> DEFINE D == [Slots -> [HcaIds -> Numbers]]
             row == [flag[p][r] EXCEPT ![o][h] = s]
  <2>1. flag \in [Ranks -> [Ranks -> D]] /\ flag' = [flag EXCEPT ![p][r] = row]
    BY <1>1, <1>3
  <2> HIDE DEF D, row
  <2> QED BY <2>1, Put2
<1> QED BY <1>4, <1>5 DEF s, o

LEMMA DataWritten ==
    ASSUME Typed, NEW r \in Ranks, NEW p \in Ranks, NEW h \in HcaIds, WriteData(r, p, h)
    PROVE  \A d, q \in Ranks : q # r => recv'[d][q] = recv[d][q]
<1> DEFINE D == [Slots -> [PackIds -> 0 .. MaxOps]]
<1>1. recv \in [Ranks -> [Ranks -> D]]
  BY DEF Typed, RegionTypes
<1>2. PICK o, v : recv' = [recv EXCEPT ![p][r][o] = v]
  BY DEF WriteData
<1> DEFINE row == [recv[p][r] EXCEPT ![o] = v]
<1>3. recv' = [recv EXCEPT ![p][r] = row]
  BY <1>2
<1> HIDE DEF D, row
<1> QED BY <1>1, <1>3, Put2

LEMMA NicOneQueue ==
    ASSUME Typed, NEW r \in Ranks, NEW p \in Ranks, NEW h \in HcaIds, NicStep(r, p, h)
    PROVE  \A q, d \in Ranks, g \in HcaIds :
              wire'[q][d][g] =
                  IF q = r /\ d = p /\ g = h THEN wire'[r][p][h] ELSE wire[q][d][g]
<1> DEFINE Q == Seq(Write)
<1>1. wire \in [Ranks -> [Ranks -> [HcaIds -> Q]]]
  BY DEF Typed, WireTypes
<1>2. PICK s : wire' = [wire EXCEPT ![r][p][h] = s]
  BY DEF NicStep, Nic, WriteData, WriteFlag, WriteFails
<1> HIDE DEF Q
<1>3. \A q, d \in Ranks, g \in HcaIds :
         wire'[q][d][g] = IF q = r /\ d = p /\ g = h THEN s ELSE wire[q][d][g]
  BY <1>1, <1>2, Put3
<1> QED BY <1>3

(* A queue pair moves the words of no rank, only the slots, flags and its  *)
(* own queue.                                                              *)
LEMMA SyncNic ==
    ASSUME Typed, Sync, NEW r \in Ranks, NEW p \in Peers(r), NEW h \in HcaIds, NicStep(r, p, h)
    PROVE  Sync'
<1> USE DEF hostVars, deviceVars, regionVars, proxyVars
<1> DEFINE old == wire[r][p][h]
<1>0. p \in Ranks /\ r \in Peers(p) /\ p # r
  BY DEF Peers
<1>1. UNCHANGED <<host, launched, accepted, epoch, poison, tailCount, pc, seq, door, error,
                  lastSeq, target, at>>
  BY DEF NicStep, Nic, WriteData, WriteFlag, WriteFails
<1>2. /\ old # <<>> /\ old \in Seq(Write) /\ Len(old) \in Nat /\ Len(old) >= 1
      /\ \A i \in 1 .. Len(old) : old[i] \in Write /\ old[i].seq \in Nat
      /\ Head(old) = old[1] /\ Head(old) \in Write
  <2>1. old # <<>>
    BY DEF NicStep, Nic, WriteData, WriteFlag, WriteFails
  <2>2. old \in Seq(Write) /\ Len(old) \in Nat
        /\ \A i \in 1 .. Len(old) : old[i] \in Write /\ old[i].seq \in Nat
    BY <1>0, SentTypes
  <2>3. Len(old) >= 1 /\ Head(old) = old[1]
    BY <2>1, <2>2
  <2> QED BY <2>1, <2>2, <2>3
<1>3. ASSUME NEW q \in Ranks PROVE (ProxySync(q) /\ KernelSync(q) /\ TailSync(q))'
  <2>1. ProxySync(q) /\ KernelSync(q) /\ TailSync(q)
    BY DEF Sync
  <2>2. KernelSync(q)' /\ TailSync(q)'
    BY <1>1, <2>1 DEF KernelSync, TailSync, Live, Idle, Grid, Exited
  <2>3. proxy'[q] \in {proxy[q], "failed"}
    BY DEF NicStep, Nic, WriteData, WriteFlag, WriteFails, Typed, ProxyTypes
  <2> QED BY <1>1, <2>1, <2>2, <2>3 DEF ProxySync
<1>4. \A q \in Ranks : Got(q)' = Got(q)
  BY <1>1 DEF Got, Passed
<1>5. \A q \in Ranks : \A d, g : Posted(q, d, g)' = Posted(q, d, g)
  BY <1>1 DEF Posted
<1>6. wire' \in [Ranks -> [Ranks -> [HcaIds -> Seq(Write)]]]
      /\ \E s : wire' = [wire EXCEPT ![r][p][h] = s]
  <2>1. \E s : wire' = [wire EXCEPT ![r][p][h] = s]
    BY DEF NicStep, Nic, WriteData, WriteFlag, WriteFails
  <2>2. Typed'
    BY TypedNic DEF NicStep
  <2> QED BY <2>1, <2>2 DEF Typed, WireTypes
<1>7. \A q, d \in Ranks, g \in HcaIds : <<q, d, g>> # <<r, p, h>> => wire'[q][d][g] = wire[q][d][g]
  BY <1>0, NicOneQueue
<1>8. \A q, d \in Ranks, g \in HcaIds, o \in Slots :
        <<q, d, g>> # <<r, p, h>> => flag'[d][q][o][g] = flag[d][q][o][g]
  <2>1. CASE flag' = flag
    BY <2>1
  <2>2. CASE WriteFlag(r, p, h)
    BY <1>0, <2>2, FlagWritten
  <2> QED BY <2>1, <2>2 DEF NicStep, Nic, WriteData, WriteFails
<1>9. Flow(r, p, h)
  BY DEF Sync
<1>10. Flow(r, p, h)'
  <2>1. CASE WriteFails(r, p, h)
    <3>1. wire'[r][p][h] = <<>> /\ flag' = flag
      BY <1>0, <2>1 DEF WriteFails, Typed, WireTypes
    <3>2. Got(p)' = Got(p) /\ Posted(r, p, h)' = Posted(r, p, h)
      BY <1>0, <1>4, <1>5
    <3> QED BY <1>9, <3>1, <3>2, FlowKept
  <2>2. CASE WriteData(r, p, h)
    <3>1. wire'[r][p][h] = [old EXCEPT ![1].sent = TRUE] /\ flag' = flag
      BY <1>0, <2>2 DEF WriteData, Typed, WireTypes
    <3>2. Len(wire'[r][p][h]) = Len(old)
      BY <1>2, <3>1
    <3>3. \A i \in 1 .. Len(old) : wire'[r][p][h][i].seq = old[i].seq
      <4> TAKE i \in 1 .. Len(old)
      <4>1. CASE i = 1
        BY <1>2, <3>1, <4>1 DEF Write
      <4>2. CASE i # 1
        BY <1>2, <3>1, <4>2
      <4> QED BY <4>1, <4>2
    <3>4. Got(p)' = Got(p) /\ Posted(r, p, h)' = Posted(r, p, h)
      BY <1>0, <1>4, <1>5
    <3>5. /\ \A t \in Got(p) : t <= Posted(r, p, h)
          /\ \A o \in Slots : /\ flag[p][r][o][h] <= Posted(r, p, h)
                              /\ flag[p][r][o][h] # 0 => Slot(flag[p][r][o][h]) = o
          /\ \A i \in 1 .. Len(old) :
                /\ old[i].seq <= Posted(r, p, h)
                /\ \A t \in Got(p) : t < old[i].seq
                /\ \A o \in Slots : flag[p][r][o][h] < old[i].seq
                /\ \A j \in 1 .. Len(old) : i < j => old[i].seq < old[j].seq
      BY <1>9 DEF Flow
    <3> HIDE DEF old
    <3> QED BY <3>1, <3>2, <3>3, <3>4, <3>5 DEF Flow
  <2>3. CASE WriteFlag(r, p, h)
    <3> DEFINE s == old[1].seq
    <3>1. wire'[r][p][h] = Tail(old)
      BY <1>0, <2>3 DEF WriteFlag, Typed, WireTypes
    <3>2. /\ Len(Tail(old)) = Len(old) - 1
          /\ \A i \in 1 .. Len(old) - 1 : Tail(old)[i] = old[i + 1] /\ i + 1 \in 1 .. Len(old)
      BY <1>2
    <3>3. s \in Nat /\ Slot(s) \in Slots /\ 1 \in 1 .. Len(old)
      BY <1>2, SlotType
    <3>4. \A o \in Slots : flag'[p][r][o][h] = IF o = Slot(s) THEN s ELSE flag[p][r][o][h]
      BY <1>0, <1>2, <2>3, FlagWritten
    <3>5. /\ s <= Posted(r, p, h)
          /\ \A i \in 1 .. Len(old) : 1 < i => s < old[i].seq
      BY <1>9, <3>3 DEF Flow
    <3>6. \A o \in Slots : /\ flag'[p][r][o][h] <= Posted(r, p, h)
                           /\ flag'[p][r][o][h] # 0 => Slot(flag'[p][r][o][h]) = o
      BY <1>9, <3>4, <3>5 DEF Flow
    <3>7. \A i \in 1 .. Len(old) - 1 :
            LET w == Tail(old)[i] IN
            /\ w.seq <= Posted(r, p, h)
            /\ \A t \in Got(p) : t < w.seq
            /\ \A o \in Slots : flag'[p][r][o][h] < w.seq
            /\ \A j \in 1 .. Len(old) - 1 : i < j => w.seq < Tail(old)[j].seq
      <4> TAKE i \in 1 .. Len(old) - 1
      <4>1. i + 1 \in 1 .. Len(old) /\ Tail(old)[i] = old[i + 1] /\ 1 < i + 1
        BY <1>2, <3>2
      <4>2. /\ old[i + 1].seq <= Posted(r, p, h)
            /\ \A t \in Got(p) : t < old[i + 1].seq
            /\ \A o \in Slots : flag[p][r][o][h] < old[i + 1].seq
            /\ \A j \in 1 .. Len(old) : i + 1 < j => old[i + 1].seq < old[j].seq
        BY <1>9, <4>1 DEF Flow
      <4>3. \A o \in Slots : flag'[p][r][o][h] < old[i + 1].seq
        BY <3>4, <3>5, <4>1, <4>2
      <4>4. \A j \in 1 .. Len(old) - 1 : i < j => old[i + 1].seq < Tail(old)[j].seq
        <5> TAKE j \in 1 .. Len(old) - 1
        <5>1. j + 1 \in 1 .. Len(old) /\ Tail(old)[j] = old[j + 1] /\ (i < j => i + 1 < j + 1)
          BY <1>2, <3>2
        <5> QED BY <4>2, <5>1
      <4> QED BY <4>1, <4>2, <4>3, <4>4
    <3>8. \A t \in Got(p) : t <= Posted(r, p, h)
      BY <1>9 DEF Flow
    <3>9. Got(p)' = Got(p) /\ Posted(r, p, h)' = Posted(r, p, h)
      BY <1>0, <1>4, <1>5
    <3>10. Len(wire'[r][p][h]) = Len(old) - 1 /\ wire'[r][p][h] = Tail(old)
      BY <3>1, <3>2
    <3> HIDE DEF old, s
    <3> QED BY <3>6, <3>7, <3>8, <3>9, <3>10 DEF Flow
  <2> QED BY <2>1, <2>2, <2>3 DEF NicStep, Nic
<1>11. ASSUME NEW q \in Ranks, NEW d \in Peers(q), NEW g \in HcaIds PROVE Flow(q, d, g)'
  <2>1. CASE <<q, d, g>> = <<r, p, h>>
    BY <1>10, <2>1
  <2>2. CASE <<q, d, g>> # <<r, p, h>>
    <3>1. d \in Ranks /\ Flow(q, d, g)
      BY DEF Peers, Sync
    <3> QED BY <1>4, <1>5, <1>7, <1>8, <2>2, <3>1, FlowKept
  <2> QED BY <2>1, <2>2
<1>12. NoLoop'
  BY <1>0, <1>7 DEF Sync, NoLoop
<1> QED BY <1>3, <1>11, <1>12 DEF Sync

LEMMA StepSync ==
    ASSUME MaxOps < Word, Typed, Sync, [Next]_vars
    PROVE  Sync'
<1>1. ASSUME NEW r \in Ranks, NEW b \in Blocks, KernelStep(r, b) PROVE Sync'
  BY <1>1, SyncStage, SyncArrive, SyncPass, SyncReduce, SyncFinish, SyncExpire DEF KernelStep, Block
<1>2. ASSUME NEW r \in Ranks, HostStep(r) \/ ProxyStep(r) PROVE Sync'
  BY <1>2, SyncHost, SyncPoll, SyncPost DEF ProxyStep
<1>3. ASSUME NEW r \in Ranks, NEW p \in Peers(r), NEW h \in HcaIds, NicStep(r, p, h) PROVE Sync'
  BY <1>3, SyncNic
<1>4. CASE Next
  BY <1>1, <1>2, <1>3, <1>4 DEF Next, HostStep, KernelStep, ProxyStep, NicStep
<1>5. CASE UNCHANGED vars
  <2>1. \A q \in Ranks : Unmoved(q)
    BY <1>5 DEF vars, hostVars, deviceVars, regionVars, proxyVars, Unmoved
  <2>2. \A q \in Ranks : (ProxySync(q) /\ KernelSync(q) /\ TailSync(q))'
    BY <2>1, UnmovedKeeps DEF Sync
  <2>3. ASSUME NEW r \in Ranks, NEW p \in Peers(r), NEW h \in HcaIds PROVE Flow(r, p, h)'
    <3>1. p \in Ranks /\ Flow(r, p, h)
      BY DEF Peers, Sync
    <3>2. wire' = wire /\ flag' = flag
      BY <1>5 DEF vars, regionVars
    <3> QED BY <2>1, <3>1, <3>2, UnmovedKeeps, FlowKept
  <2>4. NoLoop'
    BY <1>5 DEF vars, Sync, NoLoop
  <2> QED BY <2>2, <2>3, <2>4 DEF Sync
<1> QED BY <1>4, <1>5

(* No rank is two operations ahead of another: an operation a rank is done *)
(* with has been posted by every peer, over every HCA.                     *)
LEMMA Lag ==
    ASSUME Typed, Sync, NEW r \in Ranks, NEW p \in Peers(r), NEW h \in HcaIds
    PROVE  /\ epoch[p] <= Posted(r, p, h)
           /\ Posted(r, p, h) <= door[r]
           /\ door[p] <= epoch[p] + 1 /\ door[p] \in Nat /\ epoch[p] \in Nat
<1>1. p \in Ranks /\ Flow(r, p, h) /\ ProxySync(r) /\ KernelSync(p)
  BY DEF Peers, Sync
<1>2. epoch[p] \in Nat /\ door[p] \in Nat /\ lastSeq[r] \in Nat /\ target[r] \in Nat /\ door[r] \in Nat
  BY <1>1, OwnTypes
<1>3. epoch[p] <= Posted(r, p, h)
  BY <1>1, GotType DEF Flow
<1>4. ~Ahead(<<p, h>>, FirstPlace(r))
  BY Round
<1>5. Posted(r, p, h) <= door[r]
  BY <1>1, <1>2, <1>4 DEF Posted, ProxySync
<1> QED BY <1>1, <1>2, <1>3, <1>5 DEF KernelSync

(* The last place of the round: what r has posted there is what it is done *)
(* posting.                                                                *)
LEMMA LastPeer ==
    ASSUME Typed, Sync, NEW r \in Ranks
    PROVE  \E p \in Peers(r), h \in HcaIds : epoch[p] <= lastSeq[r]
<1>3. PICK p \in Peers(r) : \A q \in Peers(r) : q <= p
  <2>1. CASE r = World - 1
    <3>1. World - 2 \in Peers(r) /\ \A q \in Peers(r) : q <= World - 2
      BY <2>1, RoceAssumption DEF RoceAssumption, Peers, Ranks
    <3> QED BY <3>1
  <2>2. CASE r # World - 1
    <3>1. World - 1 \in Peers(r) /\ \A q \in Peers(r) : q <= World - 1
      BY <2>2, RoceAssumption DEF RoceAssumption, Peers, Ranks
    <3> QED BY <3>1
  <2> QED BY <2>1, <2>2
<1>4. Hcas \in HcaIds
  BY HcasIsNat DEF HcaIds
<1>5. Posted(r, p, Hcas) = lastSeq[r]
  <2>1. at[r] \in Peers(r) \X HcaIds
    BY OwnTypes
  <2>2. at[r][1] \in Nat /\ at[r][1] <= p /\ at[r][2] \in Nat /\ at[r][2] <= Hcas /\ p \in Nat
        /\ Hcas \in Nat
    BY <1>3, <2>1, RoceAssumption DEF RoceAssumption, Peers, Ranks, HcaIds
  <2> QED BY <2>2 DEF Posted, Ahead
<1> QED BY <1>4, <1>5, Lag

LEMMA DoorLag ==
    ASSUME Typed, Sync, NEW r \in Ranks
    PROVE  lastSeq[r] <= door[r] /\ door[r] <= lastSeq[r] + 2
<1>1. ProxySync(r) /\ KernelSync(r)
  BY DEF Sync
<1>2. lastSeq[r] \in Nat /\ target[r] \in Nat /\ door[r] \in Nat /\ epoch[r] \in Nat
  BY OwnTypes
<1>3. PICK p \in Peers(r), h \in HcaIds : epoch[p] <= lastSeq[r]
  BY LastPeer
<1>4. door[p] <= epoch[p] + 1 /\ door[p] \in Nat /\ epoch[p] \in Nat
  BY Lag
<1>5. epoch[r] <= door[p]
  <2>1. r \in Peers(p) /\ p \in Ranks
    BY DEF Peers
  <2> QED BY <1>2, <1>4, <2>1, Lag, PostedType
<1> QED BY <1>1, <1>2, <1>3, <1>4, <1>5 DEF ProxySync, KernelSync

(* A proxy that looks at its doorbell finds at most as many operations to  *)
(* post as there are slots, although nobody acknowledges a write: while    *)
(* the sequence numbers do not wrap, it never gives up for a skipped one.  *)
THEOREM DoorbellsAreKept ==
    ASSUME MaxOps < Word
    PROVE  Spec => []NoDoorbellSkipped
<1>1. Typed /\ Sync => NoDoorbellSkipped
  <2> SUFFICES ASSUME Typed, Sync, NEW r \in Ranks
               PROVE  Behind(lastSeq[r], door[r]) <= Cardinality(Slots)
    BY DEF NoDoorbellSkipped
  <2>1. Cardinality(Slots) = 2
    <3>1. Cardinality({0}) = 1 /\ IsFiniteSet({0})
      BY FS_Singleton
    <3>2. {0} \cup {1} = Slots
      BY DEF Slots
    <3> QED BY <3>1, <3>2, FS_AddElement
  <2>2. lastSeq[r] \in Nat /\ door[r] \in Nat
    BY OwnTypes
  <2> QED BY <2>1, <2>2, DoorLag DEF Behind
<1>2. Init => Typed /\ Sync
  BY InitTyped, InitSync
<1>3. Typed /\ Sync /\ [Next]_vars => (Typed /\ Sync)'
  BY StepTyped, StepSync
<1> QED BY <1>1, <1>2, <1>3, PTL DEF Spec

-----------------------------------------------------------------------------
(* Which operation the packs are of.                                       *)

StagedIn(r, b) == \A j \in PacksOf(r, b) : send[r][Slot(launched[r])][j] = launched[r]
Past(r) == {b \in 0 .. Grid(r) - 1 : pc[r][b] \notin {"begin", "arrive"}}

(* S: the blocks of a running kernel that have arrived.  Once one block has *)
(* timed out the others skip their arrival, and the counter stays short.   *)
Arrived(r, S) ==
    /\ poison[r] = 0 => S = Past(r)
    /\ \A b \in S : StagedIn(r, b)
    /\ stageCount[r][Grid(r)] = IF Cardinality(S) = Grid(r) THEN 0 ELSE Cardinality(S)
    /\ Cardinality(S) = Grid(r) => door[r] = launched[r]
Arriving(r) == ~Idle(r) /\ (poison[r] = 0 \/ \E b \in Blocks : pc[r][b] = "arrive")

StageSync(r) ==
    /\ epoch[r] <= door[r]
    /\ Live(r) =>
        /\ poison[r] = 0 => \A g \in Grids : Idle(r) \/ g # Grid(r) => stageCount[r][g] = 0
        /\ \A b \in Blocks : pc[r][b] = "arrive" => StagedIn(r, b)
        /\ Arriving(r) => \E S \in SUBSET Past(r) : Arrived(r, S)

(* Send slots hold the operations rung for and not yet written.            *)
Rung(r) == \A k \in lastSeq[r] + 1 .. door[r] :
    /\ nbytes[r][Slot(k)] = Packs[k]
    /\ \A j \in 0 .. Packs[k] - 1 : send[r][Slot(k)][j] = k
Queued(r) == \A p \in Peers(r), h \in HcaIds : \A i \in 1 .. Len(wire[r][p][h]) :
    LET w == wire[r][p][h][i] IN
    /\ w.packs = Stripe(h, Packs[w.seq])
    /\ ~w.sent => \A j \in w.packs : send[r][Slot(w.seq)][j] = w.seq
SendSync(r) == Rung(r) /\ Queued(r) /\ (proxy[r] = "post" => size[r] = Packs[lastSeq[r] + 1])

(* In the slots of p for r: behind a flag, the packs it was written after. *)
RecvSync(r, p) ==
    /\ \A o \in Slots, j \in PackIds :
        /\ recv[p][r][o][j] <= door[r]
        /\ recv[p][r][o][j] # 0 => Slot(recv[p][r][o][j]) = o
    /\ \A h \in HcaIds :
        /\ \A o \in Slots : flag[p][r][o][h] # 0 =>
              \A j \in Stripe(h, Packs[flag[p][r][o][h]]) :
                  recv[p][r][o][j] >= flag[p][r][o][h]
        /\ \A i \in 1 .. Len(wire[r][p][h]) :
              LET w == wire[r][p][h][i] IN
              w.sent => \A j \in w.packs : recv[p][r][Slot(w.seq)][j] >= w.seq

(* A block that may reduce still sees the flags it waited for.             *)
FlagsStay(r) == \A b \in Blocks : pc[r][b] = "reduce" => Delivered(r, seq[r][b])

Data ==
    /\ \A r \in Ranks : StageSync(r) /\ SendSync(r) /\ FlagsStay(r)
    /\ \A r \in Ranks : \A p \in Peers(r) : RecvSync(r, p)

LEMMA UnmovedStage ==
    ASSUME NEW q \in Ranks, Unmoved(q) PROVE StageSync(q)' = StageSync(q)
<1>1. (Live(q)' <=> Live(q)) /\ (Idle(q)' <=> Idle(q)) /\ Grid(q)' = Grid(q)
  BY UnmovedKeeps
<1> USE DEF Unmoved
<1>2. \A b : StagedIn(q, b)' = StagedIn(q, b)
  BY DEF StagedIn, PacksOf, Grid
<1>3. Past(q)' = Past(q) /\ Arriving(q)' = Arriving(q)
  BY <1>1 DEF Past, Arriving
<1>4. \A S : Arrived(q, S)' = Arrived(q, S)
  BY <1>1, <1>2, <1>3 DEF Arrived
<1> QED BY <1>1, <1>2, <1>3, <1>4 DEF StageSync

LEMMA PacksOfInside ==
    ASSUME Typed, NEW r \in Ranks, launched[r] >= 1, NEW b
    PROVE  PacksOf(r, b) \subseteq PackIds /\ PacksOf(r, b) \subseteq 0 .. Packs[launched[r]] - 1
<1>1. Packs[launched[r]] \in 1 .. SlotPacks /\ SlotPacks \in Nat
  BY GridIn, RoceAssumption DEF RoceAssumption
<1> QED BY <1>1 DEF PacksOf, PackIds

(* The blocks of a grid share the packs of the operation out.              *)
LEMMA PacksShared ==
    ASSUME Typed, NEW r \in Ranks, launched[r] >= 1, NEW j \in 0 .. Packs[launched[r]] - 1
    PROVE  \E b \in 0 .. Grid(r) - 1 : j \in PacksOf(r, b)
<1>1. Grid(r) \in Nat /\ Grid(r) >= 1 /\ j \in Nat /\ Threads \in Nat \ {0}
  BY GridIn, RoceAssumption DEF RoceAssumption
<1>2. j \div Threads \in Nat
  BY <1>1
<1>3. (j \div Threads) % Grid(r) \in 0 .. Grid(r) - 1
  BY <1>1, <1>2
<1> QED BY <1>3 DEF PacksOf

LEMMA StageInit == Init => \A r \in Ranks : StageSync(r)
<1> SUFFICES ASSUME Init, NEW r \in Ranks PROVE StageSync(r)
  OBVIOUS
<1>1. Idle(r)
  BY DEF Init, Idle
<1> QED BY <1>1 DEF Init, StageSync, Arriving

LEMMA StageHost ==
    ASSUME Typed, Sync, NEW r \in Ranks, StageSync(r), HostStep(r)
    PROVE  StageSync(r)'
<1> USE DEF hostVars, deviceVars, regionVars, proxyVars
<1>1. CASE Launch(r)
  <2>1. \A b \in Blocks : pc'[r][b] \in {"begin", "exit"}
    BY <1>1 DEF Launch, Typed, DeviceTypes
  <2>2. \A b \in Blocks : pc'[r][b] = IF b < Grid(r)' THEN "begin" ELSE "exit"
    BY <1>1 DEF Launch, Typed, DeviceTypes
  <2>3. Grid(r)' \in Grids /\ Grid(r)' \in Nat /\ Grid(r)' >= 1 /\ Grid(r)' <= MaxBlocks
        /\ MaxBlocks \in Nat
    <3>1. launched'[r] \in 1 .. MaxOps
      BY <1>1, OwnTypes DEF Launch, Typed, HostTypes
    <3>2. Packs[launched'[r]] \in Nat
      BY <3>1, RoceAssumption DEF RoceAssumption
    <3>3. GridOf(Packs[launched'[r]]) \in Grids
      BY <3>2, GridType
    <3>4. Grid(r)' = GridOf(Packs[launched'[r]])
      BY DEF Grid
    <3> QED BY <3>3, <3>4, GridsAreNat
  <2>4. Past(r)' = {}
    BY <2>2, <2>3 DEF Past, Blocks
  <2>5. UNCHANGED <<host, epoch, poison, stageCount, door>> /\ Idle(r) /\ host[r] = "up"
    BY <1>1 DEF Launch
  <2>6. poison[r] = 0 => Arrived(r, {})'
    <3>1. poison[r] = 0 => \A g \in Grids : stageCount[r][g] = 0
      BY <2>5 DEF StageSync, Live
    <3> QED BY <2>3, <2>4, <2>5, <3>1, FS_EmptySet DEF Arrived
  <2>7. Arriving(r)' => poison[r] = 0
    BY <2>1, <2>5 DEF Arriving
  <2>8. Arriving(r)' => \E S \in SUBSET Past(r)' : Arrived(r, S)'
    <3>1. {} \in SUBSET Past(r)'
      OBVIOUS
    <3> QED BY <2>6, <2>7, <3>1
  <2> QED BY <2>1, <2>5, <2>8 DEF StageSync, Live
<1>2. CASE Accept(r)
  <2>1. /\ UNCHANGED <<launched, epoch, poison, stageCount, pc, seq, door, send>>
        /\ host[r] # "gone"
    BY <1>2 DEF Accept
  <2> QED BY <2>1 DEF StageSync, Live, Idle, Grid, StagedIn, PacksOf, Past, Arrived, Arriving
<1>3. CASE Leave(r)
  <2>1. host'[r] = "gone" /\ epoch' = epoch /\ door' = door
    BY <1>3 DEF Leave, Typed, HostTypes
  <2> QED BY <2>1 DEF StageSync, Live
<1> QED BY <1>1, <1>2, <1>3 DEF HostStep

(* A block that stages writes its packs into one send slot.                *)
LEMMA StageWrites ==
    ASSUME Typed, NEW r \in Ranks, NEW b \in Blocks, Stage(r, b), poison[r] = 0,
           Succ(epoch[r]) \in Nat
    PROVE  \A o \in Slots, j \in PackIds : send'[r][o][j] =
              IF o = Slot(Succ(epoch[r])) /\ j \in PacksOf(r, b) THEN launched[r] ELSE send[r][o][j]
<1> DEFINE D == [PackIds -> 0 .. MaxOps]
           u == Slot(Succ(epoch[r]))
           row == [j \in PackIds |-> IF j \in PacksOf(r, b) THEN launched[r] ELSE send[r][u][j]]
<1>1. send \in [Ranks -> [Slots -> D]]
  BY DEF Typed, RegionTypes
<1>2. send' = [send EXCEPT ![r][u] = row]
  BY DEF Stage
<1>3. u \in Slots
  BY SlotType
<1>4. \A j \in PackIds :
         row[j] = IF j \in PacksOf(r, b) THEN launched[r] ELSE send[r][u][j]
  OBVIOUS
<1> HIDE DEF D, u, row
<1>5. \A q \in Ranks, o \in Slots : send'[q][o] = IF q = r /\ o = u THEN row ELSE send[q][o]
  BY <1>1, <1>2, <1>3, Put2
<1>6. \A o \in Slots, j \in PackIds : send'[r][o][j] =
         IF o = u /\ j \in PacksOf(r, b) THEN launched[r] ELSE send[r][o][j]
  BY <1>4, <1>5
<1> QED BY <1>6 DEF u

(* A block goes on to its next label, and no other block moves.            *)
LEMMA BlockMoves ==
    ASSUME Typed, NEW r \in Ranks, NEW b \in Blocks,
           Stage(r, b) \/ Arrive(r, b) \/ Pass(r, b) \/ Expire(r, b) \/ Reduce(r, b)
    PROVE  /\ ~Idle(r)' /\ Grid(r)' = Grid(r) /\ \A c \in Blocks : c # b => pc'[r][c] = pc[r][c]
           /\ Stage(r, b) => pc'[r][b] = IF poison[r] = 0 THEN "arrive" ELSE "tail"
           /\ Arrive(r, b) => pc'[r][b] = "wait"
           /\ Pass(r, b) \/ Expire(r, b) \/ Reduce(r, b) => pc'[r][b] \in {"reduce", "tail"}
<1> USE DEF Go
<1>1. PICK l : /\ pc' = [pc EXCEPT ![r][b] = l] /\ l # "exit"
               /\ Stage(r, b) => l = IF poison[r] = 0 THEN "arrive" ELSE "tail"
               /\ Arrive(r, b) => l = "wait"
               /\ Pass(r, b) \/ Expire(r, b) \/ Reduce(r, b) => l \in {"reduce", "tail"}
  <2>1. CASE Stage(r, b)
    BY <2>1 DEF Stage, Arrive, Pass, Expire, Reduce
  <2>2. CASE Arrive(r, b)
    BY <2>2 DEF Stage, Arrive, Pass, Expire, Reduce
  <2>3. CASE Pass(r, b)
    BY <2>3 DEF Stage, Arrive, Pass
  <2>4. CASE Expire(r, b)
    BY <2>4 DEF Stage, Arrive, Expire
  <2>5. CASE Reduce(r, b)
    BY <2>5 DEF Stage, Arrive, Reduce
  <2> QED BY <2>1, <2>2, <2>3, <2>4, <2>5
<1>2. launched' = launched /\ pc[r][b] # "exit"
  BY DEF Stage, Arrive, Pass, Expire, Reduce, hostVars
<1>3. pc'[r][b] = l /\ \A c : c # b => pc'[r][c] = pc[r][c]
  BY <1>1 DEF Typed, DeviceTypes
<1>4. ~Idle(r)' /\ Grid(r)' = Grid(r)
  BY <1>1, <1>2, <1>3 DEF Idle, Grid
<1> QED BY <1>1, <1>3, <1>4

LEMMA StageStage ==
    ASSUME Typed, Sync, MaxOps < Word, NEW r \in Ranks, NEW b \in Blocks, StageSync(r), Stage(r, b)
    PROVE  StageSync(r)'
<1> USE DEF hostVars, deviceVars, regionVars, proxyVars, Go
<1>0. pc[r][b] = "begin"
  BY DEF Stage
<1>1. /\ Live(r) /\ ~Idle(r) /\ epoch[r] < launched[r] /\ (poison[r] = 0 <=> error[r] = 0)
      /\ error[r] = 0 => launched[r] = epoch[r] + 1
  BY <1>0, Busy
<1>2. Succ(epoch[r]) = epoch[r] + 1 /\ launched[r] \in Nat /\ launched[r] >= 1
  BY <1>1, OwnTypes, SuccIsPlus
<1>3. UNCHANGED <<host, launched, epoch, poison, stageCount, door>>
  BY DEF Stage
<1>4. pc'[r][b] \in {"arrive", "tail"} /\ (pc'[r][b] = "arrive" <=> poison[r] = 0)
  BY BlockMoves
<1>5. ~Idle(r)' /\ Grid(r)' = Grid(r) /\ \A c \in Blocks : c # b => pc'[r][c] = pc[r][c]
  BY BlockMoves
<1>6. Live(r)'
  BY <1>1, <1>3 DEF Live
<1>7. \A c : PacksOf(r, c)' = PacksOf(r, c)
  BY <1>3 DEF PacksOf, Grid
<1>8. poison[r] = 0 =>
        /\ \A j \in PackIds : send'[r][Slot(launched[r])][j] =
             IF j \in PacksOf(r, b) THEN launched[r] ELSE send[r][Slot(launched[r])][j]
  BY <1>1, <1>2, SlotType DEF Stage, Typed, RegionTypes
<1>9. poison[r] # 0 => send' = send
  BY DEF Stage
<1>10. \A c : PacksOf(r, c) \subseteq PackIds
  BY <1>2, PacksOfInside
<1>11. \A c : StagedIn(r, c) => StagedIn(r, c)'
  BY <1>3, <1>7, <1>8, <1>9, <1>10 DEF StagedIn
<1>12. poison[r] = 0 => StagedIn(r, b)'
  BY <1>3, <1>7, <1>8, <1>10 DEF StagedIn
<1>13. /\ Past(r) \subseteq Past(r)' /\ (poison[r] = 0 => Past(r)' = Past(r))
  <2>1. \A c \in 0 .. Grid(r) - 1 : c \in Blocks
    BY <1>0, Busy DEF Blocks
  <2> QED BY <1>0, <1>4, <1>5, <2>1 DEF Past
<1>14. Arriving(r)' => Arriving(r)
  BY <1>1, <1>3, <1>4, <1>5 DEF Arriving
<1>15. ASSUME NEW S, Arrived(r, S) PROVE Arrived(r, S)'
  BY <1>3, <1>5, <1>11, <1>13, <1>15 DEF Arrived
<1>16. Arriving(r)' => \E S \in SUBSET Past(r)' : Arrived(r, S)'
  BY <1>1, <1>13, <1>14, <1>15 DEF StageSync
<1>17. \A c \in Blocks : pc'[r][c] = "arrive" => StagedIn(r, c)'
  BY <1>1, <1>4, <1>5, <1>11, <1>12 DEF StageSync
<1> QED BY <1>1, <1>3, <1>5, <1>6, <1>16, <1>17 DEF StageSync

LEMMA StageArrive ==
    ASSUME Typed, Sync, MaxOps < Word, NEW r \in Ranks, NEW b \in Blocks, StageSync(r), Arrive(r, b)
    PROVE  /\ StageSync(r)'
           /\ \/ UNCHANGED <<door, nbytes>>
              \/ /\ \A j \in 0 .. Packs[launched[r]] - 1 :
                      send[r][Slot(launched[r])][j] = launched[r]
                 /\ nbytes' = [nbytes EXCEPT ![r][Slot(launched[r])] = Packs[launched[r]]]
                 /\ door' = [door EXCEPT ![r] = launched[r]]
           /\ seq[r][b] = launched[r] /\ launched[r] = epoch[r] + 1
<1> USE DEF hostVars, deviceVars, regionVars, proxyVars, Go
<1>0. pc[r][b] = "arrive"
  BY DEF Arrive
<1>1. /\ Live(r) /\ ~Idle(r) /\ b \in 0 .. Grid(r) - 1 /\ Grid(r) \in Grids /\ Grid(r) \in Nat
      /\ Grid(r) >= 1
  BY <1>0, Busy
<1>2. launched[r] = epoch[r] + 1 /\ seq[r][b] = launched[r] /\ epoch[r] \in Nat /\ launched[r] >= 1
  <2>1. KernelSync(r)
    BY DEF Sync
  <2>2. launched[r] = epoch[r] + 1 /\ seq[r][b] = epoch[r] + 1 /\ epoch[r] \in Nat
    BY <1>0, <1>1, <2>1, OwnTypes DEF KernelSync
  <2> QED BY <2>2
<1>3. UNCHANGED <<host, launched, epoch, poison, send>>
  BY DEF Arrive
<1>4. /\ ~Idle(r)' /\ Grid(r)' = Grid(r)
      /\ pc'[r][b] = "wait" /\ \A c \in Blocks : c # b => pc'[r][c] = pc[r][c]
  BY BlockMoves
<1>5. Live(r)'
  BY <1>1, <1>3 DEF Live
<1>6. \A c : StagedIn(r, c)' <=> StagedIn(r, c)
  BY <1>3 DEF StagedIn, PacksOf, Grid
<1>7. Past(r)' = Past(r) \cup {b} /\ b \notin Past(r) /\ Past(r) \subseteq 0 .. Grid(r) - 1
  <2>1. \A c \in 0 .. Grid(r) - 1 : c \in Blocks
    BY <1>0, Busy DEF Blocks
  <2> QED BY <1>0, <1>1, <1>4, <2>1 DEF Past
<1>8. Arriving(r)
  BY <1>0, <1>1 DEF Arriving
<1>9. PICK S \in SUBSET Past(r) : Arrived(r, S)
  BY <1>1, <1>8 DEF StageSync
<1>10. IsFiniteSet(S \cup {b}) /\ Cardinality(S \cup {b}) = Cardinality(S) + 1
       /\ Cardinality(S) \in Nat /\ Cardinality(S) + 1 <= Grid(r)
       /\ (Cardinality(S) + 1 = Grid(r) => S \cup {b} = 0 .. Grid(r) - 1)
  <2>1. IsFiniteSet(0 .. Grid(r) - 1) /\ Cardinality(0 .. Grid(r) - 1) = Grid(r)
    BY <1>1, FS_Interval
  <2>2. S \cup {b} \subseteq 0 .. Grid(r) - 1 /\ S \subseteq 0 .. Grid(r) - 1 /\ b \notin S
    BY <1>1, <1>7
  <2>3. IsFiniteSet(S \cup {b}) /\ IsFiniteSet(S)
    BY <2>1, <2>2, FS_Subset
  <2>4. Cardinality(S \cup {b}) = Cardinality(S) + 1 /\ Cardinality(S) \in Nat
    BY <2>2, <2>3, FS_AddElement, FS_CardinalityType
  <2>5. Cardinality(S \cup {b}) <= Cardinality(0 .. Grid(r) - 1)
        /\ (Cardinality(S \cup {b}) = Cardinality(0 .. Grid(r) - 1) => S \cup {b} = 0 .. Grid(r) - 1)
    BY <2>1, <2>2, FS_Subset
  <2> QED BY <2>1, <2>3, <2>4, <2>5
<1>11. stageCount[r][Grid(r)] = Cardinality(S)
  <2>1. Cardinality(S) # Grid(r)
    BY <1>1, <1>10
  <2> QED BY <1>9, <2>1 DEF Arrived
<1>12. /\ stageCount'[r][Grid(r)] = IF Cardinality(S) + 1 = Grid(r) THEN 0 ELSE Cardinality(S) + 1
       /\ \A g \in Grids : g # Grid(r) => stageCount'[r][g] = stageCount[r][g]
  BY <1>1, <1>11 DEF Arrive, Tick, Typed, DeviceTypes
<1>13. stageCount'[r][Grid(r)] = 0 <=> Cardinality(S) + 1 = Grid(r)
  BY <1>10, <1>12
<1>14. StagedIn(r, b)
  BY <1>0, <1>1 DEF StageSync
<1>15. CASE Cardinality(S) + 1 = Grid(r)
  <2>1. nbytes' = [nbytes EXCEPT ![r][Slot(launched[r])] = Packs[launched[r]]]
        /\ door' = [door EXCEPT ![r] = launched[r]]
    BY <1>2, <1>13, <1>15 DEF Arrive
  <2>2. door'[r] = launched[r]
    BY <2>1 DEF Typed, RegionTypes
  <2>3. \A c \in 0 .. Grid(r) - 1 : StagedIn(r, c)
    BY <1>9, <1>10, <1>14, <1>15 DEF Arrived
  <2>4. \A j \in 0 .. Packs[launched[r]] - 1 : send[r][Slot(launched[r])][j] = launched[r]
    BY <1>2, <2>3, PacksShared DEF StagedIn
  <2>5. Arrived(r, S \cup {b})'
    BY <1>3, <1>4, <1>6, <1>7, <1>9, <1>10, <1>12, <1>14, <1>15, <2>2 DEF Arrived
  <2>6. S \cup {b} \in SUBSET Past(r)'
    BY <1>7
  <2>7. StageSync(r)'
    BY <1>1, <1>2, <1>3, <1>4, <1>5, <1>6, <1>12, <2>2, <2>5, <2>6 DEF StageSync
  <2> QED BY <1>2, <2>1, <2>4, <2>7
<1>16. CASE Cardinality(S) + 1 # Grid(r)
  <2>1. UNCHANGED <<nbytes, door>>
    BY <1>13, <1>16 DEF Arrive
  <2>2. Arrived(r, S \cup {b})'
    <3>1. \A c \in S \cup {b} : StagedIn(r, c)'
      BY <1>6, <1>9, <1>14 DEF Arrived
    <3>2. poison'[r] = 0 => S \cup {b} = Past(r)'
      BY <1>3, <1>7, <1>9 DEF Arrived
    <3> QED BY <1>4, <1>10, <1>12, <1>16, <3>1, <3>2 DEF Arrived
  <2>3. S \cup {b} \in SUBSET Past(r)'
    BY <1>7
  <2>4. StageSync(r)'
    BY <1>1, <1>3, <1>4, <1>5, <1>6, <1>12, <2>1, <2>2, <2>3 DEF StageSync
  <2> QED BY <1>2, <2>1, <2>4
<1> QED BY <1>15, <1>16

LEMMA StageGoesOn ==
    ASSUME Typed, Sync, NEW r \in Ranks, NEW b \in Blocks, StageSync(r),
           Pass(r, b) \/ Expire(r, b) \/ Reduce(r, b)
    PROVE  StageSync(r)'
<1> USE DEF hostVars, deviceVars, regionVars, proxyVars, Go
<1>0. pc[r][b] \in {"wait", "reduce"}
  BY DEF Pass, Expire, Reduce
<1>1. Live(r) /\ ~Idle(r)
  BY <1>0, Busy
<1>2. UNCHANGED <<host, launched, epoch, stageCount, send, door>>
  BY DEF Pass, Expire, Reduce
<1>3. pc'[r][b] \in {"reduce", "tail"}
  BY BlockMoves
<1>4. ~Idle(r)' /\ Grid(r)' = Grid(r) /\ \A c \in Blocks : c # b => pc'[r][c] = pc[r][c]
  BY BlockMoves
<1>5. Live(r)'
  BY <1>1, <1>2 DEF Live
<1>6. \A c : StagedIn(r, c)' <=> StagedIn(r, c)
  BY <1>2 DEF StagedIn, PacksOf, Grid
<1>7. Past(r)' = Past(r)
  <2>1. \A c \in 0 .. Grid(r) - 1 : c \in Blocks
    BY <1>0, Busy DEF Blocks
  <2> QED BY <1>0, <1>3, <1>4, <2>1 DEF Past
<1>8. poison'[r] = 0 => poison[r] = 0
  <2>1. CASE Expire(r, b)
    <3>1. KernelSync(r) /\ pc[r][b] = "wait"
      BY <2>1 DEF Sync, Expire
    <3>2. seq[r][b] = epoch[r] + 1 /\ epoch[r] \in Nat
      BY <1>1, <3>1, OwnTypes DEF KernelSync
    <3>3. poison'[r] = seq[r][b]
      BY <2>1 DEF Expire, Typed, DeviceTypes
    <3> QED BY <3>2, <3>3
  <2>2. CASE Pass(r, b) \/ Reduce(r, b)
    BY <2>2 DEF Pass, Reduce
  <2> QED BY <2>1, <2>2
<1>9. Arriving(r)' => Arriving(r)
  BY <1>1, <1>3, <1>4, <1>8 DEF Arriving
<1>10. ASSUME NEW S, Arrived(r, S) PROVE Arrived(r, S)'
  BY <1>2, <1>4, <1>6, <1>7, <1>8, <1>10 DEF Arrived
<1>11. \A c \in Blocks : pc'[r][c] = "arrive" => StagedIn(r, c)'
  BY <1>1, <1>3, <1>4, <1>6 DEF StageSync
<1>12. Arriving(r)' => \E S \in SUBSET Past(r)' : Arrived(r, S)'
  BY <1>1, <1>7, <1>9, <1>10 DEF StageSync
<1> QED BY <1>1, <1>2, <1>4, <1>5, <1>8, <1>11, <1>12 DEF StageSync

LEMMA StageFinish ==
    ASSUME Typed, Sync, NEW r \in Ranks, NEW b \in Blocks, StageSync(r), Finish(r, b)
    PROVE  StageSync(r)'
<1> USE DEF hostVars, deviceVars, regionVars, proxyVars, Go
<1>0. pc[r][b] = "tail"
  BY DEF Finish
<1>1. /\ Live(r) /\ ~Idle(r) /\ (poison[r] = 0 <=> error[r] = 0)
      /\ error[r] = 0 => launched[r] = epoch[r] + 1
      /\ Grid(r) \in Grids /\ Grid(r) \in Nat /\ Grid(r) >= 1
      /\ b \in 0 .. Grid(r) - 1
  BY <1>0, Busy
<1>2. UNCHANGED <<host, launched, poison, error, stageCount, send, door, seq>>
  BY DEF Finish
<1>3. /\ pc'[r][b] = "exit" /\ \A c \in Blocks : c # b => pc'[r][c] = pc[r][c]
      /\ Grid(r)' = Grid(r)
  BY LastOut
<1>4. Live(r)'
  BY <1>1, <1>2 DEF Live
<1>5. \A c : StagedIn(r, c)' <=> StagedIn(r, c)
  BY <1>2 DEF StagedIn, PacksOf, Grid
<1>6. \A c \in 0 .. Grid(r) - 1 : c \in Blocks
  BY <1>0, Busy DEF Blocks
<1>7. Past(r)' = Past(r)
  BY <1>0, <1>3, <1>6 DEF Past
<1>8. Arriving(r)' => Arriving(r)
  BY <1>1, <1>2, <1>3 DEF Arriving
<1>9. ASSUME NEW S, Arrived(r, S) PROVE Arrived(r, S)'
  BY <1>2, <1>3, <1>5, <1>7, <1>9 DEF Arrived
<1>10. \A c \in Blocks : pc'[r][c] = "arrive" => StagedIn(r, c)'
  BY <1>1, <1>3, <1>5 DEF StageSync
<1>11. Arriving(r)' => \E S \in SUBSET Past(r)' : Arrived(r, S)'
  BY <1>1, <1>7, <1>8, <1>9 DEF StageSync
<1>12. Idle(r)' /\ poison[r] = 0 => stageCount[r][Grid(r)] = 0 /\ door[r] = launched[r]
  <2> SUFFICES ASSUME Idle(r)', poison[r] = 0
               PROVE  stageCount[r][Grid(r)] = 0 /\ door[r] = launched[r]
    OBVIOUS
  <2>1. PICK S \in SUBSET Past(r) : Arrived(r, S)
    BY <1>1 DEF StageSync, Arriving
  <2>2. Past(r) = 0 .. Grid(r) - 1
    BY <1>0, <1>3, <1>6 DEF Past, Idle
  <2>3. Cardinality(S) = Grid(r)
    <3>1. S = 0 .. Grid(r) - 1
      BY <2>1, <2>2 DEF Arrived
    <3> QED BY <1>1, <3>1, FS_Interval
  <2> QED BY <2>1, <2>3 DEF Arrived
<1>13. epoch'[r] <= door[r]
  <2>1. CASE epoch'[r] = epoch[r]
    BY <2>1 DEF StageSync
  <2>2. CASE epoch'[r] # epoch[r]
    <3>1. tailCount'[r][Grid(r)] = 0 /\ error[r] = 0 /\ epoch'[r] = seq[r][b]
      BY <2>2 DEF Finish, Typed, DeviceTypes
    <3>2. KernelSync(r) /\ TailSync(r)
      BY DEF Sync
    <3>3. seq[r][b] = launched[r] /\ launched[r] \in Nat
      BY <1>0, <1>1, <3>1, <3>2, OwnTypes DEF KernelSync
    <3>4. Idle(r)'
      <4>1. tailCount[r][Grid(r)] = Cardinality(Exited(r))
        BY <1>1, <3>2 DEF TailSync
      <4>2. tailCount'[r][Grid(r)] = Tick(tailCount[r][Grid(r)], Grid(r))
        BY <1>1 DEF Finish, Typed, DeviceTypes
      <4>3. Cardinality(Exited(r)) \in Nat /\ (Cardinality(Exited(r)) + 1 = Grid(r) => Idle(r)')
        BY LastOut
      <4> QED BY <3>1, <4>1, <4>2, <4>3 DEF Tick
    <3>5. door[r] = launched[r]
      BY <1>1, <1>12, <3>1, <3>4
    <3> QED BY <3>1, <3>3, <3>5
  <2> QED BY <2>1, <2>2
<1>14. poison[r] = 0 => \A g \in Grids : Idle(r)' \/ g # Grid(r) => stageCount[r][g] = 0
  BY <1>1, <1>12 DEF StageSync
<1> QED BY <1>2, <1>3, <1>4, <1>10, <1>11, <1>13, <1>14 DEF StageSync

(* A step of a proxy or of a queue pair leaves the host and the device, and *)
(* of the region the words that the kernel writes.                         *)
LEMMA WiresFrame ==
    ASSUME NEW r \in Ranks,
           ProxyStep(r) \/ (\E p \in Peers(r), h \in HcaIds : NicStep(r, p, h))
    PROVE  UNCHANGED <<host, launched, accepted, epoch, poison, stageCount, tailCount, pc, seq,
                       exact, send, door, nbytes, error>>
<1> USE DEF hostVars, deviceVars, regionVars
<1>1. CASE Poll(r)
  BY <1>1 DEF Poll
<1>2. CASE Post(r)
  BY <1>2 DEF Post
<1>3. ASSUME NEW p \in Peers(r), NEW h \in HcaIds, NicStep(r, p, h)
      PROVE  UNCHANGED <<host, launched, accepted, epoch, poison, stageCount, tailCount, pc, seq,
                         exact, send, door, nbytes, error>>
  <2>1. CASE WriteData(r, p, h)
    BY <2>1 DEF WriteData
  <2>2. CASE WriteFlag(r, p, h)
    BY <2>2 DEF WriteFlag
  <2>3. CASE WriteFails(r, p, h)
    BY <2>3 DEF WriteFails
  <2> QED BY <1>3, <2>1, <2>2, <2>3 DEF NicStep, Nic
<1> QED BY <1>1, <1>2, <1>3 DEF ProxyStep

(* A step of a proxy or of a queue pair touches no block.                  *)
LEMMA StageWires ==
    ASSUME NEW q \in Ranks, NEW r \in Ranks,
           ProxyStep(r) \/ (\E p \in Peers(r), h \in HcaIds : NicStep(r, p, h))
    PROVE  StageSync(q)' = StageSync(q)
<1>1. UNCHANGED <<host, launched, epoch, poison, stageCount, pc, send, door>>
  BY WiresFrame
<1>2. (Live(q)' <=> Live(q)) /\ (Idle(q)' <=> Idle(q)) /\ Grid(q)' = Grid(q)
  BY <1>1 DEF Live, Idle, Grid
<1>3. \A b : StagedIn(q, b)' = StagedIn(q, b)
  BY <1>1 DEF StagedIn, PacksOf, Grid
<1>4. Past(q)' = Past(q) /\ Arriving(q)' = Arriving(q)
  BY <1>1, <1>2 DEF Past, Arriving
<1>5. \A S : Arrived(q, S)' = Arrived(q, S)
  BY <1>1, <1>2, <1>3, <1>4 DEF Arrived
<1> QED BY <1>1, <1>2, <1>3, <1>4, <1>5 DEF StageSync

LEMMA StageStep ==
    ASSUME Typed, Sync, MaxOps < Word, \A r \in Ranks : StageSync(r), Next
    PROVE  \A q \in Ranks : StageSync(q)'
<1>1. ASSUME NEW r \in Ranks, HostStep(r) \/ \E b \in Blocks : KernelStep(r, b), NEW q \in Ranks
      PROVE  StageSync(q)'
  <2>1. CASE q = r
    BY <1>1, <2>1, StageHost, StageStage, StageArrive, StageGoesOn, StageFinish DEF KernelStep, Block
  <2>2. CASE q # r
    <3>1. Unmoved(q)
      BY <1>1, <2>2, Others
    <3> QED BY <3>1, UnmovedStage
  <2> QED BY <2>1, <2>2
<1>2. ASSUME NEW r \in Ranks, NEW q \in Ranks,
             ProxyStep(r) \/ (\E p \in Peers(r), h \in HcaIds : NicStep(r, p, h))
      PROVE  StageSync(q)'
  BY <1>2, StageWires
<1> QED BY <1>1, <1>2 DEF Next, HostStep, KernelStep, ProxyStep, NicStep

LEMMA OthersFlows ==
    ASSUME Typed, NEW r \in Ranks, NEW q \in Ranks, q # r,
           \/ HostStep(r) \/ ProxyStep(r)
           \/ \E b \in Blocks : KernelStep(r, b)
           \/ \E p \in Peers(r), h \in HcaIds : NicStep(r, p, h)
    PROVE  /\ wire'[q] = wire[q]
           /\ \A p \in Ranks : recv'[p][q] = recv[p][q] /\ flag'[p][q] = flag[p][q]
<1> USE DEF hostVars, deviceVars, regionVars, proxyVars
<1>1. CASE HostStep(r)
  <2>1. recv' = recv /\ flag' = flag
    BY <1>1 DEF HostStep, Launch, Accept, Leave
  <2>2. wire'[q] = wire[q]
    BY <1>1 DEF HostStep, Launch, Accept, Leave, Typed, WireTypes
  <2> QED BY <2>1, <2>2
<1>2. CASE ProxyStep(r)
  <2>1. recv' = recv /\ flag' = flag
    BY <1>2 DEF ProxyStep, Poll, Post
  <2>2. wire'[q] = wire[q]
    BY <1>2 DEF ProxyStep, Poll, Post, Typed, WireTypes
  <2> QED BY <2>1, <2>2
<1>3. ASSUME NEW b \in Blocks, KernelStep(r, b) PROVE recv' = recv /\ flag' = flag /\ wire' = wire
  BY <1>3 DEF KernelStep, Block, Stage, Arrive, Pass, Expire, Reduce, Finish
<1>4. ASSUME NEW p \in Peers(r), NEW h \in HcaIds, NicStep(r, p, h)
      PROVE  /\ wire'[q] = wire[q]
             /\ \A d \in Ranks : recv'[d][q] = recv[d][q] /\ flag'[d][q] = flag[d][q]
  <2>0. p \in Ranks
    BY DEF Peers
  <2>1. wire'[q] = wire[q]
    BY <1>4 DEF NicStep, Nic, WriteData, WriteFlag, WriteFails, Typed, WireTypes
  <2>2. \A d \in Ranks : recv'[d][q] = recv[d][q]
    <3>1. CASE recv' = recv
      BY <3>1
    <3>2. CASE WriteData(r, p, h)
      BY <2>0, <3>2, DataWritten
    <3> QED BY <1>4, <3>1, <3>2 DEF NicStep, Nic, WriteFlag, WriteFails
  <2>3. \A d \in Ranks : flag'[d][q] = flag[d][q]
    <3>1. CASE flag' = flag
      BY <3>1
    <3>2. CASE WriteFlag(r, p, h)
      BY <2>0, <3>2, FlagWritten
    <3> QED BY <1>4, <3>1, <3>2 DEF NicStep, Nic, WriteData, WriteFails
  <2> QED BY <2>1, <2>2, <2>3
<1> QED BY <1>1, <1>2, <1>3, <1>4

(* The operations of r still in flight are its current one and the one     *)
(* before: the slot being staged is no longer read.                        *)
LEMMA InFlight ==
    ASSUME Typed, Sync, MaxOps < Word, NEW r \in Ranks
    PROVE  /\ epoch[r] <= lastSeq[r] + 1 /\ door[r] <= epoch[r] + 1 /\ door[r] <= MaxOps
           /\ door[r] <= launched[r]
           /\ \A p \in Peers(r), h \in HcaIds : \A i \in 1 .. Len(wire[r][p][h]) :
                 /\ wire[r][p][h][i].seq \in 1 .. MaxOps
                 /\ wire[r][p][h][i].seq \in {epoch[r], epoch[r] + 1}
                 /\ wire[r][p][h][i].seq <= door[r]
<1>0. /\ lastSeq[r] \in Nat /\ door[r] \in Nat /\ epoch[r] \in Nat /\ launched[r] \in Nat
      /\ launched[r] <= MaxOps /\ MaxOps \in Nat /\ door[r] <= epoch[r] + 1 /\ door[r] <= launched[r]
  BY OwnTypes DEF Sync, KernelSync
<1>1. \A p \in Peers(r), h \in HcaIds : epoch[r] <= epoch[p] + 1 /\ epoch[p] \in Nat
  <2> TAKE p \in Peers(r), h \in HcaIds
  <2>1. r \in Peers(p) /\ p \in Ranks
    BY DEF Peers
  <2>2. epoch[r] <= Posted(p, r, h) /\ Posted(p, r, h) <= door[p] /\ Posted(p, r, h) \in Nat
    BY <2>1, Lag, PostedType
  <2>3. door[p] <= epoch[p] + 1 /\ door[p] \in Nat /\ epoch[p] \in Nat
    BY Lag
  <2> QED BY <1>0, <2>2, <2>3
<1>2. epoch[r] <= lastSeq[r] + 1
  BY <1>0, <1>1, LastPeer
<1>3. ASSUME NEW p \in Peers(r), NEW h \in HcaIds, NEW i \in 1 .. Len(wire[r][p][h])
      PROVE  /\ wire[r][p][h][i].seq \in 1 .. MaxOps
             /\ wire[r][p][h][i].seq \in {epoch[r], epoch[r] + 1}
             /\ wire[r][p][h][i].seq <= door[r]
  <2>1. p \in Ranks /\ Flow(r, p, h)
    BY DEF Peers, Sync
  <2>2. epoch[p] < wire[r][p][h][i].seq /\ wire[r][p][h][i].seq <= Posted(r, p, h)
        /\ wire[r][p][h][i].seq \in Nat /\ Posted(r, p, h) \in Nat
    BY <2>1, GotType, SentTypes, PostedType DEF Flow
  <2>3. Posted(r, p, h) <= door[r]
    BY Lag
  <2>4. epoch[r] <= epoch[p] + 1 /\ epoch[p] \in Nat
    BY <1>1
  <2> DEFINE s == wire[r][p][h][i].seq
  <2>5. s \in Nat /\ epoch[p] < s /\ s <= Posted(r, p, h) /\ Posted(r, p, h) \in Nat
        /\ Posted(r, p, h) <= door[r]
    BY <2>2, <2>3
  <2> HIDE DEF s
  <2>6. s \in 1 .. MaxOps /\ s \in {epoch[r], epoch[r] + 1} /\ s <= door[r]
    BY <1>0, <2>4, <2>5
  <2> QED BY <2>6 DEF s
<1> QED BY <1>0, <1>2, <1>3

LEMMA SlotsDiffer ==
    ASSUME NEW e \in Nat, NEW m \in {e, e + 1}, NEW n \in {e, e + 1}, Slot(m) = Slot(n)
    PROVE  m = n
  BY DEF Slot

LEMMA PackTypes ==
    ASSUME NEW k \in 1 .. MaxOps
    PROVE  /\ Packs[k] \in Nat /\ 0 .. Packs[k] - 1 \subseteq PackIds /\ k \in Nat
           /\ \A h \in HcaIds : Stripe(h, Packs[k]) \subseteq 0 .. Packs[k] - 1
<1>1. Packs[k] \in 1 .. SlotPacks /\ SlotPacks \in Nat /\ k \in Nat
  BY RoceAssumption DEF RoceAssumption
<1>2. 0 .. Packs[k] - 1 \subseteq PackIds
  BY <1>1 DEF PackIds
<1> QED BY <1>1, <1>2, StripeInside

LEMMA SendInit == Init => \A r \in Ranks : SendSync(r)
<1> SUFFICES ASSUME Init, NEW r \in Ranks PROVE SendSync(r)
  OBVIOUS
<1> USE DEF Init
<1>1. lastSeq[r] + 1 .. door[r] = {} /\ proxy[r] = "poll"
  OBVIOUS
<1>2. \A p \in Peers(r), h \in HcaIds : 1 .. Len(wire[r][p][h]) = {}
  <2> TAKE p \in Peers(r), h \in HcaIds
  <2>1. wire[r][p][h] = <<>>
    BY DEF Peers
  <2>2. Len(wire[r][p][h]) = 0
    BY <2>1
  <2> QED BY <2>2
<1> QED BY <1>1, <1>2 DEF SendSync, Rung, Queued

(* A step that changes nothing of what r sends.                            *)
LEMMA SendKept ==
    ASSUME NEW r, SendSync(r),
           lastSeq'[r] = lastSeq[r], door'[r] = door[r], nbytes'[r] = nbytes[r],
           send'[r] = send[r], size'[r] = size[r], proxy'[r] = proxy[r], wire'[r] = wire[r]
    PROVE  SendSync(r)'
<1>1. Rung(r)'
  BY DEF SendSync, Rung
<1>2. Queued(r)'
  <2> SUFFICES ASSUME NEW p \in Peers(r), NEW h \in HcaIds, NEW i \in 1 .. Len(wire'[r][p][h])
               PROVE  LET w == wire'[r][p][h][i] IN
                      /\ w.packs = Stripe(h, Packs[w.seq])
                      /\ ~w.sent => \A j \in w.packs : send'[r][Slot(w.seq)][j] = w.seq
    BY DEF Queued
  <2> DEFINE x == wire[r][p][h][i]
  <2>1. i \in 1 .. Len(wire[r][p][h]) /\ Queued(r) /\ wire'[r][p][h][i] = x
    BY DEF SendSync
  <2>2. x.packs = Stripe(h, Packs[x.seq])
        /\ (~x.sent => \A j \in x.packs : send[r][Slot(x.seq)][j] = x.seq)
    BY <2>1 DEF Queued
  <2> HIDE DEF x
  <2> QED BY <2>1, <2>2
<1> QED BY <1>1, <1>2 DEF SendSync

LEMMA SendHost ==
    ASSUME Typed, Sync, NEW r \in Ranks, SendSync(r), HostStep(r)
    PROVE  SendSync(r)'
<1> USE DEF hostVars, deviceVars, regionVars, proxyVars
<1>1. UNCHANGED <<lastSeq, door, nbytes, send, size>>
  BY DEF HostStep, Launch, Accept, Leave
<1>2. proxy'[r] \in {proxy[r], "closed"}
  BY DEF HostStep, Launch, Accept, Leave, Typed, ProxyTypes
<1>3. Rung(r)'
  BY <1>1 DEF SendSync, Rung
<1>4. wire' = wire \/ \A p \in Ranks, h \in HcaIds : wire'[r][p][h] = <<>>
  BY DEF HostStep, Launch, Accept, Leave, Typed, WireTypes
<1>5. Queued(r)'
  <2>1. CASE wire' = wire
    BY <1>1, <2>1 DEF SendSync, Queued
  <2>2. CASE \A p \in Ranks, h \in HcaIds : wire'[r][p][h] = <<>>
    <3>1. \A p \in Peers(r), h \in HcaIds : Len(wire'[r][p][h]) = 0
      BY <2>2 DEF Peers
    <3>2. \A p \in Peers(r), h \in HcaIds : 1 .. Len(wire'[r][p][h]) = {}
      BY <3>1
    <3> QED BY <3>2 DEF Queued
  <2> QED BY <1>4, <2>1, <2>2
<1> QED BY <1>1, <1>2, <1>3, <1>5 DEF SendSync

LEMMA SendStage ==
    ASSUME Typed, Sync, MaxOps < Word, NEW r \in Ranks, NEW b \in Blocks, SendSync(r), Stage(r, b)
    PROVE  SendSync(r)'
<1> USE DEF hostVars, deviceVars, regionVars, proxyVars, Go
<1>0. UNCHANGED <<lastSeq, door, nbytes, size, proxy, wire>>
  BY DEF Stage
<1>1. /\ epoch[r] < launched[r] /\ (poison[r] = 0 <=> error[r] = 0)
      /\ error[r] = 0 => launched[r] = epoch[r] + 1
  BY Busy DEF Stage
<1>2. Succ(epoch[r]) = epoch[r] + 1 /\ epoch[r] \in Nat /\ launched[r] \in Nat /\ launched[r] >= 1
      /\ lastSeq[r] \in Nat /\ door[r] \in Nat
  BY <1>1, OwnTypes, SuccIsPlus
<1>3. CASE send' = send
  BY <1>0, <1>3 DEF SendSync, Rung, Queued
<1>4. CASE poison[r] = 0
  <2>1. launched[r] = epoch[r] + 1
    BY <1>1, <1>4
  <2>2. \A o \in Slots, j \in PackIds : send'[r][o][j] =
          IF o = Slot(epoch[r] + 1) /\ j \in PacksOf(r, b) THEN epoch[r] + 1 ELSE send[r][o][j]
    BY <1>2, <1>4, <2>1, StageWrites
  <2>3. ASSUME NEW k \in {epoch[r], epoch[r] + 1}, NEW j \in PackIds, send[r][Slot(k)][j] = k
        PROVE  send'[r][Slot(k)][j] = k
    <3>1. k \in Nat /\ Slot(k) \in Slots
      BY <1>2, SlotType
    <3>2. Slot(k) = Slot(epoch[r] + 1) => k = epoch[r] + 1
      BY <1>2, SlotsDiffer
    <3> QED BY <2>2, <2>3, <3>1, <3>2
  <2>4. Rung(r)'
    <3> SUFFICES ASSUME NEW k \in lastSeq[r] + 1 .. door[r]
                 PROVE  /\ nbytes[r][Slot(k)] = Packs[k]
                        /\ \A j \in 0 .. Packs[k] - 1 : send'[r][Slot(k)][j] = k
      BY <1>0 DEF Rung
    <3>1. k \in {epoch[r], epoch[r] + 1} /\ k \in 1 .. MaxOps
      BY <1>2, InFlight, OwnTypes, SMTT(30)
    <3>2. nbytes[r][Slot(k)] = Packs[k] /\ \A j \in 0 .. Packs[k] - 1 : send[r][Slot(k)][j] = k
      BY DEF SendSync, Rung
    <3> QED BY <2>3, <3>1, <3>2, PackTypes
  <2>5. Queued(r)'
    <3> SUFFICES ASSUME NEW p \in Peers(r), NEW h \in HcaIds, NEW i \in 1 .. Len(wire[r][p][h]),
                        ~wire[r][p][h][i].sent, NEW j \in wire[r][p][h][i].packs
                 PROVE  send'[r][Slot(wire[r][p][h][i].seq)][j] = wire[r][p][h][i].seq
      BY <1>0 DEF SendSync, Queued
    <3>1. wire[r][p][h][i].seq \in {epoch[r], epoch[r] + 1}
      BY InFlight
    <3>2. send[r][Slot(wire[r][p][h][i].seq)][j] = wire[r][p][h][i].seq
      BY DEF SendSync, Queued
    <3>3. j \in PackIds
      <4>1. p \in Ranks
        BY DEF Peers
      <4>2. wire[r][p][h][i] \in Write
        BY <4>1, SentTypes
      <4> QED BY <4>2 DEF Write
    <3> QED BY <2>3, <3>1, <3>2, <3>3
  <2> QED BY <1>0, <2>4, <2>5 DEF SendSync
<1> QED BY <1>3, <1>4 DEF Stage

LEMMA SendArrive ==
    ASSUME Typed, Sync, MaxOps < Word, NEW r \in Ranks, NEW b \in Blocks, StageSync(r), SendSync(r),
           Arrive(r, b)
    PROVE  SendSync(r)'
<1> USE DEF hostVars, deviceVars, regionVars, proxyVars, Go
<1>0. UNCHANGED <<lastSeq, send, size, proxy, wire>>
  BY DEF Arrive
<1>1. CASE UNCHANGED <<door, nbytes>>
  BY <1>0, <1>1 DEF SendSync, Rung, Queued
<1>2. CASE /\ \A j \in 0 .. Packs[launched[r]] - 1 : send[r][Slot(launched[r])][j] = launched[r]
           /\ nbytes' = [nbytes EXCEPT ![r][Slot(launched[r])] = Packs[launched[r]]]
           /\ door' = [door EXCEPT ![r] = launched[r]]
  <2>1. launched[r] = epoch[r] + 1 /\ epoch[r] \in Nat /\ lastSeq[r] \in Nat /\ door[r] \in Nat
        /\ epoch[r] <= door[r] /\ epoch[r] <= lastSeq[r] + 1
    BY StageArrive, OwnTypes, InFlight DEF StageSync
  <2>2. door'[r] = epoch[r] + 1
    BY <1>2, <2>1 DEF Typed, RegionTypes
  <2>3. nbytes'[r] = [nbytes[r] EXCEPT ![Slot(epoch[r] + 1)] = Packs[epoch[r] + 1]]
        /\ nbytes[r] \in [Slots -> 0 .. SlotPacks]
    BY <1>2, <2>1 DEF Typed, RegionTypes
  <2>4. ASSUME NEW k \in lastSeq[r] + 1 .. epoch[r] + 1
        PROVE  /\ nbytes'[r][Slot(k)] = Packs[k]
               /\ \A j \in 0 .. Packs[k] - 1 : send[r][Slot(k)][j] = k
    <3>1. k \in {epoch[r], epoch[r] + 1} /\ k \in Nat /\ Slot(k) \in Slots
      BY <2>1, SlotType
    <3>2. CASE k = epoch[r] + 1
      BY <1>2, <2>1, <2>3, <3>1, <3>2
    <3>3. CASE k # epoch[r] + 1
      <4>1. k = epoch[r] /\ k \in lastSeq[r] + 1 .. door[r]
        BY <2>1, <3>1, <3>3
      <4>2. Slot(k) # Slot(epoch[r] + 1)
        BY <2>1, <3>1, <3>3, SlotsDiffer
      <4>3. nbytes[r][Slot(k)] = Packs[k] /\ \A j \in 0 .. Packs[k] - 1 : send[r][Slot(k)][j] = k
        BY <4>1 DEF SendSync, Rung
      <4> QED BY <2>3, <3>1, <4>2, <4>3
    <3> QED BY <3>2, <3>3
  <2>5. Rung(r)'
    BY <1>0, <2>2, <2>4 DEF Rung
  <2> QED BY <1>0, <2>5 DEF SendSync, Queued
<1> QED BY <1>1, <1>2, StageArrive

LEMMA SendPoll ==
    ASSUME Typed, Sync, MaxOps < Word, NEW r \in Ranks, SendSync(r), Poll(r)
    PROVE  SendSync(r)'
<1> USE DEF hostVars, deviceVars, regionVars, proxyVars
<1>0. UNCHANGED <<lastSeq, door, nbytes, send, wire>>
  BY DEF Poll
<1>1. lastSeq[r] < door[r] /\ lastSeq[r] \in Nat /\ door[r] \in Nat /\ door[r] < Word
  BY DoorLag, OwnTypes DEF Poll
<1>2. Succ(lastSeq[r]) = lastSeq[r] + 1 /\ lastSeq[r] + 1 \in lastSeq[r] + 1 .. door[r]
  BY <1>1, SuccIsPlus
<1>3. nbytes[r][Slot(lastSeq[r] + 1)] = Packs[lastSeq[r] + 1]
  BY <1>2 DEF SendSync, Rung
<1>4. proxy'[r] = "post" => size'[r] = nbytes[r][Slot(lastSeq[r] + 1)]
  BY <1>2 DEF Poll, Typed, ProxyTypes
<1> QED BY <1>0, <1>3, <1>4 DEF SendSync, Rung, Queued

LEMMA SendPost ==
    ASSUME Typed, Sync, MaxOps < Word, NEW r \in Ranks, SendSync(r), Post(r)
    PROVE  SendSync(r)'
<1> USE DEF hostVars, deviceVars, regionVars, proxyVars
<1> DEFINE p == at[r][1]
           h == at[r][2]
           old == wire[r][p][h]
           w == [seq |-> lastSeq[r] + 1, packs |-> Stripe(h, Packs[lastSeq[r] + 1]),
                 sent |-> Stripe(h, Packs[lastSeq[r] + 1]) = {}]
<1>0. UNCHANGED <<door, nbytes, send>> /\ proxy[r] = "post"
  BY DEF Post
<1>1. /\ p \in Peers(r) /\ p \in Ranks /\ h \in HcaIds /\ lastSeq[r] < target[r]
      /\ Succ(lastSeq[r]) = lastSeq[r] + 1
  BY PostEffect DEF Peers
<1>2. lastSeq[r] \in Nat /\ target[r] \in Nat /\ door[r] \in Nat /\ target[r] <= door[r]
  BY OwnTypes DEF Sync, ProxySync
<1>3. size[r] = Packs[lastSeq[r] + 1]
  BY <1>0 DEF SendSync
<1>4. \A d \in Ranks, g \in HcaIds :
         wire'[r][d][g] = IF d = p /\ g = h THEN Append(old, w) ELSE wire[r][d][g]
  <2>1. [seq |-> Succ(lastSeq[r]), packs |-> Stripe(h, size[r]), sent |-> Stripe(h, size[r]) = {}] = w
    BY <1>1, <1>3
  <2> HIDE DEF w
  <2> QED BY <1>1, <2>1, PostQueue
<1>5. lastSeq[r] + 1 \in lastSeq[r] + 1 .. door[r] /\ lastSeq[r] + 1 \in 1 .. MaxOps
  BY <1>1, <1>2, InFlight, OwnTypes
<1>6. \A j \in Stripe(h, Packs[lastSeq[r] + 1]) :
         send[r][Slot(lastSeq[r] + 1)][j] = lastSeq[r] + 1
  BY <1>1, <1>5, PackTypes DEF SendSync, Rung
<1>7. Rung(r)'
  <2>1. lastSeq'[r] \in Nat /\ lastSeq[r] <= lastSeq'[r]
    BY <1>2, PostEffect
  <2>2. \A k \in lastSeq'[r] + 1 .. door[r] : k \in lastSeq[r] + 1 .. door[r]
    BY <1>2, <2>1
  <2> QED BY <1>0, <2>2 DEF SendSync, Rung
<1>8. proxy'[r] = "post" => size'[r] = Packs[lastSeq'[r] + 1]
  <2>1. CASE lastSeq'[r] = lastSeq[r] /\ proxy'[r] = proxy[r] /\ size'[r] = size[r]
    BY <1>3, <2>1
  <2>2. CASE lastSeq'[r] = lastSeq[r] + 1 /\ proxy'[r] = "poll"
    BY <2>2
  <2>3. CASE /\ lastSeq'[r] = lastSeq[r] + 1 /\ lastSeq[r] + 1 < target[r]
             /\ size'[r] = nbytes[r][Slot(lastSeq[r] + 2)]
    <3>1. lastSeq[r] + 2 \in lastSeq[r] + 1 .. door[r] /\ lastSeq'[r] + 1 = lastSeq[r] + 2
      BY <1>2, <2>3
    <3> QED BY <2>3, <3>1 DEF SendSync, Rung
  <2> QED BY <2>1, <2>2, <2>3, PostEffect
<1>9. Queued(r)'
  <2> SUFFICES ASSUME NEW d \in Peers(r), NEW g \in HcaIds, NEW i \in 1 .. Len(wire'[r][d][g])
               PROVE  LET x == wire'[r][d][g][i] IN
                      /\ x.packs = Stripe(g, Packs[x.seq])
                      /\ ~x.sent => \A j \in x.packs : send[r][Slot(x.seq)][j] = x.seq
    BY <1>0 DEF Queued
  <2>0. d \in Ranks
    BY DEF Peers
  <2>1. CASE <<d, g>> # <<p, h>>
    <3>1. wire'[r][d][g] = wire[r][d][g]
      BY <1>1, <1>4, <2>0, <2>1
    <3>2. i \in 1 .. Len(wire[r][d][g]) /\ Queued(r)
      BY <3>1 DEF SendSync
    <3> DEFINE x == wire[r][d][g][i]
    <3>3. x.packs = Stripe(g, Packs[x.seq])
          /\ (~x.sent => \A j \in x.packs : send[r][Slot(x.seq)][j] = x.seq)
      BY <3>2 DEF Queued
    <3>4. wire'[r][d][g][i] = x
      BY <3>1
    <3> HIDE DEF x
    <3> QED BY <3>3, <3>4
  <2>2. CASE d = p /\ g = h
    <3>1. wire'[r][p][h] = Append(old, w)
      BY <1>1, <1>4
    <3>2. old \in Seq(Write) /\ Len(old) \in Nat
      BY <1>1, SentTypes
    <3> HIDE DEF w, old, p, h
    <3>3. /\ i \in 1 .. Len(old) + 1
          /\ wire'[r][p][h][i] = IF i = Len(old) + 1 THEN w ELSE old[i]
      BY <2>2, <3>1, <3>2
    <3>4. CASE i = Len(old) + 1
      <4>1. w.seq = lastSeq[r] + 1 /\ w.packs = Stripe(h, Packs[lastSeq[r] + 1])
        BY DEF w
      <4> QED BY <1>6, <2>2, <3>3, <3>4, <4>1
    <3>5. CASE i # Len(old) + 1
      <4>1. i \in 1 .. Len(old)
        BY <3>2, <3>3, <3>5
      <4>2. wire'[r][d][g][i] = wire[r][p][h][i]
        BY <2>2, <3>3, <3>5 DEF old
      <4>3. p \in Peers(r) /\ h \in HcaIds /\ i \in 1 .. Len(wire[r][p][h]) /\ Queued(r)
        BY <1>1, <4>1 DEF SendSync, old
      <4> DEFINE x == wire[r][p][h][i]
      <4>4. x.packs = Stripe(h, Packs[x.seq])
            /\ (~x.sent => \A j \in x.packs : send[r][Slot(x.seq)][j] = x.seq)
        BY <4>3 DEF Queued
      <4>5. wire'[r][d][g][i] = x /\ g = h
        BY <2>2, <4>2
      <4> HIDE DEF x
      <4> QED BY <4>4, <4>5
    <3> QED BY <3>4, <3>5
  <2> QED BY <2>1, <2>2
<1> QED BY <1>7, <1>8, <1>9 DEF SendSync

(* What is in a queue after a step of its queue pair was there before.     *)
LEMMA NicQueue ==
    ASSUME Typed, NEW r \in Ranks, NEW p \in Peers(r), NEW h \in HcaIds, NicStep(r, p, h),
           NEW d \in Peers(r), NEW g \in HcaIds, NEW i \in 1 .. Len(wire'[r][d][g])
    PROVE  \E k \in 1 .. Len(wire[r][d][g]) :
              /\ wire'[r][d][g][i].seq = wire[r][d][g][k].seq
              /\ wire'[r][d][g][i].packs = wire[r][d][g][k].packs
              /\ \/ wire'[r][d][g][i].sent = wire[r][d][g][k].sent
                 \/ WriteData(r, p, h) /\ <<d, g>> = <<p, h>> /\ k = 1 /\ wire'[r][d][g][i].sent
<1> DEFINE old == wire[r][p][h]
<1>0. p \in Ranks /\ d \in Ranks
  BY DEF Peers
<1>1. \E s : wire' = [wire EXCEPT ![r][p][h] = s]
  BY DEF NicStep, Nic, WriteData, WriteFlag, WriteFails
<1>2. CASE <<d, g>> # <<p, h>>
  <2>1. wire'[r][d][g] = wire[r][d][g]
    BY <1>0, <1>1, <1>2 DEF Typed, WireTypes
  <2> QED BY <2>1
<1>3. CASE d = p /\ g = h
  <2>1. old \in Seq(Write) /\ Len(old) \in Nat /\ \A k \in 1 .. Len(old) : old[k] \in Write
    BY <1>0, SentTypes
  <2>2. CASE WriteFails(r, p, h)
    <3>1. wire'[r][p][h] = <<>>
      BY <1>0, <2>2 DEF WriteFails, Typed, WireTypes
    <3>2. Len(wire'[r][d][g]) = 0
      BY <1>3, <3>1
    <3> QED BY <3>2
  <2>3. CASE WriteFlag(r, p, h)
    <3>1. wire'[r][p][h] = Tail(old) /\ old # <<>>
      BY <1>0, <2>3 DEF WriteFlag, Typed, WireTypes
    <3> HIDE DEF old
    <3>2. i \in 1 .. Len(old) - 1 /\ Tail(old)[i] = old[i + 1] /\ i + 1 \in 1 .. Len(old)
      BY <1>3, <2>1, <3>1
    <3> QED BY <1>3, <3>1, <3>2 DEF old
  <2>4. CASE WriteData(r, p, h)
    <3>1. wire'[r][p][h] = [old EXCEPT ![1].sent = TRUE] /\ old # <<>>
      BY <1>0, <2>4 DEF WriteData, Typed, WireTypes
    <3> HIDE DEF old
    <3>2. i \in 1 .. Len(old)
      BY <1>3, <2>1, <3>1
    <3>3. CASE i = 1
      <4>1. wire'[r][p][h][1] = [old[1] EXCEPT !.sent = TRUE] /\ old[1] \in Write
        <5>1. 1 \in DOMAIN old /\ 1 \in 1 .. Len(old)
          BY <2>1, <3>2, <3>3
        <5>2. [old EXCEPT ![1].sent = TRUE][1] = [old[1] EXCEPT !.sent = TRUE]
          BY <5>1
        <5> QED BY <2>1, <3>1, <5>1, <5>2
      <4>2. /\ wire'[r][p][h][1].seq = old[1].seq /\ wire'[r][p][h][1].packs = old[1].packs
            /\ wire'[r][p][h][1].sent
        BY <4>1 DEF Write
      <4> QED BY <1>3, <2>4, <3>2, <3>3, <4>2 DEF old
    <3>4. CASE i # 1
      <4>1. wire'[r][p][h][i] = old[i]
        BY <2>1, <3>1, <3>2, <3>4
      <4> QED BY <1>3, <3>2, <4>1 DEF old
    <3> QED BY <3>3, <3>4
  <2> QED BY <2>2, <2>3, <2>4 DEF NicStep, Nic
<1> QED BY <1>2, <1>3

LEMMA SendNic ==
    ASSUME Typed, NEW r \in Ranks, SendSync(r), NEW p \in Peers(r), NEW h \in HcaIds,
           NicStep(r, p, h)
    PROVE  SendSync(r)'
<1> USE DEF hostVars, deviceVars, regionVars, proxyVars
<1>0. UNCHANGED <<lastSeq, door, nbytes, send, size>>
  BY DEF NicStep, Nic, WriteData, WriteFlag, WriteFails
<1>1. proxy'[r] = "post" => proxy[r] = "post"
  BY DEF NicStep, Nic, WriteData, WriteFlag, WriteFails, Typed, ProxyTypes
<1>2. Queued(r)'
  <2> SUFFICES ASSUME NEW d \in Peers(r), NEW g \in HcaIds, NEW i \in 1 .. Len(wire'[r][d][g])
               PROVE  LET x == wire'[r][d][g][i] IN
                      /\ x.packs = Stripe(g, Packs[x.seq])
                      /\ ~x.sent => \A j \in x.packs : send[r][Slot(x.seq)][j] = x.seq
    BY <1>0 DEF Queued
  <2>1. PICK k \in 1 .. Len(wire[r][d][g]) :
          /\ wire'[r][d][g][i].seq = wire[r][d][g][k].seq
          /\ wire'[r][d][g][i].packs = wire[r][d][g][k].packs
          /\ wire'[r][d][g][i].sent = wire[r][d][g][k].sent \/ wire'[r][d][g][i].sent
    BY NicQueue
  <2> DEFINE y == wire[r][d][g][k]
  <2>2. /\ y.packs = Stripe(g, Packs[y.seq])
        /\ ~y.sent => \A j \in y.packs : send[r][Slot(y.seq)][j] = y.seq
    BY DEF SendSync, Queued
  <2> QED BY <2>1, <2>2
<1> QED BY <1>0, <1>1, <1>2 DEF SendSync, Rung

LEMMA SendStep ==
    ASSUME Typed, Sync, MaxOps < Word, \A r \in Ranks : StageSync(r) /\ SendSync(r), Next
    PROVE  \A q \in Ranks : SendSync(q)'
<1>1. ASSUME NEW r \in Ranks, NEW q \in Ranks, q # r,
             \/ HostStep(r) \/ ProxyStep(r)
             \/ \E b \in Blocks : KernelStep(r, b)
             \/ \E p \in Peers(r), h \in HcaIds : NicStep(r, p, h)
      PROVE  SendSync(q)'
  <2>1. Unmoved(q) /\ wire'[q] = wire[q]
    BY <1>1, Others, OthersFlows
  <2> QED BY <2>1, SendKept DEF Unmoved
<1>2. ASSUME NEW r \in Ranks, HostStep(r) PROVE SendSync(r)'
  BY <1>2, SendHost
<1>3. ASSUME NEW r \in Ranks, ProxyStep(r) PROVE SendSync(r)'
  BY <1>3, SendPoll, SendPost DEF ProxyStep
<1>4. ASSUME NEW r \in Ranks, NEW b \in Blocks, KernelStep(r, b) PROVE SendSync(r)'
  <2>1. CASE Stage(r, b) \/ Arrive(r, b)
    BY <2>1, SendStage, SendArrive
  <2>2. CASE Pass(r, b) \/ Expire(r, b) \/ Reduce(r, b) \/ Finish(r, b)
    <3>1. UNCHANGED <<lastSeq, door, nbytes, send, size, proxy, wire>>
      BY <2>2 DEF Pass, Expire, Reduce, Finish, regionVars, proxyVars
    <3> QED BY <3>1, SendKept
  <2> QED BY <1>4, <2>1, <2>2 DEF KernelStep, Block
<1>5. ASSUME NEW r \in Ranks, NEW p \in Peers(r), NEW h \in HcaIds, NicStep(r, p, h)
      PROVE  SendSync(r)'
  BY <1>5, SendNic
<1>6. PICK r \in Ranks :
        \/ HostStep(r) \/ ProxyStep(r)
        \/ \E b \in Blocks : KernelStep(r, b)
        \/ \E p \in Peers(r), h \in HcaIds : NicStep(r, p, h)
  BY DEF Next, HostStep, KernelStep, ProxyStep, NicStep
<1> QED BY <1>1, <1>2, <1>3, <1>4, <1>5, <1>6

-----------------------------------------------------------------------------
(* What is in the slots of p for r.                                        *)

LEMMA RecvTypes ==
    ASSUME Typed, NEW p \in Ranks, NEW r \in Ranks, NEW o \in Slots
    PROVE  /\ recv[p][r][o] \in [PackIds -> 0 .. MaxOps] /\ MaxOps \in Nat
           /\ \A j \in PackIds : recv[p][r][o][j] \in Nat
<1>1. MaxOps \in Nat
  BY RoceAssumption DEF RoceAssumption
<1>2. recv[p][r][o] \in [PackIds -> 0 .. MaxOps]
  BY DEF Typed, RegionTypes
<1> QED BY <1>1, <1>2

LEMMA RecvInit == Init => \A r \in Ranks : \A p \in Peers(r) : RecvSync(r, p)
<1> SUFFICES ASSUME Init, NEW r \in Ranks, NEW p \in Peers(r) PROVE RecvSync(r, p)
  OBVIOUS
<1>1. p \in Ranks
  BY DEF Peers
<1>2. /\ \A o \in Slots, j \in PackIds : recv[p][r][o][j] = 0
      /\ \A o \in Slots, h \in HcaIds : flag[p][r][o][h] = 0
      /\ door[r] = 0 /\ \A h \in HcaIds : wire[r][p][h] = <<>>
  BY <1>1 DEF Init, Blank
<1>3. \A h \in HcaIds : 1 .. Len(wire[r][p][h]) = {}
  <2> TAKE h \in HcaIds
  <2>1. Len(wire[r][p][h]) = 0
    BY <1>2
  <2> QED BY <2>1
<1>4. \A o \in Slots, j \in PackIds : /\ recv[p][r][o][j] <= door[r]
                                      /\ recv[p][r][o][j] # 0 => Slot(recv[p][r][o][j]) = o
  BY <1>2
<1>5. \A h \in HcaIds : \A o \in Slots : flag[p][r][o][h] # 0 =>
         \A j \in Stripe(h, Packs[flag[p][r][o][h]]) : recv[p][r][o][j] >= flag[p][r][o][h]
  BY <1>2
<1>6. \A h \in HcaIds : \A i \in 1 .. Len(wire[r][p][h]) :
         LET w == wire[r][p][h][i] IN
         w.sent => \A j \in w.packs : recv[p][r][Slot(w.seq)][j] >= w.seq
  BY <1>3
<1> QED BY <1>4, <1>5, <1>6 DEF RecvSync

(* A step that writes into no slot and no flag, and whose new writes carry *)
(* no packs once sent.                                                     *)
LEMMA RecvKept ==
    ASSUME Typed, NEW r \in Ranks, NEW p \in Peers(r), RecvSync(r, p),
           recv'[p][r] = recv[p][r], flag'[p][r] = flag[p][r],
           door'[r] \in Nat, door[r] <= door'[r],
           \A h \in HcaIds : \A i \in 1 .. Len(wire'[r][p][h]) :
               LET w == wire'[r][p][h][i] IN
               w.sent => w.packs = {} \/ \E k \in 1 .. Len(wire[r][p][h]) : w = wire[r][p][h][k]
    PROVE  RecvSync(r, p)'
<1>1. p \in Ranks /\ door[r] \in Nat
  BY OwnTypes DEF Peers
<1>2. \A o \in Slots, j \in PackIds : recv[p][r][o][j] <= door'[r]
  <2> TAKE o \in Slots, j \in PackIds
  <2>1. recv[p][r][o][j] \in Nat /\ recv[p][r][o][j] <= door[r]
    BY <1>1, RecvTypes DEF RecvSync
  <2> QED BY <1>1, <2>1
<1>3. ASSUME NEW h \in HcaIds, NEW i \in 1 .. Len(wire'[r][p][h]), wire'[r][p][h][i].sent,
             NEW j \in wire'[r][p][h][i].packs
      PROVE  recv[p][r][Slot(wire'[r][p][h][i].seq)][j] >= wire'[r][p][h][i].seq
  <2>1. PICK k \in 1 .. Len(wire[r][p][h]) : wire'[r][p][h][i] = wire[r][p][h][k]
    BY <1>3
  <2>2. wire[r][p][h][k].sent /\ j \in wire[r][p][h][k].packs
    BY <1>3, <2>1
  <2>3. recv[p][r][Slot(wire[r][p][h][k].seq)][j] >= wire[r][p][h][k].seq
    BY <2>2 DEF RecvSync
  <2> QED BY <2>1, <2>3
<1>4. /\ \A o \in Slots, j \in PackIds : recv[p][r][o][j] # 0 => Slot(recv[p][r][o][j]) = o
      /\ \A h \in HcaIds, o \in Slots : flag[p][r][o][h] # 0 =>
            \A j \in Stripe(h, Packs[flag[p][r][o][h]]) : recv[p][r][o][j] >= flag[p][r][o][h]
  BY DEF RecvSync
<1>5. \A h \in HcaIds : \A i \in 1 .. Len(wire'[r][p][h]) :
         wire'[r][p][h][i].sent => \A j \in wire'[r][p][h][i].packs :
             recv[p][r][Slot(wire'[r][p][h][i].seq)][j] >= wire'[r][p][h][i].seq
  BY <1>3
<1>6. \A o \in Slots, j \in PackIds : /\ recv'[p][r][o][j] <= door'[r]
                                      /\ recv'[p][r][o][j] # 0 => Slot(recv'[p][r][o][j]) = o
  BY <1>2, <1>4
<1>7. \A h \in HcaIds : \A o \in Slots : flag'[p][r][o][h] # 0 =>
         \A j \in Stripe(h, Packs[flag'[p][r][o][h]]) : recv'[p][r][o][j] >= flag'[p][r][o][h]
  BY <1>4
<1>8. \A h \in HcaIds : \A i \in 1 .. Len(wire'[r][p][h]) :
         LET w == wire'[r][p][h][i] IN
         w.sent => \A j \in w.packs : recv'[p][r][Slot(w.seq)][j] >= w.seq
  BY <1>5
<1> QED BY <1>6, <1>7, <1>8 DEF RecvSync

LEMMA RecvQuiet ==
    ASSUME Typed, Sync, MaxOps < Word, NEW r \in Ranks, NEW p \in Peers(r), StageSync(r),
           RecvSync(r, p),
           HostStep(r) \/ ProxyStep(r) \/ \E b \in Blocks : KernelStep(r, b)
    PROVE  RecvSync(r, p)'
<1> USE DEF hostVars, deviceVars, regionVars, proxyVars
<1>0. p \in Ranks /\ door[r] \in Nat
  BY OwnTypes DEF Peers
<1>1. UNCHANGED <<recv, flag>>
  BY DEF HostStep, Launch, Accept, Leave, ProxyStep, Poll, Post, KernelStep, Block, Stage, Arrive,
         Pass, Expire, Reduce, Finish
<1>2. CASE HostStep(r)
  <2>1. door' = door
    BY <1>2 DEF HostStep, Launch, Accept, Leave
  <2>2. \A h \in HcaIds : wire'[r][p][h] \in {wire[r][p][h], <<>>}
    BY <1>0, <1>2 DEF HostStep, Launch, Accept, Leave, Typed, WireTypes
  <2>3. \A h \in HcaIds : \A i \in 1 .. Len(wire'[r][p][h]) :
           \E k \in 1 .. Len(wire[r][p][h]) : wire'[r][p][h][i] = wire[r][p][h][k]
    <3> TAKE h \in HcaIds
    <3>1. CASE wire'[r][p][h] = <<>>
      <4>1. Len(wire'[r][p][h]) = 0
        BY <3>1
      <4> QED BY <4>1
    <3> QED BY <2>2, <3>1
  <2> QED BY <1>0, <1>1, <2>1, <2>3, RecvKept
<1>3. CASE Poll(r)
  <2>1. door' = door /\ wire' = wire
    BY <1>3 DEF Poll
  <2> QED BY <1>0, <1>1, <2>1, RecvKept
<1>4. CASE Post(r)
  <2> DEFINE d == at[r][1]
             g == at[r][2]
             w == [seq |-> Succ(lastSeq[r]), packs |-> Stripe(g, size[r]),
                   sent |-> Stripe(g, size[r]) = {}]
  <2>2. d \in Peers(r) /\ d \in Ranks /\ g \in HcaIds
    BY <1>4, PostEffect DEF Peers
  <2>1. /\ door' = door
        /\ \A q \in Ranks, k \in HcaIds :
              wire'[r][q][k] = IF q = d /\ k = g THEN Append(wire[r][d][g], w) ELSE wire[r][q][k]
    <3>1. door' = door
      BY <1>4 DEF Post
    <3> QED BY <1>4, <2>2, <3>1, PostQueue
  <2>3. w.sent => w.packs = {}
    OBVIOUS
  <2> HIDE DEF w, d, g
  <2>4. ASSUME NEW h \in HcaIds, NEW i \in 1 .. Len(wire'[r][p][h])
        PROVE  LET x == wire'[r][p][h][i] IN
               x.sent => x.packs = {} \/ \E k \in 1 .. Len(wire[r][p][h]) : x = wire[r][p][h][k]
    <3>1. CASE <<p, h>> # <<d, g>>
      <4>1. wire'[r][p][h] = wire[r][p][h]
        BY <1>0, <2>1, <2>2, <3>1
      <4> QED BY <4>1
    <3>2. CASE p = d /\ h = g
      <4>1. wire'[r][p][h] = Append(wire[r][p][h], w)
        BY <2>1, <2>2, <3>2
      <4>2. wire[r][p][h] \in Seq(Write) /\ Len(wire[r][p][h]) \in Nat
        BY <1>0, SentTypes
      <4>3. i \in 1 .. Len(wire[r][p][h]) + 1
            /\ wire'[r][p][h][i] = IF i = Len(wire[r][p][h]) + 1 THEN w ELSE wire[r][p][h][i]
        BY <4>1, <4>2
      <4>4. i = Len(wire[r][p][h]) + 1 \/ i \in 1 .. Len(wire[r][p][h])
        <5> DEFINE n == Len(wire[r][p][h])
        <5>1. n \in Nat /\ i \in 1 .. n + 1
          BY <4>2, <4>3
        <5> HIDE DEF n
        <5>2. i = n + 1 \/ i \in 1 .. n
          BY <5>1
        <5> QED BY <5>2 DEF n
      <4> QED BY <2>3, <4>2, <4>3, <4>4
    <3> QED BY <3>1, <3>2
  <2>5. \A h \in HcaIds : \A i \in 1 .. Len(wire'[r][p][h]) :
           LET x == wire'[r][p][h][i] IN
           x.sent => x.packs = {} \/ \E k \in 1 .. Len(wire[r][p][h]) : x = wire[r][p][h][k]
    BY <2>4
  <2>6. recv'[p][r] = recv[p][r] /\ flag'[p][r] = flag[p][r] /\ door'[r] \in Nat
        /\ door[r] <= door'[r]
    BY <1>0, <1>1, <2>1
  <2> HIDE <2>1, <2>4
  <2> QED BY <2>5, <2>6, RecvKept
<1>5. ASSUME NEW b \in Blocks, KernelStep(r, b) PROVE RecvSync(r, p)'
  <2>1. wire' = wire
    BY <1>5 DEF KernelStep, Block, Stage, Arrive, Pass, Expire, Reduce, Finish
  <2>2. door'[r] \in Nat /\ door[r] <= door'[r]
    <3>1. CASE Arrive(r, b)
      <4>1. door'[r] = door[r] \/ door'[r] = launched[r]
        BY <3>1, StageArrive DEF Typed, RegionTypes
      <4> QED BY <1>0, <4>1, InFlight, OwnTypes
    <3>2. CASE door' = door
      BY <1>0, <3>2
    <3> QED BY <1>5, <3>1, <3>2 DEF KernelStep, Block, Stage, Pass, Expire, Reduce, Finish
  <2> QED BY <1>1, <2>1, <2>2, RecvKept
<1> QED BY <1>2, <1>3, <1>4, <1>5 DEF ProxyStep

(* Flags, like writes in flight, are of the last two operations.           *)
LEMMA FlagLag ==
    ASSUME Typed, Sync, MaxOps < Word, NEW r \in Ranks, NEW p \in Peers(r), NEW h \in HcaIds,
           NEW o \in Slots
    PROVE  /\ flag[p][r][o][h] \in Nat /\ flag[p][r][o][h] <= door[r]
           /\ flag[p][r][o][h] # 0 => Slot(flag[p][r][o][h]) = o /\ flag[p][r][o][h] \in 1 .. MaxOps
<1>1. p \in Ranks /\ Flow(r, p, h)
  BY DEF Peers, Sync
<1>2. flag[p][r][o][h] \in Nat /\ Posted(r, p, h) \in Nat /\ door[r] \in Nat /\ MaxOps \in Nat
  BY <1>1, FlagTypes, PostedType, OwnTypes
<1>3. flag[p][r][o][h] <= Posted(r, p, h) /\ (flag[p][r][o][h] # 0 => Slot(flag[p][r][o][h]) = o)
  BY <1>1 DEF Flow
<1>4. Posted(r, p, h) <= door[r] /\ door[r] <= MaxOps
  BY Lag, InFlight
<1> QED BY <1>2, <1>3, <1>4

LEMMA RecvNic ==
    ASSUME Typed, Sync, MaxOps < Word, NEW r \in Ranks, NEW p \in Peers(r), NEW h \in HcaIds,
           NicStep(r, p, h), SendSync(r), RecvSync(r, p)
    PROVE  RecvSync(r, p)'
<1> USE DEF hostVars, deviceVars, regionVars, proxyVars
<1> DEFINE head == wire[r][p][h][1]
           s == head.seq
           e == epoch[r]
<1>0. p \in Ranks /\ door[r] \in Nat /\ e \in Nat /\ door[r] <= e + 1
  BY OwnTypes, InFlight DEF Peers
<1>1. door' = door
  BY DEF NicStep, Nic, WriteData, WriteFlag, WriteFails
<1>2. /\ wire[r][p][h] # <<>> /\ 1 \in 1 .. Len(wire[r][p][h]) /\ Head(wire[r][p][h]) = head
      /\ head \in Write
  <2>1. wire[r][p][h] # <<>>
    BY DEF NicStep, Nic, WriteData, WriteFlag, WriteFails
  <2>2. wire[r][p][h] \in Seq(Write)
    BY <1>0, SentTypes
  <2> QED BY <2>1, <2>2
<1>3. /\ s \in 1 .. MaxOps /\ s \in {e, e + 1} /\ s <= door[r] /\ s \in Nat /\ Slot(s) \in Slots
      /\ head.packs = Stripe(h, Packs[s])
      /\ ~head.sent => \A j \in head.packs : send[r][Slot(s)][j] = s
      /\ head.sent => \A j \in head.packs : recv[p][r][Slot(s)][j] >= s
  <2>1. s \in 1 .. MaxOps /\ s \in {e, e + 1} /\ s <= door[r]
    BY <1>2, InFlight
  <2>2. s \in Nat /\ Slot(s) \in Slots
    BY <2>1, SlotType
  <2>3. /\ head.packs = Stripe(h, Packs[s])
        /\ ~head.sent => \A j \in head.packs : send[r][Slot(s)][j] = s
    BY <1>2 DEF SendSync, Queued
  <2>4. head.sent => \A j \in head.packs : recv[p][r][Slot(s)][j] >= s
    BY <1>2 DEF RecvSync
  <2> QED BY <2>1, <2>2, <2>3, <2>4
<1>4. /\ \A o \in Slots, j \in PackIds : /\ recv[p][r][o][j] \in Nat
                                         /\ recv[p][r][o][j] <= door[r]
                                         /\ recv[p][r][o][j] # 0 => Slot(recv[p][r][o][j]) = o
      /\ \A g \in HcaIds, o \in Slots : flag[p][r][o][g] # 0 =>
            \A j \in Stripe(g, Packs[flag[p][r][o][g]]) : recv[p][r][o][j] >= flag[p][r][o][g]
      /\ \A g \in HcaIds : \A k \in 1 .. Len(wire[r][p][g]) : wire[r][p][g][k].sent =>
            \A j \in wire[r][p][g][k].packs :
                recv[p][r][Slot(wire[r][p][g][k].seq)][j] >= wire[r][p][g][k].seq
  BY <1>0, RecvTypes DEF RecvSync
<1>5. \A g \in HcaIds : \A i \in 1 .. Len(wire'[r][p][g]) : \E k \in 1 .. Len(wire[r][p][g]) :
        /\ wire'[r][p][g][i].seq = wire[r][p][g][k].seq
        /\ wire'[r][p][g][i].packs = wire[r][p][g][k].packs
        /\ \/ wire'[r][p][g][i].sent = wire[r][p][g][k].sent
           \/ WriteData(r, p, h) /\ g = h /\ k = 1
  <2> TAKE g \in HcaIds
  <2> TAKE i \in 1 .. Len(wire'[r][p][g])
  <2>1. PICK k \in 1 .. Len(wire[r][p][g]) :
          /\ wire'[r][p][g][i].seq = wire[r][p][g][k].seq
          /\ wire'[r][p][g][i].packs = wire[r][p][g][k].packs
          /\ \/ wire'[r][p][g][i].sent = wire[r][p][g][k].sent
             \/ WriteData(r, p, h) /\ <<p, g>> = <<p, h>> /\ k = 1 /\ wire'[r][p][g][i].sent
    BY NicQueue
  <2> QED BY <2>1
<1>6. CASE WriteData(r, p, h)
  <2>1. flag' = flag /\ ~head.sent
    BY <1>2, <1>6 DEF WriteData
  <2>2. \A o \in Slots, j \in PackIds :
          recv'[p][r][o][j] = IF o = Slot(s) /\ j \in head.packs THEN s ELSE recv[p][r][o][j]
    <3> DEFINE row == [j \in PackIds |-> IF j \in head.packs THEN send[r][Slot(s)][j]
                                         ELSE recv[p][r][Slot(s)][j]]
               D == [PackIds -> 0 .. MaxOps]
    <3>1. recv' = [recv EXCEPT ![p][r][Slot(s)] = row]
      BY <1>2, <1>6 DEF WriteData
    <3>2. recv \in [Ranks -> [Ranks -> [Slots -> D]]]
      BY DEF Typed, RegionTypes
    <3>3. \A j \in PackIds : row[j] = IF j \in head.packs THEN s ELSE recv[p][r][Slot(s)][j]
      BY <1>3, <2>1
    <3> HIDE DEF D, row, s, head
    <3>4. \A o \in Slots : recv'[p][r][o] = IF o = Slot(s) THEN row ELSE recv[p][r][o]
      BY <1>0, <1>3, <3>1, <3>2
    <3> QED BY <3>3, <3>4
  <2> HIDE DEF head, s, e
  <2>3. ASSUME NEW x \in 1 .. MaxOps, x <= e + 1, NEW j \in PackIds, recv[p][r][Slot(x)][j] >= x
        PROVE  recv'[p][r][Slot(x)][j] >= x
    <3>0. x \in Nat /\ Slot(x) \in Slots
      BY SlotType
    <3>1. CASE Slot(x) = Slot(s)
      <4>1. x <= s
        <5>1. CASE x = e + 1
          BY <1>0, <1>3, <3>1, <5>1, SlotsDiffer
        <5>2. CASE x # e + 1
          BY <1>0, <1>3, <3>0, <2>3, <5>2
        <5> QED BY <5>1, <5>2
      <4> QED BY <1>3, <2>2, <2>3, <3>0, <4>1
    <3>2. CASE Slot(x) # Slot(s)
      BY <2>2, <2>3, <3>0, <3>2
    <3> QED BY <3>1, <3>2
  <2>4. \A o \in Slots, j \in PackIds : /\ recv'[p][r][o][j] <= door[r]
                                        /\ recv'[p][r][o][j] # 0 => Slot(recv'[p][r][o][j]) = o
    <3> TAKE o \in Slots, j \in PackIds
    <3>1. CASE o = Slot(s) /\ j \in head.packs
      BY <1>3, <2>2, <3>1
    <3>2. CASE ~(o = Slot(s) /\ j \in head.packs)
      <4>1. recv'[p][r][o][j] = recv[p][r][o][j]
        BY <2>2, <3>2
      <4> QED BY <1>4, <4>1
    <3> QED BY <3>1, <3>2
  <2>5. ASSUME NEW g \in HcaIds, NEW o \in Slots, flag[p][r][o][g] # 0,
               NEW j \in Stripe(g, Packs[flag[p][r][o][g]])
        PROVE  recv'[p][r][o][j] >= flag[p][r][o][g]
    <3>1. /\ flag[p][r][o][g] \in 1 .. MaxOps /\ Slot(flag[p][r][o][g]) = o
          /\ flag[p][r][o][g] <= e + 1
      BY <1>0, <2>5, FlagLag
    <3>2. j \in PackIds
      BY <3>1, PackTypes
    <3>3. recv[p][r][o][j] >= flag[p][r][o][g]
      BY <1>4, <2>5
    <3> QED BY <2>3, <3>1, <3>2, <3>3
  <2>6. ASSUME NEW g \in HcaIds, NEW i \in 1 .. Len(wire'[r][p][g]), wire'[r][p][g][i].sent,
               NEW j \in wire'[r][p][g][i].packs
        PROVE  recv'[p][r][Slot(wire'[r][p][g][i].seq)][j] >= wire'[r][p][g][i].seq
    <3>1. PICK k \in 1 .. Len(wire[r][p][g]) :
            /\ wire'[r][p][g][i].seq = wire[r][p][g][k].seq
            /\ wire'[r][p][g][i].packs = wire[r][p][g][k].packs
            /\ wire[r][p][g][k].sent \/ (g = h /\ k = 1)
      BY <1>5, <2>6
    <3>2. /\ wire[r][p][g][k].seq \in 1 .. MaxOps /\ wire[r][p][g][k].seq <= e + 1
          /\ j \in wire[r][p][g][k].packs
      <4>1. /\ wire[r][p][g][k].seq \in 1 .. MaxOps
            /\ wire[r][p][g][k].seq \in {epoch[r], epoch[r] + 1}
        BY InFlight
      <4>2. e = epoch[r] /\ e \in Nat
        BY <1>0 DEF e
      <4>3. wire[r][p][g][k].seq <= e + 1
        BY <4>1, <4>2
      <4> QED BY <2>6, <3>1, <4>1, <4>3
    <3>3. j \in PackIds
      BY <1>0, <3>2, SentTypes DEF Write
    <3>4. CASE wire[r][p][g][k].sent
      BY <1>4, <2>3, <3>1, <3>2, <3>3, <3>4
    <3>5. CASE g = h /\ k = 1
      <4>1. wire'[r][p][g][i].seq = s /\ j \in head.packs
        BY <3>1, <3>2, <3>5 DEF s, head
      <4> QED BY <1>3, <2>2, <3>3, <4>1
    <3> QED BY <3>1, <3>4, <3>5
  <2> QED BY <1>1, <2>1, <2>4, <2>5, <2>6 DEF RecvSync
<1>7. CASE ~WriteData(r, p, h)
  <2>1. recv' = recv
    BY <1>7 DEF NicStep, Nic, WriteFlag, WriteFails
  <2>2. ASSUME NEW g \in HcaIds, NEW i \in 1 .. Len(wire'[r][p][g]), wire'[r][p][g][i].sent,
               NEW j \in wire'[r][p][g][i].packs
        PROVE  recv[p][r][Slot(wire'[r][p][g][i].seq)][j] >= wire'[r][p][g][i].seq
    <3>1. PICK k \in 1 .. Len(wire[r][p][g]) :
            /\ wire'[r][p][g][i].seq = wire[r][p][g][k].seq
            /\ wire'[r][p][g][i].packs = wire[r][p][g][k].packs
            /\ wire[r][p][g][k].sent
      BY <1>5, <1>7, <2>2
    <3> QED BY <1>4, <2>2, <3>1
  <2>3. CASE flag' = flag
    <3>1. \A g \in HcaIds, o \in Slots : flag'[p][r][o][g] # 0 =>
            \A j \in Stripe(g, Packs[flag'[p][r][o][g]]) : recv[p][r][o][j] >= flag'[p][r][o][g]
      BY <1>4, <2>3
    <3>2. \A o \in Slots, j \in PackIds :
            /\ recv'[p][r][o][j] <= door'[r]
            /\ recv'[p][r][o][j] # 0 => Slot(recv'[p][r][o][j]) = o
      BY <1>1, <1>4, <2>1
    <3>3. \A g \in HcaIds, o \in Slots : flag'[p][r][o][g] # 0 =>
            \A j \in Stripe(g, Packs[flag'[p][r][o][g]]) : recv'[p][r][o][j] >= flag'[p][r][o][g]
      BY <2>1, <3>1
    <3>4. \A g \in HcaIds : \A i \in 1 .. Len(wire'[r][p][g]) :
            wire'[r][p][g][i].sent => \A j \in wire'[r][p][g][i].packs :
                recv'[p][r][Slot(wire'[r][p][g][i].seq)][j] >= wire'[r][p][g][i].seq
      BY <2>1, <2>2
    <3> QED BY <3>2, <3>3, <3>4 DEF RecvSync
  <2>4. CASE WriteFlag(r, p, h)
    <3>1. head.sent
      BY <1>2, <2>4 DEF WriteFlag
    <3>2. \A o \in Slots, g \in HcaIds :
            flag'[p][r][o][g] = IF o = Slot(s) /\ g = h THEN s ELSE flag[p][r][o][g]
      BY <1>0, <1>2, <2>4, FlagWritten
    <3> HIDE DEF s, head
    <3>3. \A g \in HcaIds, o \in Slots : flag'[p][r][o][g] # 0 =>
            \A j \in Stripe(g, Packs[flag'[p][r][o][g]]) : recv[p][r][o][j] >= flag'[p][r][o][g]
      <4> SUFFICES ASSUME NEW g \in HcaIds, NEW o \in Slots, flag'[p][r][o][g] # 0,
                          NEW j \in Stripe(g, Packs[flag'[p][r][o][g]])
                   PROVE  recv[p][r][o][j] >= flag'[p][r][o][g]
        OBVIOUS
      <4>1. CASE o = Slot(s) /\ g = h
        <5>1. flag'[p][r][o][g] = s
          BY <3>2, <4>1
        <5>2. j \in head.packs
          BY <1>3, <4>1, <5>1
        <5> QED BY <1>3, <3>1, <4>1, <5>1, <5>2
      <4>2. CASE ~(o = Slot(s) /\ g = h)
        <5>1. flag'[p][r][o][g] = flag[p][r][o][g]
          BY <3>2, <4>2
        <5> QED BY <1>4, <5>1
      <4> QED BY <4>1, <4>2
    <3>4. \A o \in Slots, j \in PackIds :
            /\ recv'[p][r][o][j] <= door'[r]
            /\ recv'[p][r][o][j] # 0 => Slot(recv'[p][r][o][j]) = o
      BY <1>1, <1>4, <2>1
    <3>5. \A g \in HcaIds, o \in Slots : flag'[p][r][o][g] # 0 =>
            \A j \in Stripe(g, Packs[flag'[p][r][o][g]]) : recv'[p][r][o][j] >= flag'[p][r][o][g]
      BY <2>1, <3>3
    <3>6. \A g \in HcaIds : \A i \in 1 .. Len(wire'[r][p][g]) :
            wire'[r][p][g][i].sent => \A j \in wire'[r][p][g][i].packs :
                recv'[p][r][Slot(wire'[r][p][g][i].seq)][j] >= wire'[r][p][g][i].seq
      BY <2>1, <2>2
    <3> QED BY <3>4, <3>5, <3>6 DEF RecvSync
  <2> QED BY <1>7, <2>3, <2>4 DEF NicStep, Nic, WriteFails
<1> QED BY <1>6, <1>7

LEMMA RecvStep ==
    ASSUME Typed, Sync, MaxOps < Word, Data, Next
    PROVE  \A q \in Ranks : \A d \in Peers(q) : RecvSync(q, d)'
<1> SUFFICES ASSUME NEW q \in Ranks, NEW d \in Peers(q) PROVE RecvSync(q, d)'
  OBVIOUS
<1>0. d \in Ranks /\ RecvSync(q, d) /\ SendSync(q) /\ StageSync(q)
  BY DEF Peers, Data
<1>1. PICK r \in Ranks :
        \/ HostStep(r) \/ ProxyStep(r)
        \/ \E b \in Blocks : KernelStep(r, b)
        \/ \E p \in Peers(r), h \in HcaIds : NicStep(r, p, h)
  BY DEF Next, HostStep, KernelStep, ProxyStep, NicStep
<1>2. CASE q # r
  <2>1. Unmoved(q) /\ wire'[q] = wire[q] /\ recv'[d][q] = recv[d][q] /\ flag'[d][q] = flag[d][q]
    BY <1>0, <1>1, <1>2, Others, OthersFlows
  <2>2. door'[q] = door[q]
    BY <2>1 DEF Unmoved
  <2> QED BY <1>0, <2>1, <2>2 DEF RecvSync
<1>3. CASE q = r /\ (HostStep(r) \/ ProxyStep(r) \/ \E b \in Blocks : KernelStep(r, b))
  BY <1>0, <1>3, RecvQuiet
<1>4. ASSUME NEW p \in Peers(r), NEW h \in HcaIds, NicStep(r, p, h), q = r
      PROVE  RecvSync(q, d)'
  <2>1. CASE d = p
    BY <1>0, <1>4, <2>1, RecvNic
  <2>2. CASE d # p
    <3>1. door' = door
      BY <1>4 DEF NicStep, Nic, WriteData, WriteFlag, WriteFails, regionVars
    <3>2. wire'[q][d] = wire[q][d]
      <4>1. \E v : wire' = [wire EXCEPT ![r][p][h] = v]
        BY <1>4 DEF NicStep, Nic, WriteData, WriteFlag, WriteFails
      <4> QED BY <1>0, <1>4, <2>2, <4>1 DEF Typed, WireTypes
    <3>3. recv'[d] = recv[d]
      <4>1. recv' = recv \/ \E o, v : recv' = [recv EXCEPT ![p][r][o] = v]
        BY <1>4 DEF NicStep, Nic, WriteData, WriteFlag, WriteFails, regionVars
      <4> DEFINE D == [Ranks -> [Slots -> [PackIds -> 0 .. MaxOps]]]
      <4>2. recv \in [Ranks -> D]
        BY DEF Typed, RegionTypes
      <4> HIDE DEF D
      <4> QED BY <1>0, <2>2, <4>1, <4>2
    <3>4. flag'[d] = flag[d]
      <4>1. flag' = flag \/ \E o, v : flag' = [flag EXCEPT ![p][r][o][h] = v]
        <5>1. CASE WriteFlag(r, p, h)
          <6>1. flag' = [flag EXCEPT ![p][r][Slot(Head(wire[r][p][h]).seq)][h]
                                       = Head(wire[r][p][h]).seq]
            BY <5>1 DEF WriteFlag
          <6> QED BY <6>1
        <5>2. CASE WriteData(r, p, h) \/ WriteFails(r, p, h)
          BY <5>2 DEF WriteData, WriteFails, regionVars
        <5> QED BY <1>4, <5>1, <5>2 DEF NicStep, Nic
      <4> DEFINE D == [Ranks -> [Slots -> [HcaIds -> Numbers]]]
      <4>2. flag \in [Ranks -> D]
        BY DEF Typed, RegionTypes
      <4> HIDE DEF D
      <4> QED BY <1>0, <2>2, <4>1, <4>2
    <3> QED BY <1>0, <3>1, <3>2, <3>3, <3>4 DEF RecvSync
  <2> QED BY <2>1, <2>2
<1> QED BY <1>1, <1>2, <1>3, <1>4

-----------------------------------------------------------------------------
(* From flags to packs.                                                    *)

LEMMA FlagsInit == Init => \A r \in Ranks : FlagsStay(r)
  BY DEF Init, FlagsStay

(* The flag of the next operation goes to the other slot, and no peer can  *)
(* be further.                                                             *)
LEMMA FlagsStep ==
    ASSUME Typed, Sync, MaxOps < Word, \A r \in Ranks : FlagsStay(r), Next
    PROVE  \A q \in Ranks : FlagsStay(q)'
<1> USE DEF hostVars, deviceVars, regionVars, proxyVars
<1> SUFFICES ASSUME NEW q \in Ranks, NEW b \in Blocks, pc'[q][b] = "reduce",
                    NEW p \in Peers(q), NEW h \in HcaIds
             PROVE  flag'[q][p][Slot(seq'[q][b])][h] = seq'[q][b]
  BY DEF FlagsStay, Delivered
<1>0. p \in Ranks /\ q \in Peers(p)
  BY DEF Peers
<1>1. PICK r \in Ranks :
        \/ HostStep(r) \/ ProxyStep(r)
        \/ \E c \in Blocks : KernelStep(r, c)
        \/ \E d \in Peers(r), g \in HcaIds : NicStep(r, d, g)
  BY DEF Next, HostStep, KernelStep, ProxyStep, NicStep
<1>2. pc[q][b] = "reduce" => flag[q][p][Slot(seq[q][b])][h] = seq[q][b]
  BY DEF FlagsStay, Delivered
<1>3. CASE HostStep(r)
  <2>1. flag' = flag /\ seq' = seq
    BY <1>3 DEF HostStep, Launch, Accept, Leave
  <2>2. pc[q][b] = "reduce"
    BY <1>3, ZenonT(40) DEF HostStep, Launch, Accept, Leave, Typed, DeviceTypes
  <2> QED BY <1>2, <2>1, <2>2
<1>4. CASE ProxyStep(r)
  BY <1>2, <1>4 DEF ProxyStep, Poll, Post
<1>5. ASSUME NEW c \in Blocks, KernelStep(r, c)
      PROVE  flag'[q][p][Slot(seq'[q][b])][h] = seq'[q][b]
  <2>0. flag' = flag
    BY <1>5 DEF KernelStep, Block, Stage, Arrive, Pass, Expire, Reduce, Finish
  <2>1. CASE pc[q][b] = "reduce"
    <3>1. seq'[q][b] = seq[q][b]
      <4>1. CASE Stage(r, c)
        BY <2>1, <4>1 DEF Stage, Typed, DeviceTypes
      <4>2. CASE seq' = seq
        BY <4>2
      <4> QED BY <1>5, <4>1, <4>2 DEF KernelStep, Block, Arrive, Pass, Expire, Reduce, Finish
    <3> QED BY <1>2, <2>0, <2>1, <3>1
  <2>2. CASE pc[q][b] # "reduce"
    <3>1. CASE Pass(r, c)
      <4>1. r = q /\ c = b
        BY <2>2, <3>1 DEF Pass, Go, Typed, DeviceTypes
      <4>2. Delivered(q, seq[q][b]) /\ seq' = seq
        BY <3>1, <4>1 DEF Pass
      <4> QED BY <2>0, <4>2 DEF Delivered
    <3>2. CASE Stage(r, c) \/ Arrive(r, c) \/ Reduce(r, c) \/ Finish(r, c)
      <4>1. \E l \in {"arrive", "tail", "wait", "exit"} : pc' = [pc EXCEPT ![r][c] = l]
        BY <3>2 DEF Stage, Arrive, Reduce, Finish, Go
      <4> QED BY <2>2, <4>1 DEF Typed, DeviceTypes
    <3>3. CASE Expire(r, c)
      <4>1. pc' = [pc EXCEPT ![r][c] = "tail"]
        <5>1. pc[r][c] = "wait" /\ KernelSync(r)
          BY <3>3 DEF Expire, Sync
        <5>2. Live(r)
          BY <5>1, Busy
        <5>3. seq[r][c] = epoch[r] + 1 /\ epoch[r] \in Nat
          BY <5>1, <5>2, OwnTypes DEF KernelSync
        <5>4. poison'[r] = seq[r][c]
          BY <3>3 DEF Expire, Typed, DeviceTypes
        <5>5. poison'[r] # 0
          BY <5>3, <5>4
        <5> QED BY <3>3, <5>5 DEF Expire, Go
      <4> QED BY <2>2, <4>1 DEF Typed, DeviceTypes
    <3> QED BY <1>5, <3>1, <3>2, <3>3 DEF KernelStep, Block
  <2> QED BY <2>1, <2>2
<1>6. ASSUME NEW d \in Peers(r), NEW g \in HcaIds, NicStep(r, d, g)
      PROVE  flag'[q][p][Slot(seq'[q][b])][h] = seq'[q][b]
  <2>0. seq' = seq /\ pc' = pc
    BY <1>6 DEF NicStep, Nic, WriteData, WriteFlag, WriteFails
  <2>1. flag[q][p][Slot(seq[q][b])][h] = seq[q][b] /\ Slot(seq[q][b]) \in Slots /\ seq[q][b] \in Nat
    BY <1>2, <2>0, OwnTypes, SlotType
  <2>2. CASE flag' = flag
    BY <2>0, <2>1, <2>2
  <2>3. CASE WriteFlag(r, d, g)
    <3> DEFINE s == wire[r][d][g][1].seq
               t == seq[q][b]
    <3>1. d \in Ranks /\ wire[r][d][g] # <<>> /\ wire[r][d][g] \in Seq(Write)
      BY <2>3, SentTypes DEF WriteFlag, Peers
    <3>2. 1 \in 1 .. Len(wire[r][d][g]) /\ Head(wire[r][d][g]) = wire[r][d][g][1]
      BY <3>1
    <3>3. s \in Nat /\ Slot(s) \in Slots
      BY <3>2, InFlight, SlotType
    <3>4. \/ flag'[q][p][Slot(t)][h] = flag[q][p][Slot(t)][h]
          \/ /\ r = p /\ d = q /\ g = h /\ Slot(s) = Slot(t)
      <4> DEFINE D == [HcaIds -> Numbers]
      <4>1. flag' = [flag EXCEPT ![d][r][Slot(s)][g] = s]
        BY <2>3, <3>2 DEF WriteFlag
      <4>2. flag \in [Ranks -> [Ranks -> [Slots -> D]]]
        BY DEF Typed, RegionTypes
      <4> HIDE DEF s, t
      <4>3. CASE <<d, r>> # <<q, p>>
        <5> HIDE DEF D
        <5>1. flag'[q][p] = flag[q][p]
          BY <1>0, <3>1, <4>1, <4>2, <4>3
        <5> QED BY <5>1
      <4>4. CASE d = q /\ r = p
        <5>1. flag'[q][p] = [flag[q][p] EXCEPT ![Slot(s)][g] = s]
              /\ flag[q][p] \in [Slots -> D]
          <6> HIDE DEF D
          <6> QED BY <1>0, <4>1, <4>2, <4>4
        <5>2. CASE Slot(s) # Slot(t)
          <6>1. flag'[q][p][Slot(t)] = flag[q][p][Slot(t)]
            <7> HIDE DEF D
            <7> QED BY <2>1, <3>3, <5>1, <5>2 DEF t
          <6> QED BY <6>1
        <5>3. CASE g # h
          BY <2>1, <3>3, <5>1, <5>3 DEF t
        <5> QED BY <4>4, <5>2, <5>3
      <4> QED BY <4>3, <4>4
    <3>5. CASE r = p /\ d = q /\ g = h /\ Slot(s) = Slot(t)
      <4>1. Flow(p, q, h) /\ KernelSync(q)
        BY <1>0 DEF Sync
      <4>2. flag[q][p][Slot(t)][h] < s
        BY <2>1, <3>2, <3>5, <4>1 DEF Flow
      <4>3. Live(q) /\ launched[q] = epoch[q] + 1 /\ t = epoch[q] + 1 /\ epoch[q] \in Nat
        <5>1. pc[q][b] = "reduce" /\ Live(q)
          BY <2>0, Busy
        <5> QED BY <4>1, <5>1, OwnTypes DEF KernelSync
      <4>4. s <= door[p] /\ door[p] <= epoch[p] + 1 /\ epoch[p] \in Nat /\ door[p] \in Nat
        BY <1>0, <3>2, <3>5, InFlight, OwnTypes
      <4>5. epoch[p] <= epoch[q] + 1
        <5>1. epoch[p] <= Posted(q, p, h) /\ Posted(q, p, h) <= door[q] /\ door[q] <= epoch[q] + 1
              /\ Posted(q, p, h) \in Nat /\ door[q] \in Nat
          BY <1>0, Lag, PostedType, OwnTypes, InFlight
        <5> QED BY <4>3, <4>4, <5>1
      <4> HIDE DEF s, t
      <4>6. s \in {t, t + 1}
        BY <2>1, <3>3, <4>2, <4>3, <4>4, <4>5 DEF t
      <4>7. s = t
        BY <2>1, <3>5, <4>6, SlotsDiffer DEF t
      <4> QED BY <2>1, <3>3, <4>2, <4>7 DEF t
    <3> QED BY <2>0, <2>1, <3>4, <3>5
  <2> QED BY <1>6, <2>2, <2>3 DEF NicStep, Nic, WriteData, WriteFails
<1> QED BY <1>1, <1>3, <1>4, <1>5, <1>6

LEMMA InitData == Init => Data
<1>1. Init => \A r \in Ranks : \A p \in Peers(r) : RecvSync(r, p)
  BY RecvInit
<1> QED BY <1>1, StageInit, SendInit, FlagsInit DEF Data

LEMMA StepData ==
    ASSUME MaxOps < Word, Typed, Sync, Data, [Next]_vars
    PROVE  Data'
<1>1. CASE Next
  <2>1. \A q \in Ranks : StageSync(q)'
    BY <1>1, StageStep DEF Data
  <2>2. \A q \in Ranks : SendSync(q)'
    BY <1>1, SendStep DEF Data
  <2>3. \A q \in Ranks : FlagsStay(q)'
    BY <1>1, FlagsStep DEF Data
  <2>4. \A q \in Ranks : \A d \in Peers(q) : RecvSync(q, d)'
    BY <1>1, RecvStep
  <2> QED BY <2>1, <2>2, <2>3, <2>4 DEF Data
<1>2. CASE UNCHANGED vars
  <2>1. \A q \in Ranks : Unmoved(q)
    BY <1>2 DEF vars, hostVars, deviceVars, regionVars, proxyVars, Unmoved
  <2>2. \A q \in Ranks : StageSync(q)'
    BY <2>1, UnmovedStage DEF Data
  <2>3. UNCHANGED <<lastSeq, door, nbytes, send, size, proxy, wire, recv, flag, pc, seq>>
    BY <1>2 DEF vars, deviceVars, regionVars, proxyVars
  <2>4. \A q \in Ranks : SendSync(q)' /\ FlagsStay(q)'
    <3> TAKE q \in Ranks
    <3>1. SendSync(q)'
      BY <2>3, SendKept DEF Data
    <3>2. FlagsStay(q)'
      BY <2>3 DEF Data, FlagsStay, Delivered
    <3> QED BY <3>1, <3>2
  <2>5. \A q \in Ranks : \A d \in Peers(q) : RecvSync(q, d)'
    <3> TAKE q \in Ranks
    <3> TAKE d \in Peers(q)
    <3>1. RecvSync(q, d)
      BY DEF Data
    <3>2. \A o \in Slots, j \in PackIds :
             /\ recv[d][q][o][j] <= door[q]
             /\ recv[d][q][o][j] # 0 => Slot(recv[d][q][o][j]) = o
      BY <3>1 DEF RecvSync
    <3>3. \A g \in HcaIds, o \in Slots : flag'[d][q][o][g] # 0 =>
             \A j \in Stripe(g, Packs[flag'[d][q][o][g]]) : recv[d][q][o][j] >= flag'[d][q][o][g]
      BY <2>3, <3>1 DEF RecvSync
    <3>4. \A g \in HcaIds : \A i \in 1 .. Len(wire'[q][d][g]) :
             wire'[q][d][g][i].sent => \A j \in wire'[q][d][g][i].packs :
                 recv[d][q][Slot(wire'[q][d][g][i].seq)][j] >= wire'[q][d][g][i].seq
      BY <2>3, <3>1 DEF RecvSync
    <3>5. \A o \in Slots, j \in PackIds :
            /\ recv'[d][q][o][j] <= door'[q]
            /\ recv'[d][q][o][j] # 0 => Slot(recv'[d][q][o][j]) = o
      BY <2>3, <3>2
    <3>6. \A g \in HcaIds, o \in Slots : flag'[d][q][o][g] # 0 =>
            \A j \in Stripe(g, Packs[flag'[d][q][o][g]]) : recv'[d][q][o][j] >= flag'[d][q][o][g]
      BY <2>3, <3>3
    <3>7. \A g \in HcaIds : \A i \in 1 .. Len(wire'[q][d][g]) :
            wire'[q][d][g][i].sent => \A j \in wire'[q][d][g][i].packs :
                recv'[d][q][Slot(wire'[q][d][g][i].seq)][j] >= wire'[q][d][g][i].seq
      BY <2>3, <3>4
    <3> QED BY <3>5, <3>6, <3>7 DEF RecvSync
  <2> QED BY <2>2, <2>4, <2>5 DEF Data
<1> QED BY <1>1, <1>2

(* A peer can be at most one operation further, and that goes to the other *)
(* slot: what is behind the flags is the operation waited for.             *)
LEMMA ReducersRead ==
    ASSUME MaxOps < Word, Typed, Sync, Data
    PROVE  ReducersReadTheirOp
<1> SUFFICES ASSUME NEW r \in Ranks, NEW b \in Blocks, pc[r][b] = "reduce",
                    NEW p \in Peers(r), NEW j \in PacksOf(r, b)
             PROVE  recv[r][p][Slot(seq[r][b])][j] = launched[r]
  BY DEF ReducersReadTheirOp
<1> DEFINE s == launched[r]
           x == recv[r][p][Slot(s)][j]
<1>0. p \in Ranks /\ r \in Peers(p)
  BY DEF Peers
<1>1. s = epoch[r] + 1 /\ seq[r][b] = s /\ epoch[r] \in Nat /\ s \in 1 .. MaxOps /\ s \in Nat
  <2>1. KernelSync(r) /\ Live(r)
    BY Busy DEF Sync
  <2> QED BY <2>1, OwnTypes DEF KernelSync
<1>2. j \in 0 .. Packs[s] - 1 /\ j \in PackIds /\ Packs[s] \in Nat
  BY <1>1, PacksOfInside, PackTypes
<1>3. PICK h \in HcaIds : j \in Stripe(h, Packs[s])
  BY <1>2, StripesCover
<1>4. flag[r][p][Slot(s)][h] = s /\ Slot(s) \in Slots
  <2>1. Delivered(r, seq[r][b])
    BY DEF Data, FlagsStay
  <2> QED BY <1>1, <2>1, SlotType DEF Delivered
<1>5. x >= s /\ x <= door[p] /\ (x # 0 => Slot(x) = Slot(s)) /\ x \in Nat
  <2>1. RecvSync(p, r)
    BY <1>0 DEF Data
  <2>2. x >= s
    <3>1. flag[r][p][Slot(s)][h] # 0 =>
             \A i \in Stripe(h, Packs[flag[r][p][Slot(s)][h]]) :
                 recv[r][p][Slot(s)][i] >= flag[r][p][Slot(s)][h]
      BY <1>4, <2>1 DEF RecvSync
    <3>2. s # 0
      BY <1>1
    <3> HIDE DEF s
    <3> QED BY <1>3, <1>4, <3>1, <3>2
  <2>3. x <= door[p] /\ (x # 0 => Slot(x) = Slot(s))
    BY <1>2, <1>4, <2>1 DEF RecvSync
  <2>4. x \in Nat
    BY <1>0, <1>2, <1>4, RecvTypes
  <2> QED BY <2>2, <2>3, <2>4
<1>6. door[p] <= s + 1
  <2>1. epoch[p] <= Posted(r, p, h) /\ Posted(r, p, h) <= door[r] /\ door[p] <= epoch[p] + 1
        /\ Posted(r, p, h) \in Nat /\ epoch[p] \in Nat /\ door[p] \in Nat /\ door[r] \in Nat
    BY <1>0, Lag, PostedType, OwnTypes
  <2>2. door[r] <= s
    BY <1>1, InFlight
  <2> QED BY <1>1, <2>1, <2>2
<1> HIDE DEF x, s
<1>7. door[p] \in Nat
  BY <1>0, OwnTypes
<1>8. x \in {s, s + 1} /\ x # 0
  BY <1>1, <1>5, <1>6, <1>7
<1>9. x = s
  BY <1>1, <1>5, <1>8, SlotsDiffer
<1> QED BY <1>1, <1>9 DEF s, x

LEMMA WiresCarry ==
    ASSUME MaxOps < Word, Typed, Sync, Data
    PROVE  WiresCarryTheirOp
<1> SUFFICES ASSUME NEW r \in Ranks, NEW p \in Ranks, NEW h \in HcaIds,
                    NEW i \in 1 .. Len(wire[r][p][h])
             PROVE  LET w == wire[r][p][h][i]
                        k == OpOf(r, w.seq)
                    IN  /\ w.packs = Stripe(h, Packs[k])
                        /\ ~w.sent => \A j \in w.packs : send[r][Slot(w.seq)][j] = k
  BY DEF WiresCarryTheirOp
<1>1. p \in Peers(r)
  <2>1. wire[r][r][h] = <<>>
    BY DEF Sync, NoLoop
  <2>2. Len(<<>>) = 0
    OBVIOUS
  <2>3. p # r
    BY <2>1, <2>2
  <2> QED BY <2>3 DEF Peers
<1> DEFINE s == wire[r][p][h][i].seq
<1>2. /\ s \in 1 .. MaxOps /\ s <= launched[r] /\ launched[r] \in Nat /\ launched[r] <= MaxOps
      /\ MaxOps \in Nat /\ Word \in Nat
  <2>1. s \in 1 .. MaxOps /\ s <= door[r] /\ door[r] <= launched[r]
    BY <1>1, InFlight
  <2>2. launched[r] \in Nat /\ launched[r] <= MaxOps /\ MaxOps \in Nat /\ Word \in Nat
        /\ door[r] \in Nat
    BY OwnTypes
  <2> HIDE DEF s
  <2> QED BY <2>1, <2>2
<1>3. OpOf(r, s) = s
  <2> HIDE DEF s
  <2>1. \A k \in 1 .. launched[r] : k % Word = k /\ k + Word > launched[r]
    BY <1>2
  <2>2. s \in 1 .. launched[r] /\ s % Word = s /\ s + Word > launched[r]
    BY <1>2, <2>1
  <2>3. \A k \in 1 .. launched[r] : (k % Word = s /\ k + Word > launched[r]) <=> k = s
    BY <2>1
  <2> QED BY <2>2, <2>3 DEF OpOf
<1>4. /\ wire[r][p][h][i].packs = Stripe(h, Packs[s])
      /\ ~wire[r][p][h][i].sent =>
            \A j \in wire[r][p][h][i].packs : send[r][Slot(s)][j] = s
  BY <1>1 DEF Data, SendSync, Queued
<1> QED BY <1>3, <1>4

LEMMA Always ==
    ASSUME MaxOps < Word
    PROVE  Spec => [](Typed /\ Sync /\ Data)
<1>1. Init => Typed /\ Sync /\ Data
  BY InitTyped, InitSync, InitData
<1>2. Typed /\ Sync /\ Data /\ [Next]_vars => (Typed /\ Sync /\ Data)'
  BY StepTyped, StepSync, StepData
<1> QED BY <1>1, <1>2, PTL DEF Spec

(* A data write still to be made finds, in the send slot it will be made   *)
(* from, all its packs of the operation it was posted for, whose size it   *)
(* has: no block stages into a slot while a queue pair is to read it.      *)
THEOREM WritesCarryTheirOp ==
    ASSUME MaxOps < Word
    PROVE  Spec => []WiresCarryTheirOp
<1>1. Typed /\ Sync /\ Data => WiresCarryTheirOp
  BY WiresCarry
<1> QED BY <1>1, Always, PTL

(* A block past its wait finds its operation, of every peer, in all the    *)
(* packs it reduces, however many HCAs wrote them and in whatever order    *)
(* ranks, links, crashes and timeouts let them.                            *)
THEOREM ReductionsAreOfOneOp ==
    ASSUME MaxOps < Word
    PROVE  Spec => []ReducersReadTheirOp
<1>1. Typed /\ Sync /\ Data => ReducersReadTheirOp
  BY ReducersRead
<1> QED BY <1>1, Always, PTL

-----------------------------------------------------------------------------
(* The transport implements the abstract all-reduce.                       *)

Full(r, k) == exact[r][k] = 0 .. Packs[k] - 1

(* Operations a rank is done with, and the packs of blocks that are, were  *)
(* reduced from its peers' packs of that operation, unless a wait expired. *)
ExactSync(r) ==
    /\ \A k \in 1 .. MaxOps : exact[r][k] \subseteq 0 .. Packs[k] - 1
    /\ Live(r) /\ error[r] = 0 =>
        /\ \A k \in 1 .. epoch[r] : Full(r, k)
        /\ ~Idle(r) => \A b \in 0 .. Grid(r) - 1 :
              pc[r][b] \in {"tail", "exit"} => PacksOf(r, b) \subseteq exact[r][launched[r]]
Exact == \A r \in Ranks : ExactSync(r)

LEMMA UnmovedExact ==
    ASSUME NEW q \in Ranks, Unmoved(q) PROVE ExactSync(q)' = ExactSync(q)
<1>1. (Live(q)' <=> Live(q)) /\ (Idle(q)' <=> Idle(q)) /\ Grid(q)' = Grid(q)
  BY UnmovedKeeps
<1>2. \A b : PacksOf(q, b)' = PacksOf(q, b)
  BY <1>1 DEF Unmoved, PacksOf
<1>3. \A k : Full(q, k)' = Full(q, k)
  BY DEF Unmoved, Full
<1> QED BY <1>1, <1>2, <1>3 DEF Unmoved, ExactSync

LEMMA InitExact == Init => Exact
<1> SUFFICES ASSUME Init, NEW r \in Ranks PROVE ExactSync(r)
  BY DEF Exact
<1>1. Idle(r) /\ 1 .. epoch[r] = {}
  BY DEF Init, Idle
<1>2. \A k \in 1 .. MaxOps : exact[r][k] = {}
  BY DEF Init
<1> QED BY <1>1, <1>2 DEF ExactSync

LEMMA ExactHost ==
    ASSUME Typed, NEW r \in Ranks, ExactSync(r), HostStep(r)
    PROVE  ExactSync(r)'
<1> USE DEF hostVars, deviceVars, regionVars, proxyVars
<1>1. UNCHANGED <<exact, error, epoch>>
  BY DEF HostStep, Launch, Accept, Leave
<1>2. \A k : Full(r, k)' = Full(r, k)
  BY <1>1 DEF Full
<1>3. CASE Launch(r)
  <2>1. host' = host /\ Live(r)
    BY <1>3 DEF Launch, Live
  <2>2. \A b \in 0 .. Grid(r)' - 1 : pc'[r][b] = "begin"
    <3>1. launched'[r] \in 1 .. MaxOps
      BY <1>3, OwnTypes DEF Launch, Typed, HostTypes
    <3>2. Packs[launched'[r]] \in Nat
      BY <3>1, RoceAssumption DEF RoceAssumption
    <3>3. Grid(r)' \in Grids
      BY <3>2, GridType DEF Grid
    <3>4. Grid(r)' \in Nat /\ Grid(r)' <= MaxBlocks /\ MaxBlocks \in Nat
      BY <3>3, GridsAreNat
    <3>5. \A b \in Blocks : pc'[r][b] = IF b < Grid(r)' THEN "begin" ELSE "exit"
      BY <1>3 DEF Launch, Typed, DeviceTypes
    <3>6. \A b \in 0 .. Grid(r)' - 1 : b \in Blocks /\ b < Grid(r)'
      BY <3>4 DEF Blocks
    <3> QED BY <3>5, <3>6
  <2> QED BY <1>1, <1>2, <2>1, <2>2 DEF ExactSync
<1>4. CASE Accept(r)
  <2>1. UNCHANGED <<launched, pc>> /\ Live(r)
    BY <1>4 DEF Accept, Live
  <2> QED BY <1>1, <1>2, <2>1 DEF ExactSync, Idle, Grid, PacksOf
<1>5. CASE Leave(r)
  <2>1. ~Live(r)'
    BY <1>5 DEF Leave, Live, Typed, HostTypes
  <2> QED BY <1>1, <2>1 DEF ExactSync
<1> QED BY <1>3, <1>4, <1>5 DEF HostStep

LEMMA ExactKernel ==
    ASSUME MaxOps < Word, Typed, Sync, Data, NEW r \in Ranks, ExactSync(r), NEW b \in Blocks,
           KernelStep(r, b)
    PROVE  ExactSync(r)'
<1> USE DEF hostVars, deviceVars, regionVars, proxyVars, Go
<1>0. /\ pc[r][b] # "exit" /\ Live(r) /\ ~Idle(r) /\ (poison[r] = 0 <=> error[r] = 0)
      /\ error[r] = 0 => launched[r] = epoch[r] + 1
      /\ epoch[r] \in Nat /\ launched[r] \in Nat /\ launched[r] >= 1 /\ launched[r] <= MaxOps
  <2>1. pc[r][b] # "exit"
    BY DEF KernelStep, Block, Stage, Arrive, Pass, Expire, Reduce, Finish
  <2>2. /\ Live(r) /\ ~Idle(r) /\ (poison[r] = 0 <=> error[r] = 0)
        /\ error[r] = 0 => launched[r] = epoch[r] + 1
        /\ epoch[r] < launched[r]
    BY <2>1, Busy
  <2> QED BY <2>1, <2>2, OwnTypes
<1>1. UNCHANGED <<host, launched>>
  BY DEF KernelStep, Block, Stage, Arrive, Pass, Expire, Reduce, Finish
<1>2. Grid(r)' = Grid(r) /\ \A c : PacksOf(r, c)' = PacksOf(r, c)
  BY <1>1 DEF Grid, PacksOf
<1>3. \A c \in 0 .. Grid(r) - 1 : c \in Blocks
  BY <1>0, Busy DEF Blocks
<1>4. CASE Stage(r, b) \/ Arrive(r, b) \/ Pass(r, b)
  <2>1. UNCHANGED <<exact, error, epoch>>
    BY <1>4 DEF Stage, Arrive, Pass
  <2>2. \A k : Full(r, k)' = Full(r, k)
    BY <2>1 DEF Full
  <2>3. error[r] = 0 => \E l \in {"arrive", "wait", "reduce"} : pc' = [pc EXCEPT ![r][b] = l]
    BY <1>0, <1>4 DEF Stage, Arrive, Pass
  <2>4. error[r] = 0 => \A c \in Blocks : pc'[r][c] \in {"tail", "exit"} => pc'[r][c] = pc[r][c]
    BY <2>3 DEF Typed, DeviceTypes
  <2> QED BY <1>0, <1>1, <1>2, <1>3, <2>1, <2>2, <2>4 DEF ExactSync, Live
<1>5. CASE Expire(r, b)
  <2>1. exact' = exact
    BY <1>5 DEF Expire
  <2>2. error'[r] # 0
    <3>1. pc[r][b] = "wait" /\ KernelSync(r)
      BY <1>5 DEF Expire, Sync
    <3>2. seq[r][b] = epoch[r] + 1
      BY <1>0, <3>1 DEF KernelSync
    <3>3. error'[r] = seq[r][b]
      BY <1>5 DEF Expire, Typed, RegionTypes
    <3> QED BY <1>0, <3>2, <3>3
  <2> QED BY <2>1, <2>2 DEF ExactSync
<1>6. CASE Reduce(r, b)
  <2>1. UNCHANGED <<error, epoch>> /\ pc[r][b] = "reduce"
    BY <1>6 DEF Reduce
  <2>2. \A p \in Peers(r), j \in PacksOf(r, b) : recv[r][p][Slot(seq[r][b])][j] = launched[r]
    BY <2>1, ReducersRead DEF ReducersReadTheirOp
  <2>3. exact' = [exact EXCEPT ![r][launched[r]] = exact[r][launched[r]] \cup PacksOf(r, b)]
    <3>1. {j \in PacksOf(r, b) : \A p \in Peers(r) :
              recv[r][p][Slot(seq[r][b])][j] = launched[r]} = PacksOf(r, b)
      BY <2>2
    <3> QED BY <1>6, <3>1 DEF Reduce
  <2>4. /\ exact'[r][launched[r]] = exact[r][launched[r]] \cup PacksOf(r, b)
        /\ \A k \in 1 .. MaxOps : k # launched[r] => exact'[r][k] = exact[r][k]
    <3> DEFINE D == SUBSET PackIds
               I == 1 .. MaxOps
               X == exact[r][launched[r]] \cup PacksOf(r, b)
    <3>1. exact \in [Ranks -> [I -> D]]
      BY DEF Typed, DeviceTypes
    <3>2. launched[r] \in I
      BY <1>0, RoceAssumption DEF RoceAssumption
    <3>3. exact' = [exact EXCEPT ![r][launched[r]] = X]
      BY <2>3
    <3> HIDE DEF D, I, X
    <3>4. exact'[r][launched[r]] = X /\ \A k \in I : k # launched[r] => exact'[r][k] = exact[r][k]
      BY <3>1, <3>2, <3>3
    <3> QED BY <3>4 DEF I, X
  <2>5. PacksOf(r, b) \subseteq 0 .. Packs[launched[r]] - 1
    BY <1>0, PacksOfInside
  <2>6. \A k \in 1 .. MaxOps : exact'[r][k] \subseteq 0 .. Packs[k] - 1
    BY <2>4, <2>5 DEF ExactSync
  <2>7. error[r] = 0 => \A k \in 1 .. epoch[r] : Full(r, k)'
    <3>1. error[r] = 0 => \A k \in 1 .. epoch[r] : k \in 1 .. MaxOps /\ k # launched[r]
      BY <1>0, OwnTypes
    <3> QED BY <1>0, <2>4, <3>1 DEF ExactSync, Full
  <2>8. \A c \in Blocks : c # b => pc'[r][c] = pc[r][c]
    BY <1>6 DEF Reduce, Typed, DeviceTypes
  <2>9. error[r] = 0 => \A c \in 0 .. Grid(r) - 1 :
           pc'[r][c] \in {"tail", "exit"} => PacksOf(r, c) \subseteq exact'[r][launched[r]]
    BY <1>0, <1>3, <2>4, <2>8 DEF ExactSync
  <2> QED BY <1>0, <1>1, <1>2, <2>1, <2>6, <2>7, <2>9 DEF ExactSync
<1>7. CASE Finish(r, b)
  <2>1. UNCHANGED <<exact, error>> /\ pc[r][b] = "tail"
    BY <1>7 DEF Finish
  <2>2. \A k : Full(r, k)' = Full(r, k)
    BY <2>1 DEF Full
  <2>3. pc'[r][b] = "exit" /\ \A c \in Blocks : c # b => pc'[r][c] = pc[r][c]
    BY <1>7, LastOut
  <2>4. error[r] = 0 => \A c \in 0 .. Grid(r) - 1 :
           pc'[r][c] \in {"tail", "exit"} => PacksOf(r, c) \subseteq exact[r][launched[r]]
    BY <1>0, <1>3, <2>1, <2>3 DEF ExactSync
  <2>5. error[r] = 0 => \A k \in 1 .. epoch'[r] : Full(r, k)
    <3> SUFFICES ASSUME error[r] = 0, NEW k \in 1 .. epoch'[r] PROVE Full(r, k)
      OBVIOUS
    <3>1. \A m \in 1 .. epoch[r] : Full(r, m)
      BY <1>0 DEF ExactSync
    <3>2. CASE epoch'[r] = epoch[r]
      BY <3>1, <3>2
    <3>3. CASE epoch'[r] # epoch[r]
      <4>1. tailCount'[r][Grid(r)] = 0 /\ epoch'[r] = seq[r][b]
        BY <1>7, <3>3 DEF Finish, Typed, DeviceTypes
      <4>2. KernelSync(r) /\ TailSync(r)
        BY DEF Sync
      <4>3. seq[r][b] = epoch[r] + 1
        BY <1>0, <2>1, <4>2 DEF KernelSync
      <4>4. Grid(r) \in Grids /\ Grid(r) \in Nat /\ Grid(r) >= 1
        BY <1>0, Busy
      <4>5. Idle(r)'
        <5>1. tailCount[r][Grid(r)] = Cardinality(Exited(r))
          BY <1>0, <4>2, <4>4 DEF TailSync
        <5>2. tailCount'[r][Grid(r)] = Tick(tailCount[r][Grid(r)], Grid(r))
          BY <1>7, <4>4 DEF Finish, Typed, DeviceTypes
        <5>3. Cardinality(Exited(r)) \in Nat /\ (Cardinality(Exited(r)) + 1 = Grid(r) => Idle(r)')
          BY <1>7, LastOut
        <5> QED BY <4>1, <4>4, <5>1, <5>2, <5>3 DEF Tick
      <4>6. \A c \in 0 .. Grid(r) - 1 : PacksOf(r, c) \subseteq exact[r][launched[r]]
        BY <1>3, <2>4, <4>5 DEF Idle
      <4>7. 0 .. Packs[launched[r]] - 1 \subseteq exact[r][launched[r]]
        BY <1>0, <4>6, PacksShared
      <4>8. launched[r] \in 1 .. MaxOps
        BY <1>0, OwnTypes
      <4>9. Full(r, launched[r])
        BY <4>7, <4>8 DEF ExactSync, Full
      <4>10. k \in 1 .. epoch[r] \/ k = launched[r]
        BY <1>0, <4>1, <4>3
      <4> QED BY <3>1, <4>9, <4>10
    <3> QED BY <3>2, <3>3
  <2> QED BY <1>0, <1>1, <1>2, <2>1, <2>2, <2>4, <2>5 DEF ExactSync, Live
<1> QED BY <1>4, <1>5, <1>6, <1>7 DEF KernelStep, Block

LEMMA StepExact ==
    ASSUME MaxOps < Word, Typed, Sync, Data, Exact, [Next]_vars
    PROVE  Exact'
<1> SUFFICES ASSUME NEW q \in Ranks PROVE ExactSync(q)'
  BY DEF Exact
<1>0. ExactSync(q)
  BY DEF Exact
<1>1. CASE UNCHANGED vars
  <2>1. Unmoved(q)
    BY <1>1 DEF vars, hostVars, deviceVars, regionVars, proxyVars, Unmoved
  <2> QED BY <1>0, <2>1, UnmovedExact
<1>2. ASSUME NEW r \in Ranks, HostStep(r) \/ \E b \in Blocks : KernelStep(r, b)
      PROVE  ExactSync(q)'
  <2>1. CASE q = r
    BY <1>0, <1>2, <2>1, ExactHost, ExactKernel
  <2>2. CASE q # r
    <3>1. Unmoved(q)
      BY <1>2, <2>2, Others
    <3> QED BY <1>0, <3>1, UnmovedExact
  <2> QED BY <2>1, <2>2
<1>3. ASSUME NEW r \in Ranks,
             ProxyStep(r) \/ (\E p \in Peers(r), h \in HcaIds : NicStep(r, p, h))
      PROVE  ExactSync(q)'
  <2>1. UNCHANGED <<host, launched, epoch, error, pc, exact>>
    BY <1>3, WiresFrame
  <2> QED BY <1>0, <2>1 DEF ExactSync, Full, Live, Idle, Grid, PacksOf
<1> QED BY <1>1, <1>2, <1>3 DEF Next, HostStep, KernelStep, ProxyStep, NicStep

Taken == [r \in Ranks |-> [k \in 1 .. accepted[r] |->
             IF exact[r][k] = 0 .. Packs[k] - 1 THEN {<<p, k>> : p \in Ranks} ELSE {}]]

(* A host takes results of kernels that have finished without a failure:   *)
(* peers have given theirs by then.                                        *)
LEMMA AcceptTakes ==
    ASSUME Typed, Sync, Data, Exact, NEW r \in Ranks, Accept(r), Healthy(r)
    PROVE  Reductions!Take(r)
<1> USE DEF hostVars, deviceVars, regionVars, proxyVars
<1>1. Live(r) /\ error[r] = 0 /\ UNCHANGED <<launched, exact>>
  BY DEF Accept, Live, Healthy
<1>2. PICK n \in Results(r) : accepted' = [accepted EXCEPT ![r] = n]
  BY DEF Accept
<1>3. /\ n \in Nat /\ accepted[r] \in Nat /\ accepted[r] < n /\ n <= epoch[r]
      /\ n <= launched[r] /\ epoch[r] \in Nat /\ launched[r] \in Nat
  <2>1. /\ epoch[r] \in Nat /\ launched[r] \in Nat /\ accepted[r] \in Nat
        /\ launched[r] = IF Idle(r) THEN epoch[r] ELSE epoch[r] + 1
    BY <1>1, OwnTypes DEF Sync, KernelSync
  <2>2. Finished(r) = epoch[r]
    BY <2>1 DEF Finished
  <2> QED BY <2>1, <2>2 DEF Results
<1>4. \A p \in Ranks : launched[p] >= n
  <2> TAKE p \in Ranks
  <2>1. CASE p = r
    BY <1>3, <2>1
  <2>2. CASE p # r
    <3>1. p \in Peers(r) /\ r \in Peers(p) /\ 1 \in HcaIds
      BY <2>2, HcasIsNat DEF Peers, HcaIds
    <3>2. epoch[r] <= Posted(p, r, 1) /\ Posted(p, r, 1) <= door[p] /\ Posted(p, r, 1) \in Nat
      BY <3>1, Lag, PostedType
    <3>3. door[p] <= launched[p] /\ door[p] \in Nat /\ launched[p] \in Nat
      BY OwnTypes DEF Sync, KernelSync
    <3> QED BY <1>3, <3>2, <3>3
  <2> QED BY <2>1, <2>2
<1>5. \A k \in 1 .. n : exact[r][k] = 0 .. Packs[k] - 1
  <2>1. \A k \in 1 .. n : k \in 1 .. epoch[r]
    BY <1>3
  <2> QED BY <1>1, <2>1 DEF Exact, ExactSync, Full
<1>6. accepted'[r] = n /\ \A q \in Ranks : q # r => accepted'[q] = accepted[q]
  BY <1>2 DEF Typed, HostTypes
<1> DEFINE T(q, m) == [k \in 1 .. m |->
               IF exact[q][k] = 0 .. Packs[k] - 1 THEN {<<p, k>> : p \in Ranks} ELSE {}]
           sums == [k \in 1 .. n |-> {<<p, k>> : p \in Ranks}]
<1>7. Taken = [q \in Ranks |-> T(q, accepted[q])]
  BY DEF Taken
<1>8. Taken' = [Taken EXCEPT ![r] = sums]
  <2>1. T(r, accepted'[r]) = sums
    BY <1>5, <1>6
  <2>2. Taken' = [q \in Ranks |-> T(q, accepted'[q])]
    BY <1>1 DEF Taken
  <2> HIDE DEF T, sums
  <2> QED BY <1>6, <1>7, <2>1, <2>2
<1>9. DOMAIN Taken[r] \subseteq 1 .. n
  <2>1. Taken[r] = T(r, accepted[r])
    <3> HIDE DEF T
    <3> QED BY <1>7
  <2>2. DOMAIN Taken[r] = 1 .. accepted[r]
    BY <2>1
  <2> QED BY <1>3, <2>2
<1>10. n \in 1 .. launched[r]
  BY <1>3
<1> QED BY <1>1, <1>4, <1>8, <1>9, <1>10 DEF Reductions!Take, Reductions!Sum, Taken

(* Any other step gives an operation, or gives and takes nothing.          *)
LEMMA LaunchGives ==
    ASSUME Typed, NEW r \in Ranks, Launch(r)
    PROVE  Reductions!Give(r)
<1>1. launched[r] < MaxOps /\ launched' = [launched EXCEPT ![r] = @ + 1]
      /\ UNCHANGED <<accepted, exact>>
  BY DEF Launch
<1>2. Taken' = Taken
  BY <1>1 DEF Taken
<1> QED BY <1>1, <1>2 DEF Reductions!Give, Taken

LEMMA OthersStutter ==
    ASSUME Typed, Sync, NEW r \in Ranks,
           \/ (Accept(r) /\ ~Healthy(r)) \/ Leave(r) \/ ProxyStep(r)
           \/ \E b \in Blocks : KernelStep(r, b)
           \/ \E p \in Peers(r), h \in HcaIds : NicStep(r, p, h)
    PROVE  UNCHANGED <<launched, Taken>>
<1> USE DEF hostVars, deviceVars, regionVars, proxyVars
<1>1. UNCHANGED <<launched, accepted>>
  <2>1. CASE (Accept(r) /\ ~Healthy(r)) \/ Leave(r)
    BY <2>1 DEF Accept, Leave
  <2>2. ASSUME NEW b \in Blocks, KernelStep(r, b) PROVE UNCHANGED <<launched, accepted>>
    BY <2>2 DEF KernelStep, Block, Stage, Arrive, Pass, Expire, Reduce, Finish
  <2>3. CASE ProxyStep(r) \/ \E p \in Peers(r), h \in HcaIds : NicStep(r, p, h)
    BY <2>3, WiresFrame
  <2> QED BY <2>1, <2>2, <2>3
<1>2. CASE exact' = exact
  BY <1>1, <1>2 DEF Taken
<1>3. ASSUME NEW b \in Blocks, Reduce(r, b) PROVE UNCHANGED <<launched, Taken>>
  <2>1. pc[r][b] = "reduce" /\ KernelSync(r)
    BY <1>3 DEF Reduce, Sync
  <2>2. accepted[r] < launched[r] /\ accepted[r] \in Nat /\ launched[r] \in Nat
    BY <2>1, Busy, OwnTypes DEF KernelSync
  <2>3. \E x : exact' = [exact EXCEPT ![r][launched[r]] = x]
    BY <1>3 DEF Reduce
  <2>4. \A q \in Ranks : \A k \in 1 .. accepted[q] : exact'[q][k] = exact[q][k]
    <3>1. \A k \in 1 .. accepted[r] : k # launched[r]
      BY <2>2
    <3> QED BY <2>3, <3>1 DEF Typed, DeviceTypes
  <2> QED BY <1>1, <2>4 DEF Taken
<1>4. CASE (Accept(r) /\ ~Healthy(r)) \/ Leave(r)
  BY <1>2, <1>4 DEF Accept, Leave
<1>5. ASSUME NEW b \in Blocks, KernelStep(r, b) PROVE UNCHANGED <<launched, Taken>>
  <2>1. exact' = exact \/ Reduce(r, b)
    BY <1>5 DEF KernelStep, Block, Stage, Arrive, Pass, Expire, Finish
  <2> QED BY <1>2, <1>3, <2>1
<1>6. CASE ProxyStep(r) \/ \E p \in Peers(r), h \in HcaIds : NicStep(r, p, h)
  BY <1>2, <1>6, WiresFrame
<1> QED BY <1>4, <1>5, <1>6

(* Whatever links, peers, proxies and timeouts do, every result a host     *)
(* takes from synchronize_and_check_roce is the reduction of the inputs of *)
(* all ranks for the same operation, each of which has been given by then. *)
THEOREM ImplementsCollective ==
    ASSUME MaxOps < Word
    PROVE  Spec => CollectiveSpec
<1>1. Init => Reductions!Init
  <2> SUFFICES ASSUME Init PROVE Reductions!Init
    OBVIOUS
  <2>1. \A r \in Ranks : accepted[r] = 0
    BY DEF Init
  <2>2. Taken = [r \in Ranks |-> <<>>]
    <3>1. ASSUME NEW r \in Ranks
          PROVE  [k \in 1 .. accepted[r] |-> IF exact[r][k] = 0 .. Packs[k] - 1
                     THEN {<<p, k>> : p \in Ranks} ELSE {}] = <<>>
      BY <2>1
    <3> QED BY <3>1 DEF Taken
  <2> QED BY <2>2 DEF Init, Reductions!Init, Taken
<1>2. Typed /\ Sync /\ Data /\ Exact /\ [Next]_vars => [Reductions!Next]_<<launched, Taken>>
  <2> SUFFICES ASSUME Typed, Sync, Data, Exact, [Next]_vars
               PROVE  Reductions!Next \/ UNCHANGED <<launched, Taken>>
    OBVIOUS
  <2>1. CASE UNCHANGED vars
    BY <2>1 DEF vars, hostVars, deviceVars, Taken
  <2>2. ASSUME NEW r \in Ranks, Launch(r) \/ (Accept(r) /\ Healthy(r)) PROVE Reductions!Next
    BY <2>2, LaunchGives, AcceptTakes DEF Reductions!Next
  <2>3. ASSUME NEW r \in Ranks,
               \/ (Accept(r) /\ ~Healthy(r)) \/ Leave(r) \/ ProxyStep(r)
               \/ \E b \in Blocks : KernelStep(r, b)
               \/ \E p \in Peers(r), h \in HcaIds : NicStep(r, p, h)
        PROVE  UNCHANGED <<launched, Taken>>
    BY <2>3, OthersStutter
  <2> QED BY <2>1, <2>2, <2>3 DEF Next, KernelStep, ProxyStep, NicStep
<1>3. Spec => []Exact
  <2>1. Typed /\ Sync /\ Data /\ Exact /\ [Next]_vars => Exact'
    BY StepExact
  <2> QED BY <2>1, InitExact, Always, PTL DEF Spec
<1>4. Spec => [](Typed /\ Sync /\ Data /\ Exact)
  BY <1>3, Always, PTL
<1> QED BY <1>1, <1>2, <1>4, PTL DEF Spec, CollectiveSpec, Reductions!Spec, Taken
===============================================================================
