---------------------------- MODULE RowPool_proofs ----------------------------
(***************************************************************************)
(* Theorems about RowPool for any number of calls, of workers and of ids.  *)
(* The inductive invariant has three layers: who holds the pool            *)
(* (HolderInv), what the ticket counter and the countdown say about the    *)
(* published job (TicketInv), and what was served in the other calls       *)
(* (ServedInv).                                                            *)
(***************************************************************************)
EXTENDS RowPool, FiniteSetTheorems, TLAPS

CallLabels == {"call", "serial", "lock", "publish", "notify", "draw", "serve",
               "count", "last", "wait", "parked", "returned"}
WorkerLabels == {"loop", "parked", "draw", "serve", "count", "last", "leave"}
Busy == {"notify", "wait", "parked"} \cup Draining
InPool == {"publish"} \cup Busy

(* The workers counted in active_, and the threads that hold a ticket.     *)
Counted == {k \in Workers : pc[k] \in Draining \cup {"leave"}}
Out == {t \in Threads : pc[t] \in {"serve", "count"}}

PcOK ==
    /\ pc \in [Threads -> Labels]
    /\ \A c \in Calls : pc[c] \in CallLabels
    /\ \A k \in Workers : pc[k] \in WorkerLabels

HolderInv ==
    /\ PcOK
    /\ work \in [Workers -> Calls \cup {nullptr}]
    /\ {caller_, job_} \subseteq Calls \cup {nullptr}
    /\ \A c \in Calls : pc[c] \in InPool <=> caller_ = c
    /\ \A c \in Calls : pc[c] \in Busy <=> job_ = c
    /\ job_ # nullptr => chunks_ = Count[job_]
    /\ \A k \in Counted : job_ # nullptr /\ work[k] = job_
    /\ active_ = Cardinality(Counted)

(* Tickets: nobody shares one, none is out of range, a position of the     *)
(* published job was served once iff its ticket was drawn and is no longer *)
(* at "serve", and the countdown counts the tickets that are still due.    *)
Drawn(i) == i < next_ /\ ~\E t \in Out : pc[t] = "serve" /\ ticket[t] = i

TicketInv ==
    job_ # nullptr =>
        /\ \A t \in Out : ticket[t] < next_ /\ ticket[t] < chunks_
        /\ \A t, u \in Out : ticket[t] = ticket[u] => t = u
        /\ \A i \in Positions(job_) : served[job_][i] = IF Drawn(i) THEN 1 ELSE 0
        /\ next_ <= chunks_ => remaining_ + next_ = chunks_ + Cardinality(Out)
        /\ next_ >= chunks_ => remaining_ = Cardinality(Out)
        /\ pc[job_] \in {"wait", "parked"} => next_ >= chunks_

ServedInv ==
    \A c \in Calls :
        /\ pc[c] = "call" => ticket[c] = 0
        /\ pc[c] \in {"call", "lock", "publish"} =>
              \A i \in Positions(c) : served[c][i] = 0
        /\ pc[c] = "serial" =>
              /\ ticket[c] <= Count[c]
              /\ \A i \in Positions(c) :
                    served[c][i] = IF i < ticket[c] THEN 1 ELSE 0
        /\ pc[c] = "returned" => \A i \in Positions(c) : served[c][i] = 1
        /\ pc[c] = "parked" => Counted # {}

Types ==
    /\ ticket \in [Threads -> Nat] /\ seen \in [Workers -> Nat]
    /\ next_ \in Nat /\ chunks_ \in Nat /\ remaining_ \in Nat
    /\ active_ \in Nat /\ generation_ \in Nat
    /\ served = [c \in Calls |-> served[c]]
    /\ \A c \in Calls : served[c] \in [Positions(c) -> Nat]

PoolInv == HolderInv /\ Types /\ TicketInv /\ ServedInv

-----------------------------------------------------------------------------
(* One thread moves, alone.                                                *)
LEMMA GoEffect ==
    ASSUME PcOK, NEW t \in Threads, NEW label \in Labels, Go(t, label),
           t \in Calls => label \in CallLabels,
           t \in Workers => label \in WorkerLabels
    PROVE  /\ PcOK' /\ pc'[t] = label
           /\ \A u \in Threads \ {t} : pc'[u] = pc[u]
BY DEF PcOK, Go

(* Waking threads up moves others, but only out of "parked".               *)
LEMMA NotifyEffect ==
    ASSUME PcOK, NEW t \in Threads, NEW label \in Labels,
           t \in Calls => label \in CallLabels,
           t \in Workers => label \in WorkerLabels,
           pc[t] # "parked",
           \/ NotifyDone(t, label)
           \/ label = "draw" /\ t \in Calls /\ NotifyReady(t)
    PROVE  /\ PcOK' /\ pc'[t] = label
           /\ \A u \in Threads \ {t} : \/ pc'[u] = pc[u]
                                       \/ /\ pc[u] = "parked"
                                          /\ u \in Calls => pc'[u] = "wait"
                                          /\ u \in Workers => pc'[u] = "loop"
<1>1. Calls \subseteq Threads /\ Workers \subseteq Threads
      /\ Calls \cap Workers = {}
  BY PoolAssumption DEF Threads
<1>2. CASE NotifyDone(t, label)
  BY <1>1, <1>2 DEF PcOK, NotifyDone, Labels, CallLabels, WorkerLabels
<1>3. CASE label = "draw" /\ t \in Calls /\ NotifyReady(t)
  BY <1>1, <1>3 DEF PcOK, NotifyReady, Labels, CallLabels, WorkerLabels
<1> QED BY <1>2, <1>3

(* What a step of one thread does to everybody's pc.                       *)
Moves(t, from, to) ==
    /\ pc[t] = from /\ pc'[t] = to
    /\ \A u \in Threads \ {t} : \/ pc'[u] = pc[u]
                                \/ /\ pc[u] = "parked"
                                   /\ u \in Calls => pc'[u] = "wait"
                                   /\ u \in Workers => pc'[u] = "loop"
    /\ PcOK'

LEMMA CountedFinite == IsFiniteSet(Counted) /\ Cardinality(Counted) \in Nat
<1>1. Counted \in SUBSET Workers
  BY DEF Counted
<1> QED BY <1>1, FS_Subset, FS_CardinalityType, PoolAssumption

LEMMA OutFinite == IsFiniteSet(Out) /\ Cardinality(Out) \in Nat
<1>1. Out \in SUBSET Threads /\ IsFiniteSet(Threads)
  BY FS_Union, PoolAssumption DEF Out, Threads
<1> QED BY <1>1, FS_Subset, FS_CardinalityType

LEMMA Basics ==
    /\ Calls \subseteq Threads /\ Workers \subseteq Threads
    /\ Calls \cap Workers = {} /\ Threads = Calls \cup Workers
    /\ nullptr \notin Calls /\ Count \in [Calls -> Nat]
BY PoolAssumption DEF Threads

(* How a move changes the set of counted workers and the set of tickets.   *)
LEMMA CountedMoves ==
    ASSUME PcOK, NEW t \in Threads, NEW from, NEW to, Moves(t, from, to)
    PROVE  /\ t \in Calls => Counted' = Counted
           /\ (from \in Draining \cup {"leave"} <=> to \in Draining \cup {"leave"})
                 => Counted' = Counted
           /\ t \in Workers /\ from \notin Draining \cup {"leave"}
                /\ to \in Draining \cup {"leave"}
                 => /\ Counted' = Counted \cup {t} /\ t \notin Counted
                    /\ Cardinality(Counted') = Cardinality(Counted) + 1
           /\ t \in Workers /\ from \in Draining \cup {"leave"}
                /\ to \notin Draining \cup {"leave"}
                 => /\ Counted' = Counted \ {t} /\ t \in Counted
                    /\ Cardinality(Counted') = Cardinality(Counted) - 1
<1>1. \A u \in Threads \ {t} : u \in Counted <=> u \in Counted'
  BY Basics DEF Moves, Counted, Draining, PcOK
<1>2. Counted \subseteq Workers /\ Counted' \subseteq Workers
  BY DEF Counted
<1>3. t \in Workers =>
        /\ t \in Counted <=> from \in Draining \cup {"leave"}
        /\ t \in Counted' <=> to \in Draining \cup {"leave"}
  BY DEF Moves, Counted
<1>4. t \in Calls => t \notin Counted /\ t \notin Counted'
  BY <1>2, Basics
<1>5. CASE Counted' = Counted
  BY <1>3, <1>5
<1>6. CASE Counted' = Counted \cup {t} /\ t \notin Counted
  BY <1>2, <1>3, <1>4, <1>6, CountedFinite, FS_AddElement
<1>7. CASE Counted' = Counted \ {t} /\ t \in Counted
  BY <1>2, <1>3, <1>4, <1>7, CountedFinite, FS_RemoveElement
<1>8. \/ Counted' = Counted
      \/ Counted' = Counted \cup {t} /\ t \notin Counted
      \/ Counted' = Counted \ {t} /\ t \in Counted
  BY <1>1, <1>2, Basics
<1> QED BY <1>5, <1>6, <1>7, <1>8

LEMMA OutMoves ==
    ASSUME PcOK, NEW t \in Threads, NEW from, NEW to, Moves(t, from, to)
    PROVE  /\ (from \in {"serve", "count"} <=> to \in {"serve", "count"})
                 => Out' = Out
           /\ from \notin {"serve", "count"} /\ to \in {"serve", "count"}
                 => /\ Out' = Out \cup {t} /\ t \notin Out
                    /\ Cardinality(Out') = Cardinality(Out) + 1
           /\ from \in {"serve", "count"} /\ to \notin {"serve", "count"}
                 => /\ Out' = Out \ {t} /\ t \in Out
                    /\ Cardinality(Out') = Cardinality(Out) - 1
<1>1. \A u \in Threads \ {t} : u \in Out <=> u \in Out'
  BY Basics DEF Moves, Out, PcOK
<1>2. Out \subseteq Threads /\ Out' \subseteq Threads
  BY DEF Out
<1>3. /\ t \in Out <=> from \in {"serve", "count"}
      /\ t \in Out' <=> to \in {"serve", "count"}
  BY DEF Moves, Out
<1>4. CASE Out' = Out
  BY <1>3, <1>4
<1>5. CASE Out' = Out \cup {t} /\ t \notin Out
  BY <1>2, <1>3, <1>5, OutFinite, FS_AddElement
<1>6. CASE Out' = Out \ {t} /\ t \in Out
  BY <1>2, <1>3, <1>6, OutFinite, FS_RemoveElement
<1> QED BY <1>1, <1>2, <1>4, <1>5, <1>6

-----------------------------------------------------------------------------
(* HolderInv: at most one call is in the pool, its job is the published    *)
(* one, and every counted worker works on it.                              *)
LEMMA HolderInit == Init => HolderInv
<1> SUFFICES ASSUME Init PROVE HolderInv
  OBVIOUS
<1>1. PcOK
  BY Basics DEF Init, PcOK, Labels, CallLabels, WorkerLabels
<1>2. Counted = {}
  BY Basics DEF Init, Counted, Draining
<1>3. Cardinality(Counted) = 0
  BY <1>2, FS_EmptySet
<1> QED BY <1>1, <1>2, <1>3, Basics DEF Init, HolderInv, InPool, Busy, Draining

(* A thread outside the pool's own sections moves within its kind.         *)
LEMMA HolderMoves ==
    ASSUME HolderInv, NEW t \in Threads, NEW from, NEW to, Moves(t, from, to),
           UNCHANGED <<work, caller_, guarded, active_>>,
           t \in Calls => /\ from \in InPool <=> to \in InPool
                          /\ from \in Busy <=> to \in Busy,
           t \in Workers =>
             (from \in Draining \cup {"leave"} <=> to \in Draining \cup {"leave"})
    PROVE  HolderInv'
<1>1. Counted' = Counted
  BY CountedMoves, Basics DEF HolderInv
<1>2. \A c \in Calls : /\ pc[c] \in InPool <=> pc'[c] \in InPool
                       /\ pc[c] \in Busy <=> pc'[c] \in Busy
  BY Basics DEF Moves, InPool, Busy, Draining
<1>3. PcOK'
  BY DEF Moves
<1> QED BY <1>1, <1>2, <1>3 DEF HolderInv, guarded

LEMMA HolderStep == HolderInv /\ [Next]_vars => HolderInv'
<1> SUFFICES ASSUME HolderInv, [Next]_vars PROVE HolderInv'
  OBVIOUS
<1> USE Basics DEF Labels, CallLabels, WorkerLabels
<1>0. PcOK
  BY DEF HolderInv
<1>1. ASSUME NEW c \in Calls, Lookup(c) PROVE HolderInv'
  <2>1. PICK to \in {"serial", "lock"} : Go(c, to)
    BY <1>1 DEF Lookup
  <2>2. Moves(c, "call", to)
    BY <1>0, <1>1, <2>1, GoEffect DEF Lookup, Moves
  <2> QED BY <1>1, <2>2, HolderMoves DEF Lookup, locals, InPool, Busy, Draining
<1>2. ASSUME NEW c \in Calls, SerialStep(c) PROVE HolderInv'
  <2>1. CASE UNCHANGED pc
    BY <1>2, <2>1 DEF SerialStep, HolderInv, guarded, PcOK, Counted
  <2>2. CASE Go(c, "returned")
    <3>1. Moves(c, "serial", "returned")
      BY <1>0, <1>2, <2>2, GoEffect DEF SerialStep, Moves
    <3> QED BY <1>2, <3>1, HolderMoves DEF SerialStep, InPool, Busy, Draining
  <2> QED BY <1>2, <2>1, <2>2 DEF SerialStep
<1>3. ASSUME NEW c \in Calls, LockCaller(c) PROVE HolderInv'
  <2>1. Moves(c, "lock", "publish")
    BY <1>0, <1>3, GoEffect DEF LockCaller, Moves
  <2>2. Counted' = Counted
    BY <1>0, <2>1, CountedMoves
  <2>3. \A d \in Calls : pc[d] \notin InPool
    BY <1>3 DEF LockCaller, HolderInv
  <2>4. \A d \in Calls : pc'[d] \in InPool <=> d = c
    BY <2>1, <2>3 DEF Moves, InPool, Busy, Draining
  <2>5. \A d \in Calls : pc'[d] \in Busy <=> pc[d] \in Busy
    BY <2>1, <2>3 DEF Moves, InPool, Busy, Draining
  <2> QED BY <1>3, <2>1, <2>2, <2>4, <2>5 DEF HolderInv, LockCaller, Moves, locals, guarded
<1>4. ASSUME NEW c \in Calls, Publish(c) PROVE HolderInv'
  <2>1. Moves(c, "publish", "notify")
    BY <1>0, <1>4, GoEffect DEF Publish, Moves
  <2>2. Counted' = Counted
    BY <1>0, <2>1, CountedMoves
  <2>3. caller_ = c /\ job_ = nullptr
    BY <1>4 DEF Publish, HolderInv, InPool, Busy, Draining
  <2>4. Counted = {}
    BY <2>3 DEF HolderInv
  <2>5. \A d \in Calls : pc'[d] \in InPool <=> pc[d] \in InPool
    BY <2>1 DEF Moves, InPool, Busy, Draining
  <2>6. \A d \in Calls : pc'[d] \in Busy <=> d = c
    BY <2>1, <2>3 DEF Moves, InPool, Busy, Draining, HolderInv
  <2> QED BY <1>4, <2>1, <2>2, <2>4, <2>5, <2>6
          DEF HolderInv, Publish, Moves, locals
<1>5. ASSUME NEW c \in Calls, NotifyReady(c) PROVE HolderInv'
  <2>1. Moves(c, "notify", "draw")
    BY <1>0, <1>5, NotifyEffect DEF NotifyReady, Moves
  <2> QED BY <1>5, <2>1, HolderMoves DEF NotifyReady, locals, InPool, Busy, Draining
<1>6. ASSUME NEW c \in Calls, AwaitDone(c) PROVE HolderInv'
  <2>1. CASE remaining_ = 0 /\ active_ = 0
    <3>1. Moves(c, "wait", "returned") /\ job_' = nullptr /\ caller_' = nullptr
      BY <1>0, <1>6, <2>1, GoEffect DEF AwaitDone, Moves
    <3>2. Counted' = Counted
      BY <1>0, <3>1, CountedMoves
    <3>3. Counted = {}
      BY <2>1, CountedFinite, FS_EmptySet DEF HolderInv
    <3>4. caller_ = c /\ job_ = c
      BY <1>6 DEF AwaitDone, HolderInv, InPool, Busy
    <3>5. \A d \in Calls : pc'[d] \notin InPool /\ pc'[d] \notin Busy
      BY <3>1, <3>4 DEF Moves, InPool, Busy, Draining, HolderInv
    <3> QED BY <1>6, <3>1, <3>2, <3>3, <3>5 DEF HolderInv, AwaitDone, Moves, locals
  <2>2. CASE ~(remaining_ = 0 /\ active_ = 0)
    <3>1. Moves(c, "wait", "parked") /\ job_' = job_ /\ caller_' = caller_
      BY <1>0, <1>6, <2>2, GoEffect DEF AwaitDone, Moves
    <3> QED BY <1>6, <3>1, HolderMoves
            DEF AwaitDone, locals, guarded, InPool, Busy, Draining
  <2> QED BY <2>1, <2>2
<1>7. ASSUME NEW t \in Threads, Draw(t) PROVE HolderInv'
  <2>1. PICK to \in {"serve"} \cup (IF t \in Calls THEN {"wait"} ELSE {"leave"}) :
          Go(t, to)
    BY <1>7 DEF Draw
  <2>2. Moves(t, "draw", to)
    BY <1>0, <1>7, <2>1, GoEffect DEF Draw, Moves
  <2> QED BY <1>7, <2>2, HolderMoves DEF Draw, InPool, Busy, Draining
<1>8. ASSUME NEW t \in Threads, Serve(t) PROVE HolderInv'
  <2>1. Moves(t, "serve", "count")
    BY <1>0, <1>8, GoEffect DEF Serve, Moves
  <2> QED BY <1>8, <2>1, HolderMoves DEF Serve, locals, InPool, Busy, Draining
<1>9. ASSUME NEW t \in Threads, CountDown(t) PROVE HolderInv'
  <2>1. PICK to \in {"last", "draw"} : Go(t, to)
    BY <1>9 DEF CountDown
  <2>2. Moves(t, "count", to)
    BY <1>0, <1>9, <2>1, GoEffect DEF CountDown, Moves
  <2> QED BY <1>9, <2>2, HolderMoves DEF CountDown, locals, InPool, Busy, Draining
<1>10. ASSUME NEW t \in Threads, NotifyLast(t) PROVE HolderInv'
  <2>1. Moves(t, "last", "draw")
    BY <1>0, <1>10, NotifyEffect DEF NotifyLast, Moves
  <2> QED BY <1>10, <2>1, HolderMoves DEF NotifyLast, locals, InPool, Busy, Draining
<1>11. ASSUME NEW k \in Workers, TakeJob(k) PROVE HolderInv'
  <2>1. CASE generation_ = seen[k]
    <3>1. Moves(k, "loop", "parked")
      BY <1>0, <1>11, <2>1, GoEffect DEF TakeJob, Moves
    <3> QED BY <1>11, <2>1, <3>1, HolderMoves DEF TakeJob, InPool, Busy, Draining
  <2>2. CASE generation_ # seen[k] /\ job_ = nullptr
    BY <1>11, <2>2 DEF TakeJob, HolderInv, guarded, PcOK, Counted
  <2>3. CASE generation_ # seen[k] /\ job_ # nullptr
    <3>1. Moves(k, "loop", "draw") /\ work' = [work EXCEPT ![k] = job_]
          /\ active_' = active_ + 1
      BY <1>0, <1>11, <2>3, GoEffect DEF TakeJob, Moves
    <3>2. Counted' = Counted \cup {k} /\ Cardinality(Counted') = Cardinality(Counted) + 1
      BY <1>0, <3>1, CountedMoves DEF Draining
    <3>3. \A d \in Calls : /\ pc[d] \in InPool <=> pc'[d] \in InPool
                           /\ pc[d] \in Busy <=> pc'[d] \in Busy
      BY <3>1 DEF Moves, InPool, Busy, Draining
    <3>4. \A j \in Counted' : job_ # nullptr /\ work'[j] = job_
      BY <2>3, <3>1, <3>2 DEF HolderInv, Counted
    <3> QED BY <1>11, <3>1, <3>2, <3>3, <3>4 DEF HolderInv, TakeJob, Moves, guarded
  <2> QED BY <2>1, <2>2, <2>3
<1>12. ASSUME NEW k \in Workers, Leave(k) PROVE HolderInv'
  <2>1. Moves(k, "leave", "loop")
    BY <1>0, <1>12, NotifyEffect DEF Leave, Moves
  <2>2. Counted' = Counted \ {k} /\ Cardinality(Counted') = Cardinality(Counted) - 1
    BY <1>0, <2>1, CountedMoves DEF Draining
  <2>3. \A d \in Calls : /\ pc[d] \in InPool <=> pc'[d] \in InPool
                         /\ pc[d] \in Busy <=> pc'[d] \in Busy
    BY <2>1 DEF Moves, InPool, Busy, Draining
  <2>4. work' \in [Workers -> Calls \cup {nullptr}] /\ \A j \in Counted' : work'[j] = work[j]
    BY <1>12, <2>2 DEF Leave, HolderInv, Counted
  <2> QED BY <1>12, <2>1, <2>2, <2>3, <2>4 DEF HolderInv, Leave, Moves, guarded
<1>13. ASSUME NEW t \in Threads, SpuriousWakeUp(t) PROVE HolderInv'
  <2>1. PICK to \in (IF t \in Calls THEN {"wait"} ELSE {"loop"}) : Go(t, to)
    BY <1>13 DEF SpuriousWakeUp
  <2>2. Moves(t, "parked", to)
    BY <1>0, <1>13, <2>1, GoEffect DEF SpuriousWakeUp, Moves
  <2> QED BY <1>13, <2>2, HolderMoves DEF SpuriousWakeUp, locals, InPool, Busy, Draining
<1>14. CASE UNCHANGED vars
  BY <1>14 DEF vars, HolderInv, guarded, PcOK, Counted, locals
<1> QED BY <1>1, <1>2, <1>3, <1>4, <1>5, <1>6, <1>7, <1>8, <1>9, <1>10, <1>11,
           <1>12, <1>13, <1>14 DEF Next, CallStep, DrainStep

-----------------------------------------------------------------------------
(* Facts about one thread in the pool.                                     *)
LEMMA DrainFacts ==
    ASSUME HolderInv, NEW t \in Threads, pc[t] \in Draining
    PROVE  /\ job_ \in Calls /\ Work(t) = job_ /\ job_ # nullptr
           /\ chunks_ = Count[job_] /\ pc[job_] \in Busy
           /\ t \in Calls => t = job_
           /\ \A c \in Calls : c # job_ => pc[c] \notin Busy
BY Basics DEF HolderInv, Work, Counted, Draining, Busy

LEMMA OutFacts ==
    ASSUME PoolInv, NEW t \in Out
    PROVE  /\ t \in Threads /\ pc[t] \in Draining
           /\ ticket[t] \in Positions(job_)
           /\ remaining_ >= 1
<1>1. t \in Threads /\ pc[t] \in Draining
  BY DEF Out, Draining
<1>2. job_ \in Calls /\ job_ # nullptr /\ chunks_ = Count[job_]
  BY <1>1, DrainFacts DEF PoolInv
<1>3. ticket[t] \in Positions(job_)
  BY <1>1, <1>2, Basics DEF PoolInv, TicketInv, Types, Positions
<1>4. Cardinality(Out) >= 1
  BY OutFinite, FS_EmptySet
<1> QED BY <1>1, <1>2, <1>3, <1>4, OutFinite DEF PoolInv, TicketInv, Types

(* Serving a position raises its count and no other.                       *)
LEMMA ServeEffect ==
    ASSUME Types, NEW c \in Calls, NEW i \in Positions(c),
           served' = [served EXCEPT ![c][i] = @ + 1]
    PROVE  /\ served' = [d \in Calls |-> served'[d]]
           /\ \A d \in Calls : served'[d] \in [Positions(d) -> Nat]
           /\ \A d \in Calls : d # c => served'[d] = served[d]
           /\ \A j \in Positions(c) :
                 served'[c][j] = IF j = i THEN served[c][i] + 1 ELSE served[c][j]
<1>1. served' = [d \in Calls |-> IF d = c THEN [served[c] EXCEPT ![i] = @ + 1]
                                          ELSE served[d]]
  BY DEF Types
<1>2. served[c] \in [Positions(c) -> Nat]
  BY DEF Types
<1>3. [served[c] EXCEPT ![i] = @ + 1] \in [Positions(c) -> Nat]
  BY <1>2
<1> QED BY <1>1, <1>2, <1>3 DEF Types

-----------------------------------------------------------------------------
(* Steps that neither draw, serve nor count down.                          *)
LEMMA TicketFrame ==
    ASSUME PoolInv, NEW t \in Threads, NEW from, NEW to, Moves(t, from, to),
           UNCHANGED <<job_, next_, chunks_, remaining_>>,
           \A c \in Calls : pc[c] \in Busy => served'[c] = served[c],
           \A u \in Out : ticket'[u] = ticket[u],
           from \notin {"serve", "count"}, to \notin {"serve", "count"},
           t \in Calls /\ to \in {"wait", "parked"} => from \in {"wait", "parked"}
    PROVE  TicketInv'
<1> SUFFICES ASSUME job_ # nullptr PROVE TicketInv'
  BY DEF TicketInv
<1>1. Out' = Out
  BY OutMoves DEF PoolInv, HolderInv
<1>2. \A u \in Out : pc'[u] = pc[u] /\ u \in Threads
  BY DEF Out, Moves
<1>3. job_ \in Calls /\ pc[job_] \in Busy /\ served'[job_] = served[job_]
  BY DEF PoolInv, HolderInv
<1>4. \A i : Drawn(i)' <=> Drawn(i)
  BY <1>1, <1>2 DEF Drawn
<1>5. pc'[job_] \in {"wait", "parked"} => pc[job_] \in {"wait", "parked"}
  BY <1>3, Basics DEF Moves
<1> QED BY <1>1, <1>2, <1>3, <1>4, <1>5 DEF TicketInv, PoolInv

LEMMA ServedFrame ==
    ASSUME PoolInv, NEW t \in Threads, NEW from, NEW to, Moves(t, from, to),
           UNCHANGED served,
           \A c \in Calls : pc'[c] \in {"call", "serial"} => ticket'[c] = ticket[c],
           t \in Calls =>
              /\ to \notin {"call", "returned", "parked"}
              /\ to \in {"lock", "publish"} => from \in {"call", "lock"}
              /\ to = "serial" => from = "call",
           \/ \A c \in Calls : pc'[c] # "parked"
           \/ Counted \subseteq Counted'
    PROVE  ServedInv'
<1> SUFFICES ASSUME NEW c \in Calls
             PROVE  /\ pc'[c] = "call" => ticket'[c] = 0
                    /\ pc'[c] \in {"call", "lock", "publish"} =>
                          \A i \in Positions(c) : served[c][i] = 0
                    /\ pc'[c] = "serial" =>
                          /\ ticket'[c] <= Count[c]
                          /\ \A i \in Positions(c) :
                                served[c][i] = IF i < ticket'[c] THEN 1 ELSE 0
                    /\ pc'[c] = "returned" => \A i \in Positions(c) : served[c][i] = 1
                    /\ pc'[c] = "parked" => Counted' # {}
  BY DEF ServedInv
<1>1. \/ pc'[c] = pc[c]
      \/ pc[c] = "parked" /\ pc'[c] = "wait"
      \/ c = t /\ pc[c] = from /\ pc'[c] = to
  BY Basics DEF Moves
<1>2. CASE pc'[c] = pc[c]
  BY <1>2 DEF PoolInv, ServedInv
<1>3. CASE pc[c] = "parked" /\ pc'[c] = "wait"
  BY <1>3
<1>4. CASE c = t /\ pc[c] = from /\ pc'[c] = to
  <2>1. CASE to \in {"lock", "publish"}
    BY <1>4, <2>1 DEF PoolInv, ServedInv
  <2>2. CASE to = "serial"
    <3>1. ticket[c] = 0 /\ \A i \in Positions(c) : served[c][i] = 0
      BY <1>4, <2>2 DEF PoolInv, ServedInv
    <3>2. \A i \in Positions(c) : ~(i < 0)
      BY Basics DEF Positions
    <3> QED BY <1>4, <2>2, <3>1, <3>2, Basics
  <2> QED BY <1>4, <2>1, <2>2
<1> QED BY <1>1, <1>2, <1>3, <1>4

-----------------------------------------------------------------------------
LEMMA PoolInit == Init => PoolInv
<1> SUFFICES ASSUME Init PROVE PoolInv
  OBVIOUS
<1>1. \A c \in Calls : pc[c] = "call" /\ ticket[c] = 0
  BY Basics DEF Init
<1>2. \A c \in Calls : served[c] = [i \in Positions(c) |-> 0]
  BY DEF Init
<1>3. Types
  BY <1>2, Basics DEF Init, Types
<1>4. TicketInv
  BY DEF Init, TicketInv
<1>5. ServedInv
  BY <1>1, <1>2 DEF ServedInv
<1> QED BY <1>3, <1>4, <1>5, HolderInit DEF PoolInv

(* Steps outside drain().                                                  *)
LEMMA CallStepInv ==
    ASSUME PoolInv, NEW c \in Calls, CallStep(c)
    PROVE  Types' /\ TicketInv' /\ ServedInv'
<1> USE Basics DEF Labels, CallLabels, WorkerLabels
<1>0. PcOK /\ HolderInv /\ c \in Threads
  BY DEF PoolInv, HolderInv
<1>1. CASE Lookup(c)
  <2>1. PICK to \in {"serial", "lock"} : Go(c, to)
    BY <1>1 DEF Lookup
  <2>2. Moves(c, "call", to)
    BY <1>0, <1>1, <2>1, GoEffect DEF Lookup, Moves
  <2>3. UNCHANGED Counted
    BY <1>0, <2>2, CountedMoves
  <2>4. Types' /\ TicketInv'
    BY <1>0, <1>1, <2>2, TicketFrame DEF Lookup, locals, guarded, PoolInv, Types
  <2> QED BY <1>0, <1>1, <2>2, <2>3, <2>4, ServedFrame DEF Lookup, locals
<1>2. CASE SerialStep(c)
  <2>0. pc[c] = "serial" /\ c # job_ /\ pc[c] \notin Busy
        /\ ticket[c] \in Nat /\ ticket[c] <= Count[c]
    BY <1>2, <1>0 DEF SerialStep, HolderInv, PoolInv, ServedInv, Types, Busy, Draining
  <2>1. CASE ticket[c] < Count[c]
    <3>1. /\ served' = [served EXCEPT ![c][ticket[c]] = @ + 1]
          /\ ticket' = [ticket EXCEPT ![c] = @ + 1] /\ UNCHANGED pc
      BY <1>2, <2>1 DEF SerialStep
    <3>2. ticket[c] \in Positions(c)
      BY <2>0, <2>1 DEF Positions
    <3>3. Moves(c, "serial", "serial")
      BY <1>0, <1>2, <3>1 DEF SerialStep, Moves, PcOK
    <3>4. Types'
      <4>1. ticket' \in [Threads -> Nat]
        BY <3>1 DEF PoolInv, Types
      <4>2. /\ served' = [d \in Calls |-> served'[d]]
            /\ \A d \in Calls : served'[d] \in [Positions(d) -> Nat]
        BY <3>1, <3>2, ServeEffect DEF PoolInv
      <4> QED BY <1>2, <4>1, <4>2 DEF SerialStep, guarded, PoolInv, Types
    <3>5. c \notin Out
      BY <2>0 DEF Out
    <3>6. \A d \in Calls : pc[d] \in Busy => served'[d] = served[d]
      BY <2>0, <3>1, <3>2, ServeEffect DEF PoolInv
    <3>7. \A u \in Out : ticket'[u] = ticket[u]
      BY <3>1, <3>5 DEF Out, PoolInv, Types
    <3>8. TicketInv'
      BY <1>0, <1>2, <3>3, <3>6, <3>7, TicketFrame DEF SerialStep, guarded
    <3>9. ServedInv'
      <4>1. \A d \in Calls : d # c => /\ served'[d] = served[d]
                                     /\ ticket'[d] = ticket[d]
                                     /\ pc'[d] = pc[d]
        BY <3>1, <3>2, ServeEffect DEF PoolInv, Types
      <4>2. ticket'[c] = ticket[c] + 1 /\ ticket'[c] <= Count[c]
        BY <2>0, <2>1, <3>1 DEF PoolInv, Types
      <4>3. \A i \in Positions(c) :
              served'[c][i] = IF i < ticket'[c] THEN 1 ELSE 0
        <5> TAKE i \in Positions(c)
        <5>1. served'[c][i] = IF i = ticket[c] THEN served[c][i] + 1 ELSE served[c][i]
          BY <3>1, <3>2, ServeEffect DEF PoolInv
        <5>2. served[c][i] = IF i < ticket[c] THEN 1 ELSE 0
          BY <2>0 DEF PoolInv, ServedInv
        <5> QED BY <5>1, <5>2, <4>2, <2>0 DEF Positions
      <4>4. Counted' = Counted
        BY <3>1 DEF Counted
      <4> QED BY <2>0, <3>1, <4>1, <4>2, <4>3, <4>4 DEF PoolInv, ServedInv
    <3> QED BY <3>4, <3>8, <3>9
  <2>2. CASE ~(ticket[c] < Count[c])
    <3>1. ticket[c] = Count[c] /\ Go(c, "returned") /\ UNCHANGED <<served, ticket>>
      BY <1>2, <2>0, <2>2 DEF SerialStep
    <3>2. Moves(c, "serial", "returned")
      BY <1>0, <1>2, <3>1, GoEffect DEF SerialStep, Moves
    <3>3. Types' /\ TicketInv'
      BY <1>0, <1>2, <3>1, <3>2, TicketFrame DEF SerialStep, guarded, PoolInv, Types
    <3>4. \A i \in Positions(c) : served[c][i] = 1
      BY <2>0, <3>1 DEF PoolInv, ServedInv, Positions
    <3>5. Counted' = Counted
      BY <1>0, <3>2, CountedMoves
    <3>6. \A d \in Calls : d # c => \/ pc'[d] = pc[d]
                                    \/ pc[d] = "parked" /\ pc'[d] = "wait"
      BY <3>2 DEF Moves
    <3>7. ServedInv'
      BY <3>1, <3>2, <3>4, <3>5, <3>6 DEF PoolInv, ServedInv, Moves
    <3> QED BY <3>3, <3>7
  <2> QED BY <2>1, <2>2
<1>3. CASE LockCaller(c)
  <2>1. Moves(c, "lock", "publish")
    BY <1>0, <1>3, GoEffect DEF LockCaller, Moves
  <2>2. UNCHANGED Counted
    BY <1>0, <2>1, CountedMoves
  <2>3. Types' /\ TicketInv'
    BY <1>0, <1>3, <2>1, TicketFrame DEF LockCaller, locals, guarded, PoolInv, Types
  <2> QED BY <1>0, <1>3, <2>1, <2>2, <2>3, ServedFrame DEF LockCaller, locals
<1>4. CASE Publish(c)
  <2>1. Moves(c, "publish", "notify")
    BY <1>0, <1>4, GoEffect DEF Publish, Moves
  <2>2. UNCHANGED <<Counted, Out>>
    BY <1>0, <2>1, CountedMoves, OutMoves
  <2>3. job_ = nullptr
    BY <1>0, <1>4 DEF Publish, HolderInv, InPool, Busy, Draining
  <2>4. Out = {}
    BY <1>0, <2>3 DEF HolderInv, Out, Counted, Busy, Draining, PcOK
  <2>5. \A i \in Positions(c) : served[c][i] = 0
    BY <1>4 DEF Publish, PoolInv, ServedInv
  <2>6. Types'
    BY <1>4 DEF Publish, locals, PoolInv, Types
  <2>7. \A i \in Positions(c) : ~Drawn(i)'
    BY <1>4 DEF Publish, Drawn, Positions
  <2>8. Cardinality(Out') = 0
    BY <2>2, <2>4, FS_EmptySet
  <2>9. TicketInv'
    BY <1>4, <2>1, <2>2, <2>4, <2>5, <2>7, <2>8 DEF Publish, TicketInv, Moves
  <2> QED BY <1>0, <1>4, <2>1, <2>2, <2>6, <2>9, ServedFrame DEF Publish, locals
<1>5. CASE NotifyReady(c)
  <2>1. Moves(c, "notify", "draw")
    BY <1>0, <1>5, NotifyEffect DEF NotifyReady, Moves
  <2>2. UNCHANGED Counted
    BY <1>0, <2>1, CountedMoves
  <2>3. Types' /\ TicketInv'
    BY <1>0, <1>5, <2>1, TicketFrame DEF NotifyReady, locals, guarded, PoolInv, Types
  <2> QED BY <1>0, <1>5, <2>1, <2>2, <2>3, ServedFrame DEF NotifyReady, locals
<1>6. CASE AwaitDone(c)
  <2>0. job_ = c /\ c # nullptr /\ next_ >= chunks_ /\ chunks_ = Count[c]
    BY <1>0, <1>6 DEF AwaitDone, HolderInv, PoolInv, TicketInv, Busy
  <2>1. CASE remaining_ = 0 /\ active_ = 0
    <3>1. Moves(c, "wait", "returned") /\ job_' = nullptr /\ UNCHANGED served
      BY <1>0, <1>6, <2>1, GoEffect DEF AwaitDone, Moves
    <3>2. Types'
      BY <1>6 DEF AwaitDone, locals, PoolInv, Types
    <3>3. Out = {}
      BY <2>0, <2>1, OutFinite, FS_EmptySet DEF PoolInv, TicketInv
    <3>4. \A i \in Positions(c) : served[c][i] = 1
      BY <2>0, <3>3 DEF PoolInv, TicketInv, Drawn, Positions, Types
    <3>5. UNCHANGED Counted
      BY <1>0, <3>1, CountedMoves
    <3>6. \A d \in Calls : d # c => \/ pc'[d] = pc[d]
                                    \/ pc[d] = "parked" /\ pc'[d] = "wait"
      BY <3>1 DEF Moves
    <3>7. UNCHANGED ticket
      BY <1>6 DEF AwaitDone, locals
    <3>8. ServedInv'
      BY <3>1, <3>4, <3>5, <3>6, <3>7 DEF PoolInv, ServedInv, Moves
    <3> QED BY <3>1, <3>2, <3>8 DEF TicketInv
  <2>2. CASE ~(remaining_ = 0 /\ active_ = 0)
    <3>1. Moves(c, "wait", "parked") /\ UNCHANGED <<job_, served, ticket>>
      BY <1>0, <1>6, <2>2, GoEffect DEF AwaitDone, Moves, locals
    <3>2. Types' /\ TicketInv'
      BY <1>0, <1>6, <3>1, TicketFrame DEF AwaitDone, locals, PoolInv, Types
    <3>3. UNCHANGED Counted
      BY <1>0, <3>1, CountedMoves
    <3>4. Counted # {}
      <4>1. CASE active_ # 0
        BY <4>1, FS_EmptySet DEF PoolInv, HolderInv
      <4>2. CASE remaining_ # 0
        <5>1. Out # {}
          BY <2>0, <4>2, FS_EmptySet DEF PoolInv, TicketInv
        <5>2. \A d \in Calls : d \notin Out
          BY <1>0, <1>6, <2>0 DEF AwaitDone, HolderInv, Out, Busy, Draining
        <5> QED BY <5>1, <5>2 DEF Out, Counted, Draining
      <4> QED BY <2>2, <4>1, <4>2
    <3>5. \A d \in Calls : d # c => \/ pc'[d] = pc[d]
                                    \/ pc[d] = "parked" /\ pc'[d] = "wait"
      BY <3>1 DEF Moves
    <3>6. ServedInv'
      BY <3>1, <3>3, <3>4, <3>5 DEF PoolInv, ServedInv, Moves
    <3> QED BY <3>2, <3>6
  <2> QED BY <2>1, <2>2
<1> QED BY <1>1, <1>2, <1>3, <1>4, <1>5, <1>6 DEF CallStep

(* Steps in drain(), of a caller or of a worker.                           *)
LEMMA DrainStepInv ==
    ASSUME PoolInv, NEW t \in Threads, DrainStep(t)
    PROVE  Types' /\ TicketInv' /\ ServedInv'
<1> USE Basics DEF Labels, CallLabels, WorkerLabels
<1>0. PcOK /\ HolderInv
  BY DEF PoolInv, HolderInv
<1>d. /\ pc[t] \in Draining /\ job_ \in Calls /\ Work(t) = job_ /\ job_ # nullptr
      /\ chunks_ = Count[job_] /\ pc[job_] \in Busy
      /\ t \in Calls => t = job_
      /\ \A c \in Calls : c # job_ => pc[c] \notin Busy
  <2>1. pc[t] \in Draining
    BY DEF DrainStep, Draw, Serve, CountDown, NotifyLast, Draining
  <2> QED BY <1>0, <2>1, DrainFacts
<1>n. /\ next_ \in Nat /\ chunks_ \in Nat /\ remaining_ \in Nat
      /\ Cardinality(Out) \in Nat
      /\ \A i \in Positions(job_) : i \in Nat /\ i < chunks_
  BY <1>d, OutFinite DEF PoolInv, Types, Positions
<1>t. /\ next_ <= chunks_ => remaining_ + next_ = chunks_ + Cardinality(Out)
      /\ next_ >= chunks_ => remaining_ = Cardinality(Out)
  BY <1>d DEF PoolInv, TicketInv
<1>1. CASE Draw(t)
  <2>0. /\ pc[t] = "draw" /\ UNCHANGED <<job_, chunks_, remaining_, served>>
        /\ ticket' = [ticket EXCEPT ![t] = next_] /\ next_' = next_ + 1
    BY <1>1 DEF Draw, guarded
  <2>1. Types'
    BY <1>1, <2>0 DEF Draw, guarded, PoolInv, Types
  <2>2. PICK to \in {"serve"} \cup (IF t \in Calls THEN {"wait"} ELSE {"leave"}) :
          /\ Go(t, to)
          /\ to = "serve" <=> next_ < chunks_
    BY <1>1 DEF Draw
  <2>3. Moves(t, "draw", to)
    BY <1>0, <2>0, <2>2, GoEffect DEF Moves
  <2>4. t \notin Out /\ \A u \in Out : /\ u \in Threads
                                     /\ pc'[u] = pc[u] /\ ticket'[u] = ticket[u]
    BY <2>0, <2>3 DEF Out, Moves, PoolInv, Types
  <2>5. ticket'[t] = next_ /\ pc'[t] = to
    BY <2>0, <2>3 DEF PoolInv, Types, Moves
  <2>6. ServedInv'
    <3>1. UNCHANGED Counted
      BY <1>0, <2>2, <2>3, CountedMoves DEF Draining
    <3>2. \A c \in Calls : pc'[c] \in {"call", "serial"} => ticket'[c] = ticket[c]
      BY <2>0, <2>2, <2>3 DEF PoolInv, Types, Moves
    <3> QED BY <2>0, <2>2, <2>3, <3>1, <3>2, ServedFrame
  <2>7. CASE next_ < chunks_
    <3>1. to = "serve" /\ Out' = Out \cup {t} /\ Cardinality(Out') = Cardinality(Out) + 1
      BY <1>0, <2>2, <2>3, <2>7, OutMoves
    <3>2. \A u \in Out' : ticket'[u] < next_' /\ ticket'[u] < chunks_
      BY <2>0, <2>4, <2>5, <2>7, <3>1, <1>d DEF PoolInv, TicketInv, Types
    <3>3. \A u, v \in Out' : ticket'[u] = ticket'[v] => u = v
      BY <2>0, <2>4, <2>5, <2>7, <3>1, <1>d DEF PoolInv, TicketInv, Types
    <3>4. \A i \in Positions(job_) : Drawn(i)' <=> Drawn(i)
      <4> TAKE i \in Positions(job_)
      <4>1. CASE i = next_
        BY <4>1, <2>0, <2>2, <2>5, <2>7, <3>1 DEF Drawn, PoolInv, Types
      <4>2. CASE i # next_
        <5>1. i < next_' <=> i < next_
          BY <4>2, <2>0, <1>n
        <5>2. (\E u \in Out' : pc'[u] = "serve" /\ ticket'[u] = i)
                <=> \E u \in Out : pc[u] = "serve" /\ ticket[u] = i
          BY <4>2, <2>4, <2>5, <3>1
        <5> QED BY <5>1, <5>2 DEF Drawn
      <4> QED BY <4>1, <4>2
    <3>5. /\ next_' <= chunks_ => remaining_ + next_' = chunks_ + Cardinality(Out')
          /\ next_' >= chunks_ => remaining_ = Cardinality(Out')
      BY <2>0, <2>7, <3>1, <1>n, <1>t
    <3>6. pc'[job_] \notin {"wait", "parked"}
      <4>1. next_ < chunks_ => pc[job_] \notin {"wait", "parked"}
        BY <1>d DEF PoolInv, TicketInv, Types
      <4> QED BY <4>1, <2>3, <2>7, <3>1, <1>d DEF Moves
    <3> QED BY <2>0, <2>1, <2>6, <3>2, <3>3, <3>4, <3>5, <3>6, <1>d
            DEF PoolInv, TicketInv
  <2>8. CASE ~(next_ < chunks_)
    <3>1. to # "serve" /\ to \in {"wait", "leave"} /\ Out' = Out
      BY <1>0, <2>2, <2>3, <2>8, OutMoves
    <3>2. \A i \in Positions(job_) : Drawn(i)' <=> Drawn(i)
      <4> TAKE i \in Positions(job_)
      <4>1. i < next_' /\ i < next_
        BY <2>0, <2>8, <1>n
      <4>2. (\E u \in Out' : pc'[u] = "serve" /\ ticket'[u] = i)
              <=> \E u \in Out : pc[u] = "serve" /\ ticket[u] = i
        BY <2>4, <3>1
      <4> QED BY <4>1, <4>2 DEF Drawn
    <3>3. /\ next_' >= chunks_ /\ remaining_ = Cardinality(Out')
          /\ next_' <= chunks_ => remaining_ + next_' = chunks_ + Cardinality(Out')
      BY <2>0, <2>8, <3>1, <1>n, <1>t
    <3>4. /\ \A u \in Out' : ticket'[u] < next_' /\ ticket'[u] < chunks_
          /\ \A u, v \in Out' : ticket'[u] = ticket'[v] => u = v
      BY <2>0, <2>4, <3>1, <1>d DEF PoolInv, TicketInv, Types
    <3> QED BY <2>0, <2>1, <2>6, <3>2, <3>3, <3>4, <1>d DEF PoolInv, TicketInv
  <2> QED BY <2>7, <2>8
<1>2. CASE Serve(t)
  <2>0. /\ pc[t] = "serve" /\ t \in Out /\ UNCHANGED <<ticket, next_, job_, chunks_, remaining_>>
        /\ served' = [served EXCEPT ![job_][ticket[t]] = @ + 1]
    BY <1>2, <1>d DEF Serve, Out, locals, guarded
  <2>1. Moves(t, "serve", "count")
    BY <1>0, <1>2, GoEffect DEF Serve, Moves
  <2>2. ticket[t] \in Positions(job_)
    BY <2>0, OutFacts
  <2>3. /\ served' = [d \in Calls |-> served'[d]]
        /\ \A d \in Calls : served'[d] \in [Positions(d) -> Nat]
        /\ \A d \in Calls : d # job_ => served'[d] = served[d]
        /\ \A j \in Positions(job_) :
              served'[job_][j] = IF j = ticket[t] THEN served[job_][ticket[t]] + 1
                                 ELSE served[job_][j]
    BY <2>0, <2>2, <1>d, ServeEffect DEF PoolInv
  <2>4. Types'
    BY <1>2, <2>3 DEF Serve, locals, guarded, PoolInv, Types
  <2>5. Out' = Out /\ UNCHANGED Counted
    BY <1>0, <2>1, OutMoves, CountedMoves DEF Draining
  <2>6. \A u \in Out : u # t => pc'[u] = pc[u] /\ ticket[u] # ticket[t]
    BY <2>0, <2>1, <1>d DEF Out, Moves, PoolInv, TicketInv
  <2>7. \A i : i = ticket[t] => ~Drawn(i) /\ Drawn(i)'
    BY <2>0, <2>1, <2>5, <2>6, <1>d DEF Drawn, Moves, PoolInv, TicketInv
  <2>8. \A i \in Positions(job_) : i # ticket[t] => (Drawn(i)' <=> Drawn(i))
    BY <2>0, <2>1, <2>5, <2>6 DEF Drawn, Moves
  <2>9. \A i \in Positions(job_) : served'[job_][i] = IF Drawn(i)' THEN 1 ELSE 0
    <3>1. \A i \in Positions(job_) : served[job_][i] = IF Drawn(i) THEN 1 ELSE 0
      BY <1>d DEF PoolInv, TicketInv
    <3>2. served'[job_][ticket[t]] = 1
      BY <2>2, <2>3, <2>7, <3>1
    <3>3. \A i \in Positions(job_) : i # ticket[t] =>
            served'[job_][i] = IF Drawn(i)' THEN 1 ELSE 0
      BY <2>3, <2>8, <3>1
    <3> QED BY <2>7, <3>2, <3>3
  <2>10. pc'[job_] \in {"wait", "parked"} => pc[job_] \in {"wait", "parked"}
    BY <2>1, <1>d DEF Moves
  <2>11. TicketInv'
    BY <2>0, <2>5, <2>9, <2>10, <1>d DEF PoolInv, TicketInv
  <2>12. \A c \in Calls : \/ pc'[c] = pc[c] /\ served'[c] = served[c]
                          \/ pc'[c] \in {"count", "wait"}
                          \/ pc[c] \in Busy /\ pc'[c] = pc[c]
    <3>1. \A c \in Calls : \/ pc'[c] = pc[c]
                           \/ pc'[c] \in {"count", "wait"}
      BY <2>1 DEF Moves
    <3>2. \A c \in Calls : served'[c] = served[c] \/ pc[c] \in Busy
      BY <2>3, <1>d
    <3> QED BY <3>1, <3>2
  <2>13. ServedInv'
    BY <2>0, <2>5, <2>12 DEF PoolInv, ServedInv, Busy, Draining
  <2> QED BY <2>4, <2>11, <2>13
<1>3. CASE CountDown(t)
  <2>0. /\ pc[t] = "count" /\ t \in Out
        /\ UNCHANGED <<ticket, next_, job_, chunks_, served>>
        /\ remaining_' = remaining_ - 1
    BY <1>3 DEF CountDown, Out, locals, guarded
  <2>1. PICK to \in {"last", "draw"} : Go(t, to)
    BY <1>3 DEF CountDown
  <2>2. Moves(t, "count", to)
    BY <1>0, <2>0, <2>1, GoEffect DEF Moves
  <2>3. remaining_ >= 1
    BY <2>0, OutFacts
  <2>4. Types'
    BY <1>3, <2>3 DEF CountDown, locals, guarded, PoolInv, Types
  <2>5. /\ Out' = Out \ {t} /\ Cardinality(Out') = Cardinality(Out) - 1
        /\ UNCHANGED Counted
    BY <1>0, <2>1, <2>2, OutMoves, CountedMoves DEF Draining
  <2>6. \A u \in Out : u # t => pc'[u] = pc[u]
    BY <2>2 DEF Out, Moves
  <2>7. \A i : Drawn(i)' <=> Drawn(i)
    BY <2>0, <2>5, <2>6 DEF Drawn
  <2>8. /\ next_ <= chunks_ => remaining_' + next_ = chunks_ + Cardinality(Out')
        /\ next_ >= chunks_ => remaining_' = Cardinality(Out')
    BY <2>0, <2>3, <2>5, <1>n, <1>t
  <2>9. pc'[job_] \in {"wait", "parked"} => pc[job_] \in {"wait", "parked"}
    BY <2>1, <2>2, <1>d DEF Moves
  <2>10. TicketInv'
    BY <2>0, <2>5, <2>7, <2>8, <2>9, <1>d DEF PoolInv, TicketInv
  <2> QED BY <2>0, <2>1, <2>2, <2>4, <2>5, <2>10, ServedFrame
<1>4. CASE NotifyLast(t)
  <2>1. Moves(t, "last", "draw")
    BY <1>0, <1>4, NotifyEffect DEF NotifyLast, Moves
  <2>2. UNCHANGED Counted
    BY <1>0, <2>1, CountedMoves DEF Draining
  <2>3. Types' /\ TicketInv'
    BY <1>4, <2>1, TicketFrame DEF NotifyLast, locals, guarded, PoolInv, Types
  <2> QED BY <1>4, <2>1, <2>2, <2>3, ServedFrame DEF NotifyLast, locals
<1> QED BY <1>1, <1>2, <1>3, <1>4 DEF DrainStep

(* Steps of the workers' loop.                                             *)
LEMMA LoopStepInv ==
    ASSUME PoolInv, NEW k \in Workers, TakeJob(k) \/ Leave(k)
    PROVE  Types' /\ TicketInv' /\ ServedInv'
<1> USE Basics DEF Labels, CallLabels, WorkerLabels
<1>0. PcOK /\ HolderInv /\ k \in Threads /\ k \notin Calls
  BY DEF PoolInv, HolderInv
<1>1. CASE TakeJob(k)
  <2>1. Types'
    BY <1>1 DEF TakeJob, guarded, PoolInv, Types
  <2>2. /\ UNCHANGED <<ticket, job_, next_, chunks_, remaining_, served>>
        /\ pc[k] = "loop"
    BY <1>1 DEF TakeJob, guarded
  <2>3. \/ UNCHANGED pc
        \/ \E to \in {"parked", "draw"} : Go(k, to)
    BY <1>1 DEF TakeJob
  <2>4. CASE UNCHANGED pc
    BY <2>1, <2>2, <2>4
       DEF PoolInv, TicketInv, ServedInv, Out, Counted, Drawn
  <2>5. ASSUME NEW to \in {"parked", "draw"}, Go(k, to)
        PROVE  TicketInv' /\ ServedInv'
    <3>1. Moves(k, "loop", to)
      BY <1>0, <2>2, <2>5, GoEffect DEF Moves
    <3>2. Counted \subseteq Counted'
      BY <3>1 DEF Counted, Moves, Draining
    <3>3. TicketInv'
      BY <1>0, <2>2, <2>5, <3>1, TicketFrame
    <3> QED BY <1>0, <2>2, <2>5, <3>1, <3>2, <3>3, ServedFrame
  <2> QED BY <2>1, <2>3, <2>4, <2>5
<1>2. CASE Leave(k)
  <2>1. Moves(k, "leave", "loop")
    BY <1>0, <1>2, NotifyEffect DEF Leave, Moves
  <2>2. active_ >= 1
    <3>1. k \in Counted
      BY <1>2 DEF Leave, Counted
    <3> QED BY <1>0, <3>1, CountedFinite, FS_EmptySet DEF HolderInv
  <2>3. Types' /\ UNCHANGED <<ticket, job_, next_, chunks_, remaining_, served>>
    BY <1>2, <2>2 DEF Leave, guarded, PoolInv, Types
  <2>4. \A c \in Calls : pc'[c] # "parked"
    BY <1>0, <1>2 DEF Leave, NotifyDone
  <2>5. TicketInv'
    BY <1>0, <2>1, <2>3, TicketFrame
  <2> QED BY <1>0, <2>1, <2>3, <2>4, <2>5, ServedFrame
<1> QED BY <1>1, <1>2

LEMMA WakeUpInv ==
    ASSUME PoolInv, NEW t \in Threads, SpuriousWakeUp(t)
    PROVE  Types' /\ TicketInv' /\ ServedInv'
<1> USE Basics DEF Labels, CallLabels, WorkerLabels
<1>0. PcOK /\ HolderInv
  BY DEF PoolInv, HolderInv
<1>1. PICK to \in (IF t \in Calls THEN {"wait"} ELSE {"loop"}) : Go(t, to)
  BY DEF SpuriousWakeUp
<1>2. Moves(t, "parked", to)
  BY <1>0, <1>1, GoEffect DEF SpuriousWakeUp, Moves
<1>3. UNCHANGED Counted
  BY <1>0, <1>2, CountedMoves DEF Draining
<1>4. Types' /\ TicketInv'
  BY <1>2, TicketFrame DEF SpuriousWakeUp, locals, guarded, PoolInv, Types
<1> QED BY <1>2, <1>3, <1>4, ServedFrame DEF SpuriousWakeUp, locals

LEMMA PoolStep == PoolInv /\ [Next]_vars => PoolInv'
<1> SUFFICES ASSUME PoolInv, [Next]_vars PROVE PoolInv'
  OBVIOUS
<1>1. HolderInv'
  BY HolderStep DEF PoolInv
<1>2. ASSUME NEW c \in Calls, CallStep(c) PROVE PoolInv'
  BY <1>1, <1>2, CallStepInv DEF PoolInv
<1>3. ASSUME NEW t \in Threads, DrainStep(t) \/ SpuriousWakeUp(t) PROVE PoolInv'
  BY <1>1, <1>3, DrainStepInv, WakeUpInv DEF PoolInv
<1>4. ASSUME NEW k \in Workers, TakeJob(k) \/ Leave(k) PROVE PoolInv'
  BY <1>1, <1>4, LoopStepInv DEF PoolInv
<1>5. CASE UNCHANGED vars
  <2>1. Types'
    BY <1>5 DEF vars, locals, guarded, PoolInv, Types
  <2>2. TicketInv'
    BY <1>5 DEF vars, locals, guarded, PoolInv, TicketInv, Out, Drawn
  <2>3. ServedInv'
    BY <1>5 DEF vars, locals, guarded, PoolInv, ServedInv, Counted
  <2> QED BY <1>1, <2>1, <2>2, <2>3 DEF PoolInv
<1> QED BY <1>2, <1>3, <1>4, <1>5 DEF Next

LEMMA PoolInvariant == Spec => []PoolInv
<1>1. Init => PoolInv
  BY PoolInit
<1>2. PoolInv /\ [Next]_vars => PoolInv'
  BY PoolStep
<1> QED BY <1>1, <1>2, PTL DEF Spec

-----------------------------------------------------------------------------
(* Types; in particular neither remaining_ nor active_ ever wraps.         *)
THEOREM TypeCorrect == Spec => []TypeOK
<1>1. PoolInv => TypeOK
  BY DEF PoolInv, HolderInv, PcOK, Types, TypeOK
<1> QED BY <1>1, PoolInvariant, PTL

(* Whoever draws, serves or counts down does it for the published job,     *)
(* whose call has not returned.                                            *)
THEOREM StragglersAreExcluded == Spec => []NoStraggler
<1>1. PoolInv => NoStraggler
  BY DrainFacts DEF PoolInv, NoStraggler, Busy
<1> QED BY <1>1, PoolInvariant, PTL

(* A waiting caller has a counted worker that will notify it.              *)
THEOREM CompletionIsNotLost == Spec => []NoLostCompletion
<1>1. PoolInv => NoLostCompletion
  BY DEF PoolInv, ServedInv, NoLostCompletion, Counted
<1> QED BY <1>1, PoolInvariant, PTL

-----------------------------------------------------------------------------
(* The pool implements the contract of row_store_lookup.                   *)
LEMMA ContractInit == Init => Contract!LookupInit
BY Basics DEF Init, Contract!LookupInit, Contract!Positions, Positions

(* Serving a position for the first time is a ServeOne of the contract.    *)
LEMMA ContractServe ==
    ASSUME Types, NEW c \in Calls, NEW i \in Positions(c), served[c][i] = 0,
           served' = [served EXCEPT ![c][i] = @ + 1], pc[c] # "returned",
           \A d \in Calls : pc'[d] = "returned" <=> pc[d] = "returned"
    PROVE  Contract!LookupNext
<1>1. served' = [served EXCEPT ![c][i] = 1]
  BY DEF Types
<1>2. Contract!ServeOne(c)
  BY <1>1 DEF Contract!ServeOne, Contract!Positions, Positions
<1> QED BY <1>2 DEF Contract!LookupNext

(* A call that returns with every position served is a Return.             *)
LEMMA ContractReturn ==
    ASSUME PoolInv, NEW c \in Calls, Go(c, "returned"), pc[c] # "returned",
           UNCHANGED served, PoolInv'
    PROVE  Contract!LookupNext
<1>1. pc'[c] = "returned" /\ \A d \in Calls \ {c} : pc'[d] = pc[d]
  BY Basics DEF Go, PoolInv, HolderInv, PcOK
<1>2. \A i \in Positions(c) : served[c][i] = 1
  BY <1>1 DEF PoolInv, ServedInv
<1>3. Contract!Return(c)
  BY <1>1, <1>2 DEF Contract!Return, Contract!Positions, Positions
<1> QED BY <1>3 DEF Contract!LookupNext

(* Every other step is invisible to the contract.                          *)
LEMMA ContractStutter ==
    ASSUME PcOK, NEW t \in Threads,
           \/ t \in Calls /\ (Lookup(t) \/ LockCaller(t) \/ Publish(t) \/ NotifyReady(t))
           \/ Draw(t) \/ CountDown(t) \/ NotifyLast(t) \/ SpuriousWakeUp(t)
           \/ t \in Workers /\ (TakeJob(t) \/ Leave(t))
           \/ UNCHANGED vars
    PROVE  UNCHANGED Contract!lookupVars
<1>1. UNCHANGED served
  BY DEF Lookup, LockCaller, Publish, NotifyReady, Draw, CountDown, NotifyLast,
         SpuriousWakeUp, TakeJob, Leave, vars
<1>2. \A d \in Calls : pc'[d] = "returned" <=> pc[d] = "returned"
  <2> USE Basics DEF PcOK
  <2>1. CASE t \in Calls /\ (Lookup(t) \/ LockCaller(t) \/ Publish(t))
    BY <2>1 DEF Lookup, LockCaller, Publish, Go
  <2>2. CASE t \in Calls /\ NotifyReady(t)
    BY <2>2 DEF NotifyReady
  <2>3. CASE Draw(t) \/ CountDown(t) \/ SpuriousWakeUp(t)
    BY <2>3 DEF Draw, CountDown, SpuriousWakeUp, Go
  <2>4. CASE NotifyLast(t)
    BY <2>4 DEF NotifyLast, NotifyDone
  <2>5. CASE t \in Workers /\ (TakeJob(t) \/ Leave(t))
    BY <2>5 DEF TakeJob, Leave, Go, NotifyDone
  <2>6. CASE UNCHANGED vars
    BY <2>6 DEF vars
  <2> QED BY <2>1, <2>2, <2>3, <2>4, <2>5, <2>6
<1> QED BY <1>1, <1>2 DEF Contract!lookupVars

LEMMA ContractStep ==
    ASSUME PoolInv, PoolInv', [Next]_vars
    PROVE  [Contract!LookupNext]_(Contract!lookupVars)
<1> USE Basics
<1>0. PcOK /\ HolderInv /\ Types
  BY DEF PoolInv, HolderInv
<1>1. ASSUME NEW c \in Calls, SerialStep(c) PROVE Contract!LookupNext
  <2>1. CASE ticket[c] < Count[c]
    <3>1. /\ served' = [served EXCEPT ![c][ticket[c]] = @ + 1]
          /\ UNCHANGED pc /\ pc[c] = "serial"
      BY <1>0, <1>1, <2>1 DEF SerialStep, Types
    <3>2. ticket[c] \in Positions(c)
      BY <1>0, <2>1 DEF Types, Positions
    <3>3. served[c][ticket[c]] = 0
      BY <1>0, <3>1, <3>2 DEF PoolInv, ServedInv, Types
    <3> QED BY <1>0, <3>1, <3>2, <3>3, ContractServe
  <2>2. CASE ~(ticket[c] < Count[c])
    <3>1. Go(c, "returned") /\ UNCHANGED served /\ pc[c] = "serial"
      BY <1>1, <2>2 DEF SerialStep
    <3> QED BY <3>1, ContractReturn
  <2> QED BY <2>1, <2>2
<1>2. ASSUME NEW c \in Calls, AwaitDone(c)
      PROVE  Contract!LookupNext \/ UNCHANGED Contract!lookupVars
  <2>1. CASE Go(c, "returned")
    BY <1>2, <2>1, ContractReturn DEF AwaitDone
  <2>2. CASE Go(c, "parked")
    <3>1. \A d \in Calls : pc'[d] = "returned" <=> pc[d] = "returned"
      BY <1>0, <1>2, <2>2 DEF AwaitDone, Go, PcOK
    <3> QED BY <1>2, <3>1 DEF AwaitDone, Contract!lookupVars
  <2> QED BY <1>2, <2>1, <2>2 DEF AwaitDone
<1>3. ASSUME NEW t \in Threads, Serve(t) PROVE Contract!LookupNext
  <2>1. t \in Out /\ pc[t] = "serve"
    BY <1>3 DEF Serve, Out
  <2>2. ticket[t] \in Positions(job_) /\ pc[t] \in Draining
    BY <2>1, OutFacts
  <2>3. /\ job_ \in Calls /\ job_ # nullptr /\ Work(t) = job_ /\ pc[job_] \in Busy
    BY <1>0, <2>2, DrainFacts
  <2>4. \A i \in Positions(job_) : i = ticket[t] => served[job_][i] = 0
    BY <2>1, <2>3 DEF PoolInv, TicketInv, Drawn
  <2>5. served' = [served EXCEPT ![job_][ticket[t]] = @ + 1]
    BY <1>3, <2>3 DEF Serve
  <2>6. \A d \in Calls : pc'[d] = "returned" <=> pc[d] = "returned"
    BY <1>0, <1>3 DEF Serve, Go, PcOK
  <2>7. pc[job_] # "returned"
    BY <2>3 DEF Busy, Draining
  <2> QED BY <1>0, <2>2, <2>3, <2>4, <2>5, <2>6, <2>7, ContractServe
<1>4. ASSUME NEW c \in Calls, CallStep(c)
      PROVE  Contract!LookupNext \/ UNCHANGED Contract!lookupVars
  BY <1>0, <1>1, <1>2, <1>4, ContractStutter DEF CallStep
<1>5. ASSUME NEW t \in Threads, DrainStep(t) \/ SpuriousWakeUp(t)
      PROVE  Contract!LookupNext \/ UNCHANGED Contract!lookupVars
  BY <1>0, <1>3, <1>5, ContractStutter DEF DrainStep
<1>6. ASSUME NEW k \in Workers, TakeJob(k) \/ Leave(k)
      PROVE  UNCHANGED Contract!lookupVars
  BY <1>0, <1>6, ContractStutter
<1>7. CASE UNCHANGED vars
  <2>1. UNCHANGED <<served, pc>>
    BY <1>7 DEF vars
  <2> QED BY <2>1 DEF Contract!lookupVars
<1> QED BY <1>4, <1>5, <1>6, <1>7 DEF Next

(* Every position is served exactly once, while its call is under way, and *)
(* a call returns only when all of its positions were.                     *)
THEOREM ImplementsRowLookup == Spec => LookupSpec
<1>1. Init => Contract!LookupInit
  BY ContractInit
<1>2. PoolInv /\ PoolInv' /\ [Next]_vars => [Contract!LookupNext]_(Contract!lookupVars)
  BY ContractStep
<1> QED BY <1>1, <1>2, PoolInvariant, PTL DEF Spec, LookupSpec, Contract!LookupSpec
=============================================================================
