------------------------------ MODULE RowCache ------------------------------
(***************************************************************************)
(* The row cache of adapter/row_store.cpp: serve of one position and       *)
(* fetch_row under it, by any number of threads of the pool.               *)
(*                                                                         *)
(* A row is two halves, weights and scales, copied one after the other.    *)
(* A set of the cache is guarded by one of kLocks mutexes; a section under *)
(* it is split where the two halves are copied, so that it is the mutex,   *)
(* and not the grain of the model, that keeps a row whole.  The rows of    *)
(* the file never change, so reading one is a single step, which takes in  *)
(* the miss counter after it.  A work item is a finite list of ids:        *)
(* MaxLookups bounds how many positions are served in all.                 *)
(***************************************************************************)
EXTENDS Integers, FiniteSets

CONSTANTS
    Threads,
    rows,            (* rows of the table                                  *)
    row_lo, row_hi,  (* this rank owns row_lo .. row_hi - 1                *)
    sets, ways,      (* the geometry of the cache; sets = 0 disables it    *)
    kLocks,          (* mutexes, shared by the sets                        *)
    kBits,           (* bits of a byte of the seen bitmap                  *)
    MaxLookups,      (* bound                                              *)
    none

ASSUME CacheAssumption ==
    /\ IsFiniteSet(Threads) /\ none \notin Threads
    /\ rows \in Nat /\ row_lo \in Nat /\ row_hi \in Nat
    /\ row_lo <= row_hi /\ row_hi <= rows
    /\ sets \in Nat /\ ways \in Nat \ {0}
    /\ kLocks \in Nat \ {0} /\ kBits \in Nat \ {0}
    /\ MaxLookups \in Nat

VARIABLES
    pc, id, row, way,  (* locals: next step, row id, row buffer, way       *)
    old,               (* local: the byte of the bitmap last read          *)
    locks,             (* locks[l]: the thread that holds mutex l, or none *)
    keys,              (* keys[s][w]: id + 1 of the row cached there, or 0 *)
    cache,             (* cache[s][w]: the two halves stored there         *)
    victim,            (* victim[s]: the way the next miss replaces        *)
    seen,              (* seen[b]: the rows marked in byte b               *)
    hits, misses, evictions, unique_ids,
    started            (* owned positions whose fetch began                *)

locals == <<pc, id, row, way, old>>
table == <<keys, cache, victim>>
counters == <<hits, misses, evictions, unique_ids, started>>
vars == <<locals, locks, table, seen, counters>>

Ids == 0 .. rows - 1
Owned == row_lo .. row_hi - 1
Sets == 0 .. sets - 1
Ways == 0 .. ways - 1
Slots == Sets \X Ways

(* Row i of the checkpoint, and what serve stores for a row of another     *)
(* rank (memset 0; the ranks' results are added up).                       *)
Row(i) == [weight |-> i, scale |-> i]
Zero == [weight |-> none, scale |-> none]

SetOf(i) == i % sets
LockOf(i) == SetOf(i) % kLocks
ByteOf(i) == (i - row_lo) \div kBits
Bytes == {ByteOf(i) : i \in Owned}

Go(t, label) == pc' = [pc EXCEPT ![t] = label]

Init ==
    /\ pc = [t \in Threads |-> "idle"]
    /\ id = [t \in Threads |-> 0]
    /\ row = [t \in Threads |-> Zero]
    /\ way = [t \in Threads |-> 0]
    /\ old = [t \in Threads |-> {}]
    /\ locks = [l \in 0 .. kLocks - 1 |-> none]
    /\ keys = [s \in Sets |-> [w \in Ways |-> 0]]
    /\ cache = [s \in Sets |-> [w \in Ways |-> Zero]]
    /\ victim = [s \in Sets |-> 0]
    /\ seen = [b \in Bytes |-> {}]
    /\ hits = 0 /\ misses = 0 /\ evictions = 0 /\ unique_ids = 0
    /\ started = 0

-----------------------------------------------------------------------------
(* serve: the next position of somebody's list.                            *)

ServeUnowned(t, i) ==
    /\ pc[t] = "idle" /\ i \notin Owned
    /\ id' = [id EXCEPT ![t] = i]
    /\ row' = [row EXCEPT ![t] = Zero]
    /\ Go(t, "deliver")
    /\ UNCHANGED <<way, old, locks, table, seen, counters>>

ServeOwned(t, i) ==
    /\ pc[t] = "idle" /\ i \in Owned
    /\ id' = [id EXCEPT ![t] = i]
    /\ Go(t, IF sets > 0 THEN "probe" ELSE "read")
    /\ started' = started + 1
    /\ UNCHANGED <<row, way, old, locks, table, seen, hits, misses, evictions,
                   unique_ids>>

(* The row is copied to the output buffers.                                *)
Deliver(t) ==
    /\ pc[t] = "deliver"
    /\ Go(t, "idle")
    /\ UNCHANGED <<id, row, way, old, locks, table, seen, counters>>

-----------------------------------------------------------------------------
(* fetch_row: the hit path, under the mutex of the row's set.              *)

Matches(i, w) == keys[SetOf(i)][w] = i + 1

(* lock_guard.                                                             *)
Lock(t) ==
    /\ locks[LockOf(id[t])] = none
    /\ locks' = [locks EXCEPT ![LockOf(id[t])] = t]
Unlock(t) == locks' = [locks EXCEPT ![LockOf(id[t])] = none]

ProbeMiss(t) ==
    /\ pc[t] = "probe" /\ locks[LockOf(id[t])] = none
    /\ \A w \in Ways : ~Matches(id[t], w)
    /\ Go(t, "read")
    /\ UNCHANGED <<id, row, way, old, locks, table, seen, counters>>

(* The first way that matches; a row can sit in two.                       *)
ProbeHit(t) ==
    /\ pc[t] = "probe" /\ Lock(t)
    /\ \E w \in Ways :
          /\ Matches(id[t], w)
          /\ \A v \in Ways : Matches(id[t], v) => w <= v
          /\ way' = [way EXCEPT ![t] = w]
          /\ row' = [row EXCEPT ![t].weight = cache[SetOf(id[t])][w].weight]
    /\ Go(t, "copy")
    /\ UNCHANGED <<id, old, table, seen, counters>>

(* Mutant: the mutex is not released.                                      *)
CopyRest_KeepsLock(t) ==
    /\ pc[t] = "copy"
    /\ row' = [row EXCEPT ![t].scale = cache[SetOf(id[t])][way[t]].scale]
    /\ hits' = hits + 1
    /\ Go(t, "deliver")
    /\ UNCHANGED <<id, way, old, locks, table, seen, misses, evictions, unique_ids,
                   started>>

CopyRest(t) ==
    /\ pc[t] = "copy"
    /\ row' = [row EXCEPT ![t].scale = cache[SetOf(id[t])][way[t]].scale]
    /\ hits' = hits + 1
    /\ Unlock(t)
    /\ Go(t, "deliver")
    /\ UNCHANGED <<id, way, old, table, seen, misses, evictions, unique_ids, started>>

-----------------------------------------------------------------------------
(* fetch_row: the miss path.  The read is outside every mutex.             *)

Read(t) ==
    /\ pc[t] = "read"
    /\ row' = [row EXCEPT ![t] = Row(id[t])]
    /\ misses' = misses + 1
    /\ Go(t, "mark")
    /\ UNCHANGED <<id, way, old, locks, table, seen, hits, evictions, unique_ids,
                   started>>

AfterMark == IF sets > 0 THEN "insert" ELSE "deliver"

(* The bit of the row in the seen bitmap: a load, then compare-exchange    *)
(* until it succeeds or the load shows that another thread set the bit.    *)
LoadSeen(t) ==
    /\ pc[t] = "mark"
    /\ old' = [old EXCEPT ![t] = seen[ByteOf(id[t])]]
    /\ Go(t, IF id[t] \in seen[ByteOf(id[t])] THEN AfterMark ELSE "swap")
    /\ UNCHANGED <<id, row, way, locks, table, seen, counters>>

(* Mutant: the failed exchange does not look at the byte it found.         *)
SwapFails_Counts(t) ==
    /\ pc[t] = "swap" /\ seen[ByteOf(id[t])] # old[t]
    /\ old' = [old EXCEPT ![t] = seen[ByteOf(id[t])]]
    /\ Go(t, IF id[t] \in seen[ByteOf(id[t])] THEN "count" ELSE "swap")
    /\ UNCHANGED <<id, row, way, locks, table, seen, counters>>

SwapFails(t) ==
    /\ pc[t] = "swap" /\ seen[ByteOf(id[t])] # old[t]
    /\ old' = [old EXCEPT ![t] = seen[ByteOf(id[t])]]
    /\ Go(t, IF id[t] \in seen[ByteOf(id[t])] THEN AfterMark ELSE "swap")
    /\ UNCHANGED <<id, row, way, locks, table, seen, counters>>

Swap(t) ==
    /\ pc[t] = "swap" /\ seen[ByteOf(id[t])] = old[t]
    /\ seen' = [seen EXCEPT ![ByteOf(id[t])] = old[t] \cup {id[t]}]
    /\ Go(t, "count")
    /\ UNCHANGED <<id, row, way, old, locks, table, counters>>

CountUnique(t) ==
    /\ pc[t] = "count"
    /\ unique_ids' = unique_ids + 1
    /\ Go(t, AfterMark)
    /\ UNCHANGED <<id, row, way, old, locks, table, seen, hits, misses, evictions,
                   started>>

(* Mutants: the cursor is not wrapped; the slot is overwritten without the *)
(* mutex.                                                                  *)
Evict_NoWrap(t) ==
    /\ pc[t] = "insert" /\ Lock(t)
    /\ LET s == SetOf(id[t])  w == victim[s] IN
          /\ way' = [way EXCEPT ![t] = w]
          /\ evictions' = IF keys[s][w] # 0 THEN evictions + 1 ELSE evictions
          /\ victim' = [victim EXCEPT ![s] = w + 1]
          /\ cache' = [cache EXCEPT ![s][w].weight = row[t].weight]
    /\ Go(t, "fill")
    /\ UNCHANGED <<id, row, old, keys, seen, hits, misses, unique_ids, started>>
Evict_NoLock(t) ==
    /\ pc[t] = "insert"
    /\ LET s == SetOf(id[t])  w == victim[s] IN
          /\ way' = [way EXCEPT ![t] = w]
          /\ evictions' = IF keys[s][w] # 0 THEN evictions + 1 ELSE evictions
          /\ victim' = [victim EXCEPT ![s] = (w + 1) % ways]
          /\ cache' = [cache EXCEPT ![s][w].weight = row[t].weight]
    /\ Go(t, "fill")
    /\ UNCHANGED <<id, row, old, locks, keys, seen, hits, misses, unique_ids, started>>

(* The victim's slot is overwritten half by half, then its key.            *)
Evict(t) ==
    /\ pc[t] = "insert" /\ Lock(t)
    /\ LET s == SetOf(id[t])  w == victim[s] IN
          /\ way' = [way EXCEPT ![t] = w]
          /\ evictions' = IF keys[s][w] # 0 THEN evictions + 1 ELSE evictions
          /\ victim' = [victim EXCEPT ![s] = (w + 1) % ways]
          /\ cache' = [cache EXCEPT ![s][w].weight = row[t].weight]
    /\ Go(t, "fill")
    /\ UNCHANGED <<id, row, old, keys, seen, hits, misses, unique_ids, started>>

Fill(t) ==
    /\ pc[t] = "fill"
    /\ cache' = [cache EXCEPT ![SetOf(id[t])][way[t]].scale = row[t].scale]
    /\ keys' = [keys EXCEPT ![SetOf(id[t])][way[t]] = id[t] + 1]
    /\ Unlock(t)
    /\ Go(t, "deliver")
    /\ UNCHANGED <<id, row, way, old, victim, seen, counters>>

-----------------------------------------------------------------------------
FetchStep(t) ==
    \/ ProbeMiss(t) \/ ProbeHit(t) \/ CopyRest(t)
    \/ Read(t) \/ LoadSeen(t) \/ SwapFails(t) \/ Swap(t) \/ CountUnique(t)
    \/ Evict(t) \/ Fill(t) \/ Deliver(t)

Next ==
    \E t \in Threads :
        \/ FetchStep(t)
        \/ started < MaxLookups /\ \E i \in Ids : ServeUnowned(t, i) \/ ServeOwned(t, i)

Spec == Init /\ [][Next]_vars

(* Threads that run keep running.                                          *)
FairSpec == Spec /\ \A t \in Threads : WF_vars(FetchStep(t))

-----------------------------------------------------------------------------
Labels == {"idle", "probe", "copy", "read", "mark", "swap", "count", "insert",
           "fill", "deliver"}
Halves == Ids \cup {none}
Buffers == [weight : Halves, scale : Halves]

At(labels) == {t \in Threads : pc[t] \in labels}

TypeOK ==
    /\ pc \in [Threads -> Labels]
    /\ id \in [Threads -> Nat]
    /\ row \in [Threads -> Buffers]
    /\ way \in [Threads -> Ways]
    /\ old \in [Threads -> SUBSET Owned]
    /\ locks \in [0 .. kLocks - 1 -> Threads \cup {none}]
    /\ keys \in [Sets -> [Ways -> 0 .. rows]]
    /\ cache \in [Sets -> [Ways -> Buffers]]
    /\ victim \in [Sets -> Ways]
    /\ seen \in [Bytes -> SUBSET Owned]
    /\ {hits, misses, evictions, unique_ids, started} \subseteq Nat

(* What is delivered is the row that was asked for, whole: never a half of *)
(* another row, a slot that was being replaced, or a row of another rank.  *)
RowsAreExact ==
    \A t \in Threads : pc[t] = "deliver" =>
        row[t] = IF id[t] \in Owned THEN Row(id[t]) ELSE Zero

(* evictions and the slots in use account for every miss: each miss adds a *)
(* row to the cache, into an empty slot or over a live one.                *)
Live == {p \in Slots : keys[p[1]][p[2]] # 0}
Missing == At({"mark", "swap", "count", "insert"})
Filling == {t \in Threads : pc[t] = "fill" /\ keys[SetOf(id[t])][way[t]] = 0}
EvictionsAreExact ==
    sets > 0 => misses = evictions + Cardinality(Live) + Cardinality(Filling)
                         + Cardinality(Missing)

(* unique_ids counts each row of the bitmap once, however many threads     *)
(* missed it together or changed its byte.                                 *)
Marked == UNION {seen[b] : b \in Bytes}
Counting == At({"count"})
UniqueIdsAreExact == unique_ids + Cardinality(Counting) = Cardinality(Marked)

(* Hits and misses add up to the positions served.                         *)
InFlight == At({"probe", "copy", "read"})
EveryFetchIsBooked == hits + misses + Cardinality(InFlight) = started

(* The counters the gate scripts compute rates from account for every      *)
(* fetch, slot and row, though some are booked outside every mutex.        *)
CountersAreExact == EvictionsAreExact /\ UniqueIdsAreExact /\ EveryFetchIsBooked

(* A fetch ends: no thread waits for a mutex for ever, or loops in the     *)
(* compare-exchange.                                                       *)
FetchesEnd == \A t \in Threads : pc[t] # "idle" ~> pc[t] = "idle"
=============================================================================
