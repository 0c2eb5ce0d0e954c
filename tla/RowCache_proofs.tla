--------------------------- MODULE RowCache_proofs ---------------------------
(***************************************************************************)
(* Theorems about RowCache for any number of threads, any table, any owned *)
(* range and any geometry of the cache, the disabled one included.         *)
(***************************************************************************)
EXTENDS RowCache, FiniteSetTheorems, TLAPS

(* Who is inside a section under a mutex holds it.                         *)
Critical == {"copy", "fill"}
LockInv ==
    \A t \in Threads :
        /\ pc[t] \notin {"idle", "deliver"} => id[t] \in Owned
        /\ pc[t] \in {"probe", "insert"} \cup Critical => sets > 0
        /\ pc[t] \in Critical => locks[LockOf(id[t])] = t

(* The buffer of a thread that has read its row, and of one that is        *)
(* copying it out of the cache.                                            *)
RowInv ==
    /\ \A t \in Threads :
        /\ pc[t] \in {"mark", "swap", "count", "insert", "fill"} =>
              row[t] = Row(id[t])
        /\ pc[t] = "copy" =>
              /\ row[t].weight = id[t]
              /\ keys[SetOf(id[t])][way[t]] = id[t] + 1
    /\ RowsAreExact

(* A slot holds the row its key names, unless somebody is overwriting it.  *)
Writing(s, w) ==
    \E t \in Threads : pc[t] = "fill" /\ SetOf(id[t]) = s /\ way[t] = w
SlotInv ==
    /\ \A s \in Sets, w \in Ways :
          keys[s][w] # 0 /\ ~Writing(s, w) => cache[s][w] = Row(keys[s][w] - 1)
    /\ \A t \in Threads :
          pc[t] = "fill" => cache[SetOf(id[t])][way[t]].weight = id[t]

(* A row is marked in its own byte, and a thread swaps only a byte in      *)
(* which it did not see its row.                                           *)
SeenInv ==
    /\ \A b \in Bytes : \A i \in seen[b] : i \in Owned /\ ByteOf(i) = b
    /\ \A t \in Threads : pc[t] = "swap" => id[t] \notin old[t]

RowInvariant == TypeOK /\ LockInv /\ RowInv /\ SlotInv

-----------------------------------------------------------------------------
(* Arithmetic of the geometry.                                             *)
LEMMA Geometry ==
    /\ rows \in Nat /\ row_lo \in Nat /\ row_hi \in Nat /\ sets \in Nat
    /\ ways \in Nat \ {0} /\ none \notin Threads
    /\ Owned \subseteq Ids /\ Ids \subseteq Nat /\ 0 \in Ways
    /\ sets > 0 => \A i \in Ids : SetOf(i) \in Sets /\ LockOf(i) \in 0 .. kLocks - 1
    /\ \A i \in Ids : i + 1 \in 0 .. rows /\ i + 1 # 0 /\ (i + 1) - 1 = i
    /\ \A w \in Ways : (w + 1) % ways \in Ways
    /\ \A i \in Owned : ByteOf(i) \in Bytes
<1>1. \A a \in Nat, b \in Nat \ {0} : a % b \in 0 .. b - 1
  OBVIOUS
<1>2. Owned \subseteq Ids /\ Ids \subseteq Nat /\ 0 \in Ways
  BY CacheAssumption DEF Owned, Ids, Ways
<1>3. ASSUME sets > 0, NEW i \in Ids
      PROVE  SetOf(i) \in Sets /\ LockOf(i) \in 0 .. kLocks - 1
  <2>1. SetOf(i) \in Sets
    BY <1>1, <1>2, <1>3, CacheAssumption DEF SetOf, Sets
  <2>2. SetOf(i) \in Nat
    BY <2>1, CacheAssumption DEF Sets
  <2> QED BY <2>1, <2>2, <1>1, CacheAssumption DEF LockOf
<1>4. \A i \in Ids : i + 1 \in 0 .. rows /\ i + 1 # 0 /\ (i + 1) - 1 = i
  BY CacheAssumption DEF Ids
<1>5. \A w \in Ways : (w + 1) % ways \in Ways
  BY <1>1, CacheAssumption DEF Ways
<1>6. \A i \in Owned : ByteOf(i) \in Bytes
  BY DEF Bytes
<1> QED BY <1>2, <1>3, <1>4, <1>5, <1>6, CacheAssumption

LEMMA RowTypes == /\ \A i \in Ids : Row(i) \in Buffers
                  /\ Zero \in Buffers
                  /\ Ids \subseteq Halves
BY DEF Row, Zero, Buffers, Halves

(* Two threads are never in sections of one set.                           *)
LEMMA Exclusive ==
    ASSUME LockInv, NEW t \in Threads, NEW u \in Threads, pc[u] \in Critical,
           SetOf(id[t]) = SetOf(id[u])
    PROVE  /\ pc[t] \in Critical => t = u
           /\ locks[LockOf(id[t])] # none
BY Geometry DEF LockInv, LockOf

LEMMA RowInit == Init => RowInvariant
<1> SUFFICES ASSUME Init PROVE RowInvariant
  OBVIOUS
<1>1. TypeOK
  BY Geometry, RowTypes, CacheAssumption DEF Init, TypeOK, Labels, Sets
<1>2. \A t \in Threads : pc[t] = "idle"
  BY DEF Init
<1>3. \A s \in Sets, w \in Ways : keys[s][w] = 0
  BY DEF Init
<1> QED BY <1>1, <1>2, <1>3
        DEF RowInvariant, LockInv, RowInv, RowsAreExact, SlotInv, Critical

(* A step of one thread outside every mutex.                               *)
LEMMA UnlockedStep ==
    ASSUME RowInvariant, TypeOK', NEW t \in Threads, NEW to, Go(t, to),
           pc[t] \notin Critical, to \notin Critical,
           UNCHANGED <<locks, table, way>>,
           \A u \in Threads \ {t} : id'[u] = id[u] /\ row'[u] = row[u],
           to \notin {"idle", "deliver"} => id'[t] \in Owned,
           to \in {"probe", "insert"} => sets > 0,
           to \in {"mark", "swap", "count", "insert"} => row'[t] = Row(id'[t]),
           to = "deliver" => row'[t] = IF id'[t] \in Owned THEN Row(id'[t]) ELSE Zero
    PROVE  RowInvariant'
<1>1. pc'[t] = to /\ \A u \in Threads \ {t} : pc'[u] = pc[u]
  BY DEF Go, RowInvariant, TypeOK
<1>2. UNCHANGED <<locks, keys, cache, way>>
  BY DEF table
<1>3. LockInv'
  BY <1>1, <1>2 DEF RowInvariant, LockInv, LockOf, SetOf, Critical
<1>4. RowInv'
  BY <1>1, <1>2 DEF RowInvariant, RowInv, RowsAreExact, SetOf, Critical
<1>5. \A s, w : Writing(s, w)' <=> Writing(s, w)
  BY <1>1, <1>2 DEF Writing, SetOf, Critical
<1>6. SlotInv'
  BY <1>1, <1>2, <1>5 DEF RowInvariant, SlotInv, SetOf, Critical
<1> QED BY <1>3, <1>4, <1>6 DEF RowInvariant

LEMMA UnlockedStepInv ==
    ASSUME RowInvariant, NEW t \in Threads,
           \/ \E i \in Ids : ServeUnowned(t, i) \/ ServeOwned(t, i)
           \/ Deliver(t) \/ ProbeMiss(t) \/ Read(t) \/ LoadSeen(t)
           \/ SwapFails(t) \/ Swap(t) \/ CountUnique(t)
    PROVE  RowInvariant'
<1> USE Geometry, RowTypes DEF Labels, Critical, AfterMark
<1>0. TypeOK /\ LockInv /\ RowInv
  BY DEF RowInvariant
<1>1. ASSUME NEW i \in Ids, ServeUnowned(t, i) PROVE RowInvariant'
  <2>1. TypeOK'
    BY <1>0, <1>1 DEF ServeUnowned, Go, table, counters, TypeOK
  <2>2. row'[t] = Zero /\ id'[t] = i
    BY <1>0, <1>1 DEF ServeUnowned, TypeOK
  <2>3. \A u \in Threads \ {t} : id'[u] = id[u] /\ row'[u] = row[u]
    BY <1>0, <1>1 DEF ServeUnowned, TypeOK
  <2> QED BY <1>1, <2>1, <2>2, <2>3, UnlockedStep DEF ServeUnowned
<1>2. ASSUME NEW i \in Ids, ServeOwned(t, i) PROVE RowInvariant'
  <2>1. TypeOK'
    BY <1>0, <1>2 DEF ServeOwned, Go, table, TypeOK
  <2>2. id'[t] = i /\ \A u \in Threads \ {t} : id'[u] = id[u] /\ row'[u] = row[u]
    BY <1>0, <1>2 DEF ServeOwned, TypeOK
  <2>3. PICK to \in {"probe", "read"} : Go(t, to) /\ (to = "probe" => sets > 0)
    BY <1>2 DEF ServeOwned
  <2> QED BY <1>2, <2>1, <2>2, <2>3, UnlockedStep DEF ServeOwned
<1>3. CASE Deliver(t)
  <2>1. TypeOK'
    BY <1>0, <1>3 DEF Deliver, Go, table, counters, TypeOK
  <2> QED BY <1>3, <2>1, UnlockedStep DEF Deliver
<1>4. CASE ProbeMiss(t)
  <2>1. TypeOK'
    BY <1>0, <1>4 DEF ProbeMiss, Go, table, counters, TypeOK
  <2>2. id[t] \in Owned
    BY <1>0, <1>4 DEF ProbeMiss, LockInv
  <2> QED BY <1>4, <2>1, <2>2, UnlockedStep DEF ProbeMiss
<1>5. CASE Read(t)
  <2>1. id[t] \in Owned
    BY <1>0, <1>5 DEF Read, LockInv
  <2>2. TypeOK'
    BY <1>0, <1>5, <2>1 DEF Read, Go, table, TypeOK
  <2>3. row'[t] = Row(id[t]) /\ \A u \in Threads \ {t} : row'[u] = row[u]
    BY <1>0, <1>5 DEF Read, TypeOK
  <2> QED BY <1>5, <2>1, <2>2, <2>3, UnlockedStep DEF Read
<1>6. ASSUME LoadSeen(t) \/ SwapFails(t) \/ Swap(t) \/ CountUnique(t)
      PROVE  RowInvariant'
  <2>1. id[t] \in Owned /\ row[t] = Row(id[t]) /\ pc[t] \in {"mark", "swap", "count"}
    BY <1>0, <1>6 DEF LoadSeen, SwapFails, Swap, CountUnique, LockInv, RowInv
  <2>2. ByteOf(id[t]) \in Bytes
    BY <2>1
  <2>3. TypeOK'
    <3>1. CASE LoadSeen(t) \/ SwapFails(t)
      <4>1. /\ old' = [old EXCEPT ![t] = seen[ByteOf(id[t])]]
            /\ \E to \in Labels : pc' = [pc EXCEPT ![t] = to]
            /\ UNCHANGED <<id, row, way, locks, keys, cache, victim, seen,
                           hits, misses, evictions, unique_ids, started>>
        BY <3>1 DEF LoadSeen, SwapFails, Go, table, counters
      <4>2. old' \in [Threads -> SUBSET Owned] /\ pc' \in [Threads -> Labels]
        BY <1>0, <2>2, <4>1 DEF TypeOK
      <4> QED BY <1>0, <4>1, <4>2 DEF TypeOK
    <3>2. CASE Swap(t)
      BY <1>0, <2>1, <2>2, <3>2 DEF Swap, Go, table, counters, TypeOK
    <3>3. CASE CountUnique(t)
      BY <1>0, <3>3 DEF CountUnique, Go, table, TypeOK
    <3> QED BY <1>6, <3>1, <3>2, <3>3
  <2>4. PICK to \in {"insert", "deliver", "swap", "count"} :
          Go(t, to) /\ (to = "insert" => sets > 0)
    BY <1>6 DEF LoadSeen, SwapFails, Swap, CountUnique
  <2>5. UNCHANGED <<id, row, way, locks, table>>
    BY <1>6 DEF LoadSeen, SwapFails, Swap, CountUnique
  <2> QED BY <2>1, <2>3, <2>4, <2>5, UnlockedStep
<1> QED BY <1>1, <1>2, <1>3, <1>4, <1>5, <1>6

-----------------------------------------------------------------------------
(* Sections under a mutex.                                                 *)
LEMMA ProbeHitInv ==
    ASSUME RowInvariant, NEW t \in Threads, ProbeHit(t)
    PROVE  RowInvariant'
<1> USE Geometry, RowTypes DEF Labels
<1>0. TypeOK /\ LockInv /\ RowInv /\ SlotInv
  BY DEF RowInvariant
<1>1. pc[t] = "probe" /\ id[t] \in Owned /\ sets > 0 /\ SetOf(id[t]) \in Sets
      /\ LockOf(id[t]) \in 0 .. kLocks - 1
  BY <1>0 DEF ProbeHit, LockInv
<1>2. /\ locks[LockOf(id[t])] = none
      /\ locks' = [locks EXCEPT ![LockOf(id[t])] = t]
      /\ UNCHANGED <<id, old, keys, cache, victim, seen, counters>>
  BY DEF ProbeHit, Lock, table
<1>3. PICK w \in Ways :
        /\ keys[SetOf(id[t])][w] = id[t] + 1
        /\ way' = [way EXCEPT ![t] = w]
        /\ row' = [row EXCEPT ![t].weight = cache[SetOf(id[t])][w].weight]
  BY DEF ProbeHit, Matches
<1>4. pc'[t] = "copy" /\ \A u \in Threads \ {t} : pc'[u] = pc[u]
  BY <1>0 DEF ProbeHit, Go, TypeOK
<1>5. \A u \in Threads : pc[u] \in Critical => /\ SetOf(id[u]) # SetOf(id[t])
                                              /\ LockOf(id[u]) # LockOf(id[t])
  BY <1>0, <1>2, Exclusive DEF LockInv
<1>6. cache[SetOf(id[t])][w] = Row(id[t])
  <2>1. ~Writing(SetOf(id[t]), w)
    BY <1>5 DEF Writing, Critical
  <2> QED BY <1>0, <1>1, <1>3, <2>1 DEF SlotInv
<1>7. /\ way'[t] = w /\ \A u \in Threads \ {t} : way'[u] = way[u]
      /\ row'[t].weight = id[t] /\ \A u \in Threads \ {t} : row'[u] = row[u]
      /\ row' \in [Threads -> Buffers]
  <2>1. row[t] \in Buffers /\ id[t] \in Halves
    BY <1>0, <1>1 DEF TypeOK
  <2>2. [row[t] EXCEPT !.weight = id[t]] \in Buffers
    BY <2>1 DEF Buffers
  <2>3. row' = [row EXCEPT ![t] = [row[t] EXCEPT !.weight = id[t]]]
    BY <1>3, <1>6 DEF Row
  <2>4. [row[t] EXCEPT !.weight = id[t]].weight = id[t]
    BY <2>1 DEF Buffers
  <2>5. way'[t] = w /\ \A u \in Threads \ {t} : way'[u] = way[u]
    BY <1>0, <1>3 DEF TypeOK
  <2> QED BY <1>0, <2>2, <2>3, <2>4, <2>5 DEF TypeOK
<1>8. TypeOK'
  <2>1. pc' \in [Threads -> Labels] /\ locks' \in [0 .. kLocks - 1 -> Threads \cup {none}]
        /\ way' \in [Threads -> Ways]
    BY <1>0, <1>2, <1>3 DEF ProbeHit, Go, TypeOK
  <2> QED BY <1>0, <1>2, <1>7, <2>1 DEF counters, TypeOK
<1>9. LockInv'
  BY <1>0, <1>1, <1>2, <1>4, <1>5 DEF LockInv, LockOf, SetOf, Critical, TypeOK
<1>10. RowInv'
  BY <1>0, <1>2, <1>3, <1>4, <1>7 DEF RowInv, RowsAreExact, SetOf
<1>11. \A s, v : Writing(s, v)' <=> Writing(s, v)
  BY <1>1, <1>2, <1>4, <1>7 DEF Writing, SetOf
<1>12. SlotInv'
  BY <1>0, <1>2, <1>4, <1>7, <1>11 DEF SlotInv, SetOf
<1> QED BY <1>8, <1>9, <1>10, <1>12 DEF RowInvariant

LEMMA CopyRestInv ==
    ASSUME RowInvariant, NEW t \in Threads, CopyRest(t)
    PROVE  RowInvariant'
<1> USE Geometry, RowTypes DEF Labels
<1>0. TypeOK /\ LockInv /\ RowInv /\ SlotInv
  BY DEF RowInvariant
<1>1. pc[t] = "copy" /\ id[t] \in Owned /\ sets > 0 /\ SetOf(id[t]) \in Sets
      /\ LockOf(id[t]) \in 0 .. kLocks - 1 /\ way[t] \in Ways
  BY <1>0 DEF CopyRest, LockInv, Critical, TypeOK
<1>2. /\ locks' = [locks EXCEPT ![LockOf(id[t])] = none]
      /\ UNCHANGED <<id, way, old, keys, cache, victim, seen>>
  BY DEF CopyRest, Unlock, table
<1>4. pc'[t] = "deliver" /\ \A u \in Threads \ {t} : pc'[u] = pc[u]
  BY <1>0 DEF CopyRest, Go, TypeOK
<1>5. \A u \in Threads \ {t} : pc[u] \in Critical =>
        /\ SetOf(id[u]) # SetOf(id[t]) /\ LockOf(id[u]) # LockOf(id[t])
  BY <1>0, <1>1, Exclusive DEF LockInv, Critical
<1>6. cache[SetOf(id[t])][way[t]] = Row(id[t])
  <2>1. ~Writing(SetOf(id[t]), way[t])
    BY <1>1, <1>5 DEF Writing, Critical
  <2>2. keys[SetOf(id[t])][way[t]] = id[t] + 1
    BY <1>0, <1>1 DEF RowInv
  <2>3. id[t] + 1 # 0 /\ (id[t] + 1) - 1 = id[t]
    BY <1>1
  <2> QED BY <1>0, <1>1, <2>1, <2>2, <2>3 DEF SlotInv
<1>7. /\ row'[t] = Row(id[t]) /\ \A u \in Threads \ {t} : row'[u] = row[u]
      /\ row' \in [Threads -> Buffers]
  <2>1. row[t] \in Buffers /\ row[t].weight = id[t]
    BY <1>0, <1>1 DEF TypeOK, RowInv
  <2>2. [row[t] EXCEPT !.scale = id[t]] = Row(id[t])
    BY <2>1 DEF Buffers, Row
  <2>3. row' = [row EXCEPT ![t] = Row(id[t])]
    BY <1>6, <2>2 DEF CopyRest, Row
  <2> QED BY <1>0, <1>1, <2>3 DEF TypeOK
<1>8. TypeOK'
  <2>1. pc' \in [Threads -> Labels] /\ locks' \in [0 .. kLocks - 1 -> Threads \cup {none}]
    BY <1>0, <1>2 DEF CopyRest, Go, TypeOK
  <2>2. hits' \in Nat /\ UNCHANGED <<misses, evictions, unique_ids, started>>
    BY <1>0 DEF CopyRest, TypeOK
  <2> QED BY <1>0, <1>2, <1>7, <2>1, <2>2 DEF TypeOK
<1>9. LockInv'
  BY <1>0, <1>1, <1>2, <1>4, <1>5 DEF LockInv, LockOf, SetOf, Critical, TypeOK
<1>10. RowInv'
  BY <1>0, <1>1, <1>2, <1>4, <1>7 DEF RowInv, RowsAreExact, SetOf
<1>11. \A s, v : Writing(s, v)' <=> Writing(s, v)
  BY <1>1, <1>2, <1>4 DEF Writing, SetOf
<1>12. SlotInv'
  BY <1>0, <1>2, <1>4, <1>11 DEF SlotInv, SetOf
<1> QED BY <1>8, <1>9, <1>10, <1>12 DEF RowInvariant

LEMMA EvictInv ==
    ASSUME RowInvariant, NEW t \in Threads, Evict(t)
    PROVE  RowInvariant'
<1> USE Geometry, RowTypes DEF Labels
<1> DEFINE s == SetOf(id[t])
           w == victim[s]
<1>0. TypeOK /\ LockInv /\ RowInv /\ SlotInv
  BY DEF RowInvariant
<1>1. pc[t] = "insert" /\ id[t] \in Owned /\ sets > 0 /\ s \in Sets /\ w \in Ways
      /\ LockOf(id[t]) \in 0 .. kLocks - 1 /\ row[t] = Row(id[t])
  BY <1>0 DEF Evict, LockInv, RowInv, TypeOK
<1>2. /\ locks[LockOf(id[t])] = none
      /\ locks' = [locks EXCEPT ![LockOf(id[t])] = t]
      /\ way' = [way EXCEPT ![t] = w]
      /\ victim' = [victim EXCEPT ![s] = (w + 1) % ways]
      /\ cache' = [cache EXCEPT ![s][w].weight = row[t].weight]
      /\ evictions' \in {evictions, evictions + 1}
      /\ UNCHANGED <<id, row, old, keys, seen, hits, misses, unique_ids, started>>
  BY DEF Evict, Lock
<1>4. pc'[t] = "fill" /\ \A u \in Threads \ {t} : pc'[u] = pc[u]
  BY <1>0 DEF Evict, Go, TypeOK
<1>5. \A u \in Threads : pc[u] \in Critical => /\ SetOf(id[u]) # s
                                              /\ LockOf(id[u]) # LockOf(id[t])
  BY <1>0, <1>2, Exclusive DEF LockInv
<1>6. /\ cache' \in [Sets -> [Ways -> Buffers]]
      /\ cache'[s][w].weight = id[t]
      /\ \A r \in Sets, v \in Ways : <<r, v>> # <<s, w>> => cache'[r][v] = cache[r][v]
  <2>1. cache[s][w] \in Buffers /\ id[t] \in Halves /\ row[t].weight = id[t]
    BY <1>0, <1>1 DEF TypeOK, Row
  <2>2. [cache[s][w] EXCEPT !.weight = id[t]] \in Buffers
    BY <2>1 DEF Buffers
  <2>3. [cache[s][w] EXCEPT !.weight = id[t]].weight = id[t]
    BY <2>1 DEF Buffers
  <2> DEFINE cell == [cache[s][w] EXCEPT !.weight = id[t]]
  <2>4. cache' = [cache EXCEPT ![s] = [cache[s] EXCEPT ![w] = cell]]
    BY <1>2, <2>1
  <2> HIDE DEF cell
  <2>5. cell \in Buffers /\ cell.weight = id[t]
    BY <2>2, <2>3 DEF cell
  <2> QED BY <1>0, <1>1, <2>4, <2>5 DEF TypeOK
<1>7. way'[t] = w /\ \A u \in Threads \ {t} : way'[u] = way[u]
  BY <1>0, <1>2 DEF TypeOK
<1>8. TypeOK'
  <2>1. pc' \in [Threads -> Labels] /\ locks' \in [0 .. kLocks - 1 -> Threads \cup {none}]
    BY <1>0, <1>2 DEF Evict, Go, TypeOK
  <2>2. victim' \in [Sets -> Ways] /\ way' \in [Threads -> Ways]
    BY <1>0, <1>1, <1>2 DEF TypeOK
  <2>3. evictions' \in Nat
    BY <1>0, <1>2 DEF TypeOK
  <2> QED BY <1>0, <1>2, <1>6, <2>1, <2>2, <2>3 DEF TypeOK
<1>9. LockInv'
  BY <1>0, <1>1, <1>2, <1>4, <1>5 DEF LockInv, LockOf, SetOf, Critical, TypeOK
<1>10. RowInv'
  BY <1>0, <1>1, <1>2, <1>4, <1>7 DEF RowInv, RowsAreExact, SetOf
<1>11. \A r, v : Writing(r, v)' <=> Writing(r, v) \/ (r = s /\ v = w)
  BY <1>1, <1>2, <1>4, <1>7 DEF Writing, SetOf
<1>12. \A u \in Threads \ {t} : pc[u] = "fill" =>
         cache'[SetOf(id[u])][way[u]] = cache[SetOf(id[u])][way[u]]
  <2> SUFFICES ASSUME NEW u \in Threads \ {t}, pc[u] = "fill"
               PROVE  cache'[SetOf(id[u])][way[u]] = cache[SetOf(id[u])][way[u]]
    OBVIOUS
  <2>1. SetOf(id[u]) \in Sets /\ way[u] \in Ways /\ SetOf(id[u]) # s
    BY <1>0, <1>1, <1>5 DEF LockInv, TypeOK, Critical
  <2> QED BY <1>6, <2>1
<1>13. SlotInv'
  <2>1. \A r \in Sets, v \in Ways : keys'[r][v] # 0 /\ ~Writing(r, v)'
          => cache'[r][v] = Row(keys'[r][v] - 1)
    BY <1>0, <1>2, <1>6, <1>11 DEF SlotInv
  <2>2. \A u \in Threads : pc'[u] = "fill" =>
          cache'[SetOf(id[u])][way'[u]].weight = id[u]
    BY <1>0, <1>4, <1>6, <1>7, <1>12 DEF SlotInv
  <2> QED BY <1>2, <2>1, <2>2 DEF SlotInv, SetOf
<1> QED BY <1>8, <1>9, <1>10, <1>13 DEF RowInvariant

LEMMA FillInv ==
    ASSUME RowInvariant, NEW t \in Threads, Fill(t)
    PROVE  RowInvariant'
<1> USE Geometry, RowTypes DEF Labels
<1> DEFINE s == SetOf(id[t])
           w == way[t]
<1>0. TypeOK /\ LockInv /\ RowInv /\ SlotInv
  BY DEF RowInvariant
<1>1. pc[t] = "fill" /\ id[t] \in Owned /\ sets > 0 /\ s \in Sets /\ w \in Ways
      /\ LockOf(id[t]) \in 0 .. kLocks - 1 /\ row[t] = Row(id[t])
      /\ cache[s][w].weight = id[t]
  BY <1>0 DEF Fill, LockInv, RowInv, SlotInv, TypeOK, Critical
<1>2. /\ locks' = [locks EXCEPT ![LockOf(id[t])] = none]
      /\ keys' = [keys EXCEPT ![s][w] = id[t] + 1]
      /\ cache' = [cache EXCEPT ![s][w].scale = row[t].scale]
      /\ UNCHANGED <<id, row, way, old, victim, seen, counters>>
  BY DEF Fill, Unlock
<1>4. pc'[t] = "deliver" /\ \A u \in Threads \ {t} : pc'[u] = pc[u]
  BY <1>0 DEF Fill, Go, TypeOK
<1>5. \A u \in Threads \ {t} : pc[u] \in Critical =>
        SetOf(id[u]) # s /\ LockOf(id[u]) # LockOf(id[t])
  BY <1>0, <1>1, Exclusive DEF LockInv, Critical
<1>6. /\ cache' \in [Sets -> [Ways -> Buffers]]
      /\ cache'[s][w] = Row(id[t])
      /\ \A r \in Sets, v \in Ways : <<r, v>> # <<s, w>> => cache'[r][v] = cache[r][v]
  <2>1. cache[s][w] \in Buffers /\ row[t].scale = id[t]
    BY <1>0, <1>1 DEF TypeOK, Row
  <2>2. [cache[s][w] EXCEPT !.scale = id[t]] = Row(id[t])
    BY <1>1, <2>1 DEF Buffers, Row
  <2>3. cache' = [cache EXCEPT ![s] = [cache[s] EXCEPT ![w] = Row(id[t])]]
    BY <1>2, <2>1, <2>2
  <2> QED BY <1>0, <1>1, <2>3 DEF TypeOK
<1>7. /\ keys' \in [Sets -> [Ways -> 0 .. rows]] /\ keys'[s][w] = id[t] + 1
      /\ \A r \in Sets, v \in Ways : <<r, v>> # <<s, w>> => keys'[r][v] = keys[r][v]
  BY <1>0, <1>1, <1>2 DEF TypeOK
<1>8. TypeOK'
  <2>1. pc' \in [Threads -> Labels] /\ locks' \in [0 .. kLocks - 1 -> Threads \cup {none}]
    BY <1>0, <1>1, <1>2 DEF Fill, Go, TypeOK
  <2> QED BY <1>0, <1>2, <1>6, <1>7, <2>1 DEF counters, TypeOK
<1>9. LockInv'
  BY <1>0, <1>1, <1>2, <1>4, <1>5 DEF LockInv, LockOf, SetOf, Critical, TypeOK
<1>10. \A u \in Threads \ {t} : pc[u] \in Critical =>
         /\ cache'[SetOf(id[u])][way[u]] = cache[SetOf(id[u])][way[u]]
         /\ keys'[SetOf(id[u])][way[u]] = keys[SetOf(id[u])][way[u]]
  <2> SUFFICES ASSUME NEW u \in Threads \ {t}, pc[u] \in Critical
               PROVE  /\ cache'[SetOf(id[u])][way[u]] = cache[SetOf(id[u])][way[u]]
                      /\ keys'[SetOf(id[u])][way[u]] = keys[SetOf(id[u])][way[u]]
    OBVIOUS
  <2>1. SetOf(id[u]) \in Sets /\ way[u] \in Ways /\ SetOf(id[u]) # s
    BY <1>0, <1>1, <1>5 DEF LockInv, TypeOK, Critical
  <2> QED BY <1>6, <1>7, <2>1
<1>11. RowInv'
  BY <1>0, <1>1, <1>2, <1>4, <1>10 DEF RowInv, RowsAreExact, SetOf, Critical
<1>12. \A r, v : Writing(r, v)' => Writing(r, v)
  BY <1>1, <1>2, <1>4 DEF Writing, SetOf
<1>13. \A r, v : Writing(r, v) => Writing(r, v)' \/ (r = s /\ v = w)
  BY <1>1, <1>2, <1>4 DEF Writing, SetOf
<1>14. SlotInv'
  <2>1. \A r \in Sets, v \in Ways : keys'[r][v] # 0 /\ ~Writing(r, v)'
          => cache'[r][v] = Row(keys'[r][v] - 1)
    <3> SUFFICES ASSUME NEW r \in Sets, NEW v \in Ways, keys'[r][v] # 0, ~Writing(r, v)'
                 PROVE  cache'[r][v] = Row(keys'[r][v] - 1)
      OBVIOUS
    <3>1. CASE r = s /\ v = w
      BY <1>1, <1>6, <1>7, <3>1
    <3>2. CASE ~(r = s /\ v = w)
      BY <1>0, <1>6, <1>7, <1>13, <3>2 DEF SlotInv
    <3> QED BY <3>1, <3>2
  <2>2. \A u \in Threads : pc'[u] = "fill" =>
          cache'[SetOf(id[u])][way[u]].weight = id[u]
    BY <1>0, <1>4, <1>10 DEF SlotInv, Critical
  <2> QED BY <1>2, <2>1, <2>2 DEF SlotInv, SetOf
<1> QED BY <1>8, <1>9, <1>11, <1>14 DEF RowInvariant

LEMMA RowStep == RowInvariant /\ [Next]_vars => RowInvariant'
<1> SUFFICES ASSUME RowInvariant, [Next]_vars PROVE RowInvariant'
  OBVIOUS
<1>1. ASSUME NEW t \in Threads, FetchStep(t) PROVE RowInvariant'
  BY <1>1, UnlockedStepInv, ProbeHitInv, CopyRestInv, EvictInv, FillInv DEF FetchStep
<1>2. ASSUME NEW t \in Threads, NEW i \in Ids, ServeUnowned(t, i) \/ ServeOwned(t, i)
      PROVE  RowInvariant'
  BY <1>2, UnlockedStepInv
<1>3. CASE UNCHANGED vars
  <2>1. TypeOK'
    BY <1>3 DEF vars, locals, table, counters, RowInvariant, TypeOK
  <2>2. LockInv' /\ RowInv'
    BY <1>3 DEF vars, locals, table, RowInvariant, LockInv, RowInv, RowsAreExact
  <2>3. SlotInv'
    BY <1>3 DEF vars, locals, table, RowInvariant, SlotInv, Writing
  <2> QED BY <2>1, <2>2, <2>3 DEF RowInvariant
<1> QED BY <1>1, <1>2, <1>3 DEF Next

LEMMA RowAlways == Spec => []RowInvariant
<1>1. Init => RowInvariant
  BY RowInit
<1>2. RowInvariant /\ [Next]_vars => RowInvariant'
  BY RowStep
<1> QED BY <1>1, <1>2, PTL DEF Spec

(* Types; in particular no way index leaves its set.                       *)
THEOREM TypeCorrect == Spec => []TypeOK
<1>1. RowInvariant => TypeOK
  BY DEF RowInvariant
<1> QED BY <1>1, RowAlways, PTL

(* Every delivered row is whole, and the one that was asked for.           *)
THEOREM DeliveredRowsAreExact == Spec => []RowsAreExact
<1>1. RowInvariant => RowsAreExact
  BY DEF RowInvariant, RowInv
<1> QED BY <1>1, RowAlways, PTL

-----------------------------------------------------------------------------
(* Book-keeping.  At(labels) when one thread moves.                        *)
LEMMA AtFinite ==
    ASSUME NEW labels
    PROVE  IsFiniteSet(At(labels)) /\ Cardinality(At(labels)) \in Nat
<1>1. At(labels) \in SUBSET Threads
  BY DEF At
<1> QED BY <1>1, FS_Subset, FS_CardinalityType, CacheAssumption

LEMMA AtMoves ==
    ASSUME TypeOK, NEW t \in Threads, NEW to, Go(t, to), NEW labels
    PROVE  /\ (pc[t] \in labels <=> to \in labels) => At(labels)' = At(labels)
           /\ pc[t] \notin labels /\ to \in labels =>
                Cardinality(At(labels)') = Cardinality(At(labels)) + 1
           /\ pc[t] \in labels /\ to \notin labels =>
                Cardinality(At(labels)') = Cardinality(At(labels)) - 1
<1>1. pc'[t] = to /\ \A u \in Threads \ {t} : pc'[u] = pc[u]
  BY DEF Go, TypeOK
<1>2. CASE pc[t] \in labels <=> to \in labels
  <2>1. At(labels)' = At(labels)
    BY <1>1, <1>2 DEF At
  <2> QED BY <1>2, <2>1
<1>3. CASE pc[t] \notin labels /\ to \in labels
  <2>1. At(labels)' = At(labels) \cup {t} /\ t \notin At(labels)
    BY <1>1, <1>3 DEF At
  <2> QED BY <1>3, <2>1, AtFinite, FS_AddElement
<1>4. CASE pc[t] \in labels /\ to \notin labels
  <2>1. At(labels)' = At(labels) \ {t} /\ t \in At(labels)
    BY <1>1, <1>4 DEF At
  <2> QED BY <1>4, <2>1, AtFinite, FS_RemoveElement
<1> QED BY <1>2, <1>3, <1>4

(* What a step does to the number of fetches in flight.                    *)
LEMMA BookedStep ==
    ASSUME TypeOK, EveryFetchIsBooked, [Next]_vars
    PROVE  EveryFetchIsBooked'
<1> DEFINE n == Cardinality(InFlight)
<1>0. n \in Nat /\ hits \in Nat /\ misses \in Nat /\ started \in Nat
      /\ hits + misses + n = started
  BY AtFinite DEF InFlight, TypeOK, EveryFetchIsBooked
<1>1. ASSUME NEW t \in Threads, NEW to, Go(t, to),
             pc[t] \in {"probe", "copy", "read"} <=> to \in {"probe", "copy", "read"},
             UNCHANGED <<hits, misses, started>>
      PROVE  EveryFetchIsBooked'
  <2>1. n' = n
    BY <1>1, AtMoves DEF InFlight
  <2> QED BY <1>0, <1>1, <2>1 DEF EveryFetchIsBooked
<1>2. ASSUME NEW t \in Threads, NEW i \in Ids, ServeOwned(t, i) PROVE EveryFetchIsBooked'
  <2>1. PICK to \in {"probe", "read"} : Go(t, to)
    BY <1>2 DEF ServeOwned
  <2>2. n' = n + 1
    BY <1>2, <2>1, AtMoves DEF InFlight, ServeOwned
  <2> QED BY <1>0, <1>2, <2>2 DEF EveryFetchIsBooked, ServeOwned
<1>3. ASSUME NEW t \in Threads, Read(t) \/ CopyRest(t) PROVE EveryFetchIsBooked'
  <2>1. PICK to \in {"mark", "deliver"} : Go(t, to)
    BY <1>3 DEF Read, CopyRest
  <2>2. n' = n - 1
    BY <1>3, <2>1, AtMoves DEF InFlight, Read, CopyRest
  <2>3. /\ started' = started
        /\ \/ hits' = hits + 1 /\ misses' = misses
           \/ hits' = hits /\ misses' = misses + 1
    BY <1>3 DEF Read, CopyRest
  <2> QED BY <1>0, <2>2, <2>3 DEF EveryFetchIsBooked
<1>4. ASSUME NEW t \in Threads, NEW i \in Ids, ServeUnowned(t, i) PROVE EveryFetchIsBooked'
  BY <1>1, <1>4 DEF ServeUnowned, counters
<1>5. ASSUME NEW t \in Threads,
             \/ ProbeMiss(t) \/ ProbeHit(t) \/ LoadSeen(t) \/ SwapFails(t)
             \/ Swap(t) \/ CountUnique(t) \/ Evict(t) \/ Fill(t) \/ Deliver(t)
      PROVE  EveryFetchIsBooked'
  <2>1. UNCHANGED <<hits, misses, started>>
    BY <1>5 DEF ProbeMiss, ProbeHit, LoadSeen, SwapFails, Swap, CountUnique, Evict,
                Fill, Deliver, counters
  <2>2. \E to : /\ Go(t, to)
                /\ pc[t] \in {"probe", "copy", "read"} <=> to \in {"probe", "copy", "read"}
    BY <1>5 DEF ProbeMiss, ProbeHit, LoadSeen, SwapFails, Swap, CountUnique, Evict,
                Fill, Deliver, AfterMark
  <2> QED BY <1>1, <2>1, <2>2
<1>6. CASE UNCHANGED vars
  BY <1>6 DEF vars, locals, counters, EveryFetchIsBooked, InFlight, At
<1> QED BY <1>2, <1>3, <1>4, <1>5, <1>6 DEF Next, FetchStep

(* Hits and misses add up to the fetches begun.                            *)
THEOREM FetchesAreBooked == Spec => []EveryFetchIsBooked
<1>1. Init => EveryFetchIsBooked
  <2> SUFFICES ASSUME Init PROVE EveryFetchIsBooked
    OBVIOUS
  <2>1. InFlight = {}
    BY DEF Init, InFlight, At
  <2> QED BY <2>1, FS_EmptySet DEF Init, EveryFetchIsBooked
<1>2. TypeOK /\ EveryFetchIsBooked /\ [Next]_vars => EveryFetchIsBooked'
  BY BookedStep
<1> QED BY <1>1, <1>2, TypeCorrect, PTL DEF Spec

-----------------------------------------------------------------------------
LEMMA LiveFinite ==
    /\ IsFiniteSet(Live) /\ Cardinality(Live) \in Nat
    /\ IsFiniteSet(Filling) /\ Cardinality(Filling) \in Nat
<1>1. IsFiniteSet(Sets) /\ IsFiniteSet(Ways)
  BY FS_Interval, CacheAssumption DEF Sets, Ways
<1>2. IsFiniteSet(Slots)
  BY <1>1, FS_Product DEF Slots
<1>3. Live \in SUBSET Slots /\ Filling \in SUBSET Threads
  BY DEF Live, Filling
<1> QED BY <1>2, <1>3, FS_Subset, FS_CardinalityType, CacheAssumption

(* What a step does to the live slots and to the slots being filled.       *)
LEMMA EvictionStep ==
    ASSUME RowInvariant, EvictionsAreExact, [Next]_vars, sets > 0
    PROVE  EvictionsAreExact'
<1> DEFINE m == Cardinality(Missing)
           l == Cardinality(Live)
           f == Cardinality(Filling)
           labels == {"mark", "swap", "count", "insert"}
<1>0. /\ m \in Nat /\ l \in Nat /\ f \in Nat /\ misses \in Nat /\ evictions \in Nat
      /\ misses = evictions + l + f + m
      /\ TypeOK /\ LockInv
  BY AtFinite, LiveFinite DEF Missing, RowInvariant, TypeOK, EvictionsAreExact
<1>1. ASSUME NEW t \in Threads, NEW to, Go(t, to), pc[t] # "fill", to # "fill",
             UNCHANGED <<keys, way>>, \A u \in Threads \ {t} : id'[u] = id[u]
      PROVE  l' = l /\ f' = f
  <2>1. Live' = Live
    BY <1>1 DEF Live
  <2>2. pc'[t] = to /\ \A u \in Threads \ {t} : pc'[u] = pc[u]
    BY <1>0, <1>1 DEF Go, TypeOK
  <2>3. Filling' = Filling
    BY <1>1, <2>2 DEF Filling, SetOf
  <2> QED BY <2>1, <2>3
<1>2. ASSUME NEW t \in Threads, NEW i \in Ids, ServeUnowned(t, i) \/ ServeOwned(t, i)
      PROVE  EvictionsAreExact'
  <2>1. /\ UNCHANGED <<misses, evictions, keys, way>> /\ pc[t] = "idle"
        /\ \A u \in Threads \ {t} : id'[u] = id[u]
    BY <1>0, <1>2 DEF ServeUnowned, ServeOwned, table, counters, TypeOK
  <2>2. PICK to \in {"deliver", "probe", "read"} : Go(t, to)
    BY <1>2 DEF ServeUnowned, ServeOwned
  <2>3. l' = l /\ f' = f
    BY <1>1, <2>1, <2>2
  <2>4. m' = m
    BY <1>0, <2>1, <2>2, AtMoves DEF Missing
  <2> QED BY <1>0, <2>1, <2>3, <2>4 DEF EvictionsAreExact
<1>3. ASSUME NEW t \in Threads,
             \/ Deliver(t) \/ ProbeMiss(t) \/ LoadSeen(t) \/ SwapFails(t) \/ Swap(t)
             \/ CountUnique(t) \/ CopyRest(t)
      PROVE  EvictionsAreExact'
  <2>1. UNCHANGED <<misses, evictions, keys, way, id>>
    BY <1>3 DEF Deliver, ProbeMiss, LoadSeen, SwapFails, Swap, CountUnique, CopyRest,
                table, counters
  <2>2. PICK to : /\ Go(t, to) /\ pc[t] # "fill" /\ to # "fill"
                  /\ pc[t] \in labels <=> to \in labels
    BY <1>3, CacheAssumption
       DEF Deliver, ProbeMiss, LoadSeen, SwapFails, Swap, CountUnique, CopyRest, AfterMark
  <2>3. l' = l /\ f' = f
    BY <1>1, <2>1, <2>2
  <2>4. m' = m
    BY <1>0, <2>2, AtMoves DEF Missing
  <2> QED BY <1>0, <2>1, <2>3, <2>4 DEF EvictionsAreExact
<1>4. ASSUME NEW t \in Threads, ProbeHit(t) PROVE EvictionsAreExact'
  <2>1. UNCHANGED <<misses, evictions, keys, id>> /\ pc[t] = "probe" /\ Go(t, "copy")
    BY <1>4 DEF ProbeHit, table, counters
  <2>2. PICK w \in Ways : way' = [way EXCEPT ![t] = w]
    BY <1>4 DEF ProbeHit
  <2>3. /\ pc'[t] = "copy"
        /\ \A u \in Threads \ {t} : pc'[u] = pc[u] /\ way'[u] = way[u]
    BY <1>0, <2>1, <2>2 DEF Go, TypeOK
  <2>4. Live' = Live /\ Filling' = Filling
    BY <2>1, <2>3 DEF Live, Filling, SetOf
  <2>5. m' = m
    BY <1>0, <2>1, AtMoves DEF Missing
  <2> QED BY <1>0, <2>1, <2>4, <2>5 DEF EvictionsAreExact
<1>5. ASSUME NEW t \in Threads, Read(t) PROVE EvictionsAreExact'
  <2>1. /\ UNCHANGED <<evictions, keys, way, id>> /\ misses' = misses + 1
        /\ pc[t] = "read" /\ Go(t, "mark")
    BY <1>5 DEF Read, table
  <2>2. l' = l /\ f' = f
    BY <1>1, <2>1
  <2>3. m' = m + 1
    BY <1>0, <2>1, AtMoves DEF Missing
  <2> QED BY <1>0, <2>1, <2>2, <2>3 DEF EvictionsAreExact
<1>6. ASSUME NEW t \in Threads, Evict(t) PROVE EvictionsAreExact'
  <2> DEFINE s == SetOf(id[t])
             w == victim[s]
  <2>1. /\ UNCHANGED <<misses, keys, id>> /\ pc[t] = "insert" /\ Go(t, "fill")
        /\ way' = [way EXCEPT ![t] = w]
        /\ evictions' = IF keys[s][w] # 0 THEN evictions + 1 ELSE evictions
    BY <1>6 DEF Evict
  <2>2. /\ pc'[t] = "fill" /\ way'[t] = w
        /\ \A u \in Threads \ {t} : pc'[u] = pc[u] /\ way'[u] = way[u]
    BY <1>0, <2>1 DEF Go, TypeOK
  <2>3. l' = l
    BY <2>1 DEF Live
  <2>4. m' = m - 1
    BY <1>0, <2>1, AtMoves DEF Missing
  <2>5. t \notin Filling
    BY <2>1 DEF Filling
  <2>6. CASE keys[s][w] # 0
    <3>1. Filling' = Filling
      BY <2>1, <2>2, <2>5, <2>6 DEF Filling, SetOf
    <3> QED BY <1>0, <2>1, <2>3, <2>4, <2>6, <3>1 DEF EvictionsAreExact
  <2>7. CASE keys[s][w] = 0
    <3>1. Filling' = Filling \cup {t}
      BY <2>1, <2>2, <2>5, <2>7 DEF Filling, SetOf
    <3>2. f' = f + 1
      BY <2>5, <3>1, LiveFinite, FS_AddElement
    <3> QED BY <1>0, <2>1, <2>3, <2>4, <2>7, <3>2 DEF EvictionsAreExact
  <2> QED BY <2>6, <2>7
<1>7. ASSUME NEW t \in Threads, Fill(t) PROVE EvictionsAreExact'
  <2> DEFINE s == SetOf(id[t])
             w == way[t]
  <2>1. /\ UNCHANGED <<misses, evictions, way, id>> /\ pc[t] = "fill" /\ Go(t, "deliver")
        /\ keys' = [keys EXCEPT ![s][w] = id[t] + 1]
    BY <1>7 DEF Fill, counters
  <2>2. s \in Sets /\ w \in Ways /\ id[t] + 1 # 0
    BY <1>0, <2>1, Geometry DEF LockInv, TypeOK, Critical
  <2>3. /\ keys'[s][w] # 0
        /\ \A r \in Sets, v \in Ways : <<r, v>> # <<s, w>> => keys'[r][v] = keys[r][v]
    BY <1>0, <2>1, <2>2 DEF TypeOK
  <2>4. pc'[t] = "deliver" /\ \A u \in Threads \ {t} : pc'[u] = pc[u]
    BY <1>0, <2>1 DEF Go, TypeOK
  <2>5. \A u \in Threads \ {t} : pc[u] = "fill" =>
          keys'[SetOf(id[u])][way[u]] = keys[SetOf(id[u])][way[u]]
    <3> SUFFICES ASSUME NEW u \in Threads \ {t}, pc[u] = "fill"
                 PROVE  keys'[SetOf(id[u])][way[u]] = keys[SetOf(id[u])][way[u]]
      OBVIOUS
    <3>1. SetOf(id[u]) # s
      BY <1>0, <2>1, Exclusive DEF Critical
    <3>2. SetOf(id[u]) \in Sets /\ way[u] \in Ways
      BY <1>0, Geometry DEF LockInv, TypeOK, Critical
    <3> QED BY <2>3, <3>1, <3>2
  <2>6. m' = m
    BY <1>0, <2>1, AtMoves DEF Missing
  <2>7. <<s, w>> \in Slots
    BY <2>2 DEF Slots
  <2>8. CASE keys[s][w] = 0
    <3>1. Live' = Live \cup {<<s, w>>} /\ <<s, w>> \notin Live
      BY <2>3, <2>7, <2>8 DEF Live, Slots
    <3>2. Filling' = Filling \ {t} /\ t \in Filling
      BY <2>1, <2>4, <2>5, <2>8 DEF Filling, SetOf
    <3>3. l' = l + 1
      BY <3>1, LiveFinite, FS_AddElement
    <3>4. f' = f - 1
      BY <3>2, LiveFinite, FS_RemoveElement
    <3> QED BY <1>0, <2>1, <2>6, <3>3, <3>4 DEF EvictionsAreExact
  <2>9. CASE keys[s][w] # 0
    <3>1. Live' = Live
      BY <2>3, <2>7, <2>9 DEF Live, Slots
    <3>2. Filling' = Filling
      BY <2>1, <2>4, <2>5, <2>9 DEF Filling, SetOf
    <3> QED BY <1>0, <2>1, <2>6, <3>1, <3>2 DEF EvictionsAreExact
  <2> QED BY <2>8, <2>9
<1>8. CASE UNCHANGED vars
  <2>1. UNCHANGED <<pc, id, way, keys, misses, evictions>>
    BY <1>8 DEF vars, locals, table, counters
  <2> QED BY <2>1 DEF EvictionsAreExact, Missing, Live, Filling, At, SetOf
<1> QED BY <1>2, <1>3, <1>4, <1>5, <1>6, <1>7, <1>8 DEF Next, FetchStep

(* Evictions and the slots in use account for every miss.                  *)
THEOREM EvictionsAreCounted == Spec => []EvictionsAreExact
<1>1. Init => EvictionsAreExact
  <2> SUFFICES ASSUME Init PROVE EvictionsAreExact
    OBVIOUS
  <2>1. Missing = {} /\ Filling = {}
    BY DEF Init, Missing, Filling, At
  <2>2. Live = {}
    BY DEF Init, Live, Slots
  <2> QED BY <2>1, <2>2, FS_EmptySet DEF Init, EvictionsAreExact
<1>2. RowInvariant /\ EvictionsAreExact /\ [Next]_vars => EvictionsAreExact'
  <2>1. ~(sets > 0) => EvictionsAreExact'
    BY DEF EvictionsAreExact
  <2> QED BY <2>1, EvictionStep
<1> QED BY <1>1, <1>2, RowAlways, PTL DEF Spec

-----------------------------------------------------------------------------
LEMMA MarkedFinite ==
    ASSUME SeenInv
    PROVE  IsFiniteSet(Marked) /\ Cardinality(Marked) \in Nat
<1>1. Marked \in SUBSET Ids
  <2>1. \A i \in Marked : i \in Owned
    BY DEF SeenInv, Marked
  <2> QED BY <2>1, Geometry
<1>2. IsFiniteSet(Ids)
  BY FS_Interval, Geometry DEF Ids
<1> QED BY <1>1, <1>2, FS_Subset, FS_CardinalityType

(* What a step does to the bitmap.                                         *)
LEMMA UniqueStep ==
    ASSUME RowInvariant, SeenInv, UniqueIdsAreExact, [Next]_vars
    PROVE  SeenInv' /\ UniqueIdsAreExact'
<1> DEFINE n == Cardinality(Counting)
           k == Cardinality(Marked)
<1>0. /\ n \in Nat /\ k \in Nat /\ unique_ids \in Nat /\ unique_ids + n = k
      /\ TypeOK /\ LockInv
  BY AtFinite, MarkedFinite DEF Counting, RowInvariant, TypeOK, UniqueIdsAreExact
<1>1. ASSUME NEW t \in Threads, NEW to, Go(t, to), to # "swap", pc[t] # "count", to # "count",
             UNCHANGED <<seen, old, unique_ids>>,
             \A u \in Threads \ {t} : id'[u] = id[u]
      PROVE  SeenInv' /\ UniqueIdsAreExact'
  <2>1. pc'[t] = to /\ \A u \in Threads \ {t} : pc'[u] = pc[u]
    BY <1>0, <1>1 DEF Go, TypeOK
  <2>2. SeenInv'
    BY <1>1, <2>1 DEF SeenInv
  <2>3. n' = n
    BY <1>0, <1>1, AtMoves DEF Counting
  <2>4. k' = k
    BY <1>1 DEF Marked
  <2> QED BY <1>0, <1>1, <2>2, <2>3, <2>4 DEF UniqueIdsAreExact
<1>2. ASSUME NEW t \in Threads, NEW i \in Ids, ServeUnowned(t, i) \/ ServeOwned(t, i)
      PROVE  SeenInv' /\ UniqueIdsAreExact'
  <2>1. /\ UNCHANGED <<seen, old, unique_ids>> /\ pc[t] = "idle"
        /\ \A u \in Threads \ {t} : id'[u] = id[u]
    BY <1>0, <1>2 DEF ServeUnowned, ServeOwned, counters, TypeOK
  <2>2. PICK to \in {"deliver", "probe", "read"} : Go(t, to)
    BY <1>2 DEF ServeUnowned, ServeOwned
  <2> QED BY <1>1, <2>1, <2>2
<1>3. ASSUME NEW t \in Threads,
             \/ Deliver(t) \/ ProbeMiss(t) \/ ProbeHit(t) \/ CopyRest(t) \/ Read(t)
             \/ Evict(t) \/ Fill(t)
      PROVE  SeenInv' /\ UniqueIdsAreExact'
  <2>1. UNCHANGED <<seen, old, unique_ids, id>>
    BY <1>3 DEF Deliver, ProbeMiss, ProbeHit, CopyRest, Read, Evict, Fill, counters
  <2>2. PICK to \in {"idle", "read", "copy", "deliver", "mark", "fill"} : Go(t, to)
    BY <1>3 DEF Deliver, ProbeMiss, ProbeHit, CopyRest, Read, Evict, Fill
  <2>3. pc[t] # "count"
    BY <1>3 DEF Deliver, ProbeMiss, ProbeHit, CopyRest, Read, Evict, Fill
  <2> QED BY <1>1, <2>1, <2>2, <2>3
<1>4. ASSUME NEW t \in Threads, LoadSeen(t) \/ SwapFails(t)
      PROVE  SeenInv' /\ UniqueIdsAreExact'
  <2>1. /\ UNCHANGED <<seen, unique_ids, id>> /\ pc[t] \in {"mark", "swap"}
        /\ old' = [old EXCEPT ![t] = seen[ByteOf(id[t])]]
    BY <1>4 DEF LoadSeen, SwapFails, counters
  <2>2. PICK to : /\ Go(t, to) /\ to # "count"
                  /\ to = "swap" => id[t] \notin seen[ByteOf(id[t])]
    BY <1>4 DEF LoadSeen, SwapFails, AfterMark
  <2>3. /\ pc'[t] = to /\ old'[t] = seen[ByteOf(id[t])]
        /\ \A u \in Threads \ {t} : pc'[u] = pc[u] /\ old'[u] = old[u]
    BY <1>0, <2>1, <2>2 DEF Go, TypeOK
  <2>4. SeenInv'
    BY <2>1, <2>2, <2>3 DEF SeenInv
  <2>5. n' = n
    BY <1>0, <2>1, <2>2, AtMoves DEF Counting
  <2>6. k' = k
    BY <2>1 DEF Marked
  <2> QED BY <1>0, <2>1, <2>4, <2>5, <2>6 DEF UniqueIdsAreExact
<1>5. ASSUME NEW t \in Threads, Swap(t) PROVE SeenInv' /\ UniqueIdsAreExact'
  <2> DEFINE b == ByteOf(id[t])
  <2>1. /\ UNCHANGED <<id, old, unique_ids>> /\ pc[t] = "swap" /\ Go(t, "count")
        /\ seen' = [seen EXCEPT ![b] = seen[b] \cup {id[t]}]
    BY <1>5 DEF Swap, counters
  <2>2. id[t] \in Owned /\ b \in Bytes /\ id[t] \notin seen[b]
    BY <1>0, <1>5, <2>1, Geometry DEF LockInv, SeenInv, Swap
  <2>3. seen'[b] = seen[b] \cup {id[t]} /\ \A c \in Bytes \ {b} : seen'[c] = seen[c]
    BY <1>0, <2>1, <2>2 DEF TypeOK
  <2>4. pc'[t] = "count" /\ \A u \in Threads \ {t} : pc'[u] = pc[u]
    BY <1>0, <2>1 DEF Go, TypeOK
  <2>5. SeenInv'
    BY <2>1, <2>2, <2>3, <2>4 DEF SeenInv
  <2>6. n' = n + 1
    BY <1>0, <2>1, AtMoves DEF Counting
  <2>7. Marked' = Marked \cup {id[t]} /\ id[t] \notin Marked
    BY <2>2, <2>3 DEF Marked, SeenInv
  <2>8. k' = k + 1
    BY <2>7, MarkedFinite, FS_AddElement
  <2> QED BY <1>0, <2>1, <2>5, <2>6, <2>8 DEF UniqueIdsAreExact
<1>6. ASSUME NEW t \in Threads, CountUnique(t) PROVE SeenInv' /\ UniqueIdsAreExact'
  <2>1. /\ UNCHANGED <<id, old, seen>> /\ pc[t] = "count" /\ unique_ids' = unique_ids + 1
    BY <1>6 DEF CountUnique
  <2>2. PICK to \in {"insert", "deliver"} : Go(t, to)
    BY <1>6 DEF CountUnique, AfterMark
  <2>3. pc'[t] = to /\ \A u \in Threads \ {t} : pc'[u] = pc[u]
    BY <1>0, <2>2 DEF Go, TypeOK
  <2>4. SeenInv'
    BY <2>1, <2>3 DEF SeenInv
  <2>5. n' = n - 1
    BY <1>0, <2>1, <2>2, AtMoves DEF Counting
  <2>6. k' = k
    BY <2>1 DEF Marked
  <2> QED BY <1>0, <2>1, <2>4, <2>5, <2>6 DEF UniqueIdsAreExact
<1>7. CASE UNCHANGED vars
  <2>1. UNCHANGED <<pc, id, old, seen, unique_ids>>
    BY <1>7 DEF vars, locals, counters
  <2> QED BY <2>1 DEF SeenInv, UniqueIdsAreExact, Counting, At, Marked
<1> QED BY <1>2, <1>3, <1>4, <1>5, <1>6, <1>7 DEF Next, FetchStep

(* unique_ids counts every row that was ever missed once.                  *)
THEOREM UniqueIdsAreCounted == Spec => []UniqueIdsAreExact
<1>1. Init => SeenInv /\ UniqueIdsAreExact
  <2> SUFFICES ASSUME Init PROVE SeenInv /\ UniqueIdsAreExact
    OBVIOUS
  <2>1. Counting = {} /\ Marked = {}
    BY DEF Init, Counting, At, Marked
  <2> QED BY <2>1, FS_EmptySet DEF Init, SeenInv, UniqueIdsAreExact
<1>2. RowInvariant /\ (SeenInv /\ UniqueIdsAreExact) /\ [Next]_vars
        => (SeenInv /\ UniqueIdsAreExact)'
  BY UniqueStep
<1> QED BY <1>1, <1>2, RowAlways, PTL DEF Spec

(* The three together: the counters of row_store_stats are consistent with *)
(* one another and with the cache, for any number of threads and rows.     *)
THEOREM CountersAgree == Spec => []CountersAreExact
<1>1. EvictionsAreExact /\ UniqueIdsAreExact /\ EveryFetchIsBooked => CountersAreExact
  BY DEF CountersAreExact
<1> QED BY <1>1, EvictionsAreCounted, UniqueIdsAreCounted, FetchesAreBooked, PTL
=============================================================================
