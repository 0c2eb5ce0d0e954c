------------------------- MODULE RequestWindow_proofs -------------------------
(***************************************************************************)
(* Theorems about RequestWindow for any number of slots, layers, requests  *)
(* and tokens, any window, page size and chunk: the workspace always       *)
(* suffices, every query finds the rows of its own request in its window,  *)
(* and the check of the tags raises no false alarm, but for the positions  *)
(* the late layers skipped.                                                *)
(*                                                                         *)
(* The first half is about window_layout: the rows of a batch lie slot by  *)
(* slot, so every row and every history row belongs to exactly one slot    *)
(* and stands for one position of it.  The second half is an inductive     *)
(* invariant: what a layer's ring holds of a slot, before and after the    *)
(* layer has taken part in the pass (WindowInv).                           *)
(***************************************************************************)
EXTENDS RequestWindow, FiniteSetTheorems, FunctionTheorems, WellFoundedInduction, TLAPS

(* A layout is that of a batch: of each slot of in, some tokens in a row.  *)
Batch(l, in, first, n, floor) ==
    /\ in \in SUBSET Slots
    /\ \A s \in in : n[s] \in 1 .. MaxLen /\ first[s] \in 0 .. MaxLen /\ floor[s] \in 0 .. MaxLen
    /\ l = RowsOf(in, first, n, floor)

(* The row a slot's tokens begin at.                                       *)
Tokens(S, n) == UNION {{s} \X (1 .. n[s]) : s \in S}
Begins(in, n, s) == Size({t \in in : t < s}, n)

-----------------------------------------------------------------------------
(* Numbers, and finite sets of numbers.                                    *)

LEMMA Constants ==
    /\ IsFiniteSet(Slots) /\ Slots \subseteq Nat
    /\ Layers \in Nat /\ LateStart \in Nat /\ LateStart >= 2 /\ LateStart <= Layers
    /\ Window \in Nat /\ Window > 0 /\ PageSize \in Nat /\ PageSize > 0
    /\ Drafts \in Nat /\ Drafts > 0 /\ Chunk \in Nat /\ Chunk > 0 /\ MaxReqs \in Nat
    /\ MaxPrefix \in Nat /\ MaxLen \in Nat /\ MaxPrefix < MaxLen
BY WindowAssumption DEF WindowAssumption

LEMMA LeastExists ==
    ASSUME NEW S \in SUBSET Nat, S # {}
    PROVE  \E x \in S : \A y \in S : x <= y
<1> DEFINE Less == OpToRel(<, Nat)
<1>1. PICK x \in S : \A y \in S : <<y, x>> \notin Less
  BY NatLessThanWellFounded, WFMin
<1>2. \A y \in S : ~(y < x)
  BY <1>1 DEF OpToRel
<1>3. \A y \in S : y \in Nat /\ x \in Nat
  OBVIOUS
<1> HIDE DEF Less
<1>4. \A y \in S : x <= y
  BY <1>2, <1>3
<1> QED BY <1>4

(* The greatest element is the one with the fewest elements above it.      *)
LEMMA GreatestExists ==
    ASSUME NEW S \in SUBSET Nat, IsFiniteSet(S), S # {}
    PROVE  \E x \in S : \A y \in S : y <= x
<1> DEFINE above(x) == {y \in S : x < y}
           counts == {Cardinality(above(x)) : x \in S}
<1>1. \A x \in S : IsFiniteSet(above(x)) /\ Cardinality(above(x)) \in Nat
  <2> TAKE x \in S
  <2>1. above(x) \in SUBSET S
    OBVIOUS
  <2>2. IsFiniteSet(above(x))
    BY <2>1, FS_Subset
  <2> QED BY <2>2, FS_CardinalityType
<1>2. PICK c \in counts : \A d \in counts : c <= d
  <2>1. \A d \in counts : d \in Nat
    <3> HIDE DEF above
    <3> QED BY <1>1
  <2>2. counts # {}
    <3>1. PICK x \in S : TRUE
      OBVIOUS
    <3>2. Cardinality(above(x)) \in counts
      BY <3>1
    <3> HIDE DEF counts
    <3> QED BY <3>2
  <2> HIDE DEF counts
  <2>3. counts \in SUBSET Nat
    BY <2>1
  <2> QED BY <2>2, <2>3, LeastExists
<1>3. PICK x \in S : c = Cardinality(above(x))
  OBVIOUS
<1>4. ASSUME NEW y \in S, x < y PROVE FALSE
  <2>1. above(y) \in SUBSET above(x) /\ y \in above(x) /\ y \notin above(y)
    <3>1. \A z \in S : y < z => x < z
      BY <1>4
    <3>2. ~(y < y)
      OBVIOUS
    <3> QED BY <1>4, <3>1, <3>2
  <2>2. Cardinality(above(y)) <= Cardinality(above(x)) /\ Cardinality(above(y)) # Cardinality(above(x))
    <3> HIDE DEF above
    <3> QED BY <1>1, <2>1, FS_Subset
  <2>3. Cardinality(above(x)) <= Cardinality(above(y))
    BY <1>2, <1>3
  <2>4. Cardinality(above(x)) \in Nat /\ Cardinality(above(y)) \in Nat
    BY <1>1
  <2> HIDE DEF above
  <2> QED BY <2>2, <2>3, <2>4
<1>5. \A y \in S : y <= x
  BY <1>4
<1> QED BY <1>5

LEMMA LeastIs ==
    ASSUME NEW S \in SUBSET Int, NEW x \in S, \A y \in S : x <= y
    PROVE  Least(S) = x
<1>1. \A y \in S : (\A z \in S : y <= z) => y = x
  OBVIOUS
<1> QED BY <1>1 DEF Least

LEMMA GreatestIs ==
    ASSUME NEW S \in SUBSET Int, NEW x \in S, \A y \in S : y <= x
    PROVE  Greatest(S) = x
<1>1. \A y \in S : (\A z \in S : y >= z) => y = x
  OBVIOUS
<1>2. \A z \in S : x >= z
  OBVIOUS
<1> QED BY <1>1, <1>2 DEF Greatest

(* Products of natural numbers grow with each factor.                      *)
LEMMA Product ==
    ASSUME NEW a \in Nat, NEW b \in Nat, NEW c \in Nat, a <= b
    PROVE  /\ a * c \in Nat /\ b * c \in Nat /\ a * c <= b * c
           /\ (a + 1) * c = a * c + c
OBVIOUS

LEMMA DivMod ==
    ASSUME NEW w \in Nat \ {0}, NEW h \in Int
    PROVE  /\ h \div w \in Int /\ h % w \in 0 .. w - 1 /\ h = (h \div w) * w + (h % w)
OBVIOUS

(* Numbers less than w apart differ modulo w.                              *)
LEMMA ModDiffers ==
    ASSUME NEW w \in Nat \ {0}, NEW p \in Nat, NEW q \in Nat, p < q, q - p < w
    PROVE  p % w # q % w
<1> SUFFICES ASSUME p % w = q % w PROVE FALSE
  OBVIOUS
<1> DEFINE a == p \div w
           b == q \div w
           r == p % w
<1>1. a \in Int /\ b \in Int /\ r \in Int /\ p = a * w + r /\ q = b * w + r
  BY DivMod
<1> HIDE DEF a, b, r
<1>2. CASE b <= a
  <2>1. b * w <= a * w
    BY <1>1, <1>2
  <2> QED BY <1>1, <2>1
<1>3. CASE a + 1 <= b
  <2>1. (a + 1) * w <= b * w /\ (a + 1) * w = a * w + w
    BY <1>1, <1>3
  <2> QED BY <1>1, <2>1
<1> QED BY <1>1, <1>2, <1>3

LEMMA DivModIs ==
    ASSUME NEW w \in Nat \ {0}, NEW g \in Nat, NEW r \in 0 .. w - 1
    PROVE  /\ g * w + r \in Nat /\ (g * w + r) \div w = g /\ (g * w + r) % w = r
<1> DEFINE h == g * w + r
           q == h \div w
           m == h % w
<1>1. h \in Nat /\ q \in Int /\ m \in 0 .. w - 1 /\ g * w + r = q * w + m
  BY DivMod
<1> HIDE DEF q, m
<1>2. q = g
  <2>1. CASE q + 1 <= g
    <3>1. (q + 1) * w <= g * w /\ (q + 1) * w = q * w + w
      BY <1>1, <2>1
    <3> QED BY <1>1, <3>1
  <2>2. CASE g + 1 <= q
    <3>1. (g + 1) * w <= q * w /\ (g + 1) * w = g * w + w
      BY <1>1, <2>2
    <3> QED BY <1>1, <3>1
  <2> QED BY <1>1, <2>1, <2>2
<1>3. m = r
  BY <1>1, <1>2
<1> QED BY <1>1, <1>2, <1>3 DEF q, m

(* What lies below g * w is in one of the g first blocks of w.             *)
LEMMA DivBelow ==
    ASSUME NEW w \in Nat \ {0}, NEW g \in Nat, NEW h \in Nat, h < g * w
    PROVE  h \div w \in 0 .. g - 1
<1> DEFINE q == h \div w
           m == h % w
<1>1. q \in Int /\ m \in 0 .. w - 1 /\ h = q * w + m
  BY DivMod
<1> HIDE DEF q, m
<1>2. ~(q + 1 <= 0)
  <2> SUFFICES ASSUME q + 1 <= 0 PROVE FALSE
    OBVIOUS
  <2>1. (q + 1) * w <= 0 * w /\ (q + 1) * w = q * w + w
    BY <1>1
  <2> QED BY <1>1, <2>1
<1>3. ~(g <= q)
  <2> SUFFICES ASSUME g <= q PROVE FALSE
    OBVIOUS
  <2>1. g * w <= q * w
    BY <1>1
  <2> QED BY <1>1, <2>1
<1> QED BY <1>1, <1>2, <1>3 DEF q

(* The ring holds a window and the rows of a verification.                 *)
LEMMA CapacityBound == Capacity \in Nat \ {0} /\ Window + Drafts <= Capacity
<1> DEFINE n == Window + Drafts
           m == PageSize
           k == n + m - 1
           q == k \div m
           r == k % m
<1>1. n \in Nat /\ n > 0 /\ m \in Nat \ {0} /\ k \in Int /\ k = n + m - 1
  BY Constants
<1>2. q \in Int /\ r \in 0 .. m - 1 /\ k = q * m + r
  <2> HIDE DEF k, n, m
  <2> QED BY <1>1, DivMod
<1>3. Capacity = q * m
  BY DEF Capacity, CeilTo
<1> HIDE DEF k, n, m, q, r
<1>4. n <= q * m /\ q * m \in Int
  BY <1>1, <1>2
<1> QED BY <1>1, <1>3, <1>4 DEF n

-----------------------------------------------------------------------------
(* How many rows some slots have.                                          *)

LEMMA TokensAre ==
    ASSUME NEW S, NEW n
    PROVE  /\ \A x \in S : \A j \in 1 .. n[x] : <<x, j>> \in Tokens(S, n)
           /\ \A t \in Tokens(S, n) : \E x \in S : t \in {x} \X (1 .. n[x])
BY DEF Tokens

LEMMA TokensFinite ==
    ASSUME NEW S \in SUBSET Slots, NEW n, \A x \in S : n[x] \in 1 .. MaxLen
    PROVE  /\ IsFiniteSet(Tokens(S, n)) /\ Size(S, n) = Cardinality(Tokens(S, n))
           /\ Size(S, n) \in Nat
<1>1. \A t \in Tokens(S, n) : t \in S \X (1 .. MaxLen)
  <2> TAKE t \in Tokens(S, n)
  <2>1. PICK x \in S : t \in {x} \X (1 .. n[x])
    BY TokensAre
  <2>2. n[x] \in 1 .. MaxLen /\ MaxLen \in Nat
    BY Constants
  <2> QED BY <2>1, <2>2
<1>2. IsFiniteSet(S)
  BY Constants, FS_Subset
<1>3. IsFiniteSet(S \X (1 .. MaxLen))
  <2>1. IsFiniteSet(1 .. MaxLen)
    BY Constants, FS_Interval
  <2> QED BY <1>2, <2>1, FS_Product
<1>4. Tokens(S, n) \in SUBSET (S \X (1 .. MaxLen))
  BY <1>1
<1>5. IsFiniteSet(Tokens(S, n))
  BY <1>3, <1>4, FS_Subset
<1>6. Size(S, n) = Cardinality(Tokens(S, n))
  BY DEF Size, Tokens
<1> QED BY <1>5, <1>6, FS_CardinalityType

(* Fewer slots with fewer rows have fewer rows.                            *)
LEMMA SizeGrows ==
    ASSUME NEW T \in SUBSET Slots, NEW n, \A x \in T : n[x] \in 1 .. MaxLen,
           NEW S \in SUBSET T, NEW m, \A x \in S : m[x] \in 1 .. MaxLen /\ m[x] <= n[x]
    PROVE  Size(S, m) <= Size(T, n)
<1>1. \A t \in Tokens(S, m) : t \in Tokens(T, n)
  <2> TAKE t \in Tokens(S, m)
  <2>1. PICK x \in S : t \in {x} \X (1 .. m[x])
    BY TokensAre
  <2>2. PICK j \in 1 .. m[x] : t = <<x, j>>
    BY <2>1
  <2>3. x \in T /\ j \in 1 .. n[x]
    <3>1. m[x] \in Int /\ n[x] \in Int /\ m[x] <= n[x]
      OBVIOUS
    <3> QED BY <3>1
  <2> QED BY <2>2, <2>3, TokensAre
<1>2. Tokens(S, m) \in SUBSET Tokens(T, n) /\ IsFiniteSet(Tokens(T, n))
  BY <1>1, TokensFinite
<1>3. Size(S, m) = Cardinality(Tokens(S, m)) /\ Size(T, n) = Cardinality(Tokens(T, n))
  BY TokensFinite
<1> QED BY <1>2, <1>3, FS_Subset

LEMMA SizeAdds ==
    ASSUME NEW S \in SUBSET Slots, NEW s \in Slots \ S, NEW n,
           \A x \in S \cup {s} : n[x] \in 1 .. MaxLen
    PROVE  Size(S \cup {s}, n) = Size(S, n) + n[s]
<1> DEFINE own == {s} \X (1 .. n[s])
           all == S \cup {s}
<1>1. /\ IsFiniteSet(Tokens(S, n)) /\ Size(S, n) = Cardinality(Tokens(S, n)) /\ Size(S, n) \in Nat
      /\ Size(all, n) = Cardinality(Tokens(all, n))
  BY TokensFinite
<1>2. n[s] \in Nat
  BY Constants
<1>3. IsFiniteSet(own) /\ Cardinality(own) = n[s]
  <2>1. IsFiniteSet(1 .. n[s]) /\ Cardinality(1 .. n[s]) = n[s]
    BY <1>2, FS_Interval
  <2>2. IsFiniteSet({s}) /\ Cardinality({s}) = 1
    BY FS_Singleton
  <2>3. IsFiniteSet(own) /\ Cardinality(own) = 1 * n[s]
    BY <2>1, <2>2, FS_Product
  <2> QED BY <1>2, <2>3
<1>4. Tokens(all, n) = Tokens(S, n) \cup own
  BY DEF Tokens
<1>5. Tokens(S, n) \cap own = {}
  <2> SUFFICES ASSUME NEW t \in Tokens(S, n), t \in own PROVE FALSE
    OBVIOUS
  <2>1. PICK x \in S : t \in {x} \X (1 .. n[x])
    BY TokensAre
  <2> QED BY <2>1
<1>6. Cardinality(Tokens(S, n) \cap own) = 0
  BY <1>5, FS_EmptySet
<1> HIDE DEF own
<1>7. Cardinality(Tokens(S, n) \cup own) = Cardinality(Tokens(S, n)) + Cardinality(own)
                                           - Cardinality(Tokens(S, n) \cap own)
  BY <1>1, <1>3, FS_Union
<1>8. Cardinality(Tokens(S, n) \cup own) = Size(S, n) + n[s]
  BY <1>1, <1>2, <1>3, <1>6, <1>7
<1> QED BY <1>1, <1>4, <1>8

(* All rows of a slot have the same number.                                *)
LEMMA SizeOfEqual ==
    ASSUME NEW S \in SUBSET Slots, NEW m \in 1 .. MaxLen, NEW n, \A x \in S : n[x] = m
    PROVE  Size(S, n) = Cardinality(S) * m
<1>1. m \in Nat /\ IsFiniteSet(S) /\ IsFiniteSet(1 .. m) /\ Cardinality(1 .. m) = m
  <2>1. m \in Nat
    BY Constants
  <2>2. IsFiniteSet(S)
    BY Constants, FS_Subset
  <2> QED BY <2>1, <2>2, FS_Interval
<1>2. Tokens(S, n) = S \X (1 .. m)
  <2>1. \A t \in Tokens(S, n) : t \in S \X (1 .. m)
    BY TokensAre
  <2>2. \A t \in S \X (1 .. m) : t \in Tokens(S, n)
    <3> TAKE t \in S \X (1 .. m)
    <3>1. PICK x \in S, j \in 1 .. m : t = <<x, j>>
      OBVIOUS
    <3> QED BY <3>1, TokensAre
  <2> QED BY <2>1, <2>2
<1>3. Size(S, n) = Cardinality(Tokens(S, n))
  BY DEF Size, Tokens
<1>4. Cardinality(S \X (1 .. m)) = Cardinality(S) * m
  BY <1>1, FS_Product
<1> QED BY <1>2, <1>3, <1>4

(* Where the rows of a slot begin: behind those of every lower slot.       *)
LEMMA BeginsBehind ==
    ASSUME NEW in \in SUBSET Slots, NEW n, \A x \in in : n[x] \in 1 .. MaxLen, NEW s \in in
    PROVE  /\ Begins(in, n, s) \in Nat /\ Size(in, n) \in Nat
           /\ Size({t \in in : t <= s}, n) = Begins(in, n, s) + n[s]
           /\ Begins(in, n, s) + n[s] <= Size(in, n)
           /\ \A t \in in : s < t => Begins(in, n, s) + n[s] <= Begins(in, n, t)
<1> DEFINE lower(t) == {x \in in : x < t}
           upto == {x \in in : x <= s}
<1>0. \A x \in in : x \in Nat
  BY Constants
<1>1. /\ lower(s) \in SUBSET Slots /\ s \in Slots \ lower(s) /\ upto = lower(s) \cup {s}
      /\ upto \in SUBSET in /\ upto \in SUBSET Slots
  BY <1>0
<1>2. Begins(in, n, s) = Size(lower(s), n)
  BY DEF Begins
<1>3. Size(upto, n) = Size(lower(s), n) + n[s]
  <2> HIDE DEF lower, upto
  <2>1. \A x \in lower(s) \cup {s} : n[x] \in 1 .. MaxLen
    BY <1>1
  <2> QED BY <1>1, <2>1, SizeAdds
<1>4. Size(lower(s), n) \in Nat /\ Size(in, n) \in Nat
  BY TokensFinite
<1>5. Size(upto, n) <= Size(in, n)
  <2> HIDE DEF upto
  <2>1. \A x \in upto : n[x] \in 1 .. MaxLen /\ n[x] <= n[x]
    BY <1>1
  <2> QED BY <1>1, <2>1, SizeGrows
<1>6. ASSUME NEW t \in in, s < t PROVE Size(upto, n) <= Size(lower(t), n)
  <2>1. upto \in SUBSET lower(t)
    BY <1>0, <1>6
  <2>2. lower(t) \in SUBSET Slots /\ \A x \in lower(t) : n[x] \in 1 .. MaxLen
    OBVIOUS
  <2> HIDE DEF upto, lower
  <2>3. \A x \in upto : n[x] \in 1 .. MaxLen /\ n[x] <= n[x]
    BY <2>1, <2>2
  <2> QED BY <2>1, <2>2, <2>3, SizeGrows
<1>7. \A t \in in : s < t => Begins(in, n, s) + n[s] <= Begins(in, n, t)
  BY <1>2, <1>3, <1>6 DEF Begins
<1> QED BY <1>2, <1>3, <1>4, <1>5, <1>7

(* Every row is of some slot.                                              *)
LEMMA RowHasSlot ==
    ASSUME NEW in \in SUBSET Slots, NEW n, \A x \in in : n[x] \in 1 .. MaxLen,
           NEW i \in 0 .. Size(in, n) - 1
    PROVE  \E s \in in : Begins(in, n, s) <= i /\ i < Begins(in, n, s) + n[s]
<1> DEFINE begun == {s \in in : Begins(in, n, s) <= i}
<1>0. /\ Size(in, n) \in Nat /\ IsFiniteSet(in) /\ in \in SUBSET Nat
      /\ i \in Nat /\ i < Size(in, n)
  <2>1. Size(in, n) \in Nat
    BY TokensFinite
  <2>2. IsFiniteSet(in) /\ in \in SUBSET Nat
    BY Constants, FS_Subset
  <2> QED BY <2>1, <2>2
<1>1. Size({}, n) = 0
  <2>1. Tokens({}, n) = {}
    BY DEF Tokens
  <2> QED BY <2>1, FS_EmptySet DEF Size, Tokens
<1>2. in # {}
  <2> SUFFICES ASSUME in = {} PROVE FALSE
    OBVIOUS
  <2>1. Size(in, n) = 0
    BY <1>1
  <2> HIDE DEF begun
  <2> QED BY <1>0, <2>1
<1>3. begun # {}
  <2>1. PICK s \in in : \A t \in in : s <= t
    BY <1>0, <1>2, LeastExists
  <2>2. {t \in in : t < s} = {}
    <3> HIDE DEF begun
    <3>1. \A t \in in : ~(t < s)
      BY <1>0, <2>1
    <3> QED BY <3>1
  <2>3. Begins(in, n, s) = 0
    BY <1>1, <2>2 DEF Begins
  <2> QED BY <1>0, <2>3
<1>4. PICK s \in begun : \A t \in begun : t <= s
  <2>1. begun \in SUBSET in
    OBVIOUS
  <2>2. begun \in SUBSET Nat /\ IsFiniteSet(begun)
    BY <1>0, <2>1, FS_Subset
  <2> HIDE DEF begun
  <2> QED BY <1>3, <2>2, GreatestExists
<1> DEFINE upto == {t \in in : t <= s}
           above == {t \in in : s < t}
<1>5. /\ s \in in /\ Begins(in, n, s) <= i /\ Begins(in, n, s) \in Nat
      /\ Size(upto, n) = Begins(in, n, s) + n[s]
  BY BeginsBehind
<1>6. i < Size(upto, n)
  <2>1. CASE above = {}
    <3>1. \A t \in in : t <= s
      BY <1>0, <1>5, <2>1
    <3>2. upto = in
      BY <3>1
    <3> QED BY <1>0, <3>2
  <2>2. CASE above # {}
    <3>1. PICK u \in above : \A t \in above : u <= t
      <4>1. above \in SUBSET Nat
        BY <1>0
      <4> HIDE DEF above
      <4> QED BY <2>2, <4>1, LeastExists
    <3>2. {t \in in : t < u} = upto
      <4>1. \A t \in in : t < u <=> t <= s
        <5> TAKE t \in in
        <5>1. t \in Nat /\ s \in Nat /\ u \in Nat /\ s < u
          BY <1>0, <1>5, <3>1
        <5>2. s < t => u <= t
          BY <3>1
        <5> QED BY <5>1, <5>2
      <4> QED BY <4>1
    <3>3. Begins(in, n, u) = Size(upto, n)
      BY <3>2 DEF Begins
    <3>4. u \notin begun /\ u \in in
      BY <1>0, <1>4, <3>1
    <3>5. ~(Begins(in, n, u) <= i) /\ Begins(in, n, u) \in Nat
      BY <3>4, BeginsBehind
    <3> QED BY <1>0, <3>3, <3>5
  <2> QED BY <2>1, <2>2
<1> QED BY <1>5, <1>6

(* And of no other.                                                        *)
LEMMA RowHasOneSlot ==
    ASSUME NEW in \in SUBSET Slots, NEW n, \A x \in in : n[x] \in 1 .. MaxLen, NEW i \in Nat,
           NEW s \in in, Begins(in, n, s) <= i, i < Begins(in, n, s) + n[s],
           NEW t \in in, Begins(in, n, t) <= i, i < Begins(in, n, t) + n[t]
    PROVE  s = t
<1>1. s \in Nat /\ t \in Nat /\ n[s] \in Nat /\ n[t] \in Nat
  BY Constants
<1>2. /\ Begins(in, n, s) \in Nat /\ Begins(in, n, t) \in Nat
      /\ s < t => Begins(in, n, s) + n[s] <= Begins(in, n, t)
      /\ t < s => Begins(in, n, t) + n[t] <= Begins(in, n, s)
  BY BeginsBehind
<1> QED BY <1>1, <1>2

-----------------------------------------------------------------------------
(* The layout of a batch (window_layout).                                  *)

LEMMA BatchTypes ==
    ASSUME NEW l, NEW in, NEW first, NEW n, NEW floor, Batch(l, in, first, n, floor)
    PROVE  /\ in \in SUBSET Slots /\ in \in SUBSET Nat /\ IsFiniteSet(in)
           /\ Cardinality(in) \in Nat
           /\ \A s \in in : /\ n[s] \in 1 .. MaxLen /\ n[s] \in Nat /\ n[s] > 0
                            /\ first[s] \in 0 .. MaxLen /\ first[s] \in Nat
                            /\ floor[s] \in 0 .. MaxLen /\ floor[s] \in Nat
<1>1. in \in SUBSET Slots /\ in \in SUBSET Nat
  BY Constants DEF Batch
<1>2. IsFiniteSet(in)
  BY <1>1, Constants, FS_Subset
<1>3. Cardinality(in) \in Nat
  BY <1>2, FS_CardinalityType
<1>4. \A s \in in : n[s] \in 1 .. MaxLen /\ first[s] \in 0 .. MaxLen /\ floor[s] \in 0 .. MaxLen
  BY DEF Batch
<1>5. \A k \in 0 .. MaxLen : k \in Nat
  BY Constants
<1>6. \A k \in 1 .. MaxLen : k \in Nat /\ k > 0
  BY Constants
<1> QED BY <1>1, <1>2, <1>3, <1>4, <1>5, <1>6

LEMMA BatchBegins ==
    ASSUME NEW l, NEW in, NEW first, NEW n, NEW floor, Batch(l, in, first, n, floor),
           NEW s \in in
    PROVE  /\ Begins(in, n, s) \in Nat /\ Size(in, n) \in Nat
           /\ Begins(in, n, s) + n[s] <= Size(in, n)
           /\ \A t \in in : /\ s < t => Begins(in, n, s) + n[s] <= Begins(in, n, t)
                            /\ s # t => Begins(in, n, s) # Begins(in, n, t)
<1>1. /\ in \in SUBSET Slots /\ \A t \in in : n[t] \in 1 .. MaxLen /\ n[t] \in Nat /\ n[t] > 0 /\ t \in Nat
  BY BatchTypes
<1>2. \A t \in in : /\ Begins(in, n, t) \in Nat /\ Size(in, n) \in Nat
                    /\ Begins(in, n, t) + n[t] <= Size(in, n)
                    /\ \A u \in in : t < u => Begins(in, n, t) + n[t] <= Begins(in, n, u)
  BY <1>1, BeginsBehind
<1>3. ASSUME NEW t \in in, s # t PROVE Begins(in, n, s) # Begins(in, n, t)
  <2>1. s < t \/ t < s
    BY <1>1, <1>3
  <2>2. CASE s < t
    BY <1>1, <1>2, <2>2
  <2>3. CASE t < s
    BY <1>1, <1>2, <2>3
  <2> QED BY <2>1, <2>2, <2>3
<1> QED BY <1>2, <1>3

(* Row i is of slot req[i], one of the n rows from where its rows begin.   *)
LEMMA BatchRows ==
    ASSUME NEW l, NEW in, NEW first, NEW n, NEW floor, Batch(l, in, first, n, floor)
    PROVE  /\ Rows(l) = 0 .. Size(in, n) - 1 /\ Rows(l) \in SUBSET Nat
           /\ HistoryRows(l) = Cardinality(in) * Window
           /\ \A i \in Rows(l) :
                /\ l.req[i] \in in
                /\ Begins(in, n, l.req[i]) <= i /\ i < Begins(in, n, l.req[i]) + n[l.req[i]]
                /\ l.pos[i] = first[l.req[i]] + (i - Begins(in, n, l.req[i]))
                /\ l.floor[i] = floor[l.req[i]]
           /\ \A s \in in, i \in Nat :
                Begins(in, n, s) <= i /\ i < Begins(in, n, s) + n[s] => i \in Rows(l) /\ l.req[i] = s
<1> DEFINE rows == 0 .. Size(in, n) - 1
           of == [i \in rows |-> CHOOSE s \in in : Begins(in, n, s) <= i /\ i < Begins(in, n, s) + n[s]]
<1>1. /\ l.req = of
      /\ l.pos = [i \in rows |-> first[of[i]] + i - Begins(in, n, of[i])]
      /\ l.floor = [i \in rows |-> floor[of[i]]] /\ l.groups = Cardinality(in)
  BY DEF Batch, RowsOf, Begins
<1>2. Rows(l) = rows
  BY <1>1 DEF Rows
<1>3. /\ in \in SUBSET Slots
      /\ \A s \in in : n[s] \in 1 .. MaxLen /\ n[s] \in Nat /\ first[s] \in Nat
  BY BatchTypes
<1>4. \A s \in in : /\ Begins(in, n, s) \in Nat /\ Size(in, n) \in Nat
                    /\ Begins(in, n, s) + n[s] <= Size(in, n)
  BY BatchBegins
<1>5. ASSUME NEW i \in rows
      PROVE  /\ of[i] \in in /\ Begins(in, n, of[i]) <= i
             /\ i < Begins(in, n, of[i]) + n[of[i]]
  <2>1. \E s \in in : Begins(in, n, s) <= i /\ i < Begins(in, n, s) + n[s]
    BY <1>3, RowHasSlot
  <2>2. of[i] = CHOOSE s \in in : Begins(in, n, s) <= i /\ i < Begins(in, n, s) + n[s]
    OBVIOUS
  <2> HIDE DEF of
  <2> QED BY <2>1, <2>2
<1>6. Size(in, n) \in Nat
  BY <1>3, TokensFinite
<1> HIDE DEF of
<1>7. ASSUME NEW s \in in, NEW i \in Nat, Begins(in, n, s) <= i, i < Begins(in, n, s) + n[s]
      PROVE  i \in rows /\ of[i] = s
  <2>1. i \in rows
    <3>1. i < Size(in, n)
      BY <1>3, <1>4, <1>7
    <3> QED BY <1>6, <3>1
  <2> QED BY <1>3, <1>5, <1>7, <2>1, RowHasOneSlot
<1>8. \A i \in rows : /\ of[i] \in in /\ Begins(in, n, of[i]) \in Nat /\ first[of[i]] \in Nat /\ i \in Nat
                      /\ l.pos[i] = first[of[i]] + i - Begins(in, n, of[i])
                      /\ l.floor[i] = floor[of[i]]
  BY <1>1, <1>3, <1>4, <1>5, <1>6
<1>9. \A i \in rows : l.pos[i] = first[of[i]] + (i - Begins(in, n, of[i]))
  BY <1>8
<1>10. rows \in SUBSET Nat
  BY <1>6
<1> HIDE DEF rows
<1>11. HistoryRows(l) = Cardinality(in) * Window
  BY <1>1 DEF HistoryRows
<1>12. \A i \in rows : l.req[i] = of[i]
  BY <1>1
<1>13. \A i \in Rows(l) :
         /\ l.req[i] \in in
         /\ Begins(in, n, l.req[i]) <= i /\ i < Begins(in, n, l.req[i]) + n[l.req[i]]
         /\ l.pos[i] = first[l.req[i]] + (i - Begins(in, n, l.req[i]))
         /\ l.floor[i] = floor[l.req[i]]
  BY <1>2, <1>5, <1>8, <1>9, <1>12
<1> QED BY <1>2, <1>7, <1>10, <1>11, <1>12, <1>13 DEF rows

(* The rows of a slot are one group.                                       *)
LEMMA BatchStarts ==
    ASSUME NEW l, NEW in, NEW first, NEW n, NEW floor, Batch(l, in, first, n, floor)
    PROVE  /\ Starts(l) = {Begins(in, n, s) : s \in in} /\ Starts(l) \in SUBSET Rows(l)
           /\ \A s \in in : l.req[Begins(in, n, s)] = s
<1>0. /\ Rows(l) = 0 .. Size(in, n) - 1 /\ Rows(l) \in SUBSET Nat
      /\ \A i \in Rows(l) :
           /\ l.req[i] \in in
           /\ Begins(in, n, l.req[i]) <= i /\ i < Begins(in, n, l.req[i]) + n[l.req[i]]
      /\ \A s \in in, i \in Nat :
           Begins(in, n, s) <= i /\ i < Begins(in, n, s) + n[s] => i \in Rows(l) /\ l.req[i] = s
  BY BatchRows
<1>1. \A s \in in : Begins(in, n, s) \in Nat /\ n[s] \in Nat /\ n[s] > 0
  BY BatchTypes, BatchBegins
<1>2. \A s \in in : Begins(in, n, s) \in Rows(l) /\ l.req[Begins(in, n, s)] = s
  BY <1>0, <1>1
<1>3. ASSUME NEW s \in in PROVE Begins(in, n, s) \in Starts(l)
  <2> DEFINE b == Begins(in, n, s)
  <2>1. b \in Rows(l) /\ l.req[b] = s /\ b \in Nat
    BY <1>1, <1>2
  <2>2. ASSUME b # 0, l.req[b - 1] = s PROVE FALSE
    <3>1. b - 1 \in Rows(l)
      <4>1. Size(in, n) \in Nat
        BY BatchBegins
      <4> HIDE DEF b
      <4> QED BY <1>0, <2>1, <2>2, <4>1
    <3>2. Begins(in, n, s) <= b - 1
      BY <1>0, <2>2, <3>1
    <3> QED BY <2>1, <3>2
  <2> QED BY <2>1, <2>2 DEF Starts
<1>4. ASSUME NEW i \in Starts(l) PROVE i = Begins(in, n, l.req[i]) /\ l.req[i] \in in
  <2>1. i \in Rows(l) /\ i \in Nat /\ (i = 0 \/ l.req[i] # l.req[i - 1])
    BY <1>0 DEF Starts
  <2> DEFINE s == l.req[i]
             b == Begins(in, n, s)
  <2>2. s \in in /\ b \in Nat /\ b <= i /\ i < b + n[s]
    BY <1>0, <1>1, <2>1
  <2>3. ASSUME b < i PROVE FALSE
    <3>1. i # 0 /\ i - 1 \in Nat /\ b <= i - 1 /\ i - 1 < b + n[s]
      <4>1. n[s] \in Nat
        BY <1>1, <2>2
      <4> HIDE DEF b
      <4> QED BY <2>1, <2>2, <2>3, <4>1
    <3>2. l.req[i - 1] = s
      BY <1>0, <2>2, <3>1
    <3> QED BY <2>1, <3>1, <3>2
  <2>4. b = i
    <3> HIDE DEF b
    <3> QED BY <2>1, <2>2, <2>3
  <2> QED BY <2>2, <2>4
<1>5. Starts(l) = {Begins(in, n, s) : s \in in}
  BY <1>3, <1>4
<1> QED BY <1>2, <1>5 DEF Starts

LEMMA BatchGroups ==
    ASSUME NEW l, NEW in, NEW first, NEW n, NEW floor, Batch(l, in, first, n, floor),
           NEW i \in Rows(l)
    PROVE  /\ GroupFirst(l, i) = Begins(in, n, l.req[i])
           /\ GroupLast(l, i) = Begins(in, n, l.req[i]) + n[l.req[i]] - 1
           /\ FirstPos(l, i) = first[l.req[i]]
           /\ {j \in Starts(l) : j <= i} = {j \in Starts(l) : j <= GroupFirst(l, i)}
<1> DEFINE s == l.req[i]
           b == Begins(in, n, s)
           e == b + n[s] - 1
           upto == {j \in Starts(l) : j <= i}
<1>0. /\ Rows(l) \in SUBSET Nat
      /\ \A j \in Rows(l) :
           /\ l.req[j] \in in
           /\ Begins(in, n, l.req[j]) <= j /\ j < Begins(in, n, l.req[j]) + n[l.req[j]]
           /\ l.pos[j] = first[l.req[j]] + (j - Begins(in, n, l.req[j]))
      /\ \A t \in in, j \in Nat :
           Begins(in, n, t) <= j /\ j < Begins(in, n, t) + n[t] => j \in Rows(l) /\ l.req[j] = t
  BY BatchRows
<1>1. \A t \in in : /\ Begins(in, n, t) \in Nat /\ n[t] \in Nat /\ n[t] > 0 /\ first[t] \in Nat /\ t \in Nat
                    /\ \A u \in in : t < u => Begins(in, n, t) + n[t] <= Begins(in, n, u)
  BY BatchTypes, BatchBegins
<1>2. /\ s \in in /\ i \in Nat /\ b \in Nat /\ n[s] \in Nat /\ n[s] > 0
      /\ b <= i /\ i < b + n[s] /\ l.pos[i] = first[s] + (i - b) /\ first[s] \in Nat
  BY <1>0, <1>1
<1>3. /\ Starts(l) = {Begins(in, n, t) : t \in in} /\ Starts(l) \in SUBSET Rows(l)
      /\ Starts(l) \in SUBSET Nat
  BY <1>0, BatchStarts
<1>4. ASSUME NEW j \in Starts(l), j <= i PROVE j <= b
  <2>1. PICK t \in in : j = Begins(in, n, t)
    BY <1>3
  <2>2. ~(s < t)
    <3> SUFFICES ASSUME s < t PROVE FALSE
      OBVIOUS
    <3>1. b + n[s] <= j
      BY <1>1, <1>2, <2>1
    <3> HIDE DEF b, s
    <3> QED BY <1>2, <1>3, <1>4, <3>1
  <2>3. s \in Nat /\ t \in Nat
    BY <1>1, <1>2
  <2>4. CASE t = s
    BY <1>2, <2>1, <2>4
  <2>5. CASE t < s
    <3>1. j + n[t] <= b /\ n[t] \in Nat /\ j \in Nat
      BY <1>1, <1>2, <2>1, <2>5
    <3> HIDE DEF b, s
    <3> QED BY <1>2, <3>1
  <2> QED BY <2>2, <2>3, <2>4, <2>5
<1>5. GroupFirst(l, i) = b
  <2>1. b \in upto
    BY <1>2, <1>3
  <2>2. upto \in SUBSET Int /\ \A j \in upto : j <= b
    BY <1>3, <1>4
  <2>3. GroupFirst(l, i) = Greatest(upto)
    BY DEF GroupFirst
  <2> HIDE DEF upto, b
  <2> QED BY <2>1, <2>2, <2>3, GreatestIs
<1>6. GroupLast(l, i) = e
  <2> DEFINE last == {j \in Rows(l) : j >= i /\ (j + 1 \in Starts(l) \/ j + 1 \notin Rows(l))}
  <2>0. e \in Nat /\ b <= e /\ i <= e /\ e < b + n[s] /\ e + 1 = b + n[s]
    <3> HIDE DEF b, s
    <3> QED BY <1>2
  <2>1. e \in Rows(l) /\ l.req[e] = s
    BY <1>0, <1>2, <2>0
  <2>2. e \in last
    <3> SUFFICES ASSUME e + 1 \in Rows(l) PROVE e + 1 \in Starts(l)
      BY <1>2, <2>0, <2>1
    <3>1. l.req[e + 1] # s
      <4> SUFFICES ASSUME l.req[e + 1] = s PROVE FALSE
        OBVIOUS
      <4>1. e + 1 < b + n[s]
        BY <1>0
      <4> HIDE DEF e, b, s
      <4> QED BY <1>2, <2>0, <4>1
    <3>2. (e + 1) - 1 = e
      BY <2>0
    <3> QED BY <2>1, <3>1, <3>2 DEF Starts
  <2>3. ASSUME NEW j \in last PROVE e <= j
    <3> SUFFICES ASSUME j < e PROVE FALSE
      <4> HIDE DEF e
      <4> QED BY <1>0, <2>0
    <3>1. /\ j \in Nat /\ i <= j /\ j + 1 \in Nat /\ (j + 1) - 1 = j
          /\ b <= j /\ j < b + n[s] /\ b <= j + 1 /\ j + 1 < b + n[s]
      <4>1. j \in Nat /\ i <= j
        BY <1>0
      <4> HIDE DEF e, b, s
      <4> QED BY <1>2, <2>0, <4>1
    <3>2. l.req[j] = s /\ j + 1 \in Rows(l) /\ l.req[j + 1] = s
      BY <1>0, <1>2, <3>1
    <3>3. j + 1 \in Starts(l)
      BY <3>2
    <3>4. j + 1 # 0
      BY <3>1
    <3> QED BY <3>1, <3>2, <3>3, <3>4 DEF Starts
  <2>4. last \in SUBSET Int
    BY <1>0
  <2>5. GroupLast(l, i) = Least(last)
    BY DEF GroupLast
  <2> HIDE DEF last, e
  <2> QED BY <2>2, <2>3, <2>4, <2>5, LeastIs
<1>7. FirstPos(l, i) = first[s]
  <2>1. FirstPos(l, i) = (first[s] + (i - b)) - (i - b)
    BY <1>2, <1>5 DEF FirstPos
  <2> HIDE DEF b, s
  <2> QED BY <1>2, <2>1
<1>8. upto = {j \in Starts(l) : j <= b}
  <2>1. \A j \in Starts(l) : j <= b => j <= i
    <3> TAKE j \in Starts(l)
    <3> HIDE DEF b, s
    <3> QED BY <1>2, <1>3
  <2> QED BY <1>4, <2>1
<1> QED BY <1>5, <1>6, <1>7, <1>8

(* The groups are numbered from 0 on, in the order of their rows.          *)
LEMMA BatchNumbers ==
    ASSUME NEW l, NEW in, NEW first, NEW n, NEW floor, Batch(l, in, first, n, floor)
    PROVE  /\ \A i \in Rows(l) : /\ Group(l, i) \in 0 .. Cardinality(in) - 1
                                 /\ Group(l, i) = Group(l, GroupFirst(l, i))
           /\ \A j, k \in Starts(l) : Group(l, j) = Group(l, k) => j = k
           /\ \A g \in 0 .. Cardinality(in) - 1 : \E j \in Starts(l) : Group(l, j) = g
<1> DEFINE starts == Starts(l)
           N == Cardinality(in)
           upto(i) == {j \in starts : j <= i}
<1>1. /\ starts = {Begins(in, n, s) : s \in in} /\ starts \in SUBSET Rows(l)
      /\ starts \in SUBSET Nat /\ Rows(l) \in SUBSET Nat
  BY BatchStarts, BatchRows
<1>2. IsFiniteSet(in) /\ N \in Nat
  BY BatchTypes
<1>3. IsFiniteSet(starts) /\ Cardinality(starts) = N
  <2> DEFINE f == [s \in in |-> Begins(in, n, s)]
  <2>1. \A s, t \in in : s # t => Begins(in, n, s) # Begins(in, n, t)
    BY BatchBegins
  <2>2. f \in [in -> starts] /\ \A s, t \in in : f[s] = f[t] => s = t
    BY <1>1, <2>1
  <2>3. \A j \in starts : \E s \in in : f[s] = j
    BY <1>1
  <2> HIDE DEF f, starts
  <2>4. f \in Injection(in, starts)
    BY <2>2, Fun_IsInj
  <2>5. f \in Surjection(in, starts)
    BY <2>2, <2>3, Fun_IsSurj
  <2> QED BY <1>2, <2>4, <2>5, FS_Surjection
<1>4. ASSUME NEW i PROVE /\ IsFiniteSet(upto(i)) /\ Cardinality(upto(i)) \in 0 .. N
                         /\ Group(l, i) = Cardinality(upto(i)) - 1
  <2>1. upto(i) \in SUBSET starts
    OBVIOUS
  <2>2. Group(l, i) = Cardinality(upto(i)) - 1
    BY DEF Group
  <2> HIDE DEF upto, starts
  <2>3. IsFiniteSet(upto(i)) /\ Cardinality(upto(i)) <= N
    BY <1>3, <2>1, FS_Subset
  <2>4. Cardinality(upto(i)) \in Nat
    BY <2>3, FS_CardinalityType
  <2> QED BY <1>2, <2>2, <2>3, <2>4
<1>5. ASSUME NEW i \in Rows(l) PROVE /\ Group(l, i) \in 0 .. N - 1
                                     /\ Group(l, i) = Group(l, GroupFirst(l, i))
  <2>1. /\ GroupFirst(l, i) = Begins(in, n, l.req[i]) /\ l.req[i] \in in
        /\ Begins(in, n, l.req[i]) <= i
        /\ upto(i) = upto(GroupFirst(l, i))
    BY BatchGroups, BatchRows
  <2>2. GroupFirst(l, i) \in upto(i)
    BY <1>1, <2>1
  <2>3. Cardinality(upto(i)) # 0
    <3> HIDE DEF upto
    <3> QED BY <1>4, <2>2, FS_EmptySet
  <2> HIDE DEF upto
  <2>4. Cardinality(upto(i)) - 1 \in 0 .. N - 1
    BY <1>2, <1>4, <2>3
  <2> QED BY <1>4, <2>1, <2>4
<1>6. ASSUME NEW j \in starts, NEW k \in starts, j < k PROVE Group(l, j) < Group(l, k)
  <2>1. j \in Nat /\ k \in Nat
    BY <1>1
  <2>2. upto(j) \in SUBSET upto(k)
    <3>1. \A i \in starts : i <= j => i <= k
      BY <1>1, <1>6, <2>1
    <3> QED BY <3>1
  <2>3. k \in upto(k) /\ k \notin upto(j)
    BY <1>6, <2>1
  <2> HIDE DEF upto
  <2>4. /\ Cardinality(upto(j)) <= Cardinality(upto(k))
        /\ Cardinality(upto(j)) # Cardinality(upto(k))
    BY <1>4, <2>2, <2>3, FS_Subset
  <2>5. Cardinality(upto(j)) \in 0 .. N /\ Cardinality(upto(k)) \in 0 .. N
    BY <1>4
  <2> QED BY <1>2, <1>4, <2>4, <2>5
<1>7. ASSUME NEW j \in starts, NEW k \in starts, Group(l, j) = Group(l, k) PROVE j = k
  <2>1. j \in Nat /\ k \in Nat /\ j \in Rows(l) /\ k \in Rows(l)
    BY <1>1
  <2>2. Group(l, j) \in 0 .. N - 1 /\ Group(l, k) \in 0 .. N - 1
    BY <1>5, <2>1
  <2>3. ~(j < k) /\ ~(k < j)
    BY <1>2, <1>6, <1>7, <2>2
  <2> QED BY <2>1, <2>3
<1>8. \A g \in 0 .. N - 1 : \E j \in starts : Group(l, j) = g
  <2> DEFINE f == [j \in starts |-> Group(l, j)]
             D == 0 .. N - 1
  <2>1. \A j \in starts : f[j] = Group(l, j) /\ f[j] \in D
    BY <1>1, <1>5
  <2>2. f \in [starts -> D] /\ \A j, k \in starts : f[j] = f[k] => j = k
    BY <1>7, <2>1
  <2>3. IsFiniteSet(D) /\ Cardinality(D) = N
    BY <1>2, FS_Interval
  <2> HIDE DEF f, D, starts
  <2>4. f \in Injection(starts, D)
    BY <2>2, Fun_IsInj
  <2>5. f \in Surjection(starts, D)
    BY <1>3, <2>3, <2>4, FS_Injection
  <2>6. \A g \in D : \E j \in starts : f[j] = g
    BY <2>5, Fun_SurjectionProperties
  <2> QED BY <2>1, <2>6 DEF D
<1> QED BY <1>5, <1>7, <1>8

(* Every history row is of one slot, and of one of the Window positions    *)
(* before its tokens.                                                      *)
LEMMA BatchHistory ==
    ASSUME NEW l, NEW in, NEW first, NEW n, NEW floor, Batch(l, in, first, n, floor),
           NEW h \in 0 .. HistoryRows(l) - 1
    PROVE  /\ HistoryReq(l, h) \in in /\ h % Window \in 0 .. Window - 1
           /\ HistoryPos(l, h) = first[HistoryReq(l, h)] - Window + (h % Window)
           /\ HistoryValid(l, h) <=> /\ HistoryPos(l, h) >= 0
                                     /\ HistoryPos(l, h) >= floor[HistoryReq(l, h)]
           /\ \A i \in Rows(l) : Group(l, i) = h \div Window => HistoryReq(l, h) = l.req[i]
<1> DEFINE N == Cardinality(in)
           heads == {i \in Starts(l) : Group(l, i) = h \div Window}
<1>1. HistoryRows(l) = N * Window /\ N \in Nat /\ Window \in Nat \ {0} /\ N * Window \in Nat
  BY BatchRows, BatchTypes, Constants
<1>2. h \in Nat /\ h < N * Window /\ h \in Int
  BY <1>1
<1>3. h \div Window \in 0 .. N - 1 /\ h % Window \in 0 .. Window - 1
  <2> HIDE DEF N
  <2> QED BY <1>1, <1>2, DivBelow, DivMod
<1>4. PICK j \in Starts(l) : Group(l, j) = h \div Window
  BY <1>3, BatchNumbers
<1>5. heads = {j}
  <2>1. \A i \in heads : i = j
    BY <1>4, BatchNumbers
  <2> QED BY <1>4, <2>1
<1>6. Starts(l) \in SUBSET Rows(l) /\ Rows(l) \in SUBSET Nat /\ Starts(l) = {Begins(in, n, s) : s \in in}
      /\ \A s \in in : l.req[Begins(in, n, s)] = s
  BY BatchStarts, BatchRows
<1>7. HistoryHead(l, h) = j
  <2>1. heads \in SUBSET Int /\ j \in heads /\ \A i \in heads : i <= j
    BY <1>5, <1>6
  <2>2. HistoryHead(l, h) = Greatest(heads)
    BY DEF HistoryHead
  <2> HIDE DEF heads
  <2> QED BY <2>1, <2>2, GreatestIs
<1>8. /\ l.req[j] \in in /\ l.floor[j] = floor[l.req[j]] /\ FirstPos(l, j) = first[l.req[j]]
  BY <1>6, BatchRows, BatchGroups
<1>9. HistoryReq(l, h) = l.req[j]
  BY <1>7 DEF HistoryReq
<1>10. HistoryPos(l, h) = first[HistoryReq(l, h)] - Window + (h % Window)
  BY <1>7, <1>8, <1>9 DEF HistoryPos
<1>11. HistoryValid(l, h) <=> /\ HistoryPos(l, h) >= 0
                              /\ HistoryPos(l, h) >= floor[HistoryReq(l, h)]
  BY <1>7, <1>8, <1>9 DEF HistoryValid
<1>12. ASSUME NEW i \in Rows(l), Group(l, i) = h \div Window PROVE HistoryReq(l, h) = l.req[i]
  <2>1. /\ GroupFirst(l, i) = Begins(in, n, l.req[i]) /\ l.req[i] \in in
        /\ Group(l, GroupFirst(l, i)) = Group(l, i)
    BY BatchGroups, BatchRows, BatchNumbers
  <2>2. GroupFirst(l, i) \in Starts(l) /\ l.req[GroupFirst(l, i)] = l.req[i]
    BY <1>6, <2>1
  <2>3. GroupFirst(l, i) = j
    BY <1>4, <1>12, <2>1, <2>2, BatchNumbers
  <2> QED BY <1>9, <2>2, <2>3
<1> QED BY <1>3, <1>8, <1>9, <1>10, <1>11, <1>12

(* What a row attends to k tokens back: nothing, a valid history row of    *)
(* its slot that stands for that position, or the row of that token.       *)
THEOREM BatchIndex ==
    ASSUME NEW l, NEW in, NEW first, NEW n, NEW floor, Batch(l, in, first, n, floor),
           NEW i \in Rows(l), NEW k \in 0 .. Window - 1
    PROVE  \/ Index(l, i, k) = -1
           \/ /\ Index(l, i, k) \in 0 .. HistoryRows(l) - 1
              /\ HistoryReq(l, Index(l, i, k)) = l.req[i]
              /\ HistoryPos(l, Index(l, i, k)) = l.pos[i] - k
              /\ HistoryValid(l, Index(l, i, k))
           \/ \E j \in Rows(l) : /\ Index(l, i, k) = HistoryRows(l) + j
                                 /\ l.req[j] = l.req[i] /\ l.pos[j] = l.pos[i] - k
<1> DEFINE s == l.req[i]
           b == Begins(in, n, s)
           f == first[s]
           seen == l.pos[i] - k
           g == Group(l, i)
           N == Cardinality(in)
<1>1. /\ s \in in /\ b \in Nat /\ b <= i /\ i < b + n[s] /\ i \in Nat /\ n[s] \in Nat
      /\ f \in Nat /\ l.pos[i] = f + (i - b) /\ l.floor[i] = floor[s] /\ floor[s] \in Nat
  BY BatchRows, BatchTypes, BatchBegins
<1>2. GroupFirst(l, i) = b /\ FirstPos(l, i) = f
  BY BatchGroups
<1>3. /\ g \in 0 .. N - 1 /\ g \in Nat /\ N \in Nat /\ Window \in Nat \ {0}
      /\ HistoryRows(l) = N * Window
  BY BatchNumbers, BatchTypes, BatchRows, Constants
<1>4. k \in Nat /\ k < Window /\ seen \in Int /\ seen = f + (i - b) - k
  <2> HIDE DEF f, b, s
  <2> QED BY <1>1, <1>3
<1>5. CASE seen < 0 \/ seen < l.floor[i]
  BY <1>5 DEF Index
<1>6. CASE ~(seen < 0 \/ seen < l.floor[i]) /\ seen < f
  <2> DEFINE r == seen - (f - Window)
             w == g * Window + r
  <2>1. Index(l, i, k) = w
    BY <1>2, <1>6 DEF Index
  <2>2. r \in 0 .. Window - 1 /\ f - Window + r = seen
    <3> HIDE DEF f, b, s, seen
    <3> QED BY <1>1, <1>3, <1>4, <1>6
  <2>3. w \in Nat /\ w \div Window = g /\ w % Window = r
    <3> HIDE DEF r, g, N
    <3> QED BY <1>3, <2>2, DivModIs
  <2>4. w < N * Window
    <3>1. g \in Nat /\ (g + 1) * Window <= N * Window /\ (g + 1) * Window = g * Window + Window
      <4> HIDE DEF g, N
      <4> QED BY <1>3, Product
    <3> HIDE DEF r, g, N
    <3> QED BY <1>3, <2>2, <3>1
  <2>5. w \in 0 .. HistoryRows(l) - 1
    <3> HIDE DEF w, N
    <3> QED BY <1>3, <2>3, <2>4
  <2> HIDE DEF w, r, seen, f, g
  <2>6. HistoryReq(l, w) = s
    BY <2>3, <2>5, BatchHistory DEF g
  <2>7. HistoryPos(l, w) = f - Window + r
    BY <2>3, <2>5, <2>6, BatchHistory DEF f
  <2>8. HistoryValid(l, w)
    <3>1. seen >= 0 /\ seen >= floor[s]
      BY <1>1, <1>4, <1>6
    <3> QED BY <2>2, <2>5, <2>6, <2>7, <3>1, BatchHistory
  <2> QED BY <2>1, <2>2, <2>5, <2>6, <2>7, <2>8 DEF seen
<1>7. CASE ~(seen < 0 \/ seen < l.floor[i]) /\ ~(seen < f)
  <2> DEFINE j == b + (seen - f)
  <2>1. Index(l, i, k) = HistoryRows(l) + b + seen - f
    BY <1>2, <1>7 DEF Index
  <2>2. j \in Nat /\ b <= j /\ j < b + n[s] /\ f + (j - b) = seen
    <3>1. f <= seen
      <4> HIDE DEF f, seen
      <4> QED BY <1>1, <1>4, <1>7
    <3>2. f \in Nat /\ b \in Nat /\ i \in Nat /\ n[s] \in Nat /\ i < b + n[s]
      BY <1>1
    <3> DEFINE m == n[s]
    <3> HIDE DEF f, b, s, seen, m
    <3>3. j \in Nat /\ b <= j /\ j < b + m /\ f + (j - b) = seen
      BY <1>4, <3>1, <3>2 DEF m
    <3> QED BY <3>3 DEF m
  <2>3. j \in Rows(l) /\ l.req[j] = s
    <3> HIDE DEF j, s
    <3> QED BY <1>1, <2>2, BatchRows
  <2>4. l.pos[j] = f + (j - b)
    <3> HIDE DEF j, s
    <3> QED BY <2>3, BatchRows
  <2>5. HistoryRows(l) + b + seen - f = HistoryRows(l) + j
    <3>1. HistoryRows(l) \in Int
      <4> HIDE DEF N
      <4> QED BY <1>3
    <3> HIDE DEF f, b, s, seen
    <3> QED BY <1>1, <1>4, <3>1
  <2> QED BY <2>1, <2>2, <2>3, <2>4, <2>5
<1> QED BY <1>5, <1>6, <1>7

(* The row of a position, and which rows are committed.                    *)
LEMMA BatchPositions ==
    ASSUME NEW l, NEW in, NEW first, NEW n, NEW floor, Batch(l, in, first, n, floor)
    PROVE  /\ \A i \in Rows(l) :
                /\ l.req[i] \in in /\ l.pos[i] \in Nat
                /\ first[l.req[i]] <= l.pos[i] /\ l.pos[i] < first[l.req[i]] + n[l.req[i]]
                /\ Committed(l, i) <=> first[l.req[i]] + n[l.req[i]] - 1 - l.pos[i] < Capacity
           /\ \A s \in in, p \in Nat : first[s] <= p /\ p < first[s] + n[s] =>
                \E i \in Rows(l) : l.req[i] = s /\ l.pos[i] = p
           /\ \A i, j \in Rows(l) : l.req[i] = l.req[j] /\ l.pos[i] = l.pos[j] => i = j
<1>1. ASSUME NEW i \in Rows(l)
      PROVE  /\ l.req[i] \in in /\ i \in Nat /\ Begins(in, n, l.req[i]) \in Nat
             /\ n[l.req[i]] \in Nat /\ first[l.req[i]] \in Nat
             /\ Begins(in, n, l.req[i]) <= i /\ i < Begins(in, n, l.req[i]) + n[l.req[i]]
             /\ l.pos[i] = first[l.req[i]] + (i - Begins(in, n, l.req[i]))
             /\ GroupLast(l, i) = Begins(in, n, l.req[i]) + n[l.req[i]] - 1
  <2>1. /\ l.req[i] \in in /\ i \in Nat
        /\ Begins(in, n, l.req[i]) <= i /\ i < Begins(in, n, l.req[i]) + n[l.req[i]]
        /\ l.pos[i] = first[l.req[i]] + (i - Begins(in, n, l.req[i]))
    BY BatchRows
  <2> QED BY <2>1, BatchTypes, BatchBegins, BatchGroups
<1>2. ASSUME NEW i \in Rows(l)
      PROVE  /\ l.req[i] \in in /\ l.pos[i] \in Nat
             /\ first[l.req[i]] <= l.pos[i] /\ l.pos[i] < first[l.req[i]] + n[l.req[i]]
             /\ Committed(l, i) <=> first[l.req[i]] + n[l.req[i]] - 1 - l.pos[i] < Capacity
  <2> DEFINE f == first[l.req[i]]
             m == n[l.req[i]]
             b == Begins(in, n, l.req[i])
  <2>1. /\ f \in Nat /\ m \in Nat /\ b \in Nat /\ i \in Nat /\ b <= i /\ i < b + m
        /\ l.pos[i] = f + (i - b) /\ GroupLast(l, i) = b + m - 1
    BY <1>1
  <2> HIDE DEF f, m, b
  <2>2. l.pos[i] \in Nat /\ f <= l.pos[i] /\ l.pos[i] < f + m
    BY <2>1
  <2>3. GroupLast(l, i) - i = f + m - 1 - l.pos[i]
    BY <2>1
  <2>4. Committed(l, i) <=> f + m - 1 - l.pos[i] < Capacity
    BY <2>3 DEF Committed
  <2> QED BY <1>1, <2>2, <2>4 DEF f, m
<1>3. ASSUME NEW s \in in, NEW p \in Nat, first[s] <= p, p < first[s] + n[s]
      PROVE  \E i \in Rows(l) : l.req[i] = s /\ l.pos[i] = p
  <2> DEFINE b == Begins(in, n, s)
             i == b + (p - first[s])
  <2>1. b \in Nat /\ first[s] \in Nat /\ n[s] \in Nat
    BY BatchTypes, BatchBegins
  <2>2. i \in Nat /\ b <= i /\ i < b + n[s] /\ first[s] + (i - b) = p
    <3> HIDE DEF b
    <3> QED BY <1>3, <2>1
  <2> HIDE DEF i
  <2>3. i \in Rows(l) /\ l.req[i] = s
    BY <2>2, BatchRows
  <2> QED BY <1>1, <2>2, <2>3
<1>4. ASSUME NEW i \in Rows(l), NEW j \in Rows(l), l.req[i] = l.req[j], l.pos[i] = l.pos[j]
      PROVE  i = j
  <2> DEFINE f == first[l.req[i]]
             b == Begins(in, n, l.req[i])
  <2>1. /\ f \in Nat /\ b \in Nat /\ i \in Nat /\ j \in Nat
        /\ f + (i - b) = f + (j - b)
    BY <1>1, <1>4
  <2> HIDE DEF f, b
  <2> QED BY <2>1
<1> QED BY <1>2, <1>3, <1>4

-----------------------------------------------------------------------------
(* The invariant.                                                          *)

Phases == {"free", "replay", "prefill", "decode"}
Modes == {"replay", "extend", "verify", "graph"}
Ready(s) == phase[s] \in {"prefill", "decode"}

(* What is known of slot s between passes and during one.  Without         *)
(* skipTail the late layers have skipped nothing that a window reaches.    *)
SlotInv(s) ==
    /\ phase[s] = "free" => len[s] = 0 /\ gap[s] = 0
    /\ phase[s] = "replay" => len[s] > 0
    /\ s \in finishing => phase[s] = IF mode = "replay" THEN "replay" ELSE "prefill"
    /\ ~skipTail =>
          gap[s] <= Higher(0, len[s] + (IF mode = "extend" THEN outcome[s] ELSE 0) - Window)

Scheduling ==
    /\ skipTail \in BOOLEAN /\ count \in 0 .. MaxReqs
    /\ phase \in [Slots -> Phases] /\ outcome \in [Slots -> 0 .. MaxLen]
    /\ finishing \in SUBSET Slots /\ pc \in {"idle", "buffer", "commit"}
    /\ \A s \in Slots : SlotInv(s)
    /\ pc = "idle" => /\ layer = 0 /\ mode = "none" /\ layout = NoRows /\ finishing = {}
                      /\ \A s \in Slots : outcome[s] = 0
    /\ pc # "idle" => layer \in LayerIds /\ mode \in Modes
    /\ raised # 0 => pc = "buffer"
    /\ pc = "buffer" /\ mode # "graph" => prepared < layer
    /\ pc = "commit" /\ mode # "graph" => prepared <= layer

(* How slot s takes part in a pass, with n rows from position f on that    *)
(* see nothing below position fl: its rows reach at least as far as the    *)
(* tokens that will be kept, and not Drafts further; they begin where the  *)
(* ring ends, or need none of it.                                          *)
SlotFits(s, f, n, fl, late) ==
    /\ phase[s] # "free" /\ f + n <= MaxLen
    /\ len[s] + outcome[s] <= f + n /\ f + n < len[s] + outcome[s] + Drafts
    /\ fl = f \/ (fl = 0 /\ f = len[s] /\ Ready(s) /\ (late => mode # "extend"))
    /\ (f = len[s] /\ Ready(s)) \/ f <= Higher(0, len[s] + outcome[s] - Window)

(* And of a slot that takes no part, at the late layers because the tail   *)
(* leaves it out.                                                          *)
LeftOut(s, late) ==
    \/ outcome[s] = 0 /\ (mode = "replay" => s \notin finishing)
    \/ late /\ mode = "extend" /\ gap[s] = len[s] + outcome[s]

Fits(l, late) ==
    \E in, first, n, floor :
        /\ Batch(l, in, first, n, floor)
        /\ HistoryRows(l) + Cardinality(Rows(l)) <= Cardinality(WorkspaceRows)
        /\ \A s \in in : SlotFits(s, first[s], n[s], floor[s], late)
        /\ \A s \in Slots \ in : LeftOut(s, late)

LayoutInv ==
    pc # "idle" =>
        /\ layer < LateStart => Fits(layout, FALSE)
        /\ layer >= LateStart => Fits(layout, TRUE)
        /\ layer < LateStart /\ mode = "extend" /\ tail = NoRows =>
              \A s \in Slots : LeftOut(s, TRUE)
        /\ layer < LateStart /\ mode \in {"extend", "replay"} /\ tail # NoRows =>
              Fits(tail, TRUE)

(* The tokens of slot s whose rows layer l has been given, and the         *)
(* positions among them that its ring must hold.                           *)
LenAt(l, s) == IF l < layer THEN len[s] + outcome[s] ELSE len[s]
Held(l, s, p) ==
    /\ Ready(s) \/ (mode = "replay" /\ s \in finishing /\ l < layer)
    /\ LenAt(l, s) - Window <= p /\ p < LenAt(l, s)
    /\ l >= LateStart => gap[s] <= p
Present(l, s, p) ==
    tags[l][s][Cell(p)] = p /\ ring[l][s][Cell(p)] = <<owner[s], p, TRUE>>
WindowInv ==
    \A l \in LayerIds, s \in Slots, p \in 0 .. MaxLen : Held(l, s, p) => Present(l, s, p)

(* Between buffer and commit the workspace holds the rows of the tokens    *)
(* and, in front, those of the history.                                    *)
WorkspaceInv ==
    pc = "commit" =>
        /\ \A i \in Rows(layout) : workspace[WriteLoc(layout, i)] = Token(i)
        /\ \A h \in 0 .. HistoryRows(layout) - 1 : HistoryValid(layout, h) =>
              workspace[h] = ring[layer][HistoryReq(layout, h)][Cell(HistoryPos(layout, h))]

Types ==
    /\ owner \in [Slots -> 0 .. MaxReqs] /\ len \in [Slots -> 0 .. MaxLen]
    /\ gap \in [Slots -> 0 .. MaxLen]
    /\ ring \in [LayerIds -> [Slots -> [Cells -> Row]]]
    /\ tags \in [LayerIds -> [Slots -> [Cells -> -1 .. MaxLen]]]
    /\ workspace \in [WorkspaceRows -> Row]
    /\ prepared \in 0 .. Layers /\ layer \in 0 .. Layers /\ raised \in 0 .. Layers

Inv == /\ Types /\ Scheduling /\ LayoutInv /\ WindowInv /\ WorkspaceInv /\ NoFalseAlarm

-----------------------------------------------------------------------------
(* The workspace has room.                                                 *)

LEMMA WorkspaceSize ==
    /\ Cardinality(Slots) \in Nat
    /\ Groups \in Nat /\ Groups = Cardinality(Slots) + 1
    /\ Groups * Window \in Nat /\ Groups * (1 + Drafts) \in Nat
    /\ Cardinality(WorkspaceRows) \in Nat
    /\ Cardinality(WorkspaceRows) >= Groups * Window + Chunk
    /\ Cardinality(WorkspaceRows) >= Groups * Window + Groups * (1 + Drafts)
    /\ WorkspaceRows = 0 .. Cardinality(WorkspaceRows) - 1
<1> DEFINE a == Groups * Window
           b == Groups * (1 + Drafts)
           k == a + Higher(Chunk, b)
<1>1. Cardinality(Slots) \in Nat
  BY Constants, FS_CardinalityType
<1>2. Groups \in Nat /\ Groups = Cardinality(Slots) + 1
  BY <1>1 DEF Groups
<1>3. a \in Nat /\ b \in Nat /\ Chunk \in Nat
  BY <1>2, Constants
<1> HIDE DEF a, b
<1>4. k \in Nat /\ k >= a + Chunk /\ k >= a + b
  BY <1>3 DEF Higher
<1>5. WorkspaceRows = 0 .. k - 1
  <2>1. WorkspaceRows = 0 .. a + (Higher(Chunk, b) - 1)
    BY DEF WorkspaceRows, a, b
  <2>2. a + (Higher(Chunk, b) - 1) = k - 1
    BY <1>3 DEF Higher
  <2> QED BY <2>1, <2>2
<1> HIDE DEF k
<1>6. Cardinality(WorkspaceRows) = k
  <2>1. Cardinality(0 .. k - 1) = k
    BY <1>4, FS_Interval
  <2> QED BY <1>5, <2>1
<1> QED BY <1>1, <1>2, <1>3, <1>4, <1>5, <1>6 DEF a, b

LEMMA BatchSize ==
    ASSUME NEW l, NEW in, NEW first, NEW n, NEW floor, Batch(l, in, first, n, floor)
    PROVE  /\ Cardinality(Rows(l)) = Size(in, n) /\ Size(in, n) \in Nat
           /\ HistoryRows(l) \in Nat
           /\ Size(in, n) <= Chunk \/ Size(in, n) <= Cardinality(in) * Drafts =>
                HistoryRows(l) + Cardinality(Rows(l)) <= Cardinality(WorkspaceRows)
<1> DEFINE c == Cardinality(in)
           h == c * Window
           g == Groups * Window
           k == Size(in, n)
           w == Cardinality(WorkspaceRows)
           x == Groups * (1 + Drafts)
           y == c * Drafts
<1>1. k \in Nat
  BY BatchTypes, TokensFinite
<1>2. Cardinality(Rows(l)) = k
  <2>1. Rows(l) = 0 .. k - 1
    BY BatchRows
  <2> HIDE DEF k
  <2>2. Cardinality(0 .. k - 1) = k
    BY <1>1, FS_Interval
  <2> QED BY <2>1, <2>2
<1>3. c \in Nat /\ c <= Groups /\ Groups \in Nat
  <2>1. c <= Cardinality(Slots) /\ c \in Nat
    BY BatchTypes, Constants, FS_Subset
  <2> HIDE DEF c
  <2> QED BY <2>1, WorkspaceSize
<1>4. h \in Nat /\ h <= g /\ g \in Nat
  <2> HIDE DEF c
  <2> QED BY <1>3, Constants, Product
<1>5. y \in Nat /\ x \in Nat /\ y <= x
  <2> HIDE DEF c
  <2>1. c * Drafts <= Groups * Drafts /\ c * Drafts \in Nat
    BY <1>3, Constants, Product
  <2>2. Groups * (1 + Drafts) = Groups + Groups * Drafts /\ Groups * Drafts \in Nat
    BY <1>3, Constants
  <2> QED BY <1>3, <2>1, <2>2
<1>6. w \in Nat /\ w >= g + Chunk /\ w >= g + x /\ Chunk \in Nat
  BY WorkspaceSize, Constants
<1>7. HistoryRows(l) = h
  BY BatchRows
<1> HIDE DEF h, g, k, w, x, y
<1>8. k <= Chunk \/ k <= y => h + k <= w
  BY <1>1, <1>4, <1>5, <1>6
<1>9. k <= Chunk \/ k <= y => HistoryRows(l) + Cardinality(Rows(l)) <= w
  BY <1>2, <1>7, <1>8
<1> QED BY <1>1, <1>2, <1>4, <1>7, <1>9 DEF h, k, w, y

LEMMA NoRowsEmpty == HistoryRows(NoRows) = 0 /\ Rows(NoRows) = {} /\ Cardinality(Rows(NoRows)) = 0
<1>1. Rows(NoRows) = {}
  BY DEF Rows, NoRows
<1>2. HistoryRows(NoRows) = 0
  BY Constants DEF HistoryRows, NoRows
<1> QED BY <1>1, <1>2, FS_EmptySet

(* Every history row and every row of a layout that fits has its place.    *)
LEMMA FitsRoom ==
    ASSUME NEW l, NEW late \in BOOLEAN, Fits(l, late)
    PROVE  /\ HistoryRows(l) \in Nat /\ Rows(l) \in SUBSET Nat
           /\ \A h \in 0 .. HistoryRows(l) - 1 : h \in WorkspaceRows
           /\ \A i \in Rows(l) : /\ HistoryRows(l) + i \in WorkspaceRows
                                 /\ WriteLoc(l, i) = HistoryRows(l) + i
<1>1. PICK in, first, n, floor :
        /\ Batch(l, in, first, n, floor)
        /\ HistoryRows(l) + Cardinality(Rows(l)) <= Cardinality(WorkspaceRows)
  BY DEF Fits
<1> DEFINE k == Size(in, n)
           h == HistoryRows(l)
           w == Cardinality(WorkspaceRows)
<1>2. /\ Cardinality(Rows(l)) = k /\ k \in Nat /\ h \in Nat /\ w \in Nat /\ h + k <= w
      /\ Rows(l) = 0 .. k - 1 /\ WorkspaceRows = 0 .. w - 1
  <2>1. Cardinality(Rows(l)) = k /\ k \in Nat /\ h \in Nat
    BY <1>1, BatchSize
  <2>2. Rows(l) = 0 .. k - 1
    BY <1>1, BatchRows
  <2>3. w \in Nat /\ WorkspaceRows = 0 .. w - 1
    BY WorkspaceSize
  <2> QED BY <1>1, <2>1, <2>2, <2>3
<1> HIDE DEF k, h, w
<1>3. \A j \in 0 .. h - 1 : j \in WorkspaceRows
  BY <1>2
<1>4. \A i \in Rows(l) : i \in Nat /\ h + i \in WorkspaceRows
  BY <1>2
<1> QED BY <1>2, <1>3, <1>4 DEF h, WriteLoc

LEMMA FitsSize ==
    ASSUME NEW l, NEW late \in BOOLEAN, Fits(l, late)
    PROVE  HistoryRows(l) + Cardinality(Rows(l)) <= Cardinality(WorkspaceRows)
BY DEF Fits

LEMMA LayoutFits ==
    ASSUME Types, LayoutInv, pc # "idle"
    PROVE  Fits(layout, FALSE) \/ Fits(layout, TRUE)
<1>1. layer < LateStart \/ layer >= LateStart
  BY Constants DEF Types
<1> QED BY <1>1 DEF LayoutInv

(* The fixed workspace suffices: the sizes in TypeOK.                      *)
LEMMA InvTypeOK == Inv => TypeOK
<1> SUFFICES ASSUME Inv PROVE TypeOK
  OBVIOUS
<1>1. HistoryRows(layout) + Cardinality(Rows(layout)) <= Cardinality(WorkspaceRows)
  <2>1. CASE pc = "idle"
    <3>1. layout = NoRows
      BY <2>1 DEF Inv, Scheduling
    <3> QED BY <3>1, NoRowsEmpty, WorkspaceSize
  <2>2. CASE pc # "idle"
    <3>1. Fits(layout, FALSE) \/ Fits(layout, TRUE)
      BY <2>2, LayoutFits DEF Inv
    <3> QED BY <3>1, FitsSize
  <2> QED BY <2>1, <2>2
<1> QED BY <1>1 DEF Inv, Types, TypeOK

-----------------------------------------------------------------------------
(* Between passes.                                                         *)

LEMMA InitInv == Init => Inv
<1> SUFFICES ASSUME Init PROVE Inv
  OBVIOUS
<1>0. Blank \in Row
  <2>1. 0 \in 0 .. MaxReqs /\ -1 \in -1 .. MaxLen
    BY Constants
  <2> QED BY <2>1 DEF Blank, Row
<1>1. Types
  <2>0. 0 \in 0 .. MaxReqs /\ 0 \in 0 .. MaxLen /\ 0 \in 0 .. Layers
    BY Constants
  <2>1. /\ owner \in [Slots -> 0 .. MaxReqs] /\ len \in [Slots -> 0 .. MaxLen]
        /\ gap \in [Slots -> 0 .. MaxLen]
    BY <2>0 DEF Init
  <2>2. ring \in [LayerIds -> [Slots -> [Cells -> Row]]]
    BY <1>0 DEF Init
  <2>3. tags \in [LayerIds -> [Slots -> [Cells -> -1 .. MaxLen]]]
    <3>1. -1 \in -1 .. MaxLen
      BY Constants
    <3> QED BY <3>1 DEF Init
  <2>4. workspace \in [WorkspaceRows -> Row]
    BY <1>0 DEF Init
  <2>5. prepared \in 0 .. Layers /\ layer \in 0 .. Layers /\ raised \in 0 .. Layers
    BY <2>0 DEF Init
  <2> QED BY <2>1, <2>2, <2>3, <2>4, <2>5 DEF Types
<1>2. /\ pc = "idle" /\ raised = 0 /\ layer = 0 /\ mode = "none" /\ layout = NoRows /\ finishing = {}
      /\ skipTail \in BOOLEAN /\ count = 0
      /\ \A s \in Slots : phase[s] = "free" /\ len[s] = 0 /\ gap[s] = 0 /\ outcome[s] = 0
  BY DEF Init
<1>3. Scheduling
  <2>1. \A s \in Slots : SlotInv(s)
    BY <1>2, Constants DEF SlotInv, Higher
  <2>2. phase \in [Slots -> Phases] /\ outcome \in [Slots -> 0 .. MaxLen]
    BY Constants DEF Init, Phases
  <2> QED BY <1>2, <2>1, <2>2, Constants DEF Scheduling
<1>4. WindowInv
  BY <1>2 DEF WindowInv, Held, Ready
<1> QED BY <1>1, <1>2, <1>3, <1>4 DEF Inv, LayoutInv, WorkspaceInv, NoFalseAlarm

LEMMA AdmitInv ==
    ASSUME Inv, NEW s \in Slots, Admit(s)
    PROVE  Inv'
<1> DEFINE blank == [c \in Cells |-> -1]
<1>0. Types /\ Scheduling /\ WindowInv /\ pc = "idle" /\ raised = 0 /\ layer = 0
  BY DEF Inv, Admit, Scheduling
<1>1. PICK p \in 0 .. MaxPrefix :
        /\ len' = [len EXCEPT ![s] = p]
        /\ phase' = [phase EXCEPT ![s] = IF p > 0 THEN "replay" ELSE "prefill"]
  BY DEF Admit
<1>2. /\ phase[s] = "free" /\ count < MaxReqs /\ count' = count + 1
      /\ owner' = [owner EXCEPT ![s] = count'] /\ prepared' = 0
      /\ tags' = [l \in LayerIds |-> [tags[l] EXCEPT ![s] = blank]]
      /\ UNCHANGED <<skipTail, gap, ring, workspace, layout, mode, tail, outcome,
                     finishing, layer, pc, raised>>
  BY DEF Admit, passVars
<1>3. p \in Nat /\ p \in 0 .. MaxLen
  BY Constants
<1>4. /\ len' \in [Slots -> 0 .. MaxLen] /\ len'[s] = p
      /\ \A u \in Slots \ {s} : len'[u] = len[u] /\ phase'[u] = phase[u] /\ owner'[u] = owner[u]
      /\ phase'[s] = (IF p > 0 THEN "replay" ELSE "prefill") /\ phase' \in [Slots -> Phases]
      /\ owner' \in [Slots -> 0 .. MaxReqs] /\ count' \in 0 .. MaxReqs
  <2>1. len \in [Slots -> 0 .. MaxLen] /\ owner \in [Slots -> 0 .. MaxReqs]
    BY <1>0 DEF Types
  <2>2. phase \in [Slots -> Phases] /\ count \in 0 .. MaxReqs
    BY <1>0 DEF Scheduling
  <2>3. count' \in 0 .. MaxReqs
    BY <1>2, <2>2, Constants
  <2>4. {"replay", "prefill"} \subseteq Phases
    BY DEF Phases
  <2> QED BY <1>1, <1>2, <1>3, <2>1, <2>2, <2>3, <2>4
<1>5. /\ tags' \in [LayerIds -> [Slots -> [Cells -> -1 .. MaxLen]]]
      /\ \A l \in LayerIds, u \in Slots \ {s} : tags'[l][u] = tags[l][u]
  <2>1. blank \in [Cells -> -1 .. MaxLen]
    <3>1. -1 \in -1 .. MaxLen
      BY Constants
    <3> QED BY <3>1
  <2> HIDE DEF blank
  <2>2. tags \in [LayerIds -> [Slots -> [Cells -> -1 .. MaxLen]]]
    BY <1>0 DEF Types
  <2> QED BY <1>2, <2>1, <2>2
<1>6. Types'
  <2>1. prepared' \in 0 .. Layers
    BY <1>2, Constants
  <2> QED BY <1>0, <1>2, <1>4, <1>5, <2>1 DEF Types
<1>7. Scheduling'
  <2>1. gap[s] = 0 /\ outcome[s] = 0 /\ outcome' = outcome /\ finishing = {} /\ mode = "none"
    BY <1>0, <1>2 DEF Scheduling, SlotInv
  <2>2. SlotInv(s)'
    <3>1. gap'[s] <= Higher(0, len'[s] + (IF mode' = "extend" THEN outcome'[s] ELSE 0) - Window)
      BY <1>2, <1>3, <1>4, <2>1, Constants DEF Higher
    <3>2. phase'[s] # "free" /\ (phase'[s] = "replay" => len'[s] > 0) /\ finishing' = {}
      BY <1>2, <1>3, <1>4, <2>1
    <3> QED BY <3>1, <3>2 DEF SlotInv
  <2>3. \A u \in Slots \ {s} : SlotInv(u)'
    BY <1>0, <1>2, <1>4 DEF Scheduling, SlotInv
  <2>4. \A u \in Slots : SlotInv(u)'
    BY <2>2, <2>3
  <2> QED BY <1>0, <1>2, <1>4, <2>4 DEF Scheduling
<1>8. WindowInv'
  <2> SUFFICES ASSUME NEW l \in LayerIds, NEW u \in Slots, NEW q \in 0 .. MaxLen, Held(l, u, q)'
               PROVE  Present(l, u, q)'
    BY DEF WindowInv
  <2>1. LenAt(l, u)' = len'[u] /\ layer' = 0 /\ mode' = mode /\ ~(l < layer)
    BY <1>0, <1>2 DEF LenAt, LayerIds
  <2>2. CASE u = s
    <3>1. phase'[s] = "prefill" /\ len'[s] = 0
      BY <1>0, <1>2, <1>3, <1>4, <2>1, <2>2 DEF Held, Ready, LayerIds
    <3>2. q < 0
      BY <2>1, <2>2, <3>1 DEF Held
    <3> QED BY <3>2, Constants
  <2>3. CASE u # s
    <3>1. Held(l, u, q)
      BY <1>0, <1>2, <1>4, <2>1, <2>3 DEF Held, Ready, LenAt
    <3>2. Present(l, u, q)
      BY <1>0, <3>1 DEF WindowInv
    <3> QED BY <1>2, <1>4, <1>5, <2>3, <3>2 DEF Present
  <2> QED BY <2>2, <2>3
<1> QED BY <1>0, <1>2, <1>6, <1>7, <1>8 DEF Inv, LayoutInv, WorkspaceInv, NoFalseAlarm

LEMMA LeaveInv ==
    ASSUME Inv, NEW s \in Slots, Leave(s)
    PROVE  Inv'
<1>0. Types /\ Scheduling /\ WindowInv /\ pc = "idle" /\ raised = 0 /\ layer = 0
  BY DEF Inv, Leave, Scheduling
<1>1. /\ phase' = [phase EXCEPT ![s] = "free"] /\ owner' = [owner EXCEPT ![s] = 0]
      /\ len' = [len EXCEPT ![s] = 0] /\ gap' = [gap EXCEPT ![s] = 0]
      /\ UNCHANGED <<skipTail, count, ring, tags, workspace, prepared, layout, mode, tail,
                     outcome, finishing, layer, pc, raised>>
  BY DEF Leave, passVars, poolVars
<1>2. /\ len' \in [Slots -> 0 .. MaxLen] /\ gap' \in [Slots -> 0 .. MaxLen]
      /\ owner' \in [Slots -> 0 .. MaxReqs] /\ phase' \in [Slots -> Phases]
      /\ phase'[s] = "free" /\ len'[s] = 0 /\ gap'[s] = 0
      /\ \A u \in Slots \ {s} : /\ len'[u] = len[u] /\ gap'[u] = gap[u]
                                /\ phase'[u] = phase[u] /\ owner'[u] = owner[u]
  <2>1. /\ len \in [Slots -> 0 .. MaxLen] /\ gap \in [Slots -> 0 .. MaxLen]
        /\ owner \in [Slots -> 0 .. MaxReqs]
    BY <1>0 DEF Types
  <2>2. phase \in [Slots -> Phases]
    BY <1>0 DEF Scheduling
  <2>3. "free" \in Phases /\ 0 \in 0 .. MaxLen /\ 0 \in 0 .. MaxReqs
    BY Constants DEF Phases
  <2> QED BY <1>1, <2>1, <2>2, <2>3
<1>3. Types'
  BY <1>0, <1>1, <1>2 DEF Types
<1>4. Scheduling'
  <2>1. outcome[s] = 0 /\ finishing = {} /\ mode = "none"
    BY <1>0 DEF Scheduling
  <2>2. SlotInv(s)'
    <3>1. gap'[s] <= Higher(0, len'[s] + (IF mode' = "extend" THEN outcome'[s] ELSE 0) - Window)
      BY <1>1, <1>2, <2>1, Constants DEF Higher
    <3> QED BY <1>1, <1>2, <2>1, <3>1 DEF SlotInv
  <2>3. \A u \in Slots \ {s} : SlotInv(u)'
    BY <1>0, <1>1, <1>2 DEF Scheduling, SlotInv
  <2>4. \A u \in Slots : SlotInv(u)'
    BY <2>2, <2>3
  <2> QED BY <1>0, <1>1, <1>2, <2>4 DEF Scheduling
<1>5. WindowInv'
  <2> SUFFICES ASSUME NEW l \in LayerIds, NEW u \in Slots, NEW q \in 0 .. MaxLen, Held(l, u, q)'
               PROVE  Present(l, u, q)'
    BY DEF WindowInv
  <2>1. u # s
    BY <1>0, <1>1, <1>2 DEF Held, Ready, LayerIds
  <2>2. Held(l, u, q)
    BY <1>0, <1>1, <1>2, <2>1 DEF Held, Ready, LenAt
  <2>3. Present(l, u, q)
    BY <1>0, <2>2 DEF WindowInv
  <2> QED BY <1>1, <1>2, <2>1, <2>3 DEF Present
<1> QED BY <1>0, <1>1, <1>3, <1>4, <1>5 DEF Inv, LayoutInv, WorkspaceInv, NoFalseAlarm

-----------------------------------------------------------------------------
(* The start of a pass.                                                    *)

(* What a step that starts a pass must bring along.                        *)
LEMMA BeginInv ==
    ASSUME Inv, pc = "idle", pc' = "buffer", layer' = 1, raised' = 0,
           UNCHANGED <<skipTail, owner, phase, len, count, ring, tags, workspace>>,
           prepared' \in 0 .. Layers, mode' \in Modes, mode' # "graph" => prepared' = 0,
           outcome' \in [Slots -> 0 .. MaxLen], gap' \in [Slots -> 0 .. MaxLen],
           finishing' \in SUBSET Slots,
           \A s \in Slots : SlotInv(s)',
           \A s \in Slots : Ready(s) => gap'[s] = gap[s] \/ gap'[s] > len[s],
           Fits(layout, FALSE)',
           mode' = "extend" /\ tail' = NoRows => \A s \in Slots : LeftOut(s, TRUE)',
           mode' \in {"extend", "replay"} /\ tail' # NoRows => Fits(tail, TRUE)'
    PROVE  Inv'
<1>0. Types /\ Scheduling /\ WindowInv /\ layer = 0
  BY DEF Inv, Scheduling
<1>1. 1 \in LayerIds /\ 1 \in 0 .. Layers /\ 0 \in 0 .. Layers /\ ~(1 >= LateStart) /\ 1 < LateStart
  BY Constants DEF LayerIds
<1>2. Types'
  BY <1>0, <1>1 DEF Types
<1>3. Scheduling'
  BY <1>0, <1>1 DEF Scheduling
<1>4. LayoutInv'
  BY <1>1 DEF LayoutInv
<1>5. WindowInv'
  <2> SUFFICES ASSUME NEW l \in LayerIds, NEW s \in Slots, NEW p \in 0 .. MaxLen, Held(l, s, p)'
               PROVE  Present(l, s, p)'
    BY DEF WindowInv
  <2>1. ~(l < layer') /\ ~(l < layer) /\ l \in Nat
    BY <1>0, Constants DEF LayerIds
  <2>2. Ready(s) /\ len[s] - Window <= p /\ p < len[s] /\ (l >= LateStart => gap'[s] <= p)
    BY <2>1 DEF Held, LenAt, Ready
  <2>3. l >= LateStart => gap[s] <= p
    <3> SUFFICES ASSUME l >= LateStart, gap'[s] > len[s] PROVE FALSE
      BY <2>2
    <3>1. gap'[s] \in Int /\ len[s] \in Int /\ p \in Int
      BY <1>0, Constants DEF Types
    <3> QED BY <2>2, <3>1
  <2>4. Held(l, s, p)
    BY <2>1, <2>2, <2>3 DEF Held, LenAt
  <2> QED BY <1>0, <2>4 DEF WindowInv, Present
<1> QED BY <1>2, <1>3, <1>4, <1>5 DEF Inv, WorkspaceInv, NoFalseAlarm

LEMMA ReplayInv ==
    ASSUME Inv, Replay
    PROVE  Inv'
<1>0. Types /\ Scheduling
  BY DEF Inv
<1>1. PICK in \in SUBSET Waiting("replay") \ {{}} :
        LET n == [s \in in |-> Lower(len[s], Window)]
            first == [s \in in |-> len[s] - n[s]]
            rows == RowsOf(in, first, n, first)
        IN  /\ Cardinality(Rows(rows)) <= Chunk
            /\ Begin("replay", rows, rows, [s \in Slots |-> 0], in)
            /\ gap' = [s \in Slots |-> IF s \in in THEN first[s] ELSE gap[s]]
  BY DEF Replay
<1> DEFINE nn == [s \in in |-> Lower(len[s], Window)]
           ff == [s \in in |-> len[s] - nn[s]]
<1>2. PICK n, first : n = nn /\ first = ff
  OBVIOUS
<1> DEFINE rows == RowsOf(in, first, n, first)
<1>3. /\ pc = "idle" /\ raised = 0 /\ Cardinality(Rows(rows)) <= Chunk
      /\ layout' = rows /\ tail' = rows /\ mode' = "replay" /\ outcome' = [s \in Slots |-> 0]
      /\ finishing' = in /\ layer' = 1 /\ pc' = "buffer" /\ prepared' = 0
      /\ UNCHANGED <<skipTail, owner, phase, len, count, ring, tags, workspace, raised>>
      /\ gap' = [s \in Slots |-> IF s \in in THEN first[s] ELSE gap[s]]
  BY <1>1, <1>2 DEF Begin, Start
<1>4. in \in SUBSET Slots /\ \A s \in in : phase[s] = "replay"
  BY DEF Waiting
<1>5. \A s \in Slots : /\ len[s] \in 0 .. MaxLen /\ len[s] \in Nat
                       /\ gap[s] \in 0 .. MaxLen /\ gap[s] \in Nat
                       /\ phase[s] = "replay" => len[s] > 0
  BY <1>0, Constants DEF Types, Scheduling, SlotInv
<1>6. \A s \in in : /\ n[s] \in Nat /\ n[s] > 0 /\ first[s] \in Nat /\ first[s] + n[s] = len[s]
                    /\ first[s] = Higher(0, len[s] - Window)
                    /\ n[s] \in 1 .. MaxLen /\ first[s] \in 0 .. MaxLen
  <2> SUFFICES ASSUME NEW s \in in
               PROVE /\ n[s] \in Nat /\ n[s] > 0 /\ first[s] \in Nat /\ first[s] + n[s] = len[s]
                     /\ first[s] = Higher(0, len[s] - Window)
                     /\ n[s] \in 1 .. MaxLen /\ first[s] \in 0 .. MaxLen
    OBVIOUS
  <2>1. n[s] = Lower(len[s], Window) /\ first[s] = len[s] - n[s]
    BY <1>2
  <2>2. len[s] \in Nat /\ len[s] > 0 /\ len[s] <= MaxLen
    BY <1>4, <1>5, Constants
  <2> QED BY <2>1, <2>2, Constants DEF Lower, Higher
<1>7. Batch(rows, in, first, n, first)
  BY <1>4, <1>6 DEF Batch
<1>8. HistoryRows(rows) + Cardinality(Rows(rows)) <= Cardinality(WorkspaceRows)
  <2>1. Size(in, n) <= Chunk
    BY <1>3, <1>7, BatchSize
  <2> HIDE DEF rows
  <2> QED BY <1>7, <2>1, BatchSize
<1> HIDE DEF rows
<1>9. \A s \in in : /\ SlotFits(s, first[s], n[s], first[s], FALSE)'
                    /\ SlotFits(s, first[s], n[s], first[s], TRUE)'
  <2> TAKE s \in in
  <2> DEFINE f == first[s]
             m == n[s]
  <2>0. s \in Slots
    BY <1>4
  <2>1. phase[s] = "replay"
    BY <1>4
  <2>2. len[s] \in Nat /\ len[s] <= MaxLen
    BY <1>5, <2>0, Constants
  <2>3. phase'[s] # "free" /\ len'[s] = len[s] /\ outcome'[s] = 0
    BY <1>3, <2>0, <2>1
  <2>4. f + m = len[s] /\ f <= Higher(0, len[s] - Window)
    BY <1>6
  <2> HIDE DEF f, m
  <2>5. /\ f + m <= MaxLen /\ len'[s] + outcome'[s] <= f + m
        /\ f + m < len'[s] + outcome'[s] + Drafts
    BY <2>2, <2>3, <2>4, Constants
  <2>6. f <= Higher(0, len'[s] + outcome'[s] - Window)
    <3>1. len[s] + 0 - Window = len[s] - Window
      BY <2>2, Constants
    <3> QED BY <2>3, <2>4, <3>1
  <2>7. SlotFits(s, f, m, f, FALSE)'
    BY <2>3, <2>5, <2>6 DEF SlotFits
  <2>8. SlotFits(s, f, m, f, TRUE)'
    BY <2>3, <2>5, <2>6 DEF SlotFits
  <2> QED BY <2>7, <2>8 DEF f, m
<1>10. \A s \in Slots \ in : LeftOut(s, FALSE)' /\ LeftOut(s, TRUE)'
  BY <1>3 DEF LeftOut
<1>11. Fits(layout, FALSE)' /\ Fits(tail, TRUE)'
  BY <1>3, <1>7, <1>8, <1>9, <1>10 DEF Fits
<1>12. \A s \in Slots : SlotInv(s)'
  <2> TAKE s \in Slots
  <2>1. ~skipTail => gap[s] <= Higher(0, len[s] - Window)
    <3>1. mode = "none" /\ SlotInv(s)
      BY <1>0, <1>3 DEF Scheduling
    <3> QED BY <1>5, <3>1, Constants DEF SlotInv
  <2>2. ~skipTail => gap'[s] <= Higher(0, len[s] - Window)
    <3>1. Higher(0, len[s] - Window) \in Int
      BY <1>5, Constants DEF Higher
    <3> QED BY <1>3, <1>6, <2>1, <3>1
  <2>3. len[s] + 0 - Window = len[s] - Window
    BY <1>5, Constants
  <2>4. phase[s] = "free" => len[s] = 0 /\ gap[s] = 0 /\ s \notin in
    BY <1>0, <1>4 DEF Scheduling, SlotInv
  <2> QED BY <1>3, <1>4, <1>5, <2>2, <2>3, <2>4 DEF SlotInv
<1>13. gap' \in [Slots -> 0 .. MaxLen] /\ outcome' \in [Slots -> 0 .. MaxLen]
  BY <1>3, <1>5, <1>6, Constants
<1>14. \A s \in Slots : Ready(s) => gap'[s] = gap[s]
  BY <1>3, <1>4 DEF Ready
<1>15. 0 \in 0 .. Layers
  BY Constants
<1> QED BY <1>3, <1>4, <1>11, <1>12, <1>13, <1>14, <1>15, BeginInv DEF Modes

(* The tail of a prefill: the last rows of some of its requests.           *)
LEMMA TailBatch ==
    ASSUME NEW in \in SUBSET Slots, NEW n, NEW kept \in SUBSET in,
           \A s \in in : n[s] \in 1 .. MaxLen /\ len[s] \in Nat /\ len[s] + n[s] <= MaxLen,
           Size(in, n) <= Chunk
    PROVE  \E m, first :
             /\ Batch(TailOf(kept, n), kept, first, m, first)
             /\ HistoryRows(TailOf(kept, n)) + Cardinality(Rows(TailOf(kept, n)))
                    <= Cardinality(WorkspaceRows)
             /\ \A s \in kept : m[s] = Lower(n[s], Window) /\ first[s] = len[s] + n[s] - m[s]
<1> DEFINE mm == [s \in kept |-> Lower(n[s], Window)]
           ff == [s \in kept |-> len[s] + n[s] - mm[s]]
<1>1. PICK m, first : m = mm /\ first = ff
  OBVIOUS
<1>2. TailOf(kept, n) = RowsOf(kept, first, m, first)
  BY <1>1 DEF TailOf
<1>3. \A s \in kept : m[s] = Lower(n[s], Window) /\ first[s] = len[s] + n[s] - m[s]
  BY <1>1
<1> HIDE DEF mm, ff
<1>5. \A s \in kept : /\ m[s] \in Nat /\ m[s] \in 1 .. MaxLen /\ m[s] <= n[s]
                      /\ first[s] \in Nat /\ first[s] \in 0 .. MaxLen
  <2> TAKE s \in kept
  <2>1. n[s] \in Nat /\ n[s] > 0 /\ len[s] \in Nat /\ len[s] + n[s] <= MaxLen
    BY Constants
  <2>2. m[s] \in Nat /\ m[s] > 0 /\ m[s] <= n[s]
    BY <1>3, <2>1, Constants DEF Lower
  <2>3. first[s] = len[s] + n[s] - m[s]
    BY <1>3
  <2> QED BY <2>1, <2>2, <2>3, Constants
<1>6. kept \in SUBSET Slots
  OBVIOUS
<1>7. Batch(TailOf(kept, n), kept, first, m, first)
  BY <1>2, <1>5, <1>6 DEF Batch
<1>8. Size(kept, m) <= Chunk
  <2>1. Size(kept, m) <= Size(in, n)
    BY <1>5, SizeGrows
  <2>2. Size(kept, m) \in Nat /\ Size(in, n) \in Nat
    BY <1>5, <1>6, TokensFinite
  <2> QED BY <2>1, <2>2, Constants
<1>9. HistoryRows(TailOf(kept, n)) + Cardinality(Rows(TailOf(kept, n)))
          <= Cardinality(WorkspaceRows)
  BY <1>7, <1>8, BatchSize
<1> QED BY <1>3, <1>7, <1>9

LEMMA BatchNotEmpty ==
    ASSUME NEW l, NEW in, NEW first, NEW n, NEW floor, Batch(l, in, first, n, floor), in # {}
    PROVE  l # NoRows
<1>1. PICK s \in in : TRUE
  OBVIOUS
<1>2. first[s] \in Nat /\ n[s] \in Nat /\ n[s] > 0
  BY BatchTypes
<1>3. first[s] <= first[s] /\ first[s] < first[s] + n[s]
  BY <1>2
<1>4. \E i \in Rows(l) : l.req[i] = s
  BY <1>2, <1>3, BatchPositions
<1> QED BY <1>4, NoRowsEmpty

LEMMA ExtendInv ==
    ASSUME Inv, Extend
    PROVE  Inv'
<1>0. Types /\ Scheduling
  BY DEF Inv
<1> DEFINE zero(S) == [s \in S |-> 0]
           at(S) == [s \in S |-> len[s]]
<1>1. PICK in \in SUBSET Waiting("prefill") \ {{}} :
        \E n \in [in -> 1 .. Chunk], final \in SUBSET in :
        LET rows == RowsOf(in, [s \in in |-> len[s]], n, [s \in in |-> 0])
            kept == IF skipTail THEN final ELSE in
        IN  /\ \A s \in in : len[s] + n[s] <= MaxLen
            /\ Cardinality(Rows(rows)) <= Chunk
            /\ Begin("extend", rows,
                     IF kept = {} THEN NoRows ELSE TailOf(kept, n),
                     [s \in Slots |-> IF s \in in THEN n[s] ELSE 0], final)
            /\ gap' = [s \in Slots |->
                  IF s \notin in THEN gap[s]
                  ELSE IF s \notin kept THEN len[s] + n[s]
                  ELSE IF n[s] > Window THEN len[s] + n[s] - Window ELSE gap[s]]
  BY DEF Extend
<1> PICK n \in [in -> 1 .. Chunk], final \in SUBSET in :
        LET rows == RowsOf(in, [s \in in |-> len[s]], n, [s \in in |-> 0])
            kept == IF skipTail THEN final ELSE in
        IN  /\ \A s \in in : len[s] + n[s] <= MaxLen
            /\ Cardinality(Rows(rows)) <= Chunk
            /\ Begin("extend", rows,
                     IF kept = {} THEN NoRows ELSE TailOf(kept, n),
                     [s \in Slots |-> IF s \in in THEN n[s] ELSE 0], final)
            /\ gap' = [s \in Slots |->
                  IF s \notin in THEN gap[s]
                  ELSE IF s \notin kept THEN len[s] + n[s]
                  ELSE IF n[s] > Window THEN len[s] + n[s] - Window ELSE gap[s]]
  BY <1>1
<1>2. PICK first, floor, kept : /\ first = at(in) /\ floor = zero(in)
                                /\ kept = IF skipTail THEN final ELSE in
  OBVIOUS
<1> DEFINE rows == RowsOf(in, first, n, floor)
<1>3. /\ pc = "idle" /\ raised = 0 /\ Cardinality(Rows(rows)) <= Chunk
      /\ layout' = rows /\ mode' = "extend" /\ finishing' = final /\ layer' = 1
      /\ tail' = IF kept = {} THEN NoRows ELSE TailOf(kept, n)
      /\ outcome' = [s \in Slots |-> IF s \in in THEN n[s] ELSE 0]
      /\ pc' = "buffer" /\ prepared' = 0
      /\ UNCHANGED <<skipTail, owner, phase, len, count, ring, tags, workspace, raised>>
      /\ gap' = [s \in Slots |->
                  IF s \notin in THEN gap[s]
                  ELSE IF s \notin kept THEN len[s] + n[s]
                  ELSE IF n[s] > Window THEN len[s] + n[s] - Window ELSE gap[s]]
      /\ \A s \in in : len[s] + n[s] <= MaxLen
  BY <1>1, <1>2 DEF Begin, Start
<1>4. /\ in \in SUBSET Slots /\ \A s \in in : phase[s] = "prefill"
      /\ kept \in SUBSET in /\ final \in SUBSET in /\ (~skipTail => kept = in)
  BY <1>2 DEF Waiting
<1>5. \A s \in Slots : len[s] \in 0 .. MaxLen /\ len[s] \in Nat /\ gap[s] \in Nat /\ gap[s] <= MaxLen
  BY <1>0, Constants DEF Types
<1>6. \A s \in in : /\ n[s] \in Nat /\ n[s] > 0 /\ n[s] \in 1 .. MaxLen
                    /\ first[s] = len[s] /\ floor[s] = 0 /\ first[s] \in 0 .. MaxLen
                    /\ floor[s] \in 0 .. MaxLen /\ len[s] \in Nat
  <2> TAKE s \in in
  <2>1. n[s] \in 1 .. Chunk /\ len[s] + n[s] <= MaxLen
    BY <1>3
  <2>2. len[s] \in Nat /\ len[s] \in 0 .. MaxLen
    BY <1>4, <1>5
  <2>3. n[s] \in Nat /\ n[s] > 0 /\ n[s] \in 1 .. MaxLen
    BY <2>1, <2>2, Constants
  <2>4. first[s] = len[s] /\ floor[s] = 0
    BY <1>2
  <2> QED BY <2>2, <2>3, <2>4, Constants
<1> HIDE DEF zero, at
<1>7. Batch(rows, in, first, n, floor)
  BY <1>4, <1>6 DEF Batch
<1>8. Size(in, n) <= Chunk
  BY <1>3, <1>7, BatchSize
<1>9. HistoryRows(rows) + Cardinality(Rows(rows)) <= Cardinality(WorkspaceRows)
  <2> HIDE DEF rows
  <2> QED BY <1>7, <1>8, BatchSize
<1> HIDE DEF rows
<1>10. \A s \in in : /\ phase'[s] # "free" /\ len'[s] = len[s] /\ outcome'[s] = n[s] /\ Ready(s)'
                     /\ len'[s] + outcome'[s] <= len[s] + n[s]
                     /\ len[s] + n[s] < len'[s] + outcome'[s] + Drafts
  <2> TAKE s \in in
  <2>1. phase'[s] = "prefill" /\ len'[s] = len[s] /\ outcome'[s] = n[s]
    BY <1>3, <1>4
  <2>2. len[s] \in Nat /\ n[s] \in Nat
    BY <1>6
  <2> QED BY <2>1, <2>2, Constants DEF Ready
<1>11. \A s \in in : SlotFits(s, first[s], n[s], floor[s], FALSE)'
  <2> TAKE s \in in
  <2>1. first[s] = len[s] /\ floor[s] = 0 /\ len[s] + n[s] <= MaxLen
    BY <1>3, <1>6
  <2> QED BY <1>10, <2>1 DEF SlotFits
<1>12. \A s \in Slots \ in : outcome'[s] = 0 /\ mode' = "extend"
  BY <1>3
<1>13. Fits(layout, FALSE)'
  <2>1. \A s \in Slots \ in : LeftOut(s, FALSE)'
    BY <1>12 DEF LeftOut
  <2> QED BY <1>3, <1>7, <1>9, <1>11, <2>1 DEF Fits
<1>14. \A s \in Slots \ kept : LeftOut(s, TRUE)'
  <2> TAKE s \in Slots \ kept
  <2>1. CASE s \in in
    <3>1. gap'[s] = len[s] + n[s]
      BY <1>3, <2>1
    <3> QED BY <1>3, <1>10, <2>1, <3>1 DEF LeftOut
  <2>2. CASE s \notin in
    BY <1>12, <2>2 DEF LeftOut
  <2> QED BY <2>1, <2>2
<1>15. kept # {} => /\ tail' # NoRows /\ Fits(tail, TRUE)'
  <2> SUFFICES ASSUME kept # {} PROVE tail' # NoRows /\ Fits(tail, TRUE)'
    OBVIOUS
  <2>1. \A s \in in : n[s] \in 1 .. MaxLen /\ len[s] \in Nat /\ len[s] + n[s] <= MaxLen
    BY <1>3, <1>6
  <2>2. PICK m, start :
             /\ Batch(TailOf(kept, n), kept, start, m, start)
             /\ HistoryRows(TailOf(kept, n)) + Cardinality(Rows(TailOf(kept, n)))
                    <= Cardinality(WorkspaceRows)
             /\ \A s \in kept : m[s] = Lower(n[s], Window) /\ start[s] = len[s] + n[s] - m[s]
    BY <1>4, <1>8, <2>1, TailBatch
  <2>3. tail' = TailOf(kept, n)
    BY <1>3
  <2>4. tail' # NoRows
    BY <2>2, <2>3, BatchNotEmpty
  <2>5. \A s \in kept : SlotFits(s, start[s], m[s], start[s], TRUE)'
    <3> TAKE s \in kept
    <3> DEFINE f == start[s]
               k == m[s]
               a == len[s]
               b == n[s]
    <3>1. a \in Nat /\ b \in Nat /\ b > 0 /\ a + b <= MaxLen /\ k = Lower(b, Window) /\ f = a + b - k
      BY <1>4, <1>6, <2>1, <2>2
    <3>2. /\ phase'[s] # "free" /\ len'[s] = a /\ outcome'[s] = b /\ Ready(s)'
          /\ len'[s] + outcome'[s] <= a + b /\ a + b < len'[s] + outcome'[s] + Drafts
      BY <1>4, <1>10
    <3> HIDE DEF f, k, a, b
    <3>3. f + k = a + b /\ (f = a \/ f <= Higher(0, a + b - Window))
      BY <3>1, Constants DEF Lower, Higher
    <3>4. SlotFits(s, f, k, f, TRUE)'
      BY <3>1, <3>2, <3>3 DEF SlotFits
    <3> QED BY <3>4 DEF f, k
  <2>6. Fits(tail, TRUE)'
    BY <1>14, <2>2, <2>3, <2>5 DEF Fits
  <2> QED BY <2>4, <2>6
<1>16. tail' = NoRows => \A s \in Slots : LeftOut(s, TRUE)'
  BY <1>14, <1>15
<1>17. tail' # NoRows => Fits(tail, TRUE)'
  BY <1>3, <1>15
<1>18. \A s \in Slots : SlotInv(s)'
  <2> TAKE s \in Slots
  <2>1. mode = "none" /\ SlotInv(s)
    BY <1>0, <1>3 DEF Scheduling
  <2>2. len[s] \in Nat /\ gap[s] \in Nat
    BY <1>5
  <2>3. ~skipTail => gap[s] <= Higher(0, len[s] - Window)
    <3>1. len[s] + 0 - Window = len[s] - Window
      BY <2>2, Constants
    <3> QED BY <2>1, <3>1 DEF SlotInv
  <2>4. ~skipTail => gap'[s] <= Higher(0, len[s] + outcome'[s] - Window)
    <3>1. CASE s \in in
      <4>1. n[s] \in Nat /\ outcome'[s] = n[s]
        BY <1>3, <1>6, <3>1
      <4>2. ~skipTail => gap'[s] = IF n[s] > Window THEN len[s] + n[s] - Window ELSE gap[s]
        BY <1>3, <1>4, <3>1
      <4> QED BY <2>2, <2>3, <4>1, <4>2, Constants DEF Higher
    <3>2. CASE s \notin in
      <4>1. gap'[s] = gap[s] /\ outcome'[s] = 0
        BY <1>3, <3>2
      <4>2. len[s] + 0 - Window = len[s] - Window
        BY <2>2, Constants
      <4> QED BY <2>3, <4>1, <4>2
    <3> QED BY <3>1, <3>2
  <2>5. phase[s] = "free" => len[s] = 0 /\ gap[s] = 0 /\ s \notin in
    BY <1>4, <2>1 DEF SlotInv
  <2>6. phase'[s] = "free" => len'[s] = 0 /\ gap'[s] = 0
    BY <1>3, <2>5
  <2>7. phase'[s] = "replay" => len'[s] > 0
    BY <1>3, <2>1 DEF SlotInv
  <2>8. s \in finishing' => phase'[s] = "prefill"
    BY <1>3, <1>4
  <2> QED BY <1>3, <2>4, <2>6, <2>7, <2>8 DEF SlotInv
<1>19. outcome' \in [Slots -> 0 .. MaxLen]
  BY <1>3, <1>6, Constants
<1>20. gap' \in [Slots -> 0 .. MaxLen] /\ \A s \in Slots : gap'[s] = gap[s] \/ gap'[s] > len[s]
  <2> DEFINE G(s) == IF s \notin in THEN gap[s]
                  ELSE IF s \notin kept THEN len[s] + n[s]
                  ELSE IF n[s] > Window THEN len[s] + n[s] - Window ELSE gap[s]
  <2>1. \A s \in Slots : G(s) \in 0 .. MaxLen /\ (G(s) = gap[s] \/ G(s) > len[s])
    <3> TAKE s \in Slots
    <3>1. len[s] \in Nat /\ gap[s] \in Nat /\ gap[s] <= MaxLen
      BY <1>5
    <3>2. s \in in => n[s] \in Nat /\ n[s] > 0 /\ len[s] + n[s] <= MaxLen
      BY <1>3, <1>6
    <3> QED BY <3>1, <3>2, Constants
  <2>2. gap' = [s \in Slots |-> G(s)]
    BY <1>3
  <2> HIDE DEF G
  <2> QED BY <2>1, <2>2
<1>21. 0 \in 0 .. Layers /\ finishing' \in SUBSET Slots
  BY <1>3, <1>4, Constants
<1> QED BY <1>3, <1>13, <1>16, <1>17, <1>18, <1>19, <1>20, <1>21, BeginInv DEF Modes

LEMMA VerifyInv ==
    ASSUME Inv, Verify
    PROVE  Inv'
<1>0. Types /\ Scheduling
  BY DEF Inv
<1>1. PICK in, first, n, floor : /\ in = Decoding /\ first = len
                                 /\ n = [s \in in |-> Drafts] /\ floor = [s \in in |-> 0]
  OBVIOUS
<1> DEFINE rows == RowsOf(in, first, n, floor)
<1>2. PICK a \in [in -> 1 .. Drafts], graph \in BOOLEAN :
          Begin(IF graph THEN "graph" ELSE "verify", rows, NoRows,
                [s \in Slots |-> IF s \in in THEN a[s] ELSE 0], {})
  BY <1>1 DEF Verify
<1>3. /\ pc = "idle" /\ raised = 0 /\ layout' = rows /\ tail' = NoRows
      /\ mode' = (IF graph THEN "graph" ELSE "verify") /\ finishing' = {} /\ layer' = 1
      /\ outcome' = [s \in Slots |-> IF s \in in THEN a[s] ELSE 0]
      /\ pc' = "buffer" /\ prepared' = (IF mode' = "graph" THEN prepared ELSE 0)
      /\ UNCHANGED <<skipTail, owner, phase, len, count, ring, tags, workspace, raised>>
  BY <1>2 DEF Begin, Start
<1>4. gap' = gap /\ in # {}
  BY <1>1 DEF Verify
<1>5. /\ in \in SUBSET Slots
      /\ \A s \in in : phase[s] = "decode" /\ len[s] + Drafts <= MaxLen
  BY <1>1 DEF Decoding, Waiting
<1>6. \A s \in Slots : len[s] \in 0 .. MaxLen /\ len[s] \in Nat
  BY <1>0, Constants DEF Types
<1>7. Drafts \in 1 .. MaxLen
  <2>1. PICK s \in in : TRUE
    BY <1>4
  <2>2. len[s] \in Nat /\ len[s] + Drafts <= MaxLen
    BY <1>5, <1>6
  <2> QED BY <2>2, Constants
<1>8. \A s \in in : n[s] = Drafts /\ floor[s] = 0 /\ first[s] = len[s] /\ first[s] \in 0 .. MaxLen
  BY <1>1, <1>5, <1>6
<1>9. Batch(rows, in, first, n, floor)
  <2>1. 0 \in 0 .. MaxLen
    BY Constants
  <2> QED BY <1>5, <1>7, <1>8, <2>1 DEF Batch
<1>10. Size(in, n) = Cardinality(in) * Drafts
  BY <1>5, <1>7, <1>8, SizeOfEqual
<1> HIDE DEF rows
<1>11. HistoryRows(rows) + Cardinality(Rows(rows)) <= Cardinality(WorkspaceRows)
  <2>1. Size(in, n) <= Cardinality(in) * Drafts
    <3>1. Size(in, n) \in Nat
      BY <1>9, BatchSize
    <3> QED BY <1>10, <3>1
  <2> QED BY <1>9, <2>1, BatchSize
<1>12. \A s \in in : a[s] \in Nat /\ a[s] > 0 /\ a[s] <= Drafts /\ outcome'[s] = a[s]
  <2> TAKE s \in in
  <2>1. a[s] \in 1 .. Drafts
    OBVIOUS
  <2>2. outcome'[s] = a[s]
    BY <1>3, <1>5
  <2> QED BY <2>1, <2>2, Constants
<1>13. \A s \in in : SlotFits(s, first[s], n[s], floor[s], FALSE)'
  <2> TAKE s \in in
  <2>1. /\ phase'[s] # "free" /\ len'[s] = len[s] /\ Ready(s)'
        /\ len[s] \in Nat /\ len[s] + Drafts <= MaxLen
    BY <1>3, <1>5, <1>6 DEF Ready
  <2>2. /\ len'[s] + outcome'[s] <= len[s] + Drafts
        /\ len[s] + Drafts < len'[s] + outcome'[s] + Drafts
    BY <1>12, <2>1, Constants
  <2> QED BY <1>3, <1>8, <2>1, <2>2 DEF SlotFits
<1>14. Fits(layout, FALSE)'
  <2>1. \A s \in Slots \ in : LeftOut(s, FALSE)'
    BY <1>3 DEF LeftOut
  <2> QED BY <1>3, <1>9, <1>11, <1>13, <2>1 DEF Fits
<1>15. \A s \in Slots : SlotInv(s)'
  <2>1. mode = "none" /\ \A s \in Slots : SlotInv(s)
    BY <1>0, <1>3 DEF Scheduling
  <2>2. mode' # "extend" /\ mode' # "replay" /\ mode # "extend"
    BY <1>3, <2>1
  <2> QED BY <1>3, <1>4, <2>1, <2>2 DEF SlotInv
<1>16. outcome' \in [Slots -> 0 .. MaxLen]
  <2> DEFINE G(s) == IF s \in in THEN a[s] ELSE 0
  <2>1. \A s \in Slots : G(s) \in 0 .. MaxLen
    BY <1>7, <1>12, Constants
  <2>2. outcome' = [s \in Slots |-> G(s)]
    BY <1>3
  <2> HIDE DEF G
  <2> QED BY <2>1, <2>2
<1>17. /\ prepared' \in 0 .. Layers /\ mode' \in Modes /\ (mode' # "graph" => prepared' = 0)
       /\ mode' # "extend" /\ mode' # "replay"
  BY <1>0, <1>3, Constants DEF Types, Modes
<1>18. gap' \in [Slots -> 0 .. MaxLen] /\ finishing' \in SUBSET Slots
  BY <1>0, <1>3, <1>4 DEF Types
<1> QED BY <1>3, <1>4, <1>14, <1>15, <1>16, <1>17, <1>18, BeginInv

-----------------------------------------------------------------------------
(* buffer.                                                                 *)

(* The layout of the pass at its current layer.                            *)
LEMMA LayoutBatch ==
    ASSUME Types, LayoutInv, pc # "idle"
    PROVE  /\ Fits(layout, FALSE) \/ Fits(layout, TRUE)
           /\ \E in, first, n, floor :
                /\ Batch(layout, in, first, n, floor)
                /\ \A s \in in : SlotFits(s, first[s], n[s], floor[s], layer >= LateStart)
                /\ \A s \in Slots \ in : LeftOut(s, layer >= LateStart)
<1>1. CASE layer < LateStart
  <2>0. Fits(layout, FALSE)
    BY <1>1 DEF LayoutInv
  <2>1. ~(layer >= LateStart)
    <3>1. layer \in Nat /\ LateStart \in Nat
      BY Constants DEF Types
    <3> QED BY <1>1, <3>1
  <2>2. PICK in, first, n, floor :
          /\ Batch(layout, in, first, n, floor)
          /\ \A s \in in : SlotFits(s, first[s], n[s], floor[s], FALSE)
          /\ \A s \in Slots \ in : LeftOut(s, FALSE)
    BY <2>0 DEF Fits
  <2>3. \A s \in in : SlotFits(s, first[s], n[s], floor[s], layer >= LateStart)
    BY <2>1, <2>2 DEF SlotFits
  <2>4. \A s \in Slots \ in : LeftOut(s, layer >= LateStart)
    BY <2>1, <2>2 DEF LeftOut
  <2> QED BY <2>0, <2>2, <2>3, <2>4
<1>2. CASE layer >= LateStart
  <2>1. Fits(layout, TRUE)
    BY <1>2 DEF LayoutInv
  <2>2. PICK in, first, n, floor :
          /\ Batch(layout, in, first, n, floor)
          /\ \A s \in in : SlotFits(s, first[s], n[s], floor[s], TRUE)
          /\ \A s \in Slots \ in : LeftOut(s, TRUE)
    BY <2>1 DEF Fits
  <2>3. \A s \in in : SlotFits(s, first[s], n[s], floor[s], layer >= LateStart)
    BY <1>2, <2>2 DEF SlotFits
  <2>4. \A s \in Slots \ in : LeftOut(s, layer >= LateStart)
    BY <1>2, <2>2 DEF LeftOut
  <2> QED BY <2>1, <2>2, <2>3, <2>4
<1>3. layer < LateStart \/ layer >= LateStart
  BY Constants DEF Types
<1> QED BY <1>1, <1>2, <1>3

(* The rows of the layout are tokens of slots in use.                      *)
LEMMA LayoutRows ==
    ASSUME Types, LayoutInv, pc # "idle", NEW i \in Rows(layout)
    PROVE  /\ layout.req[i] \in Slots /\ layout.pos[i] \in Nat /\ layout.pos[i] \in 0 .. MaxLen
           /\ Token(i) \in Row
<1>1. PICK in, first, n, floor :
        /\ Batch(layout, in, first, n, floor)
        /\ \A s \in in : SlotFits(s, first[s], n[s], floor[s], layer >= LateStart)
  BY LayoutBatch
<1> DEFINE s == layout.req[i]
           p == layout.pos[i]
<1>2. s \in in /\ p \in Nat /\ p < first[s] + n[s]
  BY <1>1, BatchPositions
<1>3. s \in Slots /\ first[s] \in Nat /\ n[s] \in Nat
  BY <1>1, <1>2, BatchTypes
<1>4. first[s] + n[s] <= MaxLen
  BY <1>1, <1>2 DEF SlotFits
<1>5. p \in 0 .. MaxLen /\ p \in -1 .. MaxLen
  BY <1>2, <1>3, <1>4, Constants
<1>6. owner[s] \in 0 .. MaxReqs
  BY <1>3 DEF Types
<1> DEFINE kept == mode = "replay" \/ p < len[s] + outcome[s]
<1>7. Token(i) = <<owner[s], p, kept>> /\ kept \in BOOLEAN
  BY DEF Token
<1> HIDE DEF s, p, kept
<1>8. Token(i) \in Row
  BY <1>5, <1>6, <1>7 DEF Row
<1> QED BY <1>2, <1>3, <1>5, <1>8 DEF s, p

LEMMA CellType == ASSUME NEW p \in Nat PROVE Cell(p) \in Cells
<1>1. Capacity \in Nat /\ Capacity > 0
  BY CapacityBound
<1> HIDE DEF Capacity
<1>2. p % Capacity \in 0 .. Capacity - 1
  BY <1>1
<1> QED BY <1>2 DEF Cell, Cells

(* What buffer reads is there, but for what the late layers skipped.       *)
LEMMA ReadPresent ==
    ASSUME Inv, pc # "idle", NEW h \in 0 .. HistoryRows(layout) - 1, HistoryValid(layout, h)
    PROVE  /\ HistoryReq(layout, h) \in Slots
           /\ HistoryPos(layout, h) \in Nat /\ HistoryPos(layout, h) \in 0 .. MaxLen
           /\ \/ Skipped(HistoryReq(layout, h), HistoryPos(layout, h))
              \/ Present(layer, HistoryReq(layout, h), HistoryPos(layout, h))
           /\ (layer < LateStart \/ ~skipTail) =>
                 Present(layer, HistoryReq(layout, h), HistoryPos(layout, h))
<1>0. Types /\ Scheduling /\ LayoutInv /\ WindowInv /\ layer \in LayerIds /\ layer \in Nat
  BY Constants DEF Inv, Scheduling, Types
<1>1. PICK in, first, n, floor :
        /\ Batch(layout, in, first, n, floor)
        /\ \A s \in in : SlotFits(s, first[s], n[s], floor[s], layer >= LateStart)
  BY <1>0, LayoutBatch
<1> DEFINE s == HistoryReq(layout, h)
           p == HistoryPos(layout, h)
           r == h % Window
<1>2. /\ s \in in /\ r \in 0 .. Window - 1 /\ p = first[s] - Window + r
      /\ p >= 0 /\ p >= floor[s]
  BY <1>1, BatchHistory
<1>3. s \in Slots /\ first[s] \in Nat /\ n[s] \in Nat /\ floor[s] \in Nat
  BY <1>1, <1>2, BatchTypes
<1>4. /\ first[s] + n[s] <= MaxLen
      /\ floor[s] = first[s] \/ (/\ floor[s] = 0 /\ first[s] = len[s] /\ Ready(s)
                                 /\ layer >= LateStart => mode # "extend")
  BY <1>1, <1>2 DEF SlotFits
<1> HIDE DEF s, p, r
<1>5. p \in Nat /\ p < first[s] /\ p \in 0 .. MaxLen
  BY <1>2, <1>3, <1>4, Constants
<1>6. first[s] = len[s] /\ Ready(s) /\ (layer >= LateStart => mode # "extend")
  BY <1>2, <1>3, <1>4, <1>5
<1>7. len[s] - Window <= p /\ p < len[s] /\ len[s] \in Nat
  BY <1>2, <1>3, <1>5, <1>6, Constants
<1>8. LenAt(layer, s) = len[s]
  BY <1>0 DEF LenAt
<1>9. layer >= LateStart /\ ~skipTail => gap[s] <= p
  <2> SUFFICES ASSUME layer >= LateStart, ~skipTail PROVE gap[s] <= p
    OBVIOUS
  <2>1. gap[s] <= Higher(0, len[s] + (IF mode = "extend" THEN outcome[s] ELSE 0) - Window)
    BY <1>0, <1>3 DEF Scheduling, SlotInv
  <2>2. gap[s] <= Higher(0, len[s] + 0 - Window)
    BY <1>6, <2>1
  <2>3. gap[s] \in Nat
    BY <1>0, <1>3, Constants DEF Types
  <2> QED BY <1>5, <1>7, <2>2, <2>3, Constants DEF Higher
<1>10. (layer >= LateStart => gap[s] <= p) => Present(layer, s, p)
  <2>1. (layer >= LateStart => gap[s] <= p) => Held(layer, s, p)
    BY <1>6, <1>7, <1>8 DEF Held
  <2> QED BY <1>0, <1>3, <1>5, <2>1 DEF WindowInv
<1>11. layer \in Nat /\ LateStart \in Nat /\ gap[s] \in Nat
  BY <1>0, <1>3, Constants DEF Types
<1>12. (layer < LateStart \/ ~skipTail) => Present(layer, s, p)
  BY <1>9, <1>10, <1>11
<1>13. Skipped(s, p) \/ Present(layer, s, p)
  BY <1>5, <1>10, <1>11, <1>12 DEF Skipped
<1> QED BY <1>3, <1>5, <1>12, <1>13 DEF s, p

(* What a step that changes no slot leaves as it was.                      *)
LEMMA FitsStays ==
    ASSUME UNCHANGED <<phase, len, gap, mode, outcome, finishing>>
    PROVE  /\ UNCHANGED layout => /\ Fits(layout, FALSE) => Fits(layout, FALSE)'
                                  /\ Fits(layout, TRUE) => Fits(layout, TRUE)'
           /\ UNCHANGED tail => (Fits(tail, TRUE) => Fits(tail, TRUE)')
           /\ layout' = tail => (Fits(tail, TRUE) => Fits(layout, TRUE)')
           /\ \A s \in Slots : LeftOut(s, TRUE) => LeftOut(s, TRUE)'
<1>1. \A s, f, n, fl : /\ SlotFits(s, f, n, fl, TRUE) => SlotFits(s, f, n, fl, TRUE)'
                       /\ SlotFits(s, f, n, fl, FALSE) => SlotFits(s, f, n, fl, FALSE)'
  BY DEF SlotFits, Ready
<1>2. \A s : /\ LeftOut(s, TRUE) => LeftOut(s, TRUE)'
             /\ LeftOut(s, FALSE) => LeftOut(s, FALSE)'
  BY DEF LeftOut
<1>3. UNCHANGED layout => (Fits(layout, FALSE) => Fits(layout, FALSE)')
  BY <1>1, <1>2 DEF Fits
<1>4. UNCHANGED layout => (Fits(layout, TRUE) => Fits(layout, TRUE)')
  BY <1>1, <1>2 DEF Fits
<1>5. UNCHANGED tail => (Fits(tail, TRUE) => Fits(tail, TRUE)')
  BY <1>1, <1>2 DEF Fits
<1>6. layout' = tail => (Fits(tail, TRUE) => Fits(layout, TRUE)')
  BY <1>1, <1>2 DEF Fits
<1> QED BY <1>2, <1>3, <1>4, <1>5, <1>6

LEMMA BufferInv ==
    ASSUME Inv, Buffer
    PROVE  Inv'
<1> DEFINE N == HistoryRows(layout)
           history == 0 .. N - 1
           missing == \E h \in history : HistoryValid(layout, h) /\ ~Tagged(h)
           read(w) == IF HistoryValid(layout, w)
                      THEN ring[layer][HistoryReq(layout, w)][Cell(HistoryPos(layout, w))]
                      ELSE Blank
<1>0. Types /\ Scheduling /\ LayoutInv /\ WindowInv /\ pc = "buffer" /\ raised = 0
  BY DEF Inv, Buffer
<1>1. layer \in LayerIds /\ layer \in Nat /\ layer \in 0 .. Layers /\ mode \in Modes
  BY <1>0, Constants DEF Scheduling, Types
<1>2. mode = "graph" \/ prepared # layer
  <2>1. mode = "graph" \/ prepared < layer
    BY <1>0 DEF Scheduling
  <2>2. prepared \in Nat
    BY <1>0, Constants DEF Types
  <2> QED BY <1>1, <2>1, <2>2
<1>3. /\ UNCHANGED <<skipTail, owner, phase, len, count, gap, ring, tags>>
      /\ UNCHANGED <<layout, mode, tail, outcome, finishing, layer>>
  BY DEF Buffer, schedVars
<1>4. LayoutInv'
  <2>1. pc' # "idle"
    BY DEF Buffer
  <2> QED BY <1>0, <1>3, <2>1, FitsStays DEF LayoutInv
<1>5. WindowInv'
  <2>1. \A l \in LayerIds, s \in Slots, p \in 0 .. MaxLen : Held(l, s, p)' = Held(l, s, p)
    BY <1>3 DEF Held, Ready, LenAt
  <2>2. \A l \in LayerIds, s \in Slots, p \in 0 .. MaxLen : Present(l, s, p)' = Present(l, s, p)
    BY <1>3 DEF Present
  <2> QED BY <1>0, <2>1, <2>2 DEF WindowInv
<1>6. \A s \in Slots : SlotInv(s)'
  BY <1>0, <1>3 DEF Scheduling, SlotInv
<1>7. CASE /\ mode # "graph" /\ missing /\ raised' = layer
           /\ UNCHANGED <<workspace, prepared, pc>>
  <2>1. Types'
    BY <1>0, <1>1, <1>3, <1>7 DEF Types
  <2>2. Scheduling'
    BY <1>0, <1>1, <1>3, <1>6, <1>7 DEF Scheduling
  <2>3. WorkspaceInv'
    BY <1>0, <1>7 DEF WorkspaceInv
  <2>4. NoFalseAlarm'
    <3> SUFFICES ASSUME NEW h \in history, HistoryValid(layout, h), ~Tagged(h)
                 PROVE  Skipped(HistoryReq(layout, h), HistoryPos(layout, h))
      BY <1>3 DEF NoFalseAlarm, Tagged, Skipped
    <3>1. \/ Skipped(HistoryReq(layout, h), HistoryPos(layout, h))
          \/ Present(layer, HistoryReq(layout, h), HistoryPos(layout, h))
      BY <1>0, ReadPresent
    <3> QED BY <3>1 DEF Present, Tagged
  <2> QED BY <1>4, <1>5, <2>1, <2>2, <2>3, <2>4 DEF Inv
<1>8. CASE /\ workspace' = [w \in WorkspaceRows |->
                CASE w \in history -> read(w)
                  [] w - N \in Rows(layout) -> Token(w - N)
                  [] OTHER -> workspace[w]]
           /\ prepared' = (IF mode = "graph" THEN prepared ELSE layer)
           /\ pc' = "commit" /\ UNCHANGED raised
  <2>0. PICK late \in BOOLEAN : Fits(layout, late)
    BY <1>0, LayoutBatch
  <2>1. /\ N \in Nat /\ Rows(layout) \in SUBSET Nat
        /\ \A h \in history : h \in WorkspaceRows
        /\ \A i \in Rows(layout) : N + i \in WorkspaceRows /\ WriteLoc(layout, i) = N + i
    BY <2>0, FitsRoom
  <2>2. \A w \in history : w \in Nat /\ w < N /\ w - N \notin Rows(layout)
    <3> HIDE DEF N
    <3>1. \A w \in 0 .. N - 1 : w \in Nat /\ w < N /\ w - N \notin Nat
      BY <2>1
    <3> QED BY <2>1, <3>1
  <2>3. \A i \in Rows(layout) : (N + i) - N = i /\ N + i \notin history
    <3> HIDE DEF N
    <3> QED BY <2>1
  <2> HIDE DEF N, history, read
  <2>4. \A h \in history : workspace'[h] = read(h)
    BY <1>8, <2>1, <2>2
  <2>5. \A i \in Rows(layout) : workspace'[WriteLoc(layout, i)] = Token(i)
    BY <1>8, <2>1, <2>3
  <2>6. \A h \in history : read(h) \in Row
    <3> TAKE h \in history
    <3>1. CASE HistoryValid(layout, h)
      <4>1. HistoryReq(layout, h) \in Slots /\ HistoryPos(layout, h) \in Nat
        BY <1>0, <3>1, ReadPresent DEF history, N
      <4>2. Cell(HistoryPos(layout, h)) \in Cells
        BY <4>1, CellType
      <4> QED BY <1>0, <1>1, <3>1, <4>1, <4>2 DEF Types, read
    <3>2. CASE ~HistoryValid(layout, h)
      <4>1. 0 \in 0 .. MaxReqs /\ -1 \in -1 .. MaxLen
        BY Constants
      <4> QED BY <3>2, <4>1 DEF read, Blank, Row
    <3> QED BY <3>1, <3>2
  <2>7. workspace' \in [WorkspaceRows -> Row]
    <3>1. \A w \in WorkspaceRows : workspace'[w] \in Row
      <4> TAKE w \in WorkspaceRows
      <4>1. CASE w \in history
        BY <2>4, <2>6, <4>1
      <4>2. CASE w \notin history /\ w - N \in Rows(layout)
        <5>1. workspace'[w] = Token(w - N)
          BY <1>8, <4>2
        <5> QED BY <1>0, <4>2, <5>1, LayoutRows
      <4>3. CASE w \notin history /\ w - N \notin Rows(layout)
        <5>1. workspace'[w] = workspace[w]
          BY <1>8, <4>3
        <5> QED BY <1>0, <5>1 DEF Types
      <4> QED BY <4>1, <4>2, <4>3
    <3>2. workspace' = [w \in WorkspaceRows |-> workspace'[w]]
      BY <1>8
    <3> QED BY <3>1, <3>2
  <2>8. Types'
    BY <1>0, <1>1, <1>3, <1>8, <2>7 DEF Types
  <2>9. Scheduling'
    <3>1. prepared' <= layer \/ mode = "graph"
      BY <1>1, <1>8
    <3> QED BY <1>0, <1>1, <1>3, <1>6, <1>8, <3>1 DEF Scheduling
  <2>10. WorkspaceInv'
    <3>1. \A i \in Rows(layout) : Token(i)' = Token(i)
      BY <1>3 DEF Token
    <3>2. \A h \in history : HistoryValid(layout, h) =>
            workspace'[h] = ring[layer][HistoryReq(layout, h)][Cell(HistoryPos(layout, h))]
      BY <2>4 DEF read
    <3> QED BY <1>3, <2>5, <3>1, <3>2 DEF WorkspaceInv, history, N
  <2> QED BY <1>0, <1>4, <1>5, <1>8, <2>8, <2>9, <2>10 DEF Inv, NoFalseAlarm
<1> QED BY <1>2, <1>7, <1>8 DEF Buffer

-----------------------------------------------------------------------------
(* commit.                                                                 *)

(* The rows of a slot that commit keeps have different cells: it never has *)
(* two rows for one cell.                                                  *)
LEMMA TargetsOne ==
    ASSUME Types, LayoutInv, pc # "idle", NEW s, NEW c,
           NEW i \in Targets(s, c)
    PROVE  Least(Targets(s, c)) = i /\ Greatest(Targets(s, c)) = i
<1>1. PICK in, first, n, floor : Batch(layout, in, first, n, floor)
  BY LayoutBatch
<1>2. Targets(s, c) \in SUBSET Rows(layout) /\ Rows(layout) \in SUBSET Nat
  <2>1. Rows(layout) \in SUBSET Nat
    BY <1>1, BatchRows
  <2> QED BY <2>1 DEF Targets
<1>3. \A j \in Targets(s, c) : j = i
  <2> TAKE j \in Targets(s, c)
  <2> DEFINE p == layout.pos[i]
             q == layout.pos[j]
             e == first[s] + n[s] - 1
  <2>1. /\ i \in Rows(layout) /\ j \in Rows(layout)
        /\ layout.req[i] = s /\ layout.req[j] = s /\ Committed(layout, i) /\ Committed(layout, j)
        /\ Cell(p) = c /\ Cell(q) = c
    BY DEF Targets
  <2>2. /\ s \in in /\ p \in Nat /\ q \in Nat
        /\ p < first[s] + n[s] /\ q < first[s] + n[s]
    BY <1>1, <2>1, BatchPositions
  <2>3. first[s] \in Nat /\ n[s] \in Nat /\ e - p < Capacity /\ e - q < Capacity
    <3>1. /\ first[s] + n[s] - 1 - p < Capacity
          /\ first[s] + n[s] - 1 - q < Capacity
      BY <1>1, <2>1, BatchPositions
    <3>2. first[s] \in Nat /\ n[s] \in Nat
      BY <1>1, <2>2, BatchTypes
    <3>3. first[s] + n[s] - 1 - p = e - p /\ first[s] + n[s] - 1 - q = e - q
      <4> HIDE DEF p, q
      <4> QED BY <2>2, <3>2
    <3> QED BY <3>1, <3>2, <3>3
  <2>4. Capacity \in Nat \ {0}
    BY CapacityBound
  <2>5. p < q => q - p < Capacity
    <3> HIDE DEF Capacity, p, q
    <3> QED BY <2>2, <2>3, <2>4
  <2>6. q < p => p - q < Capacity
    <3> HIDE DEF Capacity, p, q
    <3> QED BY <2>2, <2>3, <2>4
  <2>7. p % Capacity = q % Capacity
    BY <2>1 DEF Cell
  <2> HIDE DEF p, q, e
  <2>8. ~(p < q) /\ ~(q < p)
    BY <2>2, <2>4, <2>5, <2>6, <2>7, ModDiffers
  <2>9. p = q
    BY <2>2, <2>8
  <2> QED BY <1>1, <2>1, <2>9, BatchPositions DEF p, q
<1> DEFINE T == Targets(s, c)
<1>4. i \in T /\ i \in Int /\ T \in SUBSET Int
  BY <1>2
<1>5. \A j \in T : i <= j /\ j <= i
  <2>1. \A j \in T : j = i
    BY <1>3
  <2> QED BY <1>4, <2>1
<1> HIDE DEF T
<1>6. Least(T) = i /\ Greatest(T) = i
  BY <1>4, <1>5, LeastIs, GreatestIs
<1> QED BY <1>6 DEF T

(* What commit does to the ring and the tags of its layer.                 *)
LEMMA CommitEffect ==
    ASSUME Inv, Commit
    PROVE  /\ \A l \in LayerIds \ {layer} : ring'[l] = ring[l] /\ tags'[l] = tags[l]
           /\ \A s \in Slots, c \in Cells :
                /\ Targets(s, c) = {} => /\ ring'[layer][s][c] = ring[layer][s][c]
                                         /\ tags'[layer][s][c] = tags[layer][s][c]
                /\ \A i \in Targets(s, c) : /\ ring'[layer][s][c] = Token(i)
                                            /\ tags'[layer][s][c] = layout.pos[i]
           /\ ring' \in [LayerIds -> [Slots -> [Cells -> Row]]]
           /\ tags' \in [LayerIds -> [Slots -> [Cells -> -1 .. MaxLen]]]
<1>0. Types /\ Scheduling /\ LayoutInv /\ WorkspaceInv /\ pc = "commit"
  BY DEF Inv, Commit
<1>1. layer \in LayerIds
  BY <1>0 DEF Scheduling
<1>2. PICK pick \in [Slots \X Cells -> {TRUE, FALSE}] :
          LET winner(s, c) == IF pick[s, c] THEN Least(Targets(s, c))
                              ELSE Greatest(Targets(s, c))
          IN  /\ ring' = [ring EXCEPT ![layer] = [s \in Slots |-> [c \in Cells |->
                    IF Targets(s, c) = {} THEN @[s][c]
                    ELSE workspace[WriteLoc(layout, winner(s, c))]]]]
              /\ tags' = [tags EXCEPT ![layer] = [s \in Slots |-> [c \in Cells |->
                    IF Targets(s, c) = {} THEN @[s][c] ELSE layout.pos[winner(s, c)]]]]
  BY DEF Commit
<1> DEFINE winner(s, c) == IF pick[s, c] THEN Least(Targets(s, c)) ELSE Greatest(Targets(s, c))
           row(s, c) == IF Targets(s, c) = {} THEN ring[layer][s][c]
                        ELSE workspace[WriteLoc(layout, winner(s, c))]
           tag(s, c) == IF Targets(s, c) = {} THEN tags[layer][s][c]
                        ELSE layout.pos[winner(s, c)]
<1>3. /\ ring' = [ring EXCEPT ![layer] = [s \in Slots |-> [c \in Cells |-> row(s, c)]]]
      /\ tags' = [tags EXCEPT ![layer] = [s \in Slots |-> [c \in Cells |-> tag(s, c)]]]
  BY <1>2
<1>4. \A s \in Slots, c \in Cells : \A i \in Targets(s, c) :
        row(s, c) = Token(i) /\ tag(s, c) = layout.pos[i] /\ i \in Rows(layout)
  <2> TAKE s \in Slots, c \in Cells
  <2> TAKE i \in Targets(s, c)
  <2>1. Least(Targets(s, c)) = i /\ Greatest(Targets(s, c)) = i
    BY <1>0, TargetsOne
  <2>2. winner(s, c) = i /\ Targets(s, c) # {} /\ i \in Rows(layout)
    BY <2>1 DEF Targets
  <2> HIDE DEF winner
  <2> QED BY <1>0, <2>2 DEF WorkspaceInv
<1>5. \A s \in Slots, c \in Cells : Targets(s, c) = {} =>
        row(s, c) = ring[layer][s][c] /\ tag(s, c) = tags[layer][s][c]
  OBVIOUS
<1> HIDE DEF winner, row, tag
<1>6. /\ ring \in [LayerIds -> [Slots -> [Cells -> Row]]]
      /\ tags \in [LayerIds -> [Slots -> [Cells -> -1 .. MaxLen]]]
  BY <1>0 DEF Types
<1>7. \A s \in Slots, c \in Cells : row(s, c) \in Row /\ tag(s, c) \in -1 .. MaxLen
  <2> TAKE s \in Slots, c \in Cells
  <2>1. CASE Targets(s, c) = {}
    <3>1. row(s, c) = ring[layer][s][c] /\ tag(s, c) = tags[layer][s][c]
      BY <1>5, <2>1
    <3>2. ring[layer][s][c] \in Row
      BY <1>1, <1>6
    <3>3. tags[layer][s][c] \in -1 .. MaxLen
      BY <1>1, <1>6
    <3> QED BY <3>1, <3>2, <3>3
  <2>2. ASSUME NEW i \in Targets(s, c) PROVE row(s, c) \in Row /\ tag(s, c) \in -1 .. MaxLen
    <3>1. row(s, c) = Token(i) /\ tag(s, c) = layout.pos[i] /\ i \in Rows(layout)
      BY <1>4
    <3>2. Token(i) \in Row /\ layout.pos[i] \in 0 .. MaxLen
      BY <1>0, <3>1, LayoutRows
    <3>3. layout.pos[i] \in -1 .. MaxLen
      BY <3>2, Constants
    <3> QED BY <3>1, <3>2, <3>3
  <2> QED BY <2>1, <2>2
<1>8. \A s \in Slots, c \in Cells :
        ring'[layer][s][c] = row(s, c) /\ tags'[layer][s][c] = tag(s, c)
  BY <1>1, <1>3, <1>6
<1>9. \A l \in LayerIds \ {layer} : ring'[l] = ring[l] /\ tags'[l] = tags[l]
  BY <1>1, <1>3, <1>6
<1>10. ring' \in [LayerIds -> [Slots -> [Cells -> Row]]]
  BY <1>1, <1>3, <1>6, <1>7
<1>11. tags' \in [LayerIds -> [Slots -> [Cells -> -1 .. MaxLen]]]
  BY <1>1, <1>3, <1>6, <1>7
<1> QED BY <1>4, <1>5, <1>8, <1>9, <1>10, <1>11

(* After commit the ring of the layer holds the windows of all slots.      *)
LEMMA CommitWindow ==
    ASSUME Inv, Commit, NEW s \in Slots, NEW p \in 0 .. MaxLen,
           Ready(s) \/ (mode = "replay" /\ s \in finishing),
           len[s] + outcome[s] - Window <= p, p < len[s] + outcome[s],
           layer >= LateStart => gap[s] <= p
    PROVE  tags'[layer][s][Cell(p)] = p /\ ring'[layer][s][Cell(p)] = <<owner[s], p, TRUE>>
<1> DEFINE L == len[s] + outcome[s]
<1>0. Types /\ Scheduling /\ LayoutInv /\ WindowInv /\ pc = "commit"
  BY DEF Inv, Commit
<1>1. /\ layer \in LayerIds /\ layer \in Nat /\ len[s] \in Nat /\ outcome[s] \in Nat
      /\ gap[s] \in Nat /\ p \in Nat /\ L \in Nat
  <2>1. layer \in LayerIds /\ outcome[s] \in 0 .. MaxLen
    BY <1>0 DEF Scheduling
  <2>2. len[s] \in 0 .. MaxLen /\ gap[s] \in 0 .. MaxLen
    BY <1>0 DEF Types
  <2> QED BY <2>1, <2>2, Constants DEF LayerIds
<1>2. PICK in, first, n, floor :
        /\ Batch(layout, in, first, n, floor)
        /\ \A t \in in : SlotFits(t, first[t], n[t], floor[t], layer >= LateStart)
        /\ \A t \in Slots \ in : LeftOut(t, layer >= LateStart)
  BY <1>0, LayoutBatch
<1> DEFINE f == first[s]
           e == first[s] + n[s]
<1>3. L - Window <= p /\ p < L
  BY <1>1, Constants
<1>4. Cell(p) \in Cells /\ Capacity \in Nat \ {0} /\ Window + Drafts <= Capacity
  BY <1>1, CellType, CapacityBound
<1> HIDE DEF L
<1>5. ASSUME Ready(s), len[s] - Window <= p, p < len[s], Targets(s, Cell(p)) = {}
      PROVE  tags'[layer][s][Cell(p)] = p /\ ring'[layer][s][Cell(p)] = <<owner[s], p, TRUE>>
  <2>1. Held(layer, s, p)
    BY <1>1, <1>5 DEF Held, LenAt
  <2>2. Present(layer, s, p)
    BY <1>0, <1>1, <2>1 DEF WindowInv
  <2> QED BY <1>4, <1>5, <2>2, CommitEffect DEF Present
<1>6. CASE s \in in
  <2>1. /\ L <= e /\ e < L + Drafts /\ f \in Nat /\ n[s] \in Nat
        /\ (f = len[s] /\ Ready(s)) \/ f <= Higher(0, L - Window)
    <3>1. f \in Nat /\ n[s] \in Nat
      BY <1>2, <1>6, BatchTypes
    <3>2. SlotFits(s, first[s], n[s], floor[s], layer >= LateStart)
      BY <1>2, <1>6
    <3>3. L - Window = len[s] + outcome[s] - Window
      BY <1>1, Constants DEF L
    <3>4. L <= e /\ e < L + Drafts
      BY <3>2 DEF SlotFits, L
    <3>5. (f = len[s] /\ Ready(s)) \/ f <= Higher(0, L - Window)
      BY <3>2, <3>3 DEF SlotFits
    <3> QED BY <3>1, <3>4, <3>5
  <2>2. \A i \in Rows(layout) : layout.req[i] = s =>
          /\ layout.pos[i] \in Nat /\ f <= layout.pos[i] /\ layout.pos[i] < e
          /\ Committed(layout, i) <=> e - 1 - layout.pos[i] < Capacity
    <3> TAKE i \in Rows(layout)
    <3> HAVE layout.req[i] = s
    <3>1. /\ layout.pos[i] \in Nat
          /\ first[layout.req[i]] <= layout.pos[i]
          /\ layout.pos[i] < first[layout.req[i]] + n[layout.req[i]]
          /\ Committed(layout, i) <=>
               first[layout.req[i]] + n[layout.req[i]] - 1 - layout.pos[i] < Capacity
      BY <1>2, BatchPositions
    <3>2. /\ layout.pos[i] \in Nat /\ first[s] <= layout.pos[i]
          /\ layout.pos[i] < first[s] + n[s]
          /\ Committed(layout, i) <=> first[s] + n[s] - 1 - layout.pos[i] < Capacity
      BY <3>1, Zenon
    <3>3. first[s] + n[s] - 1 - layout.pos[i] = e - 1 - layout.pos[i]
      BY <2>1, <3>2
    <3> QED BY <3>2, <3>3
  <2> HIDE DEF f, e
  <2>3. e \in Nat /\ e - 1 - p < Capacity
    <3>1. e \in Nat
      BY <2>1 DEF e, f
    <3> HIDE DEF Capacity
    <3> QED BY <1>1, <1>3, <1>4, <2>1, <3>1, Constants
  <2>4. CASE f <= p
    <3>1. p < e
      BY <1>1, <1>3, <2>1, <2>3
    <3>2. PICK i \in Rows(layout) : layout.req[i] = s /\ layout.pos[i] = p
      BY <1>1, <1>2, <1>6, <2>4, <3>1, BatchPositions DEF f, e
    <3>3. i \in Targets(s, Cell(p))
      BY <2>2, <2>3, <3>2 DEF Targets
    <3>4. Token(i) = <<owner[s], p, TRUE>>
      BY <1>3, <3>2 DEF Token, L
    <3>5. ring'[layer][s][Cell(p)] = Token(i) /\ tags'[layer][s][Cell(p)] = layout.pos[i]
      BY <1>4, <3>3, CommitEffect
    <3> QED BY <3>2, <3>4, <3>5
  <2>5. CASE p < f
    <3>1. ~(f <= Higher(0, L - Window))
      BY <1>1, <1>3, <2>1, <2>5, Constants DEF Higher
    <3>2. f = len[s] /\ Ready(s)
      BY <2>1, <3>1
    <3>3. Targets(s, Cell(p)) = {}
      <4> SUFFICES ASSUME NEW i \in Targets(s, Cell(p)) PROVE FALSE
        OBVIOUS
      <4> DEFINE q == layout.pos[i]
      <4>1. q \in Nat /\ f <= q /\ q < e /\ Cell(q) = Cell(p)
        BY <2>2 DEF Targets
      <4> HIDE DEF q
      <4>2. p < q /\ q - p < Capacity
        <5> HIDE DEF Capacity
        <5> QED BY <1>1, <1>4, <2>1, <2>3, <2>5, <4>1
      <4>3. p % Capacity # q % Capacity
        BY <1>1, <1>4, <4>1, <4>2, ModDiffers
      <4> QED BY <4>1, <4>3 DEF Cell
    <3>4. len[s] - Window <= p /\ p < len[s]
      BY <1>1, <1>3, <2>5, <3>2, Constants DEF L
    <3> QED BY <1>5, <3>2, <3>3, <3>4
  <2>6. f <= p \/ p < f
    BY <1>1, <2>1
  <2> QED BY <2>4, <2>5, <2>6
<1>7. CASE s \notin in
  <2>1. Targets(s, Cell(p)) = {}
    <3>1. \A i \in Rows(layout) : layout.req[i] \in in
      BY <1>2, BatchPositions
    <3> QED BY <1>7, <3>1 DEF Targets
  <2>2. LeftOut(s, layer >= LateStart)
    BY <1>2, <1>7
  <2>3. outcome[s] = 0 /\ (mode = "replay" => s \notin finishing)
    <3>1. ~(layer >= LateStart /\ gap[s] = L)
      BY <1>1, <1>3
    <3> QED BY <2>2, <3>1 DEF LeftOut, L
  <2>4. Ready(s) /\ len[s] - Window <= p /\ p < len[s]
    BY <1>1, <1>3, <2>3, Constants DEF L
  <2> QED BY <1>5, <2>1, <2>4
<1> QED BY <1>6, <1>7

(* On to the next layer.                                                   *)
LEMMA WindowNext ==
    ASSUME Inv, Commit, layer' = layer + 1,
           UNCHANGED <<owner, phase, len, gap, mode, outcome, finishing>>
    PROVE  WindowInv'
<1> SUFFICES ASSUME NEW l \in LayerIds, NEW s \in Slots, NEW p \in 0 .. MaxLen, Held(l, s, p)'
             PROVE  Present(l, s, p)'
  BY DEF WindowInv
<1>1. WindowInv /\ layer \in Nat /\ l \in Nat /\ pc = "commit"
  <2>1. WindowInv /\ layer \in 0 .. Layers
    BY DEF Inv, Types
  <2>2. l \in 1 .. Layers
    BY DEF LayerIds
  <2>3. pc = "commit"
    BY DEF Commit
  <2> QED BY <2>1, <2>2, <2>3, Constants
<1>2. CASE l = layer
  <2>1. LenAt(l, s)' = len[s] + outcome[s] /\ l < layer'
    BY <1>1, <1>2 DEF LenAt
  <2>2. /\ Ready(s) \/ (mode = "replay" /\ s \in finishing)
        /\ len[s] + outcome[s] - Window <= p /\ p < len[s] + outcome[s]
        /\ layer >= LateStart => gap[s] <= p
    <3>1. LenAt(l, s)' - Window <= p /\ p < LenAt(l, s)'
      BY DEF Held
    <3>2. len[s] + outcome[s] - Window = LenAt(l, s)' - Window
      <4>1. len[s] \in Int /\ outcome[s] \in Int
        BY Constants DEF Inv, Types, Scheduling
      <4> QED BY <2>1, <4>1, Constants
    <3>3. Ready(s) \/ (mode = "replay" /\ s \in finishing)
      BY DEF Held, Ready
    <3>4. layer >= LateStart => gap[s] <= p
      BY <1>2 DEF Held
    <3> QED BY <2>1, <3>1, <3>2, <3>3, <3>4
  <2>3. tags'[layer][s][Cell(p)] = p /\ ring'[layer][s][Cell(p)] = <<owner[s], p, TRUE>>
    BY <2>2, CommitWindow
  <2> QED BY <1>2, <2>3 DEF Present
<1>3. CASE l # layer
  <2>1. l < layer' <=> l < layer
    BY <1>1, <1>3
  <2>2. LenAt(l, s)' = LenAt(l, s)
    BY <2>1 DEF LenAt
  <2>3. Held(l, s, p)
    BY <2>1, <2>2 DEF Held, Ready
  <2>4. Present(l, s, p)
    BY <1>1, <2>3 DEF WindowInv
  <2>5. ring'[l] = ring[l] /\ tags'[l] = tags[l]
    BY <1>3, CommitEffect
  <2> QED BY <2>4, <2>5 DEF Present
<1> QED BY <1>2, <1>3

(* Late layers see the rows of a pass that is no prefill.                  *)
LEMMA FitsLate ==
    ASSUME NEW l, mode # "extend", Fits(l, FALSE)
    PROVE  Fits(l, TRUE)
<1>1. \A s, f, n, fl : SlotFits(s, f, n, fl, FALSE) => SlotFits(s, f, n, fl, TRUE)
  BY DEF SlotFits
<1>2. \A s : LeftOut(s, FALSE) => LeftOut(s, TRUE)
  BY DEF LeftOut
<1> QED BY <1>1, <1>2 DEF Fits

LEMMA CommitNextInv ==
    ASSUME Inv, Commit, layer' = layer + 1, pc' = "buffer", layer < Layers,
           UNCHANGED <<phase, len, mode, tail, outcome, finishing>>,
           prepared' \in 0 .. Layers, prepared' <= layer \/ mode = "graph",
           LayoutInv'
    PROVE  Inv'
<1>0. Types /\ Scheduling /\ pc = "commit" /\ raised = 0
  BY DEF Inv, Commit, Scheduling
<1>1. UNCHANGED <<skipTail, owner, count, gap, raised>> /\ workspace' = workspace
  BY DEF Commit
<1>2. layer \in LayerIds /\ layer \in Nat /\ prepared' \in Nat
  BY <1>0, Constants DEF Scheduling, Types
<1>3. layer' \in LayerIds /\ layer' \in 0 .. Layers /\ (prepared' < layer' \/ mode = "graph")
  BY <1>2, Constants DEF LayerIds
<1>4. Types'
  BY <1>0, <1>1, <1>3, CommitEffect DEF Types
<1>5. \A s \in Slots : SlotInv(s)'
  BY <1>0, <1>1 DEF Scheduling, SlotInv
<1>6. Scheduling'
  BY <1>0, <1>1, <1>3, <1>5 DEF Scheduling
<1>7. WindowInv'
  BY <1>1, WindowNext
<1> QED BY <1>0, <1>1, <1>4, <1>6, <1>7 DEF Inv, WorkspaceInv, NoFalseAlarm

(* The end of a pass.                                                      *)
LEMMA CommitEndInv ==
    ASSUME Inv, Commit, pc' = "idle", layer' = 0,
           \/ layer = Layers
           \/ layer + 1 = LateStart /\ mode = "extend" /\ tail = NoRows,
           len' = [s \in Slots |-> len[s] + outcome[s]],
           phase' = [s \in Slots |->
                IF s \notin finishing THEN phase[s]
                ELSE IF mode = "replay" THEN "prefill" ELSE "decode"],
           mode' = "none", outcome' = [s \in Slots |-> 0], finishing' = {},
           layout' = NoRows, UNCHANGED prepared
    PROVE  Inv'
<1>0. Types /\ Scheduling /\ LayoutInv /\ WindowInv /\ pc = "commit" /\ raised = 0
  BY DEF Inv, Commit, Scheduling
<1>1. /\ UNCHANGED <<skipTail, owner, count, gap, raised>>
      /\ workspace' = [w \in WorkspaceRows |-> Blank]
  BY DEF Commit
<1>2. layer \in LayerIds /\ layer \in Nat
  BY <1>0, Constants DEF Scheduling, Types
<1>3. \A s \in Slots : /\ len[s] \in Nat /\ outcome[s] \in Nat /\ gap[s] \in Nat
                       /\ gap[s] <= MaxLen /\ len[s] <= MaxLen /\ SlotInv(s)
  BY <1>0, Constants DEF Types, Scheduling
<1>4. PICK in, first, n, floor :
        /\ Batch(layout, in, first, n, floor)
        /\ \A s \in in : SlotFits(s, first[s], n[s], floor[s], layer >= LateStart)
        /\ \A s \in Slots \ in : LeftOut(s, layer >= LateStart)
  BY <1>0, LayoutBatch
<1>5. \A s \in Slots : /\ len[s] + outcome[s] <= MaxLen
                       /\ phase[s] = "free" => outcome[s] = 0
  <2> TAKE s \in Slots
  <2>1. CASE s \in in
    <3>1. phase[s] # "free" /\ len[s] + outcome[s] <= first[s] + n[s] /\ first[s] + n[s] <= MaxLen
      BY <1>4, <2>1 DEF SlotFits
    <3>2. first[s] \in Nat /\ n[s] \in Nat
      BY <1>4, <2>1, BatchTypes
    <3> QED BY <1>3, <3>1, <3>2, Constants
  <2>2. CASE s \notin in
    <3>1. outcome[s] = 0 \/ gap[s] = len[s] + outcome[s]
      BY <1>4, <2>2 DEF LeftOut
    <3>2. phase[s] = "free" => len[s] = 0 /\ gap[s] = 0
      BY <1>3 DEF SlotInv
    <3> QED BY <1>3, <3>1, <3>2, Constants
  <2> QED BY <2>1, <2>2
<1>6. Types'
  <2>1. len' \in [Slots -> 0 .. MaxLen]
    BY <1>3, <1>5, Constants
  <2>2. workspace' \in [WorkspaceRows -> Row]
    <3>1. 0 \in 0 .. MaxReqs /\ -1 \in -1 .. MaxLen
      BY Constants
    <3>2. Blank \in Row
      BY <3>1 DEF Blank, Row
    <3> QED BY <1>1, <3>2
  <2>3. layer' \in 0 .. Layers
    BY Constants
  <2> QED BY <1>0, <1>1, <2>1, <2>2, <2>3, CommitEffect DEF Types
<1>7. \A s \in Slots : SlotInv(s)'
  <2> TAKE s \in Slots
  <2>1. len'[s] = len[s] + outcome[s] /\ outcome'[s] = 0 /\ gap'[s] = gap[s]
    BY <1>1
  <2>2. phase'[s] \in {"free", "replay"} => phase'[s] = phase[s]
    OBVIOUS
  <2>3. phase'[s] = "free" => len'[s] = 0 /\ gap'[s] = 0
    BY <1>3, <1>5, <2>1, <2>2 DEF SlotInv
  <2>4. phase'[s] = "replay" => len'[s] > 0
    <3>1. phase'[s] = "replay" => len[s] > 0
      BY <1>3, <2>2 DEF SlotInv
    <3> QED BY <1>3, <2>1, <3>1
  <2>5. ~skipTail => gap[s] <= Higher(0, len[s] + outcome[s] + 0 - Window)
    <3> DEFINE x == IF mode = "extend" THEN outcome[s] ELSE 0
    <3>1. ~skipTail => gap[s] <= Higher(0, len[s] + x - Window)
      BY <1>3 DEF SlotInv
    <3>2. x \in Nat /\ x <= outcome[s]
      BY <1>3
    <3> HIDE DEF x
    <3> QED BY <1>3, <3>1, <3>2, Constants DEF Higher
  <2>6. s \notin finishing' /\ mode' # "extend" /\ skipTail' = skipTail
    BY <1>1
  <2> QED BY <2>1, <2>3, <2>4, <2>5, <2>6 DEF SlotInv
<1>8. Scheduling'
  <2>1. phase' \in [Slots -> Phases] /\ outcome' \in [Slots -> 0 .. MaxLen]
    BY <1>0, Constants DEF Scheduling, Phases
  <2> QED BY <1>0, <1>1, <1>7, <2>1 DEF Scheduling
<1>9. WindowInv'
  <2> SUFFICES ASSUME NEW l \in LayerIds, NEW s \in Slots, NEW p \in 0 .. MaxLen, Held(l, s, p)'
               PROVE  Present(l, s, p)'
    BY DEF WindowInv
  <2> DEFINE L == len[s] + outcome[s]
  <2>1. l \in Nat /\ l <= Layers /\ L \in Nat /\ ~(l < layer')
    BY <1>3, Constants DEF LayerIds
  <2>2. LenAt(l, s)' = L
    BY <2>1 DEF LenAt
  <2>3. Ready(s) \/ (mode = "replay" /\ s \in finishing)
    <3>1. Ready(s)'
      BY <2>1 DEF Held
    <3>2. s \in finishing => phase[s] = IF mode = "replay" THEN "replay" ELSE "prefill"
      BY <1>3 DEF SlotInv
    <3> QED BY <3>1, <3>2 DEF Ready
  <2>4. L - Window <= p /\ p < L /\ (l >= LateStart => gap[s] <= p)
    BY <1>1, <2>2 DEF Held
  <2>5. CASE l = layer
    <3>1. len[s] + outcome[s] - Window <= p
      BY <1>3, <2>4, Constants
    <3>2. tags'[layer][s][Cell(p)] = p /\ ring'[layer][s][Cell(p)] = <<owner[s], p, TRUE>>
      BY <2>3, <2>4, <2>5, <3>1, CommitWindow
    <3> QED BY <1>1, <2>5, <3>2 DEF Present
  <2>6. ASSUME l # layer, Held(l, s, p) PROVE Present(l, s, p)'
    <3>1. Present(l, s, p)
      BY <1>0, <2>6 DEF WindowInv
    <3>2. ring'[l] = ring[l] /\ tags'[l] = tags[l]
      BY <2>6, CommitEffect
    <3> QED BY <1>1, <3>1, <3>2 DEF Present
  <2>7. CASE l < layer
    <3>1. LenAt(l, s) = L
      BY <2>7 DEF LenAt
    <3>2. Held(l, s, p)
      BY <2>3, <2>4, <2>7, <3>1 DEF Held
    <3> QED BY <1>2, <2>1, <2>6, <2>7, <3>2
  <2>8. CASE layer < l
    <3>1. layer + 1 = LateStart /\ mode = "extend" /\ tail = NoRows
      BY <1>2, <2>1, <2>8, Constants
    <3>2. layer < LateStart /\ l >= LateStart
      BY <1>2, <2>1, <2>8, <3>1, Constants
    <3>3. LeftOut(s, TRUE)
      BY <1>0, <3>1, <3>2 DEF LayoutInv
    <3>4. outcome[s] = 0
      <4>1. gap[s] # L
        BY <1>3, <2>1, <2>4, <3>2
      <4> QED BY <3>3, <4>1 DEF LeftOut
    <3>5. LenAt(l, s) = L
      BY <1>2, <1>3, <2>1, <2>8, <3>4 DEF LenAt
    <3>6. Ready(s)
      BY <2>3, <3>1
    <3>7. Held(l, s, p)
      BY <2>4, <3>5, <3>6 DEF Held
    <3> QED BY <1>2, <2>1, <2>6, <2>8, <3>7
  <2> QED BY <1>2, <2>1, <2>5, <2>7, <2>8
<1> QED BY <1>0, <1>1, <1>6, <1>8, <1>9 DEF Inv, LayoutInv, WorkspaceInv, NoFalseAlarm

LEMMA CommitInv ==
    ASSUME Inv, Commit
    PROVE  Inv'
<1>0. Types /\ Scheduling /\ LayoutInv /\ pc = "commit"
  BY DEF Inv, Commit
<1>1. /\ layer \in Nat /\ layer <= Layers /\ prepared \in Nat /\ prepared \in 0 .. Layers
      /\ prepared <= layer \/ mode = "graph"
  <2>1. layer \in LayerIds /\ (prepared <= layer \/ mode = "graph")
    BY <1>0 DEF Scheduling
  <2>2. prepared \in 0 .. Layers
    BY <1>0 DEF Types
  <2> QED BY <2>1, <2>2, Constants DEF LayerIds
<1>2. UNCHANGED gap
  BY DEF Commit
<1>3. CASE /\ layer + 1 = LateStart /\ mode \in {"replay", "extend"} /\ tail # NoRows
           /\ layout' = tail /\ prepared' = 0
           /\ layer' = layer + 1 /\ pc' = "buffer"
           /\ UNCHANGED <<phase, len, mode, tail, outcome, finishing>>
  <2>1. layer < LateStart /\ ~(layer' < LateStart) /\ layer < Layers
    BY <1>1, <1>3, Constants
  <2>2. Fits(tail, TRUE)
    BY <1>0, <1>3, <2>1 DEF LayoutInv
  <2>3. Fits(layout, TRUE)'
    BY <1>2, <1>3, <2>2, FitsStays
  <2>4. LayoutInv'
    BY <2>1, <2>3 DEF LayoutInv
  <2>5. prepared' <= layer /\ prepared' \in 0 .. Layers
    BY <1>1, <1>3, Constants
  <2> QED BY <1>3, <2>1, <2>4, <2>5, CommitNextInv
<1>4. CASE /\ layer < Layers
           /\ ~(layer + 1 = LateStart /\ mode \in {"replay", "extend"})
           /\ layer' = layer + 1 /\ pc' = "buffer"
           /\ UNCHANGED <<phase, len, mode, tail, outcome, finishing, layout, prepared>>
  <2>1. LayoutInv'
    <3>1. layer' < LateStart => layer < LateStart
      BY <1>1, <1>4, Constants
    <3>2. layer' < LateStart => Fits(layout, FALSE)'
      BY <1>0, <1>2, <1>4, <3>1, FitsStays DEF LayoutInv
    <3>3. layer' >= LateStart => Fits(layout, TRUE)'
      <4>1. CASE layer >= LateStart
        BY <1>0, <1>2, <1>4, <4>1, FitsStays DEF LayoutInv
      <4>2. CASE layer + 1 = LateStart
        <5>1. mode # "extend" /\ layer < LateStart
          BY <1>1, <1>4, <4>2
        <5>2. Fits(layout, TRUE)
          BY <1>0, <5>1, FitsLate DEF LayoutInv
        <5> QED BY <1>2, <1>4, <5>2, FitsStays
      <4>3. layer' >= LateStart => layer >= LateStart \/ layer + 1 = LateStart
        BY <1>1, <1>4, Constants
      <4> QED BY <4>1, <4>2, <4>3
    <3>4. layer' < LateStart /\ mode' = "extend" /\ tail' = NoRows =>
             \A s \in Slots : LeftOut(s, TRUE)'
      BY <1>0, <1>2, <1>4, <3>1, FitsStays DEF LayoutInv
    <3>5. layer' < LateStart /\ mode' \in {"extend", "replay"} /\ tail' # NoRows =>
             Fits(tail, TRUE)'
      BY <1>0, <1>2, <1>4, <3>1, FitsStays DEF LayoutInv
    <3> QED BY <3>2, <3>3, <3>4, <3>5 DEF LayoutInv
  <2>2. prepared' \in 0 .. Layers /\ (prepared' <= layer \/ mode = "graph")
    BY <1>1, <1>4
  <2> QED BY <1>4, <2>1, <2>2, CommitNextInv
<1>5. CASE /\ \/ layer = Layers
              \/ layer + 1 = LateStart /\ mode = "extend" /\ tail = NoRows
           /\ len' = [s \in Slots |-> len[s] + outcome[s]]
           /\ phase' = [s \in Slots |->
                IF s \notin finishing THEN phase[s]
                ELSE IF mode = "replay" THEN "prefill" ELSE "decode"]
           /\ mode' = "none" /\ tail' = NoRows /\ outcome' = [s \in Slots |-> 0]
           /\ finishing' = {} /\ layer' = 0 /\ pc' = "idle"
           /\ layout' = NoRows /\ UNCHANGED prepared
  BY <1>5, CommitEndInv
<1> QED BY <1>3, <1>4, <1>5 DEF Commit

LEMMA NextInv ==
    ASSUME Inv, [Next]_vars
    PROVE  Inv'
<1>1. ASSUME NEW s \in Slots, Admit(s) PROVE Inv'
  BY <1>1, AdmitInv
<1>2. ASSUME NEW s \in Slots, Leave(s) PROVE Inv'
  BY <1>2, LeaveInv
<1>3. CASE Replay
  BY <1>3, ReplayInv
<1>4. CASE Extend
  BY <1>4, ExtendInv
<1>5. CASE Verify
  BY <1>5, VerifyInv
<1>6. CASE Buffer
  BY <1>6, BufferInv
<1>7. CASE Commit
  BY <1>7, CommitInv
<1>8. CASE UNCHANGED vars
  <2>1. /\ UNCHANGED <<skipTail, owner, phase, len, count, gap>>
        /\ UNCHANGED <<ring, tags, workspace, prepared>>
        /\ UNCHANGED <<layout, mode, tail, outcome, finishing, layer, pc, raised>>
    BY <1>8 DEF vars, schedVars, poolVars, passVars
  <2>2. Types'
    BY <2>1 DEF Inv, Types
  <2>3. Scheduling'
    <3>1. \A s \in Slots : SlotInv(s)'
      BY <2>1 DEF Inv, Scheduling, SlotInv
    <3> QED BY <2>1, <3>1 DEF Inv, Scheduling
  <2>4. LayoutInv'
    BY <2>1, FitsStays DEF Inv, LayoutInv
  <2>5. WindowInv'
    <3>1. \A l \in LayerIds, s \in Slots, p \in 0 .. MaxLen : Held(l, s, p)' = Held(l, s, p)
      BY <2>1 DEF Held, Ready, LenAt
    <3>2. \A l \in LayerIds, s \in Slots, p \in 0 .. MaxLen : Present(l, s, p)' = Present(l, s, p)
      BY <2>1 DEF Present
    <3> QED BY <3>1, <3>2 DEF Inv, WindowInv
  <2>6. WorkspaceInv'
    <3>1. \A i \in Rows(layout) : Token(i)' = Token(i)
      BY <2>1 DEF Token
    <3> QED BY <2>1, <3>1 DEF Inv, WorkspaceInv
  <2>7. NoFalseAlarm'
    BY <2>1 DEF Inv, NoFalseAlarm, Tagged, Skipped
  <2> QED BY <2>2, <2>3, <2>4, <2>5, <2>6, <2>7 DEF Inv
<1> QED BY <1>1, <1>2, <1>3, <1>4, <1>5, <1>6, <1>7, <1>8 DEF Next

(* Inv, with its parts, holds in every reachable state.                    *)
THEOREM InvAlways == Spec => []Inv
<1>1. Init => Inv
  BY InitInv
<1>2. Inv /\ [Next]_vars => Inv'
  BY NextInv
<1> QED BY <1>1, <1>2, PTL DEF Spec

-----------------------------------------------------------------------------
(* What the invariant shows.                                               *)

LEMMA InvAttention ==
    ASSUME Inv, pc = "commit", NEW i \in Rows(layout), NEW k \in 0 .. Window - 1
    PROVE  /\ Skipped(layout.req[i], layout.pos[i] - k) \/ AttendsTo(i, k)
           /\ (layer < LateStart \/ ~skipTail) => AttendsTo(i, k)
<1> DEFINE N == HistoryRows(layout)
           w == Index(layout, i, k)
           s == layout.req[i]
           p == layout.pos[i] - k
<1>0. Types /\ LayoutInv /\ WorkspaceInv
  BY DEF Inv
<1>1. PICK in, first, n, floor : Batch(layout, in, first, n, floor)
  BY <1>0, LayoutBatch
<1>2. \/ w = -1
      \/ w \in 0 .. N - 1 /\ HistoryReq(layout, w) = s /\ HistoryPos(layout, w) = p
         /\ HistoryValid(layout, w)
      \/ \E j \in Rows(layout) : w = N + j /\ layout.req[j] = s /\ layout.pos[j] = p
  BY <1>1, BatchIndex
<1>3. CASE w = -1
  BY <1>3 DEF AttendsTo
<1>4. CASE w \in 0 .. N - 1 /\ HistoryReq(layout, w) = s /\ HistoryPos(layout, w) = p
           /\ HistoryValid(layout, w)
  <2>1. /\ Skipped(s, p) \/ Present(layer, s, p)
        /\ (layer < LateStart \/ ~skipTail) => Present(layer, s, p)
    BY <1>4, ReadPresent
  <2>2. workspace[w] = ring[layer][s][Cell(p)]
    BY <1>0, <1>4 DEF WorkspaceInv
  <2>3. Present(layer, s, p) => AttendsTo(i, k)
    BY <2>2 DEF Present, AttendsTo
  <2> QED BY <2>1, <2>3
<1>5. ASSUME NEW j \in Rows(layout), w = N + j, layout.req[j] = s, layout.pos[j] = p
      PROVE  AttendsTo(i, k)
  <2>1. workspace[WriteLoc(layout, j)] = Token(j)
    BY <1>0 DEF WorkspaceInv
  <2>2. WriteLoc(layout, j) = w
    BY <1>5 DEF WriteLoc
  <2>3. Token(j)[1] = owner[s] /\ Token(j)[2] = p
    BY <1>5 DEF Token
  <2>4. ~(w < N)
    <3>1. N \in Nat /\ j \in Nat
      BY <1>1, BatchSize, BatchRows
    <3> HIDE DEF N, w
    <3> QED BY <1>5, <3>1
  <2> HIDE DEF N, w, s, p
  <2>5. workspace[w][1] = owner[s] /\ workspace[w][2] = p /\ ~(w < N)
    BY <2>1, <2>2, <2>3, <2>4
  <2> QED BY <2>5 DEF AttendsTo, N, w, s, p
<1> QED BY <1>2, <1>3, <1>4, <1>5

LEMMA RaisedStep ==
    ASSUME Inv, raised # 0 => skipTail /\ layer >= LateStart, [Next]_vars
    PROVE  (raised # 0 => skipTail /\ layer >= LateStart)'
<1>0. raised # 0 => pc = "buffer"
  BY DEF Inv, Scheduling
<1>1. CASE Buffer
  <2>1. skipTail' = skipTail /\ layer' = layer /\ raised = 0
    BY <1>1 DEF Buffer, schedVars
  <2>2. ASSUME raised' # 0
        PROVE  \E h \in 0 .. HistoryRows(layout) - 1 : HistoryValid(layout, h) /\ ~Tagged(h)
    BY <1>1, <2>1, <2>2 DEF Buffer
  <2>3. ASSUME NEW h \in 0 .. HistoryRows(layout) - 1, HistoryValid(layout, h), ~Tagged(h)
        PROVE  skipTail /\ layer >= LateStart
    <3>1. pc # "idle"
      BY <1>1 DEF Buffer
    <3>2. (layer < LateStart \/ ~skipTail) =>
            Present(layer, HistoryReq(layout, h), HistoryPos(layout, h))
      BY <2>3, <3>1, ReadPresent
    <3>3. ~(layer < LateStart) /\ skipTail
      <4>1. skipTail \in BOOLEAN
        BY DEF Inv, Scheduling
      <4> QED BY <2>3, <3>2, <4>1 DEF Present, Tagged
    <3> QED BY <3>3, Constants DEF Inv, Types
  <2> QED BY <2>1, <2>2, <2>3
<1>2. CASE Commit
  BY <1>0, <1>2 DEF Commit
<1>3. CASE Replay
  BY <1>0, <1>3 DEF Replay, Begin, Start
<1>4. CASE Extend
  BY <1>0, <1>4 DEF Extend, Begin, Start
<1>5. CASE Verify
  BY <1>0, <1>5 DEF Verify, Begin, Start
<1>6. ASSUME NEW s \in Slots, Admit(s) \/ Leave(s)
      PROVE  raised' = 0
  BY <1>0, <1>6 DEF Admit, Leave
<1>7. CASE UNCHANGED vars
  BY <1>7 DEF vars, schedVars, passVars
<1> QED BY <1>1, <1>2, <1>3, <1>4, <1>5, <1>6, <1>7 DEF Next

(* The types; and the workspace holds the histories and the tokens of any  *)
(* batch of replays, prompts or drafts (window_layout, activate).          *)
THEOREM TypeCorrect == Spec => []TypeOK
<1>1. Inv => TypeOK
  BY InvTypeOK
<1> QED BY <1>1, InvAlways, PTL

(* Every query finds in its window the rows of its own request at their    *)
(* positions, kept ones among those of earlier passes, except at positions *)
(* that the late layers skipped (window_layout, buffer, commit).           *)
THEOREM HistoryAlwaysOwn == Spec => []HistoryIsOwn
<1>1. Inv => HistoryIsOwn
  BY InvAttention DEF HistoryIsOwn
<1> QED BY <1>1, InvAlways, PTL

(* There is no such exception before the first late layer, and nowhere     *)
(* without DSV41_SKIP_NONFINAL_DECODER: the comment of                     *)
(* _build_late_layer_tail_metadata is then right.                          *)
THEOREM AttentionOwnUnlessSkipping ==
    Spec => []((layer < LateStart \/ ~skipTail) => AttentionIsOwn)
<1>1. Inv => ((layer < LateStart \/ ~skipTail) => AttentionIsOwn)
  BY InvAttention DEF AttentionIsOwn
<1> QED BY <1>1, InvAlways, PTL

(* What buffer refuses as missing was skipped by the late layers.          *)
THEOREM NoFalseAlarms == Spec => []NoFalseAlarm
<1>1. Inv => NoFalseAlarm
  BY DEF Inv
<1> QED BY <1>1, InvAlways, PTL

(* buffer refuses nothing at all before the late layers, and nothing       *)
(* without DSV41_SKIP_NONFINAL_DECODER.                                    *)
THEOREM RaisesOnlyWhenSkipping ==
    Spec => [](raised # 0 => skipTail /\ layer >= LateStart)
<1> DEFINE Late == raised # 0 => skipTail /\ layer >= LateStart
<1>1. Init => Late
  BY DEF Init
<1>2. Inv /\ Late /\ [Next]_vars => Late'
  BY RaisedStep
<1> HIDE DEF Late
<1>3. Spec => []Late
  BY <1>1, <1>2, InvAlways, PTL DEF Spec
<1> QED BY <1>3 DEF Late

(* commit never copies two rows into one cell of a ring, so the order in   *)
(* which the rows of a pass are written back does not matter.              *)
THEOREM CommitWritesDistinctCells ==
    Spec => [](pc = "commit" =>
        \A i, j \in Rows(layout) :
            /\ Committed(layout, i) /\ Committed(layout, j) /\ layout.req[i] = layout.req[j]
            /\ Cell(layout.pos[i]) = Cell(layout.pos[j])
            => i = j)
<1> DEFINE Distinct ==
      pc = "commit" =>
        \A i, j \in Rows(layout) :
            /\ Committed(layout, i) /\ Committed(layout, j) /\ layout.req[i] = layout.req[j]
            /\ Cell(layout.pos[i]) = Cell(layout.pos[j])
            => i = j
<1>1. ASSUME Inv PROVE Distinct
  <2> SUFFICES ASSUME pc = "commit", NEW i \in Rows(layout), NEW j \in Rows(layout),
                      Committed(layout, i), Committed(layout, j),
                      layout.req[i] = layout.req[j],
                      Cell(layout.pos[i]) = Cell(layout.pos[j])
               PROVE  i = j
    OBVIOUS
  <2> DEFINE T == Targets(layout.req[i], Cell(layout.pos[i]))
  <2>1. i \in T /\ j \in T
    BY DEF Targets
  <2>2. Least(T) = i /\ Least(T) = j
    BY <1>1, <2>1, TargetsOne DEF Inv
  <2> HIDE DEF T
  <2> QED BY <2>2
<1> HIDE DEF Distinct
<1>2. Spec => []Distinct
  BY <1>1, InvAlways, PTL
<1> QED BY <1>2 DEF Distinct
===============================================================================
