--------------------- MODULE EquivocationDefender_proofs --------------------
(***************************************************************************)
(* Proofs about the equivocation defender, for any window, any limit, any  *)
(* set of slots and any sequence of blocks.                                *)
(***************************************************************************)
EXTENDS EquivocationDefender, FiniteSetTheorems, TLAPS

CountedEntry == [slot : Slots, passed : BOOLEAN]
CacheEntry == [count : 1 .. EQUIVOCATION_LIMIT, used : DOMAIN counted]

(* The map's slots are finitely many; *)
FiniteCache == IsFiniteSet(DOMAIN cache)

(* it knows when each of them came last; *)
LastUse ==
    \A s \in DOMAIN cache :
        /\ counted[cache[s].used].slot = s
        /\ \A k \in DOMAIN counted : k > cache[s].used => counted[k].slot # s

(* and it has forgotten a slot only for LRU_WINDOW others that came later. *)
Forgotten ==
    \A k \in DOMAIN counted : counted[k].slot \notin DOMAIN cache =>
        /\ Cardinality(DOMAIN cache) = LRU_WINDOW
        /\ \A s \in DOMAIN cache : cache[s].used > k

CacheInv == FiniteCache /\ LastUse /\ Forgotten

(* No slot passed more often than it is counted, since any block from which on
   the window is not exceeded; *)
PassesCounted ==
    \A i \in 1 .. Access : Cardinality(SlotsIn(i, Len(counted))) <= LRU_WINDOW =>
        \A s \in Slots : Cardinality(Passes(s, i, Len(counted))) <= Count(s)

(* and each count is of blocks that passed while the slot was remembered. *)
CountsEarned ==
    \A s \in DOMAIN cache : \E i \in DOMAIN counted :
        /\ Cardinality(Passes(s, i, Len(counted))) = cache[s].count
        /\ Remembered(s, i, Len(counted))

WindowInv == PassesCounted /\ CountsEarned /\ LimitPerWindow /\ RejectionsAreEarned

-----------------------------------------------------------------------------
(* A set of numbers has a least one. *)
LEMMA LeastNatural ==
    ASSUME NEW T \in SUBSET Nat, T # {}
    PROVE  \E x \in T : \A y \in T : x <= y
<1> DEFINE R == OpToRel(<, Nat)
<1>1. IsWellFoundedOn(R, Nat)
    BY NatLessThanWellFounded
<1>2. \A y, x \in T : y < x => <<y, x>> \in R
    BY DEF OpToRel
<1> HIDE DEF R
<1>3. PICK x \in T : \A y \in T : ~(<<y, x>> \in R)
    BY <1>1, WFMin
<1>4. \A y \in T : ~(y < x)
    BY <1>2, <1>3
<1> QED
    BY <1>4

(* Types in the form the following steps use. *)
LEMMA DefenderFacts ==
    ASSUME TypeOK
    PROVE  /\ counted \in Seq(CountedEntry)
           /\ Len(counted) \in Nat /\ DOMAIN counted = 1 .. Len(counted)
           /\ \A k \in DOMAIN counted : counted[k].slot \in Slots /\ counted[k].passed \in BOOLEAN
           /\ \A s \in DOMAIN cache :
                /\ s \in Slots
                /\ cache[s] \in CacheEntry
                /\ cache[s].count \in 1 .. EQUIVOCATION_LIMIT
                /\ cache[s].used \in DOMAIN counted
           /\ \A s : Count(s) \in 0 .. EQUIVOCATION_LIMIT
<1>1. counted \in Seq(CountedEntry)
    BY DEF TypeOK, CountedEntry
<1>2. \A k \in DOMAIN counted : counted[k] \in CountedEntry
    BY <1>1
<1>3. \A k \in DOMAIN counted : counted[k].slot \in Slots /\ counted[k].passed \in BOOLEAN
    BY <1>2 DEF CountedEntry
<1>4. \A s \in DOMAIN cache : s \in Slots /\ cache[s] \in CacheEntry
    BY DEF TypeOK, CacheEntry
<1>5. \A s \in DOMAIN cache : cache[s].count \in 1 .. EQUIVOCATION_LIMIT
                              /\ cache[s].used \in DOMAIN counted
    BY <1>4 DEF CacheEntry
<1>6. \A s : Count(s) \in 0 .. EQUIVOCATION_LIMIT
    BY <1>5, DefenderAssumption DEF Count
<1> QED
    BY <1>1, <1>3, <1>4, <1>5, <1>6

CountsTyped == \A s : Count(s) \in 0 .. EQUIVOCATION_LIMIT

LEMMA CountsAreTyped == TypeOK => CountsTyped
    BY DefenderFacts DEF CountsTyped

(* The slots of a stretch of blocks are finitely many. *)
LEMMA SlotsInFinite ==
    ASSUME NEW i \in Int, NEW j \in Int
    PROVE  IsFiniteSet(SlotsIn(i, j)) /\ Cardinality(SlotsIn(i, j)) \in Nat
<1> DEFINE f == [k \in i .. j |-> counted[k].slot]
<1>1. f \in Surjection(i .. j, SlotsIn(i, j))
    BY DEF Surjection, SlotsIn
<1>2. IsFiniteSet(i .. j)
    BY FS_Interval
<1> HIDE DEF f
<1>3. IsFiniteSet(SlotsIn(i, j))
    BY <1>1, <1>2, FS_Surjection
<1> QED
    BY <1>3, FS_CardinalityType

(* The blocks of a slot that passed are finitely many. *)
LEMMA PassesFinite ==
    ASSUME NEW s, NEW i \in Int, NEW j \in Int
    PROVE  IsFiniteSet(Passes(s, i, j)) /\ Cardinality(Passes(s, i, j)) \in Nat
<1>1. IsFiniteSet(i .. j) /\ Passes(s, i, j) \in SUBSET (i .. j)
    BY FS_Interval DEF Passes
<1> QED
    BY <1>1, FS_Subset, FS_CardinalityType

(* The slots that came within a window are all in the map: a slot that is not
   would have LRU_WINDOW others with it in the window. *)
WindowCached ==
    \A i \in Nat \ {0} : Cardinality(SlotsIn(i, Len(counted))) <= LRU_WINDOW =>
        SlotsIn(i, Len(counted)) \subseteq DOMAIN cache

LEMMA WindowIsCached == TypeOK /\ CacheInv => WindowCached
<1> SUFFICES ASSUME TypeOK, CacheInv, NEW i \in Nat \ {0},
                    Cardinality(SlotsIn(i, Len(counted))) <= LRU_WINDOW
             PROVE  SlotsIn(i, Len(counted)) \subseteq DOMAIN cache
    BY DEF WindowCached
<1> DEFINE W == SlotsIn(i, Len(counted))
<1> SUFFICES ASSUME NEW k \in i .. Len(counted), counted[k].slot \notin DOMAIN cache
             PROVE  FALSE
    BY DEF SlotsIn
<1> DEFINE t == counted[k].slot
<1>1. k \in DOMAIN counted /\ Len(counted) \in Nat
    BY DefenderFacts
<1>2. Cardinality(DOMAIN cache) = LRU_WINDOW /\ \A s \in DOMAIN cache : cache[s].used > k
    BY <1>1 DEF CacheInv, Forgotten
<1>3. \A s \in DOMAIN cache : s \in W
  <2> SUFFICES ASSUME NEW s \in DOMAIN cache PROVE s \in W
    OBVIOUS
  <2>1. cache[s].used \in i .. Len(counted) /\ counted[cache[s].used].slot = s
    BY <1>1, <1>2, DefenderFacts DEF CacheInv, LastUse
  <2> QED
    BY <2>1 DEF SlotsIn
<1>4. t \in W
    BY DEF SlotsIn
<1>5. (DOMAIN cache) \union {t} \in SUBSET W
    BY <1>3, <1>4
<1>6. IsFiniteSet(DOMAIN cache) /\ t \notin DOMAIN cache
    BY DEF CacheInv, FiniteCache
<1>7. Cardinality((DOMAIN cache) \union {t}) = LRU_WINDOW + 1
    BY <1>2, <1>6, FS_AddElement
<1>8. IsFiniteSet(W) /\ Cardinality(W) \in Nat
    BY <1>1, SlotsInFinite
<1>9. Cardinality((DOMAIN cache) \union {t}) <= Cardinality(W)
    BY <1>5, <1>8, FS_Subset
<1> QED
    BY <1>7, <1>8, <1>9, DefenderAssumption

(* Fewer than LRU_WINDOW other slots came after the last block of a slot that
   is in the map. *)
LEMMA RecentlyUsed ==
    ASSUME TypeOK, CacheInv, NEW s \in DOMAIN cache
    PROVE  Cardinality(SlotsIn(cache[s].used + 1, Len(counted))) < LRU_WINDOW
<1> DEFINE A == SlotsIn(cache[s].used + 1, Len(counted))
<1>1. cache[s].used \in DOMAIN counted /\ Len(counted) \in Nat /\ DOMAIN counted = 1 .. Len(counted)
    BY DefenderFacts
<1>2. A \subseteq (DOMAIN cache) \ {s}
  <2> SUFFICES ASSUME NEW k \in cache[s].used + 1 .. Len(counted)
               PROVE  counted[k].slot \in DOMAIN cache /\ counted[k].slot # s
    BY DEF SlotsIn
  <2>1. k \in DOMAIN counted /\ k > cache[s].used
    BY <1>1
  <2>2. ~(cache[s].used > k)
    BY <1>1, <2>1
  <2> QED
    BY <2>1, <2>2 DEF CacheInv, LastUse, Forgotten
<1>3. IsFiniteSet(DOMAIN cache)
    BY DEF CacheInv, FiniteCache
<1>4. /\ IsFiniteSet((DOMAIN cache) \ {s})
      /\ Cardinality((DOMAIN cache) \ {s}) = Cardinality(DOMAIN cache) - 1
    BY <1>3, FS_RemoveElement
<1>5. Cardinality(A) <= Cardinality((DOMAIN cache) \ {s})
    BY <1>2, <1>4, FS_Subset
<1>6. Cardinality(A) \in Nat
  <2>1. cache[s].used + 1 \in Int /\ Len(counted) \in Int
    BY <1>1
  <2> QED
    BY <2>1, SlotsInFinite
<1>7. Cardinality(DOMAIN cache) \in Nat /\ Cardinality(DOMAIN cache) <= LRU_WINDOW
    BY <1>3, FS_CardinalityType DEF TypeOK
<1> QED
    BY <1>4, <1>5, <1>6, <1>7, DefenderAssumption

-----------------------------------------------------------------------------
(* What insert_and_check does to the map and to the history. *)
NewCount(slot) == IF Excessive(slot) THEN Count(slot) ELSE Count(slot) + 1

LEMMA Inserted ==
    ASSUME TypeOK, FiniteCache, NEW slot \in Slots, insert_and_check(slot)
    PROVE  /\ DOMAIN counted' = 1 .. Access /\ Len(counted') = Access
           /\ counted'[Access] = [slot |-> slot, passed |-> ~Excessive(slot)]
           /\ \A k \in DOMAIN counted : counted'[k] = counted[k]
           /\ DOMAIN cache' = Kept(slot) \union {slot}
           /\ Kept(slot) \subseteq DOMAIN cache
           /\ cache'[slot] = [count |-> NewCount(slot), used |-> Access]
           /\ \A s \in Kept(slot) : s # slot => cache'[s] = cache[s]
<1>1. counted \in Seq(CountedEntry) /\ Len(counted) \in Nat
    BY DefenderFacts
<1>2. counted' = Append(counted, [slot |-> slot, passed |-> ~Excessive(slot)])
    BY DEF insert_and_check
<1>3. /\ DOMAIN counted' = 1 .. Access /\ Len(counted') = Access
      /\ counted'[Access] = [slot |-> slot, passed |-> ~Excessive(slot)]
      /\ \A k \in DOMAIN counted : counted'[k] = counted[k]
    BY <1>1, <1>2 DEF Access
<1>4. cache' = get_or_insert(slot, NewCount(slot))
    BY DEF insert_and_check, NewCount
<1>5. Kept(slot) \subseteq DOMAIN cache
    BY DEF Kept
<1> QED
    BY <1>3, <1>4, <1>5 DEF get_or_insert

(* The entry that a full map drops is the one that was used before all others. *)
LEMMA OldestIsOldest ==
    ASSUME TypeOK, DOMAIN cache # {}
    PROVE  /\ Oldest \in DOMAIN cache
           /\ \A s \in DOMAIN cache : cache[Oldest].used <= cache[s].used
<1> DEFINE T == {cache[s].used : s \in DOMAIN cache}
<1>1. T \in SUBSET Nat /\ T # {}
    BY DefenderFacts
<1>2. PICK x \in T : \A y \in T : x <= y
    BY <1>1, LeastNatural
<1>3. \E t \in DOMAIN cache : \A s \in DOMAIN cache : cache[t].used <= cache[s].used
    BY <1>2
<1> QED
    BY <1>3 DEF Oldest

(* The map stays within its window, and a full one stays full. *)
LEMMA InsertBounded ==
    ASSUME TypeOK, FiniteCache, NEW slot \in Slots, insert_and_check(slot)
    PROVE  /\ IsFiniteSet(DOMAIN cache')
           /\ Cardinality(DOMAIN cache') <= LRU_WINDOW
           /\ Cardinality(DOMAIN cache) = LRU_WINDOW => Cardinality(DOMAIN cache') = LRU_WINDOW
           /\ \A t \in (DOMAIN cache) \ Kept(slot) :
                /\ Cardinality(DOMAIN cache) = LRU_WINDOW
                /\ \A s \in DOMAIN cache : cache[t].used <= cache[s].used
<1> DEFINE D == DOMAIN cache
           n == Cardinality(D)
<1>1. IsFiniteSet(D) /\ n \in Nat /\ n <= LRU_WINDOW
    BY FS_CardinalityType DEF FiniteCache, TypeOK
<1>2. DOMAIN cache' = Kept(slot) \union {slot}
    BY Inserted
<1>3. LRU_WINDOW \in Nat \ {0}
    BY DefenderAssumption
<1>4. CASE slot \in D
  <2>1. Kept(slot) = D /\ DOMAIN cache' = D
    BY <1>2, <1>4 DEF Kept
  <2> QED
    BY <1>1, <2>1
<1>5. CASE slot \notin D /\ n < LRU_WINDOW
  <2>1. Kept(slot) = D /\ DOMAIN cache' = D \union {slot}
    BY <1>2, <1>5 DEF Kept
  <2>2. IsFiniteSet(DOMAIN cache') /\ Cardinality(DOMAIN cache') = n + 1
    BY <1>1, <1>5, <2>1, FS_AddElement
  <2> QED
    BY <1>1, <1>3, <1>5, <2>1, <2>2
<1>6. CASE slot \notin D /\ n = LRU_WINDOW
  <2>1. D # {}
    BY <1>3, <1>6, FS_EmptySet
  <2>2. Oldest \in D /\ \A s \in D : cache[Oldest].used <= cache[s].used
    BY <2>1, OldestIsOldest
  <2>3. Kept(slot) = D \ {Oldest} /\ DOMAIN cache' = (D \ {Oldest}) \union {slot}
    BY <1>2, <1>3, <1>6 DEF Kept
  <2>4. IsFiniteSet(D \ {Oldest}) /\ Cardinality(D \ {Oldest}) = n - 1
    BY <1>1, <2>2, FS_RemoveElement
  <2>5. IsFiniteSet(DOMAIN cache') /\ Cardinality(DOMAIN cache') = (n - 1) + 1
    BY <1>6, <2>3, <2>4, FS_AddElement
  <2>6. Cardinality(DOMAIN cache') = LRU_WINDOW
    BY <1>3, <1>6, <2>5
  <2> QED
    BY <1>3, <1>6, <2>2, <2>3, <2>5, <2>6
<1> QED
    BY <1>1, <1>3, <1>4, <1>5, <1>6

LEMMA InsertKeepsCache ==
    ASSUME TypeOK, CacheInv, NEW slot \in Slots, insert_and_check(slot)
    PROVE  CacheInv'
<1> USE DEF CacheInv
<1>1. Len(counted) \in Nat /\ DOMAIN counted = 1 .. Len(counted) /\ Access = Len(counted) + 1
    BY DefenderFacts DEF Access
<1>2. /\ DOMAIN counted' = 1 .. Access
      /\ counted'[Access].slot = slot
      /\ \A k \in DOMAIN counted : counted'[k] = counted[k]
      /\ DOMAIN cache' = Kept(slot) \union {slot}
      /\ Kept(slot) \subseteq DOMAIN cache
      /\ cache'[slot].used = Access
      /\ \A s \in Kept(slot) : s # slot => cache'[s] = cache[s]
  <2>1. /\ counted'[Access] = [slot |-> slot, passed |-> ~Excessive(slot)]
        /\ cache'[slot] = [count |-> NewCount(slot), used |-> Access]
    BY Inserted
  <2>2. counted'[Access].slot = slot /\ cache'[slot].used = Access
    BY <2>1
  <2> QED
    BY <2>2, Inserted
<1>3. \A s \in DOMAIN cache : cache[s].used \in DOMAIN counted
    BY DefenderFacts
<1>4. FiniteCache'
    BY InsertBounded DEF FiniteCache
<1>5. LastUse'
  <2> SUFFICES ASSUME NEW s \in DOMAIN cache'
               PROVE  /\ counted'[cache'[s].used].slot = s
                      /\ \A k \in DOMAIN counted' : k > cache'[s].used => counted'[k].slot # s
    BY DEF LastUse
  <2>1. CASE s = slot
    BY <1>1, <1>2, <2>1
  <2>2. CASE s # slot
    <3>1. s \in DOMAIN cache /\ cache'[s] = cache[s] /\ cache[s].used \in DOMAIN counted
      BY <1>2, <1>3, <2>2
    <3>2. /\ counted[cache[s].used].slot = s
          /\ \A k \in DOMAIN counted : k > cache[s].used => counted[k].slot # s
      BY <3>1 DEF LastUse
    <3>3. \A k \in DOMAIN counted' : k \in DOMAIN counted \/ k = Access
      BY <1>1, <1>2
    <3> QED
      BY <1>2, <2>2, <3>1, <3>2, <3>3
  <2> QED
    BY <2>1, <2>2
<1>6. Forgotten'
  <2> SUFFICES ASSUME NEW k \in DOMAIN counted', counted'[k].slot \notin DOMAIN cache'
               PROVE  /\ Cardinality(DOMAIN cache') = LRU_WINDOW
                      /\ \A s \in DOMAIN cache' : cache'[s].used > k
    BY DEF Forgotten
  <2> DEFINE t == counted[k].slot
  <2>1. k \in DOMAIN counted /\ counted'[k] = counted[k] /\ k < Access /\ t # slot /\ t \notin Kept(slot)
    BY <1>1, <1>2
  <2>2. CASE t \notin DOMAIN cache
    <3>1. Cardinality(DOMAIN cache) = LRU_WINDOW /\ \A s \in DOMAIN cache : cache[s].used > k
      BY <2>1, <2>2 DEF Forgotten
    <3>2. Cardinality(DOMAIN cache') = LRU_WINDOW
      BY <3>1, InsertBounded
    <3> QED
      BY <1>1, <1>2, <2>1, <3>1, <3>2
  <2>3. CASE t \in DOMAIN cache
    <3>1. t \in (DOMAIN cache) \ Kept(slot)
      BY <2>1, <2>3
    <3>2. Cardinality(DOMAIN cache) = LRU_WINDOW
          /\ \A s \in DOMAIN cache : cache[t].used <= cache[s].used
      BY <3>1, InsertBounded
    <3>3. Cardinality(DOMAIN cache') = LRU_WINDOW
      BY <3>2, InsertBounded
    <3>4. k <= cache[t].used
      BY <1>1, <1>3, <2>1, <2>3 DEF LastUse
    <3>5. ASSUME NEW s \in DOMAIN cache' PROVE cache'[s].used > k
      <4>1. CASE s = slot
        BY <1>1, <1>2, <2>1, <4>1
      <4>2. CASE s # slot
        <5>1. s \in DOMAIN cache /\ s # t /\ cache'[s] = cache[s]
          BY <1>2, <2>1, <4>2
        <5>2. cache[t].used # cache[s].used
          BY <2>3, <5>1 DEF LastUse
        <5> QED
          BY <1>1, <1>3, <2>1, <2>3, <3>2, <3>4, <5>1, <5>2
      <4> QED
        BY <4>1, <4>2
    <3> QED
      BY <3>3, <3>5
  <2> QED
    BY <2>2, <2>3
<1> QED
    BY <1>4, <1>5, <1>6

-----------------------------------------------------------------------------
LEMMA InsertTyped ==
    ASSUME TypeOK, FiniteCache, NEW slot \in Slots, insert_and_check(slot), verdict' \in Verdicts
    PROVE  TypeOK'
<1>1. /\ Len(counted) \in Nat /\ DOMAIN counted = 1 .. Len(counted) /\ Access = Len(counted) + 1
      /\ counted \in Seq(CountedEntry)
      /\ Count(slot) \in 0 .. EQUIVOCATION_LIMIT
    BY DefenderFacts DEF Access
<1>2. /\ DOMAIN counted' = 1 .. Access
      /\ DOMAIN cache' = Kept(slot) \union {slot}
      /\ Kept(slot) \subseteq DOMAIN cache
      /\ cache'[slot] = [count |-> NewCount(slot), used |-> Access]
      /\ \A s \in Kept(slot) : s # slot => cache'[s] = cache[s]
    BY Inserted
<1>3. NewCount(slot) \in 1 .. EQUIVOCATION_LIMIT
    BY <1>1, DefenderAssumption DEF NewCount, Excessive
<1>4. \A s \in DOMAIN cache : s \in Slots /\ cache[s] \in CacheEntry
    BY DefenderFacts
<1>5. DOMAIN counted \subseteq DOMAIN counted' /\ Access \in DOMAIN counted'
    BY <1>1, <1>2
<1> DEFINE NewEntry == [count : 1 .. EQUIVOCATION_LIMIT, used : DOMAIN counted']
<1>6. \A s \in DOMAIN cache : cache[s] \in NewEntry
    BY <1>4, <1>5 DEF CacheEntry
<1>7. cache'[slot] \in NewEntry
    BY <1>2, <1>3, <1>5
<1>8. \A s \in DOMAIN cache' : cache'[s] \in NewEntry
    BY <1>2, <1>6, <1>7
<1>9. cache' = [s \in DOMAIN cache' |-> cache'[s]]
    BY DEF insert_and_check, get_or_insert
<1> HIDE DEF NewEntry
<1>10. cache' \in [DOMAIN cache' -> NewEntry]
    BY <1>8, <1>9
<1> USE DEF NewEntry
<1>11. DOMAIN cache' \subseteq Slots /\ Cardinality(DOMAIN cache') <= LRU_WINDOW
    BY <1>2, <1>4, InsertBounded
<1>12. counted' \in Seq(CountedEntry)
  <2>1. [slot |-> slot, passed |-> ~Excessive(slot)] \in CountedEntry
    BY DEF CountedEntry
  <2>2. counted' = Append(counted, [slot |-> slot, passed |-> ~Excessive(slot)])
    BY DEF insert_and_check
  <2> QED
    BY <1>1, <2>1, <2>2
<1> QED
    BY <1>10, <1>11, <1>12 DEF TypeOK, CountedEntry

(* The steps of the verifier: the ones that count a block, and the ones that
   leave the defender alone. *)
LEMMA VerifyCases ==
    ASSUME TypeOK, [Next]_vars
    PROVE  \/ \E slot \in Slots : insert_and_check(slot) /\ verdict' \in Verdicts
           \/ cache' = cache /\ counted' = counted /\ verdict' \in Verdicts
<1>1. CASE VerifyUnchecked
    BY <1>1 DEF VerifyUnchecked, Verdicts
<1>2. ASSUME NEW why \in {"unreadable", "future", "seal"}, VerifySealRejected(why)
      PROVE  cache' = cache /\ counted' = counted /\ verdict' \in Verdicts
    BY <1>2 DEF VerifySealRejected, Verdicts
<1>3. ASSUME NEW slot \in Slots, NEW inherents \in BOOLEAN, VerifySealed(slot, inherents)
      PROVE  insert_and_check(slot) /\ verdict' \in Verdicts
    BY <1>3 DEF VerifySealed, Verdicts
<1>4. CASE UNCHANGED vars
    BY <1>4 DEF vars, TypeOK
<1> QED
    BY <1>1, <1>2, <1>3, <1>4 DEF Next

LEMMA DefenderInvStep ==
    ASSUME TypeOK, CacheInv, [Next]_vars
    PROVE  TypeOK' /\ CacheInv'
<1>1. CASE cache' = cache /\ counted' = counted /\ verdict' \in Verdicts
    BY <1>1 DEF TypeOK, CacheInv, FiniteCache, LastUse, Forgotten
<1>2. ASSUME NEW slot \in Slots, insert_and_check(slot), verdict' \in Verdicts
      PROVE  TypeOK' /\ CacheInv'
    BY <1>2, InsertTyped, InsertKeepsCache DEF CacheInv
<1> QED
    BY <1>1, <1>2, VerifyCases

LEMMA DefenderInv ==
    Spec => [](TypeOK /\ CacheInv)
<1>1. Init => TypeOK /\ CacheInv
  <2> SUFFICES ASSUME Init PROVE TypeOK /\ CacheInv
    OBVIOUS
  <2>1. cache = <<>> /\ counted = <<>> /\ verdict = "none" /\ DOMAIN cache = {} /\ DOMAIN counted = {}
    BY DEF Init
  <2>2. IsFiniteSet({}) /\ Cardinality({}) = 0
    BY FS_EmptySet
  <2>3. TypeOK
    BY <2>1, <2>2, DefenderAssumption DEF TypeOK, Verdicts
  <2>4. CacheInv
    BY <2>1, <2>2 DEF CacheInv, FiniteCache, LastUse, Forgotten
  <2> QED
    BY <2>3, <2>4
<1>2. TypeOK /\ CacheInv /\ [Next]_vars => TypeOK' /\ CacheInv'
    BY DefenderInvStep
<1> QED
    BY <1>1, <1>2, PTL DEF Spec

(* The map never holds more than LRU_WINDOW slots and no count passes the
   limit, whatever order the blocks come in: insert_and_check compares with
   the limit by equality, and would never reject again past it. *)
THEOREM DefenderTyped == Spec => []TypeOK
    BY DefenderInv, PTL

-----------------------------------------------------------------------------
(* A counted block changes nothing that is said about the blocks before it. *)
LEMMA HistoryStays ==
    ASSUME TypeOK, FiniteCache, NEW slot \in Slots, insert_and_check(slot),
           NEW i \in 1 .. Access, NEW j \in 0 .. Len(counted)
    PROVE  /\ SlotsIn(i, j)' = SlotsIn(i, j)
           /\ \A s : Passes(s, i, j)' = Passes(s, i, j)
<1>1. Len(counted) \in Nat /\ DOMAIN counted = 1 .. Len(counted) /\ Access = Len(counted) + 1
    BY DefenderFacts DEF Access
<1>2. \A k \in DOMAIN counted : counted'[k] = counted[k]
    BY Inserted
<1>3. \A k \in i .. j : counted'[k] = counted[k]
    BY <1>1, <1>2
<1> QED
    BY <1>3 DEF SlotsIn, Passes

(* It adds its slot to the window, and itself to the passes when it passed. *)
LEMMA HistoryGrows ==
    ASSUME TypeOK, FiniteCache, NEW slot \in Slots, insert_and_check(slot),
           NEW n \in Nat, n = Len(counted), NEW i \in 1 .. n + 1
    PROVE  /\ SlotsIn(i, n + 1)' = SlotsIn(i, n) \union {slot}
           /\ \A s : s # slot \/ Excessive(slot) =>
                 Passes(s, i, n + 1)' = Passes(s, i, n)
           /\ ~Excessive(slot) =>
                 Passes(slot, i, n + 1)' = Passes(slot, i, n) \union {n + 1}
<1> DEFINE new == [slot |-> slot, passed |-> ~Excessive(slot)]
<1>1. DOMAIN counted = 1 .. n
    BY DefenderFacts
<1>2. counted'[n + 1] = new /\ \A k \in DOMAIN counted : counted'[k] = counted[k]
    BY Inserted DEF Access
<1>3. \A k \in i .. n : counted'[k] = counted[k]
    BY <1>1, <1>2
<1>4. i .. n + 1 = (i .. n) \union {n + 1} /\ n + 1 \notin i .. n
    OBVIOUS
<1>5. new.slot = slot
    OBVIOUS
<1>6. SlotsIn(i, n + 1)' = SlotsIn(i, n) \union {slot}
    BY <1>2, <1>3, <1>4, <1>5 DEF SlotsIn
<1>7. ASSUME NEW s, s # slot \/ Excessive(slot)
      PROVE  Passes(s, i, n + 1)' = Passes(s, i, n)
  <2>1. new # [slot |-> s, passed |-> TRUE]
    BY <1>7
  <2> QED
    BY <1>2, <1>3, <1>4, <2>1 DEF Passes
<1>8. ASSUME ~Excessive(slot)
      PROVE  Passes(slot, i, n + 1)' = Passes(slot, i, n) \union {n + 1}
  <2>1. new = [slot |-> slot, passed |-> TRUE]
    BY <1>8
  <2> HIDE DEF new
  <2> QED
    BY <1>2, <1>3, <1>4, <2>1 DEF Passes
<1> QED
    BY <1>6, <1>7, <1>8

(* The counts bound the passes of every window. *)
LEMMA InsertCountsPasses ==
    ASSUME TypeOK, CacheInv, PassesCounted, NEW slot \in Slots, insert_and_check(slot),
           TypeOK', CacheInv'
    PROVE  PassesCounted'
<1>1. PICK n \in Nat : n = Len(counted)
    BY DefenderFacts
<1>2. /\ DOMAIN counted = 1 .. n /\ Access = n + 1
      /\ FiniteCache
      /\ \A s : Count(s) \in 0 .. EQUIVOCATION_LIMIT
    BY <1>1, DefenderFacts DEF Access, CacheInv
<1>3. Len(counted') = n + 1 /\ DOMAIN counted' = 1 .. n + 1
    BY <1>1, <1>2, Inserted
<1>4. Access' = n + 2
    BY <1>3 DEF Access
<1>5. ASSUME NEW s PROVE Count(s)' \in Nat
  <2>1. CountsTyped'
    BY CountsAreTyped, PTL
  <2> QED
    BY <2>1, DefenderAssumption DEF CountsTyped
<1>6. ASSUME NEW i \in 1 .. n + 2, Cardinality(SlotsIn(i, n + 1)') <= LRU_WINDOW, NEW s \in Slots
      PROVE  Cardinality(Passes(s, i, n + 1)') <= Count(s)'
  <2>1. CASE i = n + 2
    <3>1. Passes(s, i, n + 1)' = {}
      BY <2>1 DEF Passes
    <3>2. Cardinality(Passes(s, i, n + 1)') = 0 /\ Count(s)' \in Nat
      BY <1>5, <3>1, FS_EmptySet
    <3> QED
      BY <3>2
  <2>2. CASE i \in 1 .. n + 1
    <3>1. /\ SlotsIn(i, n + 1)' = SlotsIn(i, n) \union {slot}
          /\ s # slot \/ Excessive(slot) => Passes(s, i, n + 1)' = Passes(s, i, n)
          /\ ~Excessive(slot) => Passes(slot, i, n + 1)' = Passes(slot, i, n) \union {n + 1}
      BY <1>1, <1>2, <2>2, HistoryGrows
    <3>2. IsFiniteSet(SlotsIn(i, n)) /\ Cardinality(SlotsIn(i, n)) \in Nat
      BY SlotsInFinite
    <3>3. IsFiniteSet(Passes(s, i, n)) /\ Cardinality(Passes(s, i, n)) \in Nat
      BY PassesFinite
    <3>4. Cardinality(SlotsIn(i, n)) <= LRU_WINDOW
      <4>1. IsFiniteSet(SlotsIn(i, n) \union {slot})
        BY <3>2, FS_AddElement
      <4>2. /\ Cardinality(SlotsIn(i, n)) <= Cardinality(SlotsIn(i, n) \union {slot})
            /\ Cardinality(SlotsIn(i, n) \union {slot}) \in Nat
        BY <4>1, FS_Subset, FS_CardinalityType
      <4>3. Cardinality(SlotsIn(i, n) \union {slot}) <= LRU_WINDOW
        BY <1>6, <3>1
      <4> QED
        BY <3>2, <4>2, <4>3, DefenderAssumption
    <3>5. Cardinality(Passes(s, i, n)) <= Count(s)
      BY <1>1, <1>2, <2>2, <3>4 DEF PassesCounted
    <3>6. CASE s = slot
      <4>1. Count(s)' = NewCount(slot)
        <5>1. DOMAIN cache' = Kept(slot) \union {slot}
              /\ cache'[slot] = [count |-> NewCount(slot), used |-> Access]
          BY <1>2, Inserted
        <5> QED
          BY <3>6, <5>1 DEF Count
      <4>2. CASE Excessive(slot)
        BY <3>1, <3>5, <3>6, <4>1, <4>2 DEF NewCount
      <4>3. CASE ~Excessive(slot)
        <5>1. n + 1 \notin Passes(s, i, n)
          BY DEF Passes
        <5>2. Cardinality(Passes(s, i, n + 1)') = Cardinality(Passes(s, i, n)) + 1
          BY <3>1, <3>3, <3>6, <4>3, <5>1, FS_AddElement
        <5>3. Count(s)' = Count(s) + 1
          BY <3>6, <4>1, <4>3 DEF NewCount
        <5>4. Count(s) \in Nat
          BY <1>2, DefenderAssumption
        <5> QED
          BY <3>3, <3>5, <5>2, <5>3, <5>4
      <4> QED
        BY <4>2, <4>3
    <3>7. CASE s # slot
      <4>1. Passes(s, i, n + 1)' = Passes(s, i, n)
        BY <3>1, <3>7
      <4>2. CASE Passes(s, i, n) = {}
        <5>1. Cardinality(Passes(s, i, n + 1)') = 0 /\ Count(s)' \in Nat
          BY <1>5, <4>1, <4>2, FS_EmptySet
        <5> QED
          BY <5>1
      <4>3. CASE Passes(s, i, n) # {}
        <5>1. s \in SlotsIn(i, n + 1)'
          <6>1. PICK k \in i .. n : counted[k] = [slot |-> s, passed |-> TRUE]
            BY <4>3 DEF Passes
          <6>2. counted[k].slot = s
            BY <6>1
          <6>3. s \in SlotsIn(i, n)
            BY <6>1, <6>2 DEF SlotsIn
          <6> QED
            BY <3>1, <6>3
        <5>2. SlotsIn(i, n + 1)' \subseteq DOMAIN cache'
          <6>1. WindowCached'
            BY WindowIsCached, PTL
          <6>2. i \in Nat \ {0}
            BY <2>2
          <6> QED
            BY <1>3, <1>6, <6>1, <6>2 DEF WindowCached
        <5>3. s \in DOMAIN cache'
          BY <1>3, <5>1, <5>2
        <5>4. s \in Kept(slot) /\ s \in DOMAIN cache /\ cache'[s] = cache[s]
          <6>1. /\ DOMAIN cache' = Kept(slot) \union {slot} /\ Kept(slot) \subseteq DOMAIN cache
                /\ \A q \in Kept(slot) : q # slot => cache'[q] = cache[q]
            BY <1>2, Inserted
          <6> QED
            BY <3>7, <5>3, <6>1
        <5>5. Count(s)' = Count(s)
          BY <5>3, <5>4 DEF Count
        <5> QED
          BY <3>5, <4>1, <5>5
      <4> QED
        BY <4>2, <4>3
    <3> QED
      BY <3>6, <3>7
  <2> QED
    BY <2>1, <2>2
<1> QED
    BY <1>3, <1>4, <1>6 DEF PassesCounted

(* No window of the history lets more than the limit pass. *)
LEMMA InsertLimits ==
    ASSUME TypeOK, CacheInv, LimitPerWindow, NEW slot \in Slots, insert_and_check(slot),
           TypeOK', PassesCounted'
    PROVE  LimitPerWindow'
<1>1. PICK n \in Nat : n = Len(counted)
    BY DefenderFacts
<1>2. DOMAIN counted = 1 .. n /\ Access = n + 1 /\ FiniteCache
    BY <1>1, DefenderFacts DEF Access, CacheInv
<1>3. Len(counted') = n + 1 /\ DOMAIN counted' = 1 .. n + 1
    BY <1>1, <1>2, Inserted
<1>4. Access' = n + 2
    BY <1>3 DEF Access
<1>5. ASSUME NEW i \in 1 .. n + 1, NEW j \in 1 .. n + 1,
             Cardinality(SlotsIn(i, j)') <= LRU_WINDOW, NEW s \in Slots
      PROVE  Cardinality(Passes(s, i, j)') <= EQUIVOCATION_LIMIT
  <2>1. CASE j = n + 1
    <3>1. Cardinality(Passes(s, i, n + 1)') <= Count(s)'
      BY <1>3, <1>4, <1>5, <2>1 DEF PassesCounted
    <3>2. CountsTyped'
      BY CountsAreTyped, PTL
    <3>3. Count(s)' \in 0 .. EQUIVOCATION_LIMIT
      BY <3>2 DEF CountsTyped
    <3>4. (IsFiniteSet(Passes(s, i, j)) /\ Cardinality(Passes(s, i, j)) \in Nat)'
      <4>1. IsFiniteSet(i .. j) /\ Passes(s, i, j)' \in SUBSET (i .. j)
        BY FS_Interval DEF Passes
      <4> QED
        BY <4>1, FS_Subset, FS_CardinalityType
    <3> QED
      BY <2>1, <3>1, <3>3, <3>4, DefenderAssumption
  <2>2. CASE j \in 1 .. n
    <3>1. SlotsIn(i, j)' = SlotsIn(i, j) /\ Passes(s, i, j)' = Passes(s, i, j)
      BY <1>1, <1>2, <2>2, HistoryStays
    <3>2. CASE i \in 1 .. n
      BY <1>2, <1>5, <2>2, <3>1, <3>2 DEF LimitPerWindow
    <3>3. CASE i = n + 1
      <4>1. Passes(s, i, j) = {}
        BY <2>2, <3>3 DEF Passes
      <4> QED
        BY <3>1, <4>1, FS_EmptySet, DefenderAssumption
    <3> QED
      BY <3>2, <3>3
  <2> QED
    BY <2>1, <2>2
<1> QED
    BY <1>3, <1>5 DEF LimitPerWindow

-----------------------------------------------------------------------------
(* What a slot remembers of earlier blocks does not change; *)
LEMMA RememberedStays ==
    ASSUME TypeOK, FiniteCache, NEW slot \in Slots, insert_and_check(slot),
           NEW n \in Nat, n = Len(counted), NEW i \in 1 .. n, NEW j \in 0 .. n, NEW s,
           Remembered(s, i, j)
    PROVE  Remembered(s, i, j)'
<1>1. DOMAIN counted = 1 .. n /\ Access = n + 1
    BY DefenderFacts DEF Access
<1>2. \A k \in DOMAIN counted : counted'[k] = counted[k]
    BY Inserted
<1>3. \A k \in i .. j : counted'[k] = counted[k]
    BY <1>1, <1>2
<1> SUFFICES ASSUME NEW a \in i .. j, NEW b \in i .. j, counted[a].slot = s, counted[b].slot = s,
                    a < b, \A k \in a + 1 .. b - 1 : counted[k].slot # s
             PROVE  Cardinality(SlotsIn(a + 1, b - 1)') < LRU_WINDOW
    BY <1>3 DEF Remembered
<1>4. Cardinality(SlotsIn(a + 1, b - 1)) < LRU_WINDOW
    BY DEF Remembered
<1>5. a + 1 \in 1 .. Access /\ b - 1 \in 0 .. Len(counted)
    BY <1>1
<1>6. SlotsIn(a + 1, b - 1)' = SlotsIn(a + 1, b - 1)
    BY <1>5, HistoryStays
<1> QED
    BY <1>4, <1>6

(* another slot's block does not come between; *)
LEMMA RememberedByOthers ==
    ASSUME TypeOK, FiniteCache, NEW slot \in Slots, insert_and_check(slot),
           NEW n \in Nat, n = Len(counted), NEW i \in 1 .. n, NEW s, s # slot,
           Remembered(s, i, n)
    PROVE  Remembered(s, i, n + 1)'
<1>1. DOMAIN counted = 1 .. n /\ Access = n + 1
    BY DefenderFacts DEF Access
<1>2. counted'[n + 1].slot = slot
  <2>1. counted'[Access] = [slot |-> slot, passed |-> ~Excessive(slot)]
    BY Inserted
  <2> QED
    BY <1>1, <2>1
<1>3. Remembered(s, i, n)'
    BY RememberedStays
<1>4. \A k \in i .. n + 1 : counted'[k].slot = s => k \in i .. n
    BY <1>2
<1> QED
    BY <1>3, <1>4 DEF Remembered

(* and a block of a slot in the map finds its last one within the window. *)
LEMMA RememberedAgain ==
    ASSUME TypeOK, CacheInv, NEW slot \in Slots, insert_and_check(slot), slot \in DOMAIN cache,
           NEW n \in Nat, n = Len(counted), NEW i \in 1 .. n,
           Remembered(slot, i, n)
    PROVE  Remembered(slot, i, n + 1)'
<1>1. DOMAIN counted = 1 .. n /\ Access = n + 1 /\ FiniteCache
    BY DefenderFacts DEF Access, CacheInv
<1>2. \A k \in DOMAIN counted : counted'[k] = counted[k]
    BY <1>1, Inserted
<1>3. Remembered(slot, i, n)'
    BY <1>1, RememberedStays
<1>4. PICK u \in 1 .. n : u = cache[slot].used
    BY <1>1, DefenderFacts
<1>5. /\ counted[u].slot = slot
      /\ \A k \in DOMAIN counted : k > u => counted[k].slot # slot
    BY <1>4 DEF CacheInv, LastUse
<1> SUFFICES ASSUME NEW a \in i .. n + 1, NEW b \in i .. n + 1,
                    counted'[a].slot = slot, counted'[b].slot = slot,
                    a < b, \A k \in a + 1 .. b - 1 : counted'[k].slot # slot
             PROVE  Cardinality(SlotsIn(a + 1, b - 1)') < LRU_WINDOW
    BY DEF Remembered
<1>6. CASE b \in i .. n
    BY <1>3, <1>6 DEF Remembered
<1>7. CASE b = n + 1
  <2>1. a \in 1 .. n /\ counted[a].slot = slot
    BY <1>1, <1>2, <1>7
  <2>2. ~(a > u)
    BY <1>1, <1>5, <2>1
  <2>3. ~(a < u)
    <3>1. ASSUME a < u PROVE FALSE
      <4>1. u \in a + 1 .. b - 1 /\ counted'[u] = counted[u]
        BY <1>1, <1>2, <1>7, <3>1
      <4> QED
        BY <1>5, <4>1
    <3> QED
      BY <3>1
  <2>4. a = u
    BY <2>1, <2>2, <2>3
  <2>5. Cardinality(SlotsIn(u + 1, n)) < LRU_WINDOW
    BY <1>4, RecentlyUsed
  <2>6. u + 1 \in 1 .. Access /\ n \in 0 .. Len(counted)
    BY <1>1
  <2>7. SlotsIn(u + 1, n)' = SlotsIn(u + 1, n)
    BY <1>1, <2>6, HistoryStays
  <2> QED
    BY <1>7, <2>4, <2>5, <2>7
<1> QED
    BY <1>6, <1>7

(* Every count was earned by that many passes of a remembered slot. *)
LEMMA InsertEarns ==
    ASSUME TypeOK, CacheInv, CountsEarned, NEW slot \in Slots, insert_and_check(slot)
    PROVE  CountsEarned'
<1>1. PICK n \in Nat : n = Len(counted)
    BY DefenderFacts
<1>2. DOMAIN counted = 1 .. n /\ Access = n + 1 /\ FiniteCache
    BY <1>1, DefenderFacts DEF Access, CacheInv
<1>3. /\ Len(counted') = n + 1 /\ DOMAIN counted' = 1 .. n + 1
      /\ DOMAIN cache' = Kept(slot) \union {slot} /\ Kept(slot) \subseteq DOMAIN cache
      /\ cache'[slot] = [count |-> NewCount(slot), used |-> n + 1]
      /\ \A q \in Kept(slot) : q # slot => cache'[q] = cache[q]
    BY <1>1, <1>2, Inserted
<1>4. ASSUME NEW s \in DOMAIN cache'
      PROVE  \E i \in 1 .. n + 1 : /\ Cardinality(Passes(s, i, n + 1)') = cache'[s].count
                                    /\ Remembered(s, i, n + 1)'
  <2>1. CASE s # slot
    <3>1. s \in DOMAIN cache /\ cache'[s] = cache[s]
      BY <1>3, <2>1
    <3>2. PICK i \in 1 .. n : Cardinality(Passes(s, i, n)) = cache[s].count /\ Remembered(s, i, n)
      BY <1>1, <1>2, <3>1 DEF CountsEarned
    <3>3. i \in 1 .. n + 1
      OBVIOUS
    <3>4. Passes(s, i, n + 1)' = Passes(s, i, n)
      BY <1>1, <1>2, <2>1, <3>3, HistoryGrows
    <3>5. Remembered(s, i, n + 1)'
      BY <1>1, <1>2, <2>1, <3>2, RememberedByOthers
    <3> QED
      BY <3>1, <3>2, <3>3, <3>4, <3>5
  <2>2. CASE s = slot /\ slot \in DOMAIN cache
    <3>1. PICK i \in 1 .. n : Cardinality(Passes(s, i, n)) = cache[s].count /\ Remembered(s, i, n)
      BY <1>1, <1>2, <2>2 DEF CountsEarned
    <3>2. i \in 1 .. n + 1
      OBVIOUS
    <3>3. Remembered(s, i, n + 1)'
      BY <1>1, <2>2, <3>1, RememberedAgain
    <3>4. Count(slot) = cache[s].count /\ cache'[s].count = NewCount(slot)
      BY <1>3, <2>2 DEF Count
    <3>5. CASE Excessive(slot)
      <4>1. Passes(s, i, n + 1)' = Passes(s, i, n)
        BY <1>1, <1>2, <3>2, <3>5, HistoryGrows
      <4> QED
        BY <3>1, <3>2, <3>3, <3>4, <3>5, <4>1 DEF NewCount
    <3>6. CASE ~Excessive(slot)
      <4>1. Passes(s, i, n + 1)' = Passes(s, i, n) \union {n + 1}
        BY <1>1, <1>2, <2>2, <3>2, <3>6, HistoryGrows
      <4>2. IsFiniteSet(Passes(s, i, n)) /\ n + 1 \notin Passes(s, i, n)
        BY PassesFinite DEF Passes
      <4>3. Cardinality(Passes(s, i, n + 1)') = Cardinality(Passes(s, i, n)) + 1
        BY <4>1, <4>2, FS_AddElement
      <4>4. cache'[s].count = cache[s].count + 1
        BY <3>4, <3>6 DEF NewCount
      <4> QED
        BY <3>1, <3>2, <3>3, <4>3, <4>4
    <3> QED
      BY <3>5, <3>6
  <2>3. CASE s = slot /\ slot \notin DOMAIN cache
    <3>1. Count(slot) = 0 /\ ~Excessive(slot)
      BY <2>3, DefenderAssumption DEF Count, Excessive
    <3>2. cache'[s].count = 1
      BY <1>3, <2>3, <3>1 DEF NewCount
    <3>3. n + 1 \in 1 .. n + 1
      OBVIOUS
    <3>4. Passes(s, n + 1, n + 1)' = Passes(s, n + 1, n) \union {n + 1}
      BY <1>1, <1>2, <2>3, <3>1, <3>3, HistoryGrows
    <3>5. Passes(s, n + 1, n) = {}
      BY DEF Passes
    <3>6. Cardinality(Passes(s, n + 1, n + 1)') = 1
      BY <3>4, <3>5, FS_Singleton
    <3>7. Remembered(s, n + 1, n + 1)'
      BY DEF Remembered
    <3> QED
      BY <3>2, <3>3, <3>6, <3>7
  <2> QED
    BY <2>1, <2>2, <2>3
<1> QED
    BY <1>3, <1>4 DEF CountsEarned

(* A rejected block's slot was at its limit in the map. *)
LEMMA InsertRejects ==
    ASSUME TypeOK, CacheInv, CountsEarned, RejectionsAreEarned,
           NEW slot \in Slots, insert_and_check(slot)
    PROVE  RejectionsAreEarned'
<1>1. PICK n \in Nat : n = Len(counted)
    BY DefenderFacts
<1>2. DOMAIN counted = 1 .. n /\ Access = n + 1 /\ FiniteCache
    BY <1>1, DefenderFacts DEF Access, CacheInv
<1>3. /\ DOMAIN counted' = 1 .. n + 1
      /\ counted'[n + 1] = [slot |-> slot, passed |-> ~Excessive(slot)]
      /\ \A k \in 1 .. n : counted'[k] = counted[k]
    BY <1>1, <1>2, Inserted
<1>4. ASSUME NEW j \in 1 .. n + 1, ~counted'[j].passed, NEW t, t = counted'[j].slot
      PROVE  \E i \in 1 .. j : /\ Cardinality(Passes(t, i, j - 1)') = EQUIVOCATION_LIMIT
                                /\ Remembered(t, i, j)'
  <2>1. CASE j \in 1 .. n
    <3>1. counted'[j] = counted[j] /\ t = counted[j].slot
      BY <1>3, <1>4, <2>1
    <3>2. PICK i \in 1 .. j : /\ Cardinality(Passes(t, i, j - 1)) = EQUIVOCATION_LIMIT
                              /\ Remembered(t, i, j)
      BY <1>2, <1>4, <2>1, <3>1 DEF RejectionsAreEarned
    <3>3. i \in 1 .. Access /\ i \in 1 .. n /\ j - 1 \in 0 .. Len(counted) /\ j \in 0 .. n
      BY <1>1, <1>2, <2>1
    <3>4. Passes(t, i, j - 1)' = Passes(t, i, j - 1)
      BY <1>2, <3>3, HistoryStays
    <3>5. Remembered(t, i, j)'
      BY <1>1, <1>2, <3>2, <3>3, RememberedStays
    <3> QED
      BY <3>2, <3>4, <3>5
  <2>2. CASE j = n + 1
    <3>1. t = slot /\ Excessive(slot)
      <4>1. CASE Excessive(slot)
        BY <1>3, <1>4, <2>2, <4>1
      <4>2. CASE ~Excessive(slot)
        <5>1. counted'[n + 1] = [slot |-> slot, passed |-> TRUE]
          BY <1>3, <4>2
        <5> QED
          BY <1>4, <2>2, <5>1
      <4> QED
        BY <4>1, <4>2
    <3>2. slot \in DOMAIN cache /\ cache[slot].count = EQUIVOCATION_LIMIT
      BY <3>1, DefenderAssumption DEF Excessive, Count
    <3>3. PICK i \in 1 .. n : Cardinality(Passes(slot, i, n)) = EQUIVOCATION_LIMIT /\ Remembered(slot, i, n)
      BY <1>1, <1>2, <3>2 DEF CountsEarned
    <3>4. i \in 1 .. Access /\ n \in 0 .. Len(counted) /\ i \in 1 .. j /\ j - 1 = n
      BY <1>1, <1>2, <2>2
    <3>5. Passes(slot, i, n)' = Passes(slot, i, n)
      BY <1>2, <3>4, HistoryStays
    <3>6. Remembered(slot, i, n + 1)'
      BY <1>1, <3>2, <3>3, RememberedAgain
    <3> QED
      BY <2>2, <3>1, <3>3, <3>4, <3>5, <3>6
  <2> QED
    BY <2>1, <2>2
<1> QED
    BY <1>3, <1>4 DEF RejectionsAreEarned

LEMMA WindowInvHolds ==
    Spec => []WindowInv
<1>1. Init => WindowInv
  <2> SUFFICES ASSUME Init PROVE WindowInv
    OBVIOUS
  <2>1. DOMAIN cache = {} /\ DOMAIN counted = {} /\ Len(counted) = 0 /\ Access = 1
    BY DEF Init, Access
  <2>2. CountsEarned /\ LimitPerWindow /\ RejectionsAreEarned
    BY <2>1 DEF CountsEarned, LimitPerWindow, RejectionsAreEarned
  <2>3. PassesCounted
    <3>1. \A i \in 1 .. 1, s \in Slots : Passes(s, i, 0) = {}
      BY DEF Passes
    <3>2. \A s : Count(s) = 0
      BY <2>1 DEF Count
    <3>3. \A i \in 1 .. 1, s \in Slots : Cardinality(Passes(s, i, 0)) = 0
      BY <3>1, FS_EmptySet
    <3> QED
      BY <2>1, <3>2, <3>3 DEF PassesCounted
  <2> QED
    BY <2>2, <2>3 DEF WindowInv
<1>2. TypeOK /\ CacheInv /\ WindowInv /\ [Next]_vars /\ TypeOK' /\ CacheInv' => WindowInv'
  <2> SUFFICES ASSUME TypeOK, CacheInv, WindowInv, [Next]_vars, TypeOK', CacheInv'
               PROVE  WindowInv'
    OBVIOUS
  <2>1. CASE cache' = cache /\ counted' = counted
    <3>1. PassesCounted'
      BY <2>1 DEF WindowInv, PassesCounted, Access, SlotsIn, Passes, Count
    <3>2. CountsEarned'
      <4>1. \A s, i, j : /\ Passes(s, i, j)' = Passes(s, i, j)
                         /\ Remembered(s, i, j) <=> Remembered(s, i, j)'
        BY <2>1 DEF Passes, Remembered, SlotsIn
      <4>2. CountsEarned
        BY DEF WindowInv
      <4> QED
        BY <2>1, <4>1, <4>2 DEF CountsEarned
    <3>3. LimitPerWindow'
      BY <2>1 DEF WindowInv, LimitPerWindow, Passes, SlotsIn
    <3>4. RejectionsAreEarned'
      BY <2>1 DEF WindowInv, RejectionsAreEarned, Passes, Remembered, SlotsIn
    <3> QED
      BY <3>1, <3>2, <3>3, <3>4 DEF WindowInv
  <2>2. ASSUME NEW slot \in Slots, insert_and_check(slot) PROVE WindowInv'
    BY <2>2, InsertCountsPasses, InsertLimits, InsertEarns, InsertRejects DEF WindowInv
  <2> QED
    BY <2>1, <2>2, VerifyCases
<1> QED
    BY <1>1, <1>2, DefenderInv, PTL DEF Spec

(* Among any run of counted blocks of at most LRU_WINDOW slots, the verifier
   passes no more than EQUIVOCATION_LIMIT of each slot: what insert_and_check
   promises, up to what its map can remember. *)
THEOREM LimitHolds == Spec => []LimitPerWindow
<1>1. WindowInv => LimitPerWindow
    BY DEF WindowInv
<1> QED
    BY <1>1, WindowInvHolds, PTL

(* No block is rejected as an equivocation unless EQUIVOCATION_LIMIT blocks of
   its slot passed before it without the slot being forgotten in between. *)
THEOREM HonestSlotsPass == Spec => []RejectionsAreEarned
<1>1. WindowInv => RejectionsAreEarned
    BY DEF WindowInv
<1> QED
    BY <1>1, WindowInvHolds, PTL
=============================================================================
