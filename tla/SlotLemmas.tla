----------------------------- MODULE SlotLemmas -----------------------------
(***************************************************************************)
(* Facts about slot arithmetic that hold for every width and height, used  *)
(* by the proofs about the pallet and about the order service.             *)
(***************************************************************************)
EXTENDS Slots, TLAPS

(* The divisor of a shift is a positive number, whatever the width. *)
LEMMA DivisorPositive ==
    ASSUME NEW w \in Nat
    PROVE  /\ w % BITS \in 0 .. (BITS - 1)
           /\ 2^(w % BITS) \in Nat \ {0}
<1>1. w % BITS \in 0 .. (BITS - 1)
    BY BitsAssumption
<1>2. w % BITS \in 0 .. BITS
    BY <1>1, BitsAssumption
<1>3. 2^(w % BITS) \in Nat \ {0}
    BY <1>2, PowersOfTwo
<1> QED
    BY <1>1, <1>3

(* The slot of a height is a natural number: current_slot never fails. *)
LEMMA SlotIsNat ==
    ASSUME NEW h \in Nat, NEW w \in Nat
    PROVE  current_slot(h, w) \in Nat
<1> DEFINE d == 2^(w % BITS)
<1>1. d \in Nat \ {0}
    BY DivisorPositive
<1> HIDE DEF d
<1>2. h \div d \in Nat
    BY <1>1
<1> QED
    BY <1>2 DEF current_slot, Shr, d

(* Slots follow the chain: a height in a later slot is a later height. *)
LEMMA LaterSlotLaterHeight ==
    ASSUME NEW h \in Nat, NEW g \in Nat, NEW w \in Nat,
           current_slot(h, w) < current_slot(g, w)
    PROVE  h < g
<1> DEFINE d == 2^(w % BITS)
<1>1. d \in Nat \ {0}
    BY DivisorPositive
<1> HIDE DEF d
<1>2. g <= h => g \div d <= h \div d
    BY <1>1
<1>3. h \div d < g \div d
    BY DEF current_slot, Shr, d
<1>4. h \div d \in Nat /\ g \div d \in Nat
    BY <1>1
<1> QED
    BY <1>2, <1>3, <1>4

(* Widening the slots never moves a height to a later slot. *)
LEMMA WiderSlotIsEarlier ==
    ASSUME NEW h \in Nat, NEW v \in Nat, NEW w \in Nat, v % BITS <= w % BITS
    PROVE  current_slot(h, w) <= current_slot(h, v)
<1> DEFINE c == 2^(v % BITS)
           d == 2^(w % BITS)
<1>1. c \in Nat \ {0} /\ d \in Nat \ {0}
    BY DivisorPositive
<1>2. c <= d
  <2>1. v % BITS \in 0 .. BITS /\ w % BITS \in 0 .. BITS
    BY DivisorPositive, BitsAssumption
  <2>2. CASE v % BITS < w % BITS
    BY <1>1, <2>1, <2>2, PowersOfTwo
  <2>3. CASE v % BITS = w % BITS
    BY <1>1, <2>3
  <2> QED
    BY <2>1, <2>2, <2>3
<1> HIDE DEF c, d
<1>3. h \div d <= h \div c
    BY <1>1, <1>2, Z3
<1> QED
    BY <1>3 DEF current_slot, Shr, c, d

(* A left shift stays a number of its type. *)
LEMMA ShlIsNat ==
    ASSUME NEW x \in Nat, NEW w \in Nat
    PROVE  Shl(x, w) \in Nat
<1> DEFINE d == 2^(w % BITS)
           m == 2^BITS
<1>1. d \in Nat \ {0}
    BY DivisorPositive
<1>2. m \in Nat \ {0}
    BY BitsAssumption, PowersOfTwo
<1> HIDE DEF d, m
<1>3. x * d \in Int
    BY <1>1
<1>4. \A y \in Int : y % m \in Nat
    BY <1>2
<1> QED
    BY <1>3, <1>4 DEF Shl, d, m

(* The height at which an order expires is a number. *)
LEMMA DeathIsNat ==
    ASSUME NEW h \in Nat, NEW w \in Nat
    PROVE  Death(h, w) \in Nat
<1>1. first_block_in_slot(h, w) \in Nat
    BY SlotIsNat, ShlIsNat DEF first_block_in_slot
<1>2. mortality(w) \in Nat
    BY ShlIsNat DEF mortality
<1>3. EraPeriod(mortality(w)) \in Nat
    BY <1>2 DEF EraPeriod
<1> QED
    BY <1>1, <1>3 DEF Death

(* Division, in the form of its defining inequalities. *)
LEMMA DivisionBounds ==
    ASSUME NEW h \in Nat, NEW d \in Nat \ {0}
    PROVE  /\ h \div d \in Nat
           /\ d * (h \div d) <= h
           /\ h < d * (h \div d) + d
<1>1. h \div d \in Nat
    OBVIOUS
<1>2. h = d * (h \div d) + (h % d) /\ h % d \in 0 .. (d - 1)
    OBVIOUS
<1> QED
    BY <1>1, <1>2

LEMMA DivisionUnique ==
    ASSUME NEW h \in Nat, NEW d \in Nat \ {0}, NEW q \in Nat, d * q <= h, h < d * q + d
    PROVE  h \div d = q
    BY Z3

(* An order lives no longer than its slot, when the slot is no shorter than an
   era: no height of its lifetime is in another slot. *)
LEMMA LifetimeIsSlot ==
    ASSUME NEW g \in Nat, NEW h \in Nat, NEW w \in Nat, g < 2^BITS, mortality(w) >= 4,
           first_block_in_slot(g, w) < h, h < Death(g, w)
    PROVE  current_slot(h, w) = current_slot(g, w)
<1> DEFINE d == 2^(w % BITS)
           m == 2^BITS
           q == g \div d
<1>1. d \in Nat \ {0} /\ w % BITS \in 0 .. (BITS - 1)
    BY DivisorPositive
<1>2. m \in Nat \ {0} /\ d < m
  <2>1. BITS \in 0 .. BITS /\ w % BITS \in 0 .. BITS /\ w % BITS < BITS
    BY <1>1, BitsAssumption
  <2> QED
    BY <2>1, PowersOfTwo
<1>3. g < m
    OBVIOUS
<1>4. Shl(1, w) = (1 * d) % m /\ Shl(q, w) = (q * d) % m
    BY DEF Shl
<1>5. current_slot(g, w) = q /\ current_slot(h, w) = h \div d
    BY DEF current_slot, Shr
<1> HIDE DEF d, m
<1>6. q \in Nat /\ d * q <= g
    BY <1>1, DivisionBounds
<1> HIDE DEF q
<1>7. mortality(w) = d
    BY <1>1, <1>2, <1>4 DEF mortality
<1>8. q * d = d * q /\ d * q \in Nat
    BY <1>1, <1>6
<1>9. (d * q) % m = d * q
    BY <1>2, <1>3, <1>6, <1>8
<1>10. first_block_in_slot(g, w) = d * q
    BY <1>4, <1>5, <1>8, <1>9 DEF first_block_in_slot
<1>11. EraPeriod(d) \in Nat /\ EraPeriod(d) <= d
    BY <1>1, <1>7 DEF EraPeriod
<1>12. Death(g, w) = d * q + EraPeriod(d)
    BY <1>7, <1>10 DEF Death
<1>13. d * q <= h /\ h < d * q + d
    BY <1>1, <1>8, <1>10, <1>11, <1>12
<1>14. h \div d = q
    BY <1>1, <1>6, <1>13, DivisionUnique
<1> QED
    BY <1>5, <1>14

(* Slots nest: heights in one slot are in one slot of any greater width. *)
LEMMA SlotsNest ==
    ASSUME NEW g \in Nat, NEW h \in Nat, NEW v \in Nat, NEW w \in Nat, v % BITS <= w % BITS,
           current_slot(g, v) = current_slot(h, v)
    PROVE  current_slot(g, w) = current_slot(h, w)
<1> DEFINE c == 2^(v % BITS)
           k == 2^((w % BITS) - (v % BITS))
           d == 2^(w % BITS)
<1>1. c \in Nat \ {0} /\ d \in Nat \ {0}
    BY DivisorPositive
<1>2. v % BITS \in 0 .. BITS /\ w % BITS \in 0 .. BITS /\ (w % BITS) - (v % BITS) \in 0 .. BITS
    BY DivisorPositive, BitsAssumption
<1>3. k \in Nat \ {0} /\ d = c * k
    BY <1>2, PowersOfTwo
<1>4. g \div c = h \div c
    BY DEF current_slot, Shr
<1> HIDE DEF c, d, k
<1>5. ASSUME NEW x \in Nat, NEW y \in Nat, x \div c = y \div c
      PROVE  ~(x \div d < y \div d)
  <2> DEFINE p == y \div d
             z == k * p
  <2>1. p \in Nat /\ d * p <= y
    BY <1>1, DivisionBounds
  <2>2. x \div d \in Nat /\ x < d * (x \div d) + d
    BY <1>1, DivisionBounds
  <2>3. y \div c \in Nat /\ y < c * (y \div c) + c /\ c * (x \div c) <= x
    BY <1>1, DivisionBounds
  <2>4. z \in Nat /\ d * p = c * z
    BY <1>1, <1>3, <2>1, Z3
  <2> SUFFICES ASSUME x \div d < p PROVE FALSE
    OBVIOUS
  <2>5. x < d * p
    <3> HIDE DEF p
    <3> DEFINE o == x \div d
    <3>1. o \in Nat /\ o + 1 <= p /\ x < d * o + d
      BY <2>1, <2>2
    <3> HIDE DEF o
    <3>2. d * (o + 1) <= d * p
      BY <1>1, <2>1, <3>1, Z3
    <3>3. d * (o + 1) = d * o + d
      BY <1>1, <3>1, Z3
    <3> QED
      BY <1>1, <2>1, <3>1, <3>2, <3>3
  <2> HIDE DEF p, z
  <2> DEFINE r == x \div c
  <2>6. r \in Nat /\ c * r <= x /\ y < c * r + c
    BY <1>5, <2>3
  <2> HIDE DEF r
  <2>7. c * r < c * z /\ c * z < c * r + c
    BY <1>1, <2>1, <2>4, <2>5, <2>6
  <2>8. r < z /\ z < r + 1
    BY <1>1, <2>4, <2>6, <2>7, Z3
  <2> QED
    BY <2>4, <2>6, <2>8
<1>6. g \div d \in Nat /\ h \div d \in Nat
    BY <1>1, DivisionBounds
<1>7. g \div d = h \div d
    BY <1>4, <1>5, <1>6
<1> QED
    BY <1>7 DEF current_slot, Shr, d
=============================================================================
