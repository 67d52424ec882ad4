-------------------------- MODULE SlotLatch_proofs --------------------------
(***************************************************************************)
(* What every implementation of SlotLatch inherits.                        *)
(***************************************************************************)
EXTENDS SlotLatch, TLAPS

(* The latch is at least every slot it fired for. *)
LatchInv ==
    /\ latch \in Nat
    /\ fired \in Seq(Nat)
    /\ \A i \in 1 .. Len(fired) : fired[i] <= latch
    /\ FiresInSlotOrder

(* A slot latch fires at most once for a slot, in slot order, between two
   resets: one reward per slot of the pallet, one acknowledged order per slot
   of a node that keeps running. *)
THEOREM LatchFiresInOrder == Spec => []FiresInSlotOrder
<1>1. Init => LatchInv
    BY DEF Init, LatchInv, FiresInSlotOrder
<1>2. LatchInv /\ [Next]_latchVars => LatchInv'
  <2> SUFFICES ASSUME LatchInv, [Next]_latchVars PROVE LatchInv'
    OBVIOUS
  <2>1. CASE Reset
    BY <2>1 DEF Reset, LatchInv, FiresInSlotOrder
  <2>2. CASE Fire
    <3>1. latch' \in Nat /\ latch' > latch /\ latch \in Nat /\ fired \in Seq(Nat)
      BY <2>2 DEF Fire, LatchInv
    <3>2. /\ fired' \in Seq(Nat) /\ Len(fired') = Len(fired) + 1
          /\ fired'[Len(fired) + 1] = latch'
          /\ \A i \in 1 .. Len(fired) : fired'[i] = fired[i] /\ fired[i] \in Nat
      BY <2>2, <3>1 DEF Fire
    <3>3. \A i \in 1 .. Len(fired) : fired'[i] < latch'
      <4> SUFFICES ASSUME NEW i \in 1 .. Len(fired) PROVE fired'[i] < latch'
        OBVIOUS
      <4>1. fired'[i] = fired[i] /\ fired[i] \in Nat
        BY <3>2
      <4>2. fired[i] <= latch
        BY DEF LatchInv
      <4> QED
        BY <3>1, <4>1, <4>2
    <3>4. \A i \in 1 .. Len(fired') : fired'[i] <= latch'
      BY <3>1, <3>2, <3>3
    <3>5. FiresInSlotOrder'
      <4> SUFFICES ASSUME NEW i \in 1 .. Len(fired'), NEW j \in 1 .. Len(fired'), i < j
                   PROVE  fired'[i] < fired'[j]
        BY DEF FiresInSlotOrder
      <4>0. Len(fired) \in Nat /\ Len(fired') = Len(fired) + 1
        BY <3>1, <3>2
      <4>1. i \in 1 .. Len(fired) /\ (j \in 1 .. Len(fired) \/ j = Len(fired) + 1)
        BY <4>0
      <4>2. CASE j = Len(fired) + 1
        BY <3>2, <3>3, <4>1, <4>2
      <4>3. CASE j \in 1 .. Len(fired)
        <5>1. fired[i] < fired[j]
          BY <4>1, <4>3 DEF LatchInv, FiresInSlotOrder
        <5> QED
          BY <3>2, <4>1, <4>3, <5>1
      <4> QED
        BY <4>1, <4>2, <4>3
    <3> QED
      BY <3>1, <3>2, <3>4, <3>5 DEF LatchInv
  <2>3. CASE UNCHANGED latchVars
    BY <2>3 DEF latchVars, LatchInv, FiresInSlotOrder
  <2> QED
    BY <2>1, <2>2, <2>3 DEF Next
<1>3. LatchInv => FiresInSlotOrder
    BY DEF LatchInv
<1> QED
    BY <1>1, <1>2, <1>3, PTL DEF Spec
=============================================================================
