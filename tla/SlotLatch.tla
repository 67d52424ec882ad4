----------------------------- MODULE SlotLatch ------------------------------
(***************************************************************************)
(* What the slot counters of this system promise.  A latch remembers the   *)
(* latest slot it fired for and fires only for a later one, so it fires at *)
(* most once per slot and in slot order.  The runtime pallet's             *)
(* PreviousSlot (one reward per slot), the order service's                 *)
(* OrderRecord.last_slot (one order per slot), the basic collator's two    *)
(* variables and the atomic of AuraConsensus (one block per slot) are      *)
(* meant to be such a latch; one that is kept in memory only (Volatile) is *)
(* reset when its process restarts.                                        *)
(***************************************************************************)
EXTENDS Integers, Sequences

CONSTANT Volatile   \* may the latch be reset?

VARIABLES latch,   \* the latest slot the latch fired for, 0 before the first
          fired    \* the slots it fired for since it was last reset, in order

latchVars == <<latch, fired>>

Init ==
    /\ latch = 0
    /\ fired = <<>>

Reset ==
    /\ Volatile
    /\ latch' = 0
    /\ fired' = <<>>

Fire ==
    /\ latch' \in Nat
    /\ latch' > latch
    /\ fired' = Append(fired, latch')

Next == Reset \/ Fire

Spec == Init /\ [][Next]_latchVars

-----------------------------------------------------------------------------
(* The latch never fires twice for a slot, nor for an earlier slot after a
   later one: what PreviousSlot and last_slot exist for. *)
FiresInSlotOrder ==
    \A i, j \in 1 .. Len(fired) : i < j => fired[i] < fired[j]
=============================================================================
