------------------------------- MODULE Slots -------------------------------
(***************************************************************************)
(* Slot arithmetic.  The runtime pallet (slot_at, order_placer_at) and the *)
(* order service (current_slot, order_placer, submit_order) each compute   *)
(* the on-demand slot of a relay-chain height and the authority whose turn *)
(* it is.  Heights and widths are u32 in the code; BITS is that width, so  *)
(* that a run may take a small one and still reach its edge.  A shift by   *)
(* BITS or more wraps the shift amount, as the release build does.         *)
(***************************************************************************)
EXTENDS Integers, Sequences

CONSTANT BITS   \* bits of a RelayBlockNumber: 32 in the code

ASSUME BitsAssumption == BITS \in Nat \ {0}

(* Arithmetic the provers do not know about exponentiation. *)
ASSUME PowersOfTwo ==
    \A v, w \in 0 .. BITS :
        /\ 2^v \in Nat \ {0}
        /\ v < w => 2^v < 2^w
        /\ v <= w => 2^w = 2^v * 2^(w - v)

-----------------------------------------------------------------------------
Shr(x, w) == x \div 2^(w % BITS)

Shl(x, w) == (x * 2^(w % BITS)) % 2^BITS

(* The slot of a relay-chain height. *)
current_slot(relay_height, slot_width) == Shr(relay_height, slot_width)

(* The authority whose turn a slot is; authorities is not empty (the pallet
   returns early when it is, the service would panic on % 0). *)
order_placer(authorities, relay_height, slot_width) ==
    authorities[(current_slot(relay_height, slot_width) % Len(authorities)) + 1]

-----------------------------------------------------------------------------
(* The validity window of an order transaction: mortal from the first block
   of its slot, for as many blocks as a slot has. *)
first_block_in_slot(relay_height, slot_width) ==
    Shl(current_slot(relay_height, slot_width), slot_width)

mortality_doubled(slot_width) == 2 * Shl(1, slot_width)

mortality(slot_width) == Shl(1, slot_width)

(* Era::mortal of the SDK: a period is at least 4 blocks and at most 2^16. *)
EraPeriod(blocks) == IF blocks < 4 THEN 4 ELSE IF blocks > 65536 THEN 65536 ELSE blocks

(* The first height at which the transaction is no longer valid. *)
Death(relay_height, slot_width) ==
    first_block_in_slot(relay_height, slot_width) + EraPeriod(mortality(slot_width))
=============================================================================
