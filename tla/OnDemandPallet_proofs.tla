------------------------ MODULE OnDemandPallet_proofs -----------------------
(***************************************************************************)
(* Proofs about pallet-on-demand, for every set of accounts, keys, widths  *)
(* and thresholds, every bound on relay heights and every block content.   *)
(***************************************************************************)
EXTENDS OnDemandPallet, SlotLemmas, TLAPS

USE DEF PalletConstants

Settled == [height : Heights, slot : Nat, to : Accounts]

(* What a settled order is made of. *)
LEMMA SettledFields ==
    ASSUME rewards \in Seq(Settled), NEW i \in 1 .. Len(rewards)
    PROVE  /\ rewards[i] \in Settled
           /\ rewards[i].height \in Heights
           /\ rewards[i].slot \in Nat
<1>1. rewards[i] \in Settled
    OBVIOUS
<1> QED
    BY <1>1 DEF Settled

(* A slot of a relay height under a width the admin uses is a number. *)
LEMMA SlotAtIsNat ==
    ASSUME TypeOK, NEW h \in Heights
    PROVE  slot_at(h) \in Nat
<1>1. h \in Nat /\ slotWidth \in Nat
    BY PalletAssumption DEF TypeOK, Heights
<1> QED
    BY <1>1, SlotIsNat DEF slot_at

(* The reward that create_order adds is well formed: what the scheduled key's
   owner is among, are accounts. *)
LEMMA RewardIsTyped ==
    ASSUME TypeOK, NEW data \in InherentData \union {NoData},
           Settles(data), reward(data)
    PROVE  /\ data.relay_height \in Heights
           /\ \E r \in Settled :
                /\ r.height = data.relay_height
                /\ r.slot = slot_at(data.relay_height)
                /\ r.to = keyOwner[order_placer_at(data.relay_height)]
                /\ rewards' = Append(rewards, r)
<1> DEFINE h == data.relay_height
           account == keyOwner[order_placer_at(h)]
           r == [height |-> h, slot |-> slot_at(h), to |-> account]
<1>1. data \in InherentData
    BY DEF Settles, NoData
<1>2. h \in Heights /\ data.ordered_by \subseteq Accounts
    BY <1>1 DEF InherentData
<1>3. account \in Accounts
    BY <1>2 DEF Settles, PlacerOrdered
<1>4. slot_at(h) \in Nat
    BY <1>2, SlotAtIsNat
<1>5. rewards' = Append(rewards, r)
    BY DEF reward
<1>6. r \in Settled
    BY <1>2, <1>3, <1>4 DEF Settled
<1> HIDE DEF account
<1> QED
    BY <1>2, <1>5, <1>6 DEF account

(* Every step keeps the types. *)
LEMMA PalletTypedStep == TypeOK /\ [Next]_vars => TypeOK'
<1> SUFFICES ASSUME TypeOK, [Next]_vars PROVE TypeOK'
    OBVIOUS
<1> USE PalletAssumption
<1>1. CASE OpenBlock
    BY <1>1 DEF OpenBlock, TypeOK, configVars, rewardVars
<1>2. ASSUME NEW data \in InherentData \union {NoData}, create_order(data)
      PROVE  TypeOK'
  <2>1. ASSUME NEW minted \in BOOLEAN,
               Settles(data), reward(data), advance(data, minted)
        PROVE  TypeOK'
    <3>1. PICK r \in Settled : rewards' = Append(rewards, r)
      BY <2>1, RewardIsTyped
    <3>2. rewards' \in Seq(Settled)
      BY <3>1 DEF TypeOK, Settled
    <3>3. previousSlot' \in Nat
      BY <2>1, RewardIsTyped, SlotAtIsNat DEF advance
    <3> QED
      BY <1>2, <3>2, <3>3
      DEF create_order, TypeOK, Settled, configVars, sessionVars
  <2>2. CASE UNCHANGED rewardVars
    BY <1>2, <2>2 DEF create_order, TypeOK, configVars, sessionVars, rewardVars
  <2> QED
    BY <1>2, <2>1, <2>2 DEF create_order
<1>3. ASSUME NEW width \in Widths, set_slot_width(width) PROVE TypeOK'
    BY <1>3 DEF set_slot_width, Move, TypeOK, sessionVars, rewardVars
<1>4. ASSUME NEW parameter \in Thresholds, set_threshold_parameter(parameter)
      PROVE  TypeOK'
    BY <1>4 DEF set_threshold_parameter, TypeOK, sessionVars, rewardVars
<1>5. ASSUME NEW bulk_mode \in BOOLEAN, set_bulk_mode(bulk_mode) PROVE TypeOK'
    BY <1>5 DEF set_bulk_mode, TypeOK, sessionVars, rewardVars
<1>6. ASSUME NEW fee \in TxFees, UserTransaction(fee) PROVE TypeOK'
    BY <1>6 DEF UserTransaction, TypeOK, configVars, sessionVars, rewardVars
<1>7. ASSUME NEW account \in Accounts, NEW key \in Keys, SetKeys(account, key)
      PROVE  TypeOK'
    BY <1>7 DEF SetKeys, TypeOK, configVars, rewardVars
<1>8. ASSUME NEW account \in Accounts, PurgeKeys(account) PROVE TypeOK'
    BY <1>8 DEF PurgeKeys, TypeOK, configVars, rewardVars
<1>9. CASE on_finalize
    BY <1>9 DEF on_finalize, finalAuthorities, TypeOK, configVars, sessionVars, rewardVars
<1>10. CASE UNCHANGED vars
    BY <1>10 DEF vars, TypeOK, configVars, sessionVars, rewardVars
<1> QED
    BY <1>1, <1>2, <1>3, <1>4, <1>5, <1>6, <1>7, <1>8, <1>9, <1>10 DEF Next

(* Every reachable state of the pallet and of what it reads is well typed. *)
THEOREM PalletTyped == Spec => []TypeOK
<1>1. Init => TypeOK
    BY PalletAssumption DEF Init, TypeOK
<1> QED
    BY <1>1, PalletTypedStep, PTL DEF Spec

-----------------------------------------------------------------------------
(* The latch.  create_order maps to a Fire of SlotLatch, every other step to
   a stutter. *)

(* Appending to a sequence appends to the sequence of its slots. *)
LEMMA RewardSlotsAppend ==
    ASSUME rewards \in Seq(Settled), NEW r \in Settled, rewards' = Append(rewards, r)
    PROVE  RewardSlots' = Append(RewardSlots, r.slot)
<1>1. Len(rewards') = Len(rewards) + 1 /\ Len(rewards) \in Nat
    OBVIOUS
<1>2. \A i \in 1 .. Len(rewards') :
        rewards'[i] = IF i = Len(rewards) + 1 THEN r ELSE rewards[i]
    OBVIOUS
<1>3. \A i \in 1 .. Len(rewards) : rewards[i].slot \in Nat
    BY SettledFields
<1>4. r.slot \in Nat
    BY DEF Settled
<1>5. RewardSlots \in Seq(Nat) /\ Len(RewardSlots) = Len(rewards)
    BY <1>1, <1>3 DEF RewardSlots
<1>6. RewardSlots' = [i \in 1 .. Len(rewards) + 1 |-> rewards'[i].slot]
    BY <1>1 DEF RewardSlots
<1>7. Append(RewardSlots, r.slot) =
        [i \in 1 .. Len(rewards) + 1 |->
            IF i = Len(rewards) + 1 THEN r.slot ELSE RewardSlots[i]]
    BY <1>1, <1>4, <1>5
<1>8. ASSUME NEW i \in 1 .. Len(rewards) + 1
      PROVE  rewards'[i].slot = IF i = Len(rewards) + 1 THEN r.slot ELSE RewardSlots[i]
    BY <1>1, <1>2, <1>8 DEF RewardSlots
<1> QED
    BY <1>6, <1>7, <1>8

(* PreviousSlot is a slot latch: the pallet settles at most one order per
   slot, in slot order, across all configuration and session changes. *)
THEOREM PalletIsLatch == Spec => RewardLatch
<1>1. Init => Latch!Init
    BY DEF Init, Latch!Init, RewardSlots
<1>2. TypeOK /\ [Next]_vars => [Latch!Next]_(Latch!latchVars)
  <2> SUFFICES ASSUME TypeOK, [Next]_vars
               PROVE  Latch!Fire \/ UNCHANGED <<previousSlot, rewards>>
    BY DEF Latch!Next, Latch!latchVars, RewardSlots
  <2>1. ASSUME NEW data \in InherentData \union {NoData}, create_order(data),
               NEW minted \in BOOLEAN,
               Settles(data), reward(data), advance(data, minted)
        PROVE  Latch!Fire
    <3>1. PICK r \in Settled : /\ r.slot = slot_at(data.relay_height)
                               /\ rewards' = Append(rewards, r)
      BY <2>1, RewardIsTyped
    <3>2. previousSlot' = r.slot /\ r.slot \in Nat
      BY <2>1, <3>1 DEF advance, Settled
    <3>3. previousSlot' > previousSlot
      BY <2>1, <3>1, <3>2 DEF Settles, AlreadySettled, TypeOK
    <3>4. RewardSlots' = Append(RewardSlots, r.slot)
      BY <3>1, RewardSlotsAppend DEF TypeOK, Settled
    <3> QED
      BY <3>2, <3>3, <3>4 DEF Latch!Fire
  <2>2. ASSUME NEW data \in InherentData \union {NoData}, create_order(data)
        PROVE  Latch!Fire \/ UNCHANGED <<previousSlot, rewards>>
    BY <2>1, <2>2 DEF create_order, rewardVars
  <2> QED
    BY <2>2 DEF Next, OpenBlock, set_slot_width, set_threshold_parameter, set_bulk_mode,
                UserTransaction, SetKeys, PurgeKeys, on_finalize, vars, rewardVars
<1> QED
    BY <1>1, <1>2, PalletTyped, PTL DEF Spec, RewardLatch, Latch!Spec

-----------------------------------------------------------------------------
(* Rewards against the chain.  Slot numbers only compare with one another
   under one width, so the invariant restates every settled order in today's
   slots: none lies beyond the latch. *)
SettledBelowLatch ==
    \A i \in 1 .. Len(rewards) : slot_at(rewards[i].height) <= previousSlot

ChainInv == SettledBelowLatch /\ InChainOrder

(* A step that leaves the width, the latch and the history alone. *)
LEMMA ChainInvStable ==
    ASSUME ChainInv, UNCHANGED <<slotWidth, previousSlot, rewards>>
    PROVE  ChainInv'
BY DEF ChainInv, SettledBelowLatch, InChainOrder, slot_at

(* Settling an order keeps the invariant: its slot is beyond the latch, so it
   is a later block than all that were settled. *)
LEMMA ChainInvSettle ==
    ASSUME TypeOK, ChainInv, NEW data \in InherentData \union {NoData},
           NEW minted \in BOOLEAN, create_order(data),
           Settles(data), reward(data), advance(data, minted)
    PROVE  ChainInv'
<1> DEFINE h == data.relay_height
<1>1. h \in Heights
    BY RewardIsTyped
<1>2. PICK r \in Settled : r.height = h /\ rewards' = Append(rewards, r)
    BY RewardIsTyped
<1>3. rewards \in Seq(Settled)
    BY DEF TypeOK, Settled
<1>4. /\ Len(rewards') = Len(rewards) + 1
      /\ Len(rewards) \in Nat
      /\ rewards'[Len(rewards) + 1].height = h
      /\ \A i \in 1 .. Len(rewards) : rewards'[i] = rewards[i] /\ rewards[i].height \in Heights
    BY <1>2, <1>3, SettledFields
<1>5. slotWidth' = slotWidth /\ previousSlot' = slot_at(h)
    BY DEF create_order, advance, configVars
<1>6. slot_at(h) \in Nat /\ previousSlot \in Nat /\ previousSlot < slot_at(h)
    BY <1>1, SlotAtIsNat DEF Settles, AlreadySettled, TypeOK
<1>7. Heights \subseteq Nat /\ slotWidth \in Nat
    BY PalletAssumption DEF Heights, TypeOK
<1>8. ASSUME NEW i \in 1 .. Len(rewards)
      PROVE  slot_at(rewards[i].height) <= slot_at(h) /\ rewards[i].height < h
  <2>1. slot_at(rewards[i].height) \in Nat
    BY <1>4, SlotAtIsNat
  <2>2. slot_at(rewards[i].height) < slot_at(h)
    BY <1>6, <2>1 DEF ChainInv, SettledBelowLatch
  <2>3. rewards[i].height \in Nat /\ h \in Nat
    BY <1>1, <1>4, <1>7
  <2>4. rewards[i].height < h
    BY <1>7, <2>2, <2>3, LaterSlotLaterHeight DEF slot_at
  <2> QED
    BY <1>6, <2>1, <2>2, <2>4
<1>9. SettledBelowLatch'
    BY <1>4, <1>5, <1>6, <1>8 DEF SettledBelowLatch, slot_at
<1>10. InChainOrder'
    BY <1>4, <1>8 DEF ChainInv, InChainOrder
<1> QED
    BY <1>9, <1>10 DEF ChainInv

(* A width that does not narrow the slots keeps it too: the settled heights'
   slot numbers only go down. *)
LEMMA ChainInvWiden ==
    ASSUME TypeOK, ChainInv, NEW width \in Widths, set_slot_width(width),
           "narrower" \notin moves'
    PROVE  ChainInv'
<1>1. slotWidth' = width /\ UNCHANGED <<previousSlot, rewards>>
    BY DEF set_slot_width, rewardVars
<1>2. slotWidth \in Nat /\ width \in Nat /\ previousSlot \in Nat /\ Heights \subseteq Nat
    BY PalletAssumption DEF TypeOK, Heights
<1>3. rewards # <<>> => slotWidth % BITS <= width % BITS
    BY <1>2, BitsAssumption DEF set_slot_width, Move
<1>4. ASSUME NEW i \in 1 .. Len(rewards)
      PROVE  current_slot(rewards[i].height, width) <= previousSlot
  <2>1. rewards[i].height \in Nat
    BY <1>2, SettledFields DEF TypeOK, Settled
  <2>2. /\ current_slot(rewards[i].height, width) \in Nat
        /\ current_slot(rewards[i].height, slotWidth) \in Nat
    BY <1>2, <2>1, SlotIsNat
  <2>3. rewards # <<>>
    OBVIOUS
  <2>4. current_slot(rewards[i].height, width) <= current_slot(rewards[i].height, slotWidth)
    BY <1>2, <1>3, <2>1, <2>3, WiderSlotIsEarlier
  <2>5. current_slot(rewards[i].height, slotWidth) <= previousSlot
    BY DEF ChainInv, SettledBelowLatch, slot_at
  <2> QED
    BY <1>2, <2>2, <2>4, <2>5
<1> QED
    BY <1>1, <1>4 DEF ChainInv, SettledBelowLatch, InChainOrder, slot_at

ChainInvUnlessNarrowed == "narrower" \notin moves => ChainInv

(* The history of the width's changes only grows. *)
LEMMA MovesStay == [Next]_vars => moves \subseteq moves'
    BY DEF Next, OpenBlock, create_order, set_slot_width, set_threshold_parameter,
           set_bulk_mode, UserTransaction, SetKeys, PurgeKeys, on_finalize, vars, configVars

LEMMA ChainInvStep == TypeOK /\ ChainInvUnlessNarrowed /\ [Next]_vars => ChainInvUnlessNarrowed'
<1> SUFFICES ASSUME TypeOK, ChainInvUnlessNarrowed, [Next]_vars, "narrower" \notin moves' PROVE ChainInv'
    BY DEF ChainInvUnlessNarrowed
<1>1. moves \subseteq moves'
    BY MovesStay
<1>2. ChainInv
    BY <1>1 DEF ChainInvUnlessNarrowed
<1>3. ASSUME NEW data \in InherentData \union {NoData}, create_order(data)
      PROVE  ChainInv'
    BY <1>2, <1>3, ChainInvSettle, ChainInvStable DEF create_order, rewardVars, configVars
<1>4. ASSUME NEW width \in Widths, set_slot_width(width) PROVE ChainInv'
    BY <1>2, <1>4, ChainInvWiden
<1>5. ASSUME UNCHANGED <<slotWidth, previousSlot, rewards>> PROVE ChainInv'
    BY <1>2, <1>5, ChainInvStable
<1> QED
    BY <1>3, <1>4, <1>5
    DEF Next, OpenBlock, set_threshold_parameter, set_bulk_mode, UserTransaction,
      SetKeys, PurgeKeys, on_finalize, vars, configVars, rewardVars

(* Until a change of the width narrows the slots, orders are paid in the
   order of the relay chain and each relay block's at most once. *)
THEOREM RewardsFollowChain == Spec => []RewardsInChainOrder
<1>1. Init => ChainInvUnlessNarrowed
    BY DEF Init, ChainInvUnlessNarrowed, ChainInv, SettledBelowLatch, InChainOrder
<1>2. ChainInvUnlessNarrowed => RewardsInChainOrder
    BY DEF ChainInvUnlessNarrowed, ChainInv, RewardsInChainOrder
<1> QED
    BY <1>1, <1>2, ChainInvStep, PalletTyped, PTL DEF Spec

-----------------------------------------------------------------------------
(* The converse.  The last settled order, restated in today's slots, lies at
   or beyond the latch, so what the latch refuses is covered by it. *)
LatchIsSettled ==
    /\ rewards = <<>> => previousSlot = 0
    /\ rewards # <<>> => previousSlot <= slot_at(rewards[Len(rewards)].height)

(* A step that leaves the width, the latch and the history alone. *)
LEMMA LatchIsSettledStable ==
    ASSUME LatchIsSettled, UNCHANGED <<slotWidth, previousSlot, rewards>>
    PROVE  LatchIsSettled'
BY DEF LatchIsSettled, slot_at

(* Settling an order keeps it, *)
LEMMA LatchIsSettledSettle ==
    ASSUME TypeOK, NEW data \in InherentData \union {NoData},
           NEW minted \in BOOLEAN, create_order(data),
           Settles(data), reward(data), advance(data, minted)
    PROVE  LatchIsSettled'
<1>1. rewards \in Seq(Settled)
    BY DEF TypeOK, Settled
<1>2. PICK r \in Settled : /\ r.height = data.relay_height
                           /\ rewards' = Append(rewards, r)
    BY RewardIsTyped
<1>3. rewards' # <<>> /\ rewards'[Len(rewards')] = r
    BY <1>1, <1>2
<1>4. previousSlot' = slot_at(r.height) /\ slotWidth' = slotWidth
    BY <1>2 DEF advance, create_order, configVars
<1>5. slot_at(r.height) \in Nat
    BY <1>2, RewardIsTyped, SlotAtIsNat
<1> QED
    BY <1>3, <1>4, <1>5 DEF LatchIsSettled, slot_at

(* and so does a width that does not widen the slots. *)
LEMMA LatchIsSettledNarrow ==
    ASSUME TypeOK, LatchIsSettled, NEW width \in Widths, set_slot_width(width),
           "wider" \notin moves'
    PROVE  LatchIsSettled'
<1>1. slotWidth' = width /\ UNCHANGED <<previousSlot, rewards>>
    BY DEF set_slot_width, rewardVars
<1>2. slotWidth \in Nat /\ width \in Nat /\ previousSlot \in Nat /\ Heights \subseteq Nat
    BY PalletAssumption DEF TypeOK, Heights
<1>3. rewards # <<>> => width % BITS <= slotWidth % BITS
    BY <1>2, BitsAssumption DEF set_slot_width, Move
<1>4. ASSUME rewards # <<>>
      PROVE  previousSlot <= current_slot(rewards[Len(rewards)].height, width)
  <2> DEFINE g == rewards[Len(rewards)].height
  <2>1. rewards \in Seq(Settled)
    BY DEF TypeOK, Settled
  <2>2. Len(rewards) \in 1 .. Len(rewards)
    BY <1>4, <2>1
  <2>3. g \in Nat
    BY <1>2, <2>1, <2>2, SettledFields
  <2>4. current_slot(g, slotWidth) \in Nat /\ current_slot(g, width) \in Nat
    BY <1>2, <2>3, SlotIsNat
  <2>5. current_slot(g, slotWidth) <= current_slot(g, width)
    BY <1>2, <1>3, <1>4, <2>3, WiderSlotIsEarlier
  <2>6. previousSlot <= current_slot(g, slotWidth)
    BY <1>4 DEF LatchIsSettled, slot_at
  <2> QED
    BY <1>2, <2>4, <2>5, <2>6
<1> QED
    BY <1>1, <1>4 DEF LatchIsSettled, slot_at

(* Until a change of the width widens the slots, the latch turns away only
   orders of slots up to the last one settled, and of slot 0, which it refuses
   from the start. *)
THEOREM FreshSlotsArePayable == Spec => []FreshSlotPayable
<1> DEFINE Inv == "wider" \notin moves => LatchIsSettled
<1>1. Init => Inv
    BY DEF Init, LatchIsSettled
<1>2. TypeOK /\ Inv /\ [Next]_vars => Inv'
  <2> SUFFICES ASSUME TypeOK, Inv, [Next]_vars, "wider" \notin moves' PROVE LatchIsSettled'
    OBVIOUS
  <2>1. moves \subseteq moves'
    BY DEF Next, OpenBlock, create_order, set_slot_width, set_threshold_parameter,
           set_bulk_mode, UserTransaction, SetKeys, PurgeKeys, on_finalize, vars, configVars
  <2>2. LatchIsSettled
    BY <2>1
  <2>3. ASSUME NEW data \in InherentData \union {NoData}, create_order(data)
        PROVE  LatchIsSettled'
    BY <2>2, <2>3, LatchIsSettledSettle, LatchIsSettledStable
    DEF create_order, rewardVars, configVars
  <2>4. ASSUME NEW width \in Widths, set_slot_width(width) PROVE LatchIsSettled'
    BY <2>2, <2>4, LatchIsSettledNarrow
  <2>5. ASSUME UNCHANGED <<slotWidth, previousSlot, rewards>> PROVE LatchIsSettled'
    BY <2>2, <2>5, LatchIsSettledStable
  <2> QED
    BY <2>3, <2>4, <2>5
    DEF Next, OpenBlock, set_threshold_parameter, set_bulk_mode, UserTransaction,
        SetKeys, PurgeKeys, on_finalize, vars, configVars, rewardVars
<1>3. ASSUME TypeOK, LatchIsSettled PROVE RefusedSlotsSettled
  <2> SUFFICES ASSUME NEW h \in Heights, 0 < slot_at(h), slot_at(h) <= previousSlot
               PROVE  \E i \in 1 .. Len(rewards) : slot_at(rewards[i].height) >= slot_at(h)
    BY DEF RefusedSlotsSettled
  <2>1. rewards \in Seq(Settled) /\ previousSlot \in Nat /\ slot_at(h) \in Nat
    BY <1>3, SlotAtIsNat DEF TypeOK, Settled
  <2>2. rewards # <<>>
    BY <1>3, <2>1 DEF LatchIsSettled
  <2>3. Len(rewards) \in 1 .. Len(rewards)
    BY <2>1, <2>2
  <2>4. slot_at(rewards[Len(rewards)].height) \in Nat
    BY <1>3, <2>1, <2>3, SettledFields, SlotAtIsNat
  <2>5. slot_at(rewards[Len(rewards)].height) >= slot_at(h)
    BY <1>3, <2>1, <2>2, <2>4 DEF LatchIsSettled
  <2> QED
    BY <2>3, <2>5
<1>4. TypeOK /\ Inv => FreshSlotPayable
    BY <1>3 DEF FreshSlotPayable
<1> HIDE DEF Inv
<1> QED
    BY <1>1, <1>2, <1>4, PalletTyped, PTL DEF Spec

-----------------------------------------------------------------------------
(* The pallet's copy of the authorities, once there is one, is what the
   runtime APIs say at the parent block, and until the block's extrinsics run
   so is the width. *)
ParentView ==
    /\ authorities # <<>> => authorities = parent.authorities
    /\ phase # "extrinsics" => slotWidth = parent.width

(* The pallet pays the collator that the order service, asking at the parent
   block, finds scheduled: also in a block that rotates the session. *)
THEOREM ScheduledCollatorPaid == Spec => PaysScheduledCollator
<1> DEFINE Scheduled ==
        rewards' # rewards =>
            LET paid == rewards'[Len(rewards')] IN
            paid.to = keyOwner[order_placer(parent.authorities, paid.height, parent.width)]
<1>1. Init => ParentView
    BY DEF Init, ParentView
<1>2. ParentView /\ [Next]_vars => ParentView'
  <2> SUFFICES ASSUME ParentView, [Next]_vars PROVE ParentView'
    OBVIOUS
  <2>1. CASE OpenBlock
    BY <2>1 DEF OpenBlock, ParentView, configVars
  <2>2. ASSUME NEW data, create_order(data) PROVE ParentView'
    BY <2>2 DEF create_order, ParentView, configVars
  <2>3. CASE on_finalize
    BY <2>3 DEF on_finalize, finalAuthorities, ParentView, configVars
  <2>4. CASE UNCHANGED <<authorities, parent, phase>> /\ (phase = "extrinsics" \/ UNCHANGED slotWidth)
    BY <2>4 DEF ParentView
  <2> QED
    BY <2>1, <2>2, <2>3, <2>4
    DEF Next, set_slot_width, set_threshold_parameter, set_bulk_mode, UserTransaction,
        SetKeys, PurgeKeys, vars, configVars
<1>3. TypeOK /\ ParentView /\ [Next]_vars => [Scheduled]_vars
  <2> SUFFICES ASSUME TypeOK, ParentView, [Next]_vars, rewards' # rewards
               PROVE  LET paid == rewards'[Len(rewards')] IN
                      paid.to = keyOwner[order_placer(parent.authorities, paid.height, parent.width)]
    OBVIOUS
  <2>1. PICK data \in InherentData \union {NoData} : create_order(data)
    BY DEF Next, OpenBlock, set_slot_width, set_threshold_parameter, set_bulk_mode,
           UserTransaction, SetKeys, PurgeKeys, on_finalize, vars, rewardVars
  <2>2. Settles(data) /\ reward(data)
    BY <2>1 DEF create_order, rewardVars
  <2>3. PICK r \in Settled : /\ r.height = data.relay_height
                             /\ r.to = keyOwner[order_placer_at(data.relay_height)]
                             /\ rewards' = Append(rewards, r)
    BY <2>2, RewardIsTyped
  <2>4. rewards'[Len(rewards')] = r
    BY <2>3 DEF TypeOK, Settled
  <2>5. authorities = parent.authorities /\ slotWidth = parent.width
    BY <2>1, <2>2 DEF ParentView, Settles, create_order
  <2> QED
    BY <2>3, <2>4, <2>5 DEF order_placer_at
<1> QED
    BY <1>1, <1>2, <1>3, PalletTyped, PTL DEF Spec, PaysScheduledCollator
=============================================================================
