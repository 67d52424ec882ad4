--------------------------- MODULE OnDemandPallet ---------------------------
(***************************************************************************)
(* pallet-on-demand inside the template runtime: a parachain block opens   *)
(* (the session pallet may install a new Aura set), runs its inherents     *)
(* (create_order, with data about one relay-chain block), then its         *)
(* extrinsics (the admin's setters, users' transactions and session keys), *)
(* and on_finalize copies the Aura authorities for the next block.         *)
(*                                                                         *)
(* What the collator tells create_order about the relay chain is an input: *)
(* the height of any relay block and the accounts whose orders for this    *)
(* parachain its events show.  Heights may come in any order: collators    *)
(* keep their own records, on their own view of the relay chain's forks.   *)
(***************************************************************************)
EXTENDS Slots, FiniteSets

CONSTANTS Accounts, NoAccount,
          Keys,                  \* Aura public keys
          GenesisAuthorities,    \* the Aura set at genesis, a sequence of keys
          AuthoritySets,         \* the sets later sessions may install
          GenesisKeyOwner,       \* pallet_session::KeyOwner at genesis
          Widths,                \* slot widths the admin uses
          Thresholds,            \* threshold parameters it uses
          OpeningFees,           \* fees a block has accounted for before create_order
          TxFees, MaxFees,       \* fees of a user's transaction, bound on a block's fees
          BaseFee,               \* weight_to_fee(ExtrinsicBaseWeight)
          MaxHeight              \* bound on relay-chain heights

Heights == 0 .. MaxHeight

PalletConstants ==
    /\ NoAccount \notin Accounts
    /\ GenesisAuthorities \in Seq(Keys)
    /\ AuthoritySets \subseteq Seq(Keys)
    /\ GenesisKeyOwner \in [Keys -> Accounts \union {NoAccount}]
    /\ Widths \subseteq Nat /\ 0 \in Widths
    /\ Thresholds \subseteq Nat /\ Thresholds # {}
    /\ OpeningFees \subseteq Nat
    /\ TxFees \subseteq Nat
    /\ MaxFees \in Nat /\ BaseFee \in Nat
    /\ MaxHeight \in Nat

ASSUME PalletAssumption == PalletConstants

VARIABLES slotWidth,            \* SlotWidth
          thresholdParameter,   \* ThresholdParameter
          bulkMode,             \* BulkMode is Some(())
          previousSlot,         \* PreviousSlot
          authorities,          \* Authorities, the pallet's own copy
          auraAuthorities,      \* pallet_aura::Authorities
          keyOwner,             \* pallet_session::KeyOwner for the Aura keys
          phase,                \* where in a block the runtime is
          blockFees,            \* fees the block accounts for so far
          rewards,              \* history: the orders create_order settled
          moves,                \* history: how the width has changed since the first
          parent                \* history: what the runtime APIs say at the latest block

configVars  == <<slotWidth, thresholdParameter, bulkMode, moves>>
sessionVars == <<auraAuthorities, keyOwner>>
rewardVars  == <<previousSlot, rewards>>
vars == <<configVars, authorities, sessionVars, rewardVars, phase, blockFees, parent>>

-----------------------------------------------------------------------------
slot_at(relay_height) == current_slot(relay_height, slotWidth)

order_placer_at(relay_height) == order_placer(authorities, relay_height, slotWidth)

(* FeeBasedCriteria: the fees of what the block has executed so far. *)
should_place_order == BaseFee + blockFees >= thresholdParameter

(* The data a collator may hand to create_order: nothing, or a relay block's
   height and the accounts that placed an order in it. *)
NoData == [some |-> FALSE]

InherentData == [some : {TRUE}, relay_height : Heights, ordered_by : SUBSET Accounts]

(* The latch: the slot of the data, or a later one, has been settled. *)
AlreadySettled_notThisSlot(data) == slot_at(data.relay_height) < previousSlot

AlreadySettled(data) == slot_at(data.relay_height) <= previousSlot

(* The owner of the scheduled key is among those who placed an order.  A key
   without an owner is create_order's one error; an inherent that fails is
   left out of the block, so it changes as little as an early return. *)
PlacerOrdered_anyOrder(data) == data.ordered_by # {}

PlacerOrdered(data) == keyOwner[order_placer_at(data.relay_height)] \in data.ordered_by

(* create_order gets past every early return. *)
Settles(data) ==
    /\ data.some
    /\ ~bulkMode
    /\ authorities # <<>>
    /\ should_place_order
    /\ ~AlreadySettled(data)
    /\ PlacerOrdered(data)

(* OnReward::reward, after which the order is settled.  Minting may fail (an
   account below the existential deposit, an overflow of the issuance, ...):
   reward returns all the same, and only the balance, which nothing here reads,
   tells the difference. *)
reward(data) ==
    rewards' = Append(rewards, [height |-> data.relay_height,
                                slot   |-> slot_at(data.relay_height),
                                to     |-> keyOwner[order_placer_at(data.relay_height)]])

(* The latch advances whether or not the reward could be minted. *)
advance_forgotten(data, minted) == previousSlot' = previousSlot

advance_tooFar(data, minted) == previousSlot' = slot_at(data.relay_height) + 1

advance_ifMinted(data, minted) ==
    previousSlot' = IF minted THEN slot_at(data.relay_height) ELSE previousSlot

advance(data, minted) == previousSlot' = slot_at(data.relay_height)

create_order(data) ==
    /\ phase = "inherents"
    /\ phase' = "extrinsics"
    /\ \/ \E minted \in BOOLEAN :
            Settles(data) /\ reward(data) /\ advance(data, minted)
       \/ ~Settles(data) /\ UNCHANGED rewardVars
    /\ UNCHANGED <<configVars, authorities, sessionVars, blockFees, parent>>

-----------------------------------------------------------------------------
(* What a change of the width does to the slots, once one was settled. *)
Move(from, to) ==
    {m \in {"narrower", "wider"} :
        /\ rewards # <<>>
        /\ \/ m = "narrower" /\ to % BITS < from % BITS
           \/ m = "wider" /\ to % BITS > from % BITS}

(* The admin's calls.  Any other origin is turned away without effect. *)
set_slot_width(width) ==
    /\ phase = "extrinsics"
    /\ slotWidth' = width
    /\ moves' = moves \union Move(slotWidth, width)
    /\ UNCHANGED <<thresholdParameter, bulkMode, authorities, sessionVars,
                   rewardVars, phase, blockFees, parent>>

set_threshold_parameter(parameter) ==
    /\ phase = "extrinsics"
    /\ thresholdParameter' = parameter
    /\ UNCHANGED <<slotWidth, bulkMode, moves, authorities, sessionVars, rewardVars,
                   phase, blockFees, parent>>

set_bulk_mode(bulk_mode) ==
    /\ phase = "extrinsics"
    /\ bulkMode' = bulk_mode
    /\ UNCHANGED <<slotWidth, thresholdParameter, moves, authorities, sessionVars,
                   rewardVars, phase, blockFees, parent>>

(* The Aura set of this block, for the next one's create_order. *)
finalAuthorities_once == IF authorities = <<>> THEN auraAuthorities ELSE authorities

finalAuthorities == auraAuthorities

on_finalize ==
    /\ phase = "extrinsics"
    /\ phase' = "idle"
    /\ authorities' = finalAuthorities
    /\ parent' = [width |-> slotWidth, authorities |-> auraAuthorities]
    /\ blockFees' = 0
    /\ UNCHANGED <<configVars, sessionVars, rewardVars>>

-----------------------------------------------------------------------------
(* The rest of the runtime, as far as this pallet reads its state. *)

(* A block begins: the session may rotate, and its opening work has fees. *)
OpenBlock ==
    /\ phase = "idle"
    /\ phase' = "inherents"
    /\ auraAuthorities' \in AuthoritySets \union {auraAuthorities}
    /\ blockFees' \in OpeningFees
    /\ UNCHANGED <<configVars, authorities, keyOwner, rewardVars, parent>>

(* A user's transaction adds its fees. *)
UserTransaction(fee) ==
    /\ phase = "extrinsics"
    /\ blockFees + fee <= MaxFees
    /\ blockFees' = blockFees + fee
    /\ UNCHANGED <<configVars, authorities, sessionVars, rewardVars, phase, parent>>

(* session.set_keys: a key nobody owns replaces the account's earlier key. *)
SetKeys(account, key) ==
    /\ phase = "extrinsics"
    /\ keyOwner[key] \in {account, NoAccount}
    /\ keyOwner' = [k \in Keys |-> IF k = key THEN account
                                   ELSE IF keyOwner[k] = account THEN NoAccount
                                   ELSE keyOwner[k]]
    /\ UNCHANGED <<configVars, authorities, auraAuthorities, rewardVars, phase, blockFees, parent>>

(* session.purge_keys: the keys stay in the Aura set until a session ends. *)
PurgeKeys(account) ==
    /\ phase = "extrinsics"
    /\ \E k \in Keys : keyOwner[k] = account
    /\ keyOwner' = [k \in Keys |-> IF keyOwner[k] = account THEN NoAccount ELSE keyOwner[k]]
    /\ UNCHANGED <<configVars, authorities, auraAuthorities, rewardVars, phase, blockFees, parent>>

-----------------------------------------------------------------------------
(* GenesisConfig::build sets the threshold and the mode; the rest of the
   pallet's storage has its default. *)
Init ==
    /\ slotWidth = 0
    /\ thresholdParameter \in Thresholds
    /\ bulkMode \in BOOLEAN
    /\ previousSlot = 0
    /\ authorities = <<>>
    /\ auraAuthorities = GenesisAuthorities
    /\ keyOwner = GenesisKeyOwner
    /\ phase = "idle"
    /\ blockFees = 0
    /\ rewards = <<>>
    /\ moves = {}
    /\ parent = [width |-> 0, authorities |-> GenesisAuthorities]

Next ==
    \/ OpenBlock
    \/ \E data \in InherentData \union {NoData} : create_order(data)
    \/ \E width \in Widths : set_slot_width(width)
    \/ \E parameter \in Thresholds : set_threshold_parameter(parameter)
    \/ \E bulk_mode \in BOOLEAN : set_bulk_mode(bulk_mode)
    \/ \E fee \in TxFees : UserTransaction(fee)
    \/ \E account \in Accounts, key \in Keys : SetKeys(account, key)
    \/ \E account \in Accounts : PurgeKeys(account)
    \/ on_finalize

Spec == Init /\ [][Next]_vars

-----------------------------------------------------------------------------
TypeOK ==
    /\ slotWidth \in Widths
    /\ thresholdParameter \in Thresholds
    /\ bulkMode \in BOOLEAN
    /\ previousSlot \in Nat
    /\ authorities \in Seq(Keys)
    /\ auraAuthorities \in Seq(Keys)
    /\ keyOwner \in [Keys -> Accounts \union {NoAccount}]
    /\ phase \in {"idle", "inherents", "extrinsics"}
    /\ blockFees \in Nat
    /\ rewards \in Seq([height : Heights, slot : Nat, to : Accounts])
    /\ moves \subseteq {"narrower", "wider"}
    /\ parent \in [width : Widths, authorities : Seq(Keys)]

(* PreviousSlot is a slot latch that nothing resets: create_order settles at
   most one order per slot number, in increasing order, whether or not the
   reward of each could be minted. *)
RewardSlots == [i \in 1 .. Len(rewards) |-> rewards[i].slot]

Latch == INSTANCE SlotLatch WITH latch <- previousSlot, fired <- RewardSlots,
                                 Volatile <- FALSE

RewardLatch == Latch!Spec

(* What the latch is for: the orders settled are those of later and later
   relay blocks, so no order is paid twice and none is paid after a later one.
   A slot number says nothing about heights once set_slot_width has moved all
   slots: this holds until, with rewards paid, a change narrows them. *)
InChainOrder ==
    \A i, j \in 1 .. Len(rewards) : i < j => rewards[i].height < rewards[j].height

RewardsInChainOrder == "narrower" \notin moves => InChainOrder

(* The comments on PreviousSlot ("prevent rewarding a collator multiple times
   for the same slot") and in create_order, as a statement on relay blocks:
   the orders of a relay block are paid for once. *)
OrderRewardedOnce ==
    \A i, j \in 1 .. Len(rewards) : i # j => rewards[i].height # rewards[j].height

(* The latch turns an order away only because its slot, or a later one, was
   settled: PreviousSlot is the "previous slot in which an order was placed".
   Slot 0 is exempt: PreviousSlot is 0 by default, so create_order refuses it
   from the start, with nothing settled.  For the other slots this holds
   until, with rewards paid, a change widens the slots. *)
RefusedSlotsSettled ==
    \A h \in Heights :
        0 < slot_at(h) /\ slot_at(h) <= previousSlot =>
            \E i \in 1 .. Len(rewards) : slot_at(rewards[i].height) >= slot_at(h)

FreshSlotPayable == "wider" \notin moves => RefusedSlotsSettled

(* The pallet pays the collator that the order service sends.  The service
   asks the runtime APIs at the parent block for the width and the Aura set
   and picks order_placer; the pallet computes its own from storage, after
   this block's session rotation.  This is why on_finalize keeps the previous
   block's set, and why the pallet must come after Aura. *)
PaysScheduledCollator ==
    [][rewards' # rewards =>
        LET paid == rewards'[Len(rewards')] IN
        paid.to = keyOwner[order_placer(parent.authorities, paid.height, parent.width)]]_vars
=============================================================================
