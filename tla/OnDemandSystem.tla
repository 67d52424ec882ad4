--------------------------- MODULE OnDemandSystem ---------------------------
(***************************************************************************)
(* The order service and pallet-on-demand at work in one parachain.  The   *)
(* nodes read the parachain's configuration and Aura set through the       *)
(* runtime APIs, at the head that the relay chain has included; they order *)
(* on the relay chain, and the blocks they author show the pallet what the *)
(* relay block in their record says.                                       *)
(*                                                                         *)
(* The parachain's blocks are those that the relay chain includes: an      *)
(* authored block that loses against another one changes nothing.          *)
(***************************************************************************)
EXTENDS Slots, FiniteSets

CONSTANTS Nodes, Keystore, StartHeight, ONE, OnDemandBaseFee, MaxBlocks,
          MaxSkipped, MaxFaults                                 \* see OrderService

CONSTANTS Accounts, NoAccount, Keys, GenesisAuthorities, AuthoritySets,
          GenesisKeyOwner, Widths, Thresholds, OpeningFees, TxFees, MaxFees,
          BaseFee, MaxHeight                                    \* see OnDemandPallet

CONSTANTS SigningKey,     \* the first Aura key of each node's keystore
          AccountOf,      \* the account whose address a public key is
          RelaySides,     \* what a relay block says beside the parachain's head
          StartSide,
          StartWidth,     \* what the admin configured in the first block
          StartThreshold,
          PoolFees,       \* total fees that a pool's ready transactions may have
          MaxAdminCalls,  \* bound on the admin's calls
          PruningDepth    \* how far below the best one a relay block has its state

VARIABLES relay, submitted, record, holder, follow, event, author, cursor,
          acked, handled, failures, reconnects, restarts

VARIABLES slotWidth, thresholdParameter, bulkMode, previousSlot, authorities,
          auraAuthorities, keyOwner, phase, blockFees, rewards, moves,
          parent

VARIABLES latest,       \* what the runtime APIs say at the latest block
          included,     \* what they say at the included head
          unincluded,   \* how many blocks were authored since
          offer,        \* the relay block that the latest block shows; 0 is none
          adminCalls,   \* how many calls the admin made
          claims        \* history: for each reward, the relay block and the width

chainVars == <<slotWidth, thresholdParameter, bulkMode, previousSlot, authorities,
               auraAuthorities, keyOwner, phase, blockFees, rewards, moves, parent>>
nodeVars  == <<relay, submitted, record, holder, follow, event, author, cursor,
               acked, handled, failures, reconnects, restarts>>
linkVars  == <<latest, included, unincluded, offer, claims, adminCalls>>
vars == <<chainVars, nodeVars, linkVars>>

-----------------------------------------------------------------------------
(* What a node reads at a relay block: its own state, and the runtime APIs'
   answers at the parachain's head. *)
ViewOf(side, head) ==
    [parathread |-> side.parathread, cores |-> side.cores, traffic |-> side.traffic,
     bulk |-> head.bulk, width |-> head.width, authorities |-> head.authorities]

HeadOf(view) ==
    [bulk |-> view.bulk, width |-> view.width, authorities |-> view.authorities]

Heads ==
    [bulk : BOOLEAN, width : Widths, authorities : AuthoritySets \union {GenesisAuthorities}]

RelayViews == {ViewOf(side, head) : side \in RelaySides, head \in Heads}

StartHead == [bulk |-> FALSE, width |-> StartWidth, authorities |-> GenesisAuthorities]

(* The components, together with what is proved about them. *)
Service == INSTANCE OrderService_proofs
           WITH Views <- RelayViews,
                StartView <- ViewOf(StartSide, StartHead)

Pallet == INSTANCE OnDemandPallet_proofs

(* The runtime APIs' answers: Aura's, and those of the pallet. *)
AuraApi == auraAuthorities

OnDemandRuntimeApi ==
    [bulk |-> bulkMode, width |-> slotWidth, authorities |-> AuraApi,
     threshold |-> thresholdParameter]

(* The keys of the preset belong to the accounts with the same address, and a
   node signs with a key it has.  The heights fit their type. *)
ASSUME SystemAssumption ==
    /\ Service!ServiceConstants /\ Pallet!PalletConstants
    /\ StartSide \in RelaySides
    /\ \A k \in Keys : GenesisKeyOwner[k] \in {AccountOf[k], NoAccount}
    /\ \A n \in Nodes : SigningKey[n] \in Keystore[n] /\ AccountOf[SigningKey[n]] \in Accounts
    /\ GenesisAuthorities # <<>> /\ <<>> \notin AuthoritySets
    /\ StartWidth \in Widths /\ StartThreshold \in Thresholds
    /\ PoolFees \subseteq Nat /\ MaxAdminCalls \in Nat /\ PruningDepth \in Nat
    /\ StartHeight + (MaxBlocks - 1) * (MaxSkipped + 1) <= MaxHeight
    /\ MaxHeight < 2^BITS

(* The preset gives each collator the key of the same name, and starts in bulk
   mode; nodes can only author blocks without order data. *)
testnet_genesis ==
    /\ previousSlot = 0
    /\ auraAuthorities = GenesisAuthorities
    /\ keyOwner = GenesisKeyOwner
    /\ rewards = <<>>
    /\ moves = {}

(* The first block brings the admin's configuration, which ends bulk mode; the
   relay chain includes it, and the nodes start. *)
Init ==
    /\ testnet_genesis
    /\ slotWidth = StartWidth
    /\ thresholdParameter = StartThreshold
    /\ bulkMode = FALSE
    /\ authorities = GenesisAuthorities
    /\ parent = [width |-> StartWidth, authorities |-> GenesisAuthorities]
    /\ phase = "idle"
    /\ blockFees = 0
    /\ Service!Init
    /\ latest = OnDemandRuntimeApi
    /\ included = latest
    /\ unincluded = 0
    /\ offer = 0
    /\ claims = <<>>
    /\ adminCalls = 0

-----------------------------------------------------------------------------
(* The relay chain.  A new best block knows the head that its parent knew, or
   the one included since. *)
RelayBlock ==
    /\ \E b \in DOMAIN relay, side \in RelaySides, skipped \in 0 .. MaxSkipped :
        \E head \in {HeadOf(relay[b].view), included},
           passed \in SUBSET Service!Includable(b, relay[b].height + 1 ..
                                                    relay[b].height + skipped) :
            \E orders \in SUBSET (Service!Includable(b, {Service!Top(b, skipped)}) \ passed) :
                Service!NewBest(b, skipped, passed, orders, ViewOf(side, head))
    /\ UNCHANGED <<chainVars, linkVars>>

(* A relay block that does nothing else of interest includes the block that was
   authored on the included head; relay blocks on top of it know that head.
   When a core is there for the block is left open here, as a parachain in
   bulk mode needs no orders; OnDemandCores has a core per order. *)
Include ==
    /\ unincluded > 0
    /\ included' = latest
    /\ unincluded' = 0
    /\ UNCHANGED <<chainVars, nodeVars, latest, offer, claims, adminCalls>>

-----------------------------------------------------------------------------
(* The node's FeeBasedCriteria: the fees of the pool's ready transactions
   reach the threshold of the best block. *)
should_place_order == \E total_fees \in PoolFees : total_fees >= latest.threshold

FollowDecide(n) == Service!FollowDecide(n) /\ should_place_order

(* The steps of a node, but for the end of create_inherent_data_providers. *)
NodeStep(n) ==
    /\ \/ Service!FollowHead(n) \/ Service!FollowReturn(n) \/ FollowDecide(n)
       \/ Service!SubmitOrder(n) \/ Service!FollowCommit(n) \/ Service!FollowFail(n)
       \/ Service!EventNext(n) \/ Service!EventRecord(n) \/ Service!EventReconnect(n)
       \/ Service!AuthorStart(n) \/ Service!AuthorLock(n)
       \/ Service!Restart(n)
    /\ UNCHANGED <<chainVars, linkVars>>

(* create_at finds the header and the events of the recorded block. *)
Readable(b) == b # 0 => relay[b].height + PruningDepth >= relay[Len(relay)].height

(* UNINCLUDED_SEGMENT_CAPACITY: a block is built on the included head only. *)
UNINCLUDED_SEGMENT_CAPACITY == 1

can_build_upon_always == TRUE

can_build_upon == unincluded < UNINCLUDED_SEGMENT_CAPACITY

(* create_at returns the order data, and the node's block, built with it,
   becomes the next block of the parachain; *)
AuthorBlock(n) ==
    /\ Service!AuthorDone(n)
    /\ Readable(record[n].hash)
    /\ can_build_upon
    /\ Pallet!OpenBlock
    /\ offer' = record[n].hash
    /\ UNCHANGED <<latest, included, unincluded, claims, adminCalls>>

(* or there is no such block: the recorded relay block cannot be read, which
   ends the attempt, or the block is not built or loses. *)
AuthorNoBlock(n) ==
    /\ Service!AuthorDone(n)
    /\ UNCHANGED <<chainVars, linkVars>>

-----------------------------------------------------------------------------
(* The execution of a block. *)

(* SignerKeystore: the first key signs, whichever key's turn it is. *)
signer(n) == AccountOf[SigningKey[n]]

(* What OrderPlacementChecker reads from the proof: the accounts that signed
   the orders of the relay block. *)
orders_placed(b) == {signer(submitted[x].by) : x \in relay[b].orders}

OrderInherentData(b) ==
    IF b = 0 THEN Pallet!NoData
    ELSE [some |-> TRUE, relay_height |-> relay[b].height, ordered_by |-> orders_placed(b)]

CreateOrder ==
    /\ Pallet!create_order(OrderInherentData(offer))
    /\ claims' = IF rewards' = rewards THEN claims
                 ELSE Append(claims, [block |-> offer, width |-> slotWidth])
    /\ UNCHANGED <<nodeVars, latest, included, unincluded, offer, adminCalls>>

(* The admin's calls. *)
AdminCall ==
    /\ adminCalls < MaxAdminCalls
    /\ adminCalls' = adminCalls + 1
    /\ \/ \E width \in Widths : Pallet!set_slot_width(width)
       \/ \E parameter \in Thresholds : Pallet!set_threshold_parameter(parameter)
       \/ \E bulk_mode \in BOOLEAN : Pallet!set_bulk_mode(bulk_mode)
    /\ UNCHANGED <<nodeVars, latest, included, unincluded, offer, claims>>

FinalizeBlock ==
    /\ Pallet!on_finalize
    /\ latest' = OnDemandRuntimeApi
    /\ unincluded' = unincluded + 1
    /\ UNCHANGED <<nodeVars, included, offer, claims, adminCalls>>

-----------------------------------------------------------------------------
Next ==
    \/ RelayBlock
    \/ Include
    \/ \E n \in Nodes : NodeStep(n) \/ AuthorBlock(n) \/ AuthorNoBlock(n)
    \/ CreateOrder
    \/ AdminCall
    \/ FinalizeBlock

Spec == Init /\ [][Next]_vars

-----------------------------------------------------------------------------
ApiType ==
    [bulk : BOOLEAN, width : Widths, threshold : Thresholds,
     authorities : AuthoritySets \union {GenesisAuthorities}]

TypeOK ==
    /\ latest \in ApiType /\ included \in ApiType
    /\ unincluded \in 0 .. UNINCLUDED_SEGMENT_CAPACITY
    /\ offer \in 0 .. Len(relay)
    /\ claims \in Seq([block : 1 .. Len(relay), width : Widths])
    /\ Len(claims) = Len(rewards)
    /\ adminCalls \in 0 .. MaxAdminCalls

(* Nobody is paid who did not order: the account that create_order rewards has
   signed an order that a relay block, once best, includes.  (The collators
   are honest: create_order takes the relay chain's state root from the data.) *)
RewardsAreEarned ==
    \A i \in 1 .. Len(claims) : rewards[i].to \in orders_placed(claims[i].block)

(* One order transaction is paid for once, though competing relay blocks
   include it and records of several of them reach the pallet: the order
   lives for its slot, and the latch knows the slot.  Three exceptions: slots
   narrowed with rewards paid, slots shorter than an era, and slots that were
   narrowed between the sending of the order and its first payment. *)
OrderPaidOnce ==
    \A i, j \in 1 .. Len(claims) :
        i < j /\ "narrower" \notin moves =>
            \A x \in relay[claims[i].block].orders \intersect relay[claims[j].block].orders :
                \/ mortality(submitted[x].width) < 4
                \/ claims[i].width % BITS < submitted[x].width % BITS

(* The node that ordered for a slot is the one that the pallet holds to be on
   turn at the block that includes the order, as long as the pallet has the
   width and the Aura set which the node read before it ordered.  (For slots
   that are no shorter than an era.) *)
ScheduleAgrees ==
    \A b \in DOMAIN relay : \A x \in relay[b].orders :
        LET order == submitted[x] IN
        /\ mortality(order.width) >= 4
        /\ slotWidth = order.width
        /\ authorities = relay[order.head].view.authorities
        => Pallet!order_placer_at(relay[b].height) \in Keystore[order.by]

(* The pallet on OrderPlacementCriteria: "Implements logic to check whether an
   order should have been placed."  So the pallet's criterion holds in a block
   that shows an order which the node's criterion let through.  (Here the
   threshold never changes.) *)
CriteriaAgree ==
    phase = "inherents" /\ offer # 0 /\ relay[offer].orders # {} =>
        Pallet!should_place_order
=============================================================================
