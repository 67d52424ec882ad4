------------------------ MODULE OnDemandSystem_proofs -----------------------
(***************************************************************************)
(* Proofs about the order service and the pallet at work together.  Every  *)
(* step of the system is a step of each component, or leaves it alone, so  *)
(* what is proved about the components holds here, and the proofs below    *)
(* are about what goes from the one to the other.                          *)
(***************************************************************************)
EXTENDS OnDemandSystem, SlotLemmas, TLAPS

USE DEF Service!ServiceConstants, Pallet!PalletConstants

AuraSets == AuthoritySets \union {GenesisAuthorities}

(* The runtime APIs answer with what the admin and the sessions may set. *)
ApiTyped ==
    /\ slotWidth \in Widths /\ thresholdParameter \in Thresholds
    /\ bulkMode \in BOOLEAN /\ auraAuthorities \in AuraSets
    /\ latest \in ApiType /\ included \in ApiType

-----------------------------------------------------------------------------
(* What the theorems about the components assume. *)
LEMMA ServiceAssumes == Service!ServiceConstants /\ BITS \in Nat \ {0}
    BY SystemAssumption, BitsAssumption

LEMMA PalletAssumes == Pallet!PalletConstants
    BY SystemAssumption

LEMMA ViewFields ==
    ASSUME NEW side \in RelaySides, NEW head \in Heads
    PROVE  ViewOf(side, head) \in RelayViews /\ HeadOf(ViewOf(side, head)) = head
<1>1. head = [bulk |-> head.bulk, width |-> head.width, authorities |-> head.authorities]
    BY DEF Heads
<1> QED
    BY <1>1 DEF ViewOf, HeadOf, RelayViews

(* What a relay block shows of the parachain's head is one of the Heads. *)
LEMMA ApiIsHead ==
    ASSUME NEW side \in RelaySides, NEW api \in ApiType
    PROVE  ViewOf(side, api) \in RelayViews
<1> DEFINE head == [bulk |-> api.bulk, width |-> api.width, authorities |-> api.authorities]
<1>1. head \in Heads
    BY DEF ApiType, Heads
<1>2. ViewOf(side, api) = ViewOf(side, head)
    BY DEF ViewOf
<1> QED
    BY <1>1, <1>2 DEF RelayViews

LEMMA RelayIsService ==
    ASSUME Service!TypeOK, ApiTyped, RelayBlock
    PROVE  Service!RelayNext
<1>1. PICK b \in DOMAIN relay, side \in RelaySides, skipped \in 0 .. MaxSkipped :
        \E head \in {HeadOf(relay[b].view), included},
           passed \in SUBSET Service!Includable(b, relay[b].height + 1 ..
                                                    relay[b].height + skipped) :
            \E orders \in SUBSET (Service!Includable(b, {Service!Top(b, skipped)}) \ passed) :
                Service!NewBest(b, skipped, passed, orders, ViewOf(side, head))
    BY DEF RelayBlock
<1>2. PICK head \in {HeadOf(relay[b].view), included},
           passed \in SUBSET Service!Includable(b, relay[b].height + 1 ..
                                                    relay[b].height + skipped) :
            \E orders \in SUBSET (Service!Includable(b, {Service!Top(b, skipped)}) \ passed) :
                Service!NewBest(b, skipped, passed, orders, ViewOf(side, head))
    BY <1>1
<1>3. ViewOf(side, head) \in RelayViews
  <2>1. relay[b].view \in RelayViews
    <3>1. relay[b] \in Service!BlockType
      BY DEF Service!TypeOK
    <3> QED
      BY <3>1 DEF Service!BlockType
  <2>2. PICK s \in RelaySides, h \in Heads : relay[b].view = ViewOf(s, h)
    BY <2>1 DEF RelayViews
  <2>3. CASE head = HeadOf(relay[b].view)
    BY <2>2, <2>3, ViewFields
  <2>4. CASE head = included
    BY <2>4, ApiIsHead DEF ApiTyped
  <2> QED
    BY <2>3, <2>4
<1> QED
    BY <1>2, <1>3 DEF Service!RelayNext

(* Every step of the system is one of the order service, or leaves it alone. *)
LEMMA SystemStepsService ==
    ASSUME Service!TypeOK, ApiTyped, [Next]_vars
    PROVE  [Service!Next]_(Service!vars)
<1>1. CASE RelayBlock
    BY <1>1, RelayIsService DEF Service!Next
<1>2. ASSUME NEW n \in Nodes, NodeStep(n) PROVE Service!NodeNext(n)
    BY <1>2 DEF NodeStep, FollowDecide, Service!NodeNext
<1>3. ASSUME NEW n \in Nodes, AuthorBlock(n) \/ AuthorNoBlock(n) PROVE Service!NodeNext(n)
    BY <1>3 DEF AuthorBlock, AuthorNoBlock, Service!NodeNext
<1>4. ASSUME UNCHANGED nodeVars PROVE UNCHANGED Service!vars
    BY <1>4 DEF nodeVars, Service!vars, Service!relayVars, Service!nodeVars, Service!faults
<1>5. CASE Include
    BY <1>4, <1>5 DEF Include
<1>6. CASE CreateOrder
    BY <1>4, <1>6 DEF CreateOrder
<1>7. CASE AdminCall
    BY <1>4, <1>7 DEF AdminCall
<1>8. CASE FinalizeBlock
    BY <1>4, <1>8 DEF FinalizeBlock
<1>9. CASE UNCHANGED vars
    BY <1>4, <1>9 DEF vars
<1> QED
    BY <1>1, <1>2, <1>3, <1>5, <1>6, <1>7, <1>8, <1>9 DEF Next, Service!Next

(* The APIs' answers stay of their type. *)
LEMMA ApiTypedStep ==
    ASSUME ApiTyped, [Next]_vars
    PROVE  ApiTyped'
<1>1. ASSUME UNCHANGED <<slotWidth, thresholdParameter, bulkMode, auraAuthorities, latest, included>>
      PROVE  ApiTyped'
    BY <1>1 DEF ApiTyped
<1>2. ASSUME UNCHANGED <<chainVars, linkVars>> PROVE ApiTyped'
    BY <1>1, <1>2 DEF chainVars, linkVars
<1>3. CASE RelayBlock
    BY <1>2, <1>3 DEF RelayBlock
<1>4. CASE Include
    BY <1>4 DEF Include, chainVars, ApiTyped
<1>5. ASSUME NEW n \in Nodes, NodeStep(n) \/ AuthorNoBlock(n) PROVE ApiTyped'
    BY <1>2, <1>5 DEF NodeStep, AuthorNoBlock
<1>6. ASSUME NEW n \in Nodes, AuthorBlock(n) PROVE ApiTyped'
    BY <1>6 DEF AuthorBlock, Pallet!OpenBlock, Pallet!configVars, ApiTyped, AuraSets
<1>7. CASE CreateOrder
    BY <1>7 DEF CreateOrder, Pallet!create_order, Pallet!configVars, Pallet!sessionVars, ApiTyped
<1>8. CASE AdminCall
    BY <1>8 DEF AdminCall, Pallet!set_slot_width, Pallet!set_threshold_parameter,
                Pallet!set_bulk_mode, Pallet!sessionVars, ApiTyped
<1>9. CASE FinalizeBlock
    BY <1>9 DEF FinalizeBlock, Pallet!on_finalize, Pallet!configVars, Pallet!sessionVars,
                OnDemandRuntimeApi, AuraApi, ApiTyped, ApiType, AuraSets
<1>10. CASE UNCHANGED vars
    BY <1>2, <1>10 DEF vars
<1> QED
    BY <1>3, <1>4, <1>5, <1>6, <1>7, <1>8, <1>9, <1>10 DEF Next

(* The composed system implements the order service: the runtime APIs, the
   criteria and the blocks that are built restrict it, and add no behaviour. *)
THEOREM SystemRunsService == Spec => Service!Spec
<1>1. Init => ApiTyped /\ Service!Init
  <2> SUFFICES ASSUME Init PROVE ApiTyped
    BY DEF Init
  <2>1. StartWidth \in Widths /\ StartThreshold \in Thresholds
    BY SystemAssumption
  <2> QED
    BY <2>1 DEF Init, testnet_genesis, OnDemandRuntimeApi, AuraApi, ApiTyped, ApiType, AuraSets
<1>2. Service!Init => Service!TypeOK
    BY ServiceAssumes, PowersOfTwo, Service!ServiceTypedInit
<1>3. Service!TypeOK /\ [Service!Next]_(Service!vars) => Service!TypeOK'
    BY ServiceAssumes, PowersOfTwo, Service!ServiceTypedStep
<1> QED
    BY <1>1, <1>2, <1>3, SystemStepsService, ApiTypedStep, PTL DEF Spec, Service!Spec

-----------------------------------------------------------------------------
(* What the order service's invariants say about the relay chain. *)
ServiceInv == Service!TypeOK /\ Service!RecordInv /\ Service!TurnInv /\ Service!InclusionInv

LEMMA ServiceInvHolds == Spec => []ServiceInv
<1>1. Service!Spec => []Service!TypeOK
    BY ServiceAssumes, PowersOfTwo, Service!ServiceTyped
<1>2. Service!Spec => []Service!RecordInv
    BY ServiceAssumes, PowersOfTwo, Service!RecordInvHolds
<1>3. Service!Spec => []Service!TurnInv
    BY ServiceAssumes, PowersOfTwo, Service!TurnInvHolds
<1>4. Service!Spec => []Service!InclusionInv
    BY ServiceAssumes, PowersOfTwo, Service!InclusionInvHolds
<1> QED
    BY <1>1, <1>2, <1>3, <1>4, SystemRunsService, PTL DEF ServiceInv

(* Heights are heights of the pallet's, and every order is a node's. *)
LEMMA RelayFacts ==
    ASSUME ServiceInv
    PROVE  /\ Len(relay) \in Nat /\ DOMAIN relay = 1 .. Len(relay)
           /\ \A b \in DOMAIN relay :
                /\ relay[b].height \in Nat /\ relay[b].height \in Pallet!Heights
                /\ relay[b].height < 2^BITS
                /\ relay[b].orders \subseteq DOMAIN submitted
                /\ orders_placed(b) \subseteq Accounts
           /\ \A x \in DOMAIN submitted : submitted[x].by \in Nodes /\ submitted[x].width \in Nat
           /\ \A n \in Nodes : record[n].hash \in 0 .. Len(relay)
<1> USE DEF ServiceInv
<1>1. relay \in Seq(Service!BlockType) /\ Len(relay) \in 1 .. MaxBlocks
      /\ submitted \in Seq(Service!OrderType)
    BY DEF Service!TypeOK, Service!Blocks
<1>2. \A b \in DOMAIN relay : relay[b] \in Service!BlockType
    BY <1>1
<1>3. \A b \in DOMAIN relay : relay[b].height \in Nat
    BY <1>2 DEF Service!BlockType
<1>4. \A x \in DOMAIN submitted : submitted[x] \in Service!OrderType
    BY <1>1
<1>5. \A x \in DOMAIN submitted : submitted[x].by \in Nodes /\ submitted[x].width \in Nat
    BY <1>4 DEF Service!OrderType
<1>6. \A b \in DOMAIN relay : relay[b].orders \subseteq DOMAIN submitted
    BY DEF Service!InclusionInv, Service!IncludedInTime
<1>7. ASSUME NEW b \in DOMAIN relay
      PROVE  relay[b].height \in Pallet!Heights /\ relay[b].height < 2^BITS
  <2> DEFINE k == MaxSkipped + 1
  <2>1. /\ k \in Nat /\ StartHeight \in Nat /\ MaxHeight \in Nat /\ MaxBlocks \in Nat
        /\ StartHeight + (MaxBlocks - 1) * k <= MaxHeight /\ MaxHeight < 2^BITS
    BY SystemAssumption
  <2>2. relay[b].height <= StartHeight + (b - 1) * k
    BY DEF Service!InclusionInv, Service!HeightsBounded
  <2>3. b - 1 \in Nat /\ MaxBlocks - 1 \in Nat /\ b - 1 <= MaxBlocks - 1
    BY <1>1, <2>1
  <2> HIDE DEF k
  <2>4. (b - 1) * k <= (MaxBlocks - 1) * k
    <3> DEFINE p == b - 1
               q == MaxBlocks - 1
    <3> HIDE DEF p, q
    <3>1. p \in Nat /\ q \in Nat /\ p <= q
      BY <2>3 DEF p, q
    <3>2. p * k <= q * k
      BY <2>1, <3>1, Z3
    <3> QED
      BY <3>2 DEF p, q
  <2>5. (b - 1) * k \in Nat /\ (MaxBlocks - 1) * k \in Nat
    BY <2>1, <2>3
  <2>6. relay[b].height <= MaxHeight /\ relay[b].height \in Nat
    BY <1>3, <2>1, <2>2, <2>4, <2>5
  <2>7. 2^BITS \in Nat
    BY BitsAssumption, PowersOfTwo
  <2> QED
    BY <2>1, <2>6, <2>7 DEF Pallet!Heights
<1>8. ASSUME NEW b \in DOMAIN relay PROVE orders_placed(b) \subseteq Accounts
    BY <1>5, <1>6, SystemAssumption DEF orders_placed, signer
<1>9. \A n \in Nodes : record[n].hash \in 0 .. Len(relay)
    BY DEF Service!TypeOK, Service!RecordType, Service!Best
<1> QED
    BY <1>1, <1>3, <1>5, <1>6, <1>7, <1>8, <1>9

(* What a block shows create_order is data of the form the pallet expects. *)
LEMMA OfferIsData ==
    ASSUME ServiceInv, NEW b \in 0 .. Len(relay)
    PROVE  OrderInherentData(b) \in Pallet!InherentData \union {Pallet!NoData}
<1>1. CASE b = 0
    BY <1>1 DEF OrderInherentData
<1>2. CASE b \in DOMAIN relay
  <2>1. relay[b].height \in Pallet!Heights /\ orders_placed(b) \in SUBSET Accounts
    BY <1>2, RelayFacts
  <2>2. b # 0
    BY <1>2, RelayFacts
  <2> QED
    BY <2>1, <2>2 DEF OrderInherentData, Pallet!InherentData
<1> QED
    BY <1>1, <1>2, RelayFacts

(* Every step of the system is one of the pallet's runtime, or leaves it alone. *)
LEMMA SystemStepsPallet ==
    ASSUME ServiceInv, offer \in 0 .. Len(relay), [Next]_vars
    PROVE  [Pallet!Next]_(Pallet!vars)
<1>1. ASSUME UNCHANGED chainVars PROVE UNCHANGED Pallet!vars
    BY <1>1 DEF chainVars, Pallet!vars, Pallet!configVars, Pallet!sessionVars, Pallet!rewardVars
<1>2. CASE RelayBlock
    BY <1>1, <1>2 DEF RelayBlock
<1>3. CASE Include
    BY <1>1, <1>3 DEF Include
<1>4. ASSUME NEW n \in Nodes, NodeStep(n) \/ AuthorNoBlock(n) PROVE UNCHANGED Pallet!vars
    BY <1>1, <1>4 DEF NodeStep, AuthorNoBlock
<1>5. ASSUME NEW n \in Nodes, AuthorBlock(n) PROVE Pallet!Next
    BY <1>5 DEF AuthorBlock, Pallet!Next
<1>6. CASE CreateOrder
    BY <1>6, OfferIsData DEF CreateOrder, Pallet!Next
<1>7. CASE AdminCall
    BY <1>7 DEF AdminCall, Pallet!Next
<1>8. CASE FinalizeBlock
    BY <1>8 DEF FinalizeBlock, Pallet!Next
<1>9. CASE UNCHANGED vars
    BY <1>1, <1>9 DEF vars
<1> QED
    BY <1>2, <1>3, <1>4, <1>5, <1>6, <1>7, <1>8, <1>9 DEF Next

-----------------------------------------------------------------------------
(* What create_order does in the system: it settles nothing, or an order of the
   relay block that the block shows, for a slot beyond the latch. *)
Claim == [block : 1 .. Len(relay), width : Widths]

ClaimStep ==
    \E r \in Pallet!Settled :
        /\ offer \in DOMAIN relay
        /\ rewards' = Append(rewards, r)
        /\ r.to \in orders_placed(offer)
        /\ r.height = relay[offer].height
        /\ Pallet!slot_at(r.height) > previousSlot
        /\ claims' = Append(claims, [block |-> offer, width |-> slotWidth])

LEMMA CreateOrderClaims ==
    ASSUME ServiceInv, Pallet!TypeOK, offer \in 0 .. Len(relay), CreateOrder
    PROVE  ClaimStep \/ UNCHANGED <<rewards, claims>>
<1> DEFINE data == OrderInherentData(offer)
<1>1. data \in Pallet!InherentData \union {Pallet!NoData}
    BY OfferIsData
<1>2. Pallet!create_order(data)
    BY DEF CreateOrder
<1>3. CASE UNCHANGED Pallet!rewardVars
    BY <1>3 DEF Pallet!rewardVars, CreateOrder
<1>4. ASSUME NEW minted \in BOOLEAN, Pallet!Settles(data),
             Pallet!reward(data), Pallet!advance(data, minted)
      PROVE  ClaimStep
  <2>1. offer # 0
    BY <1>4 DEF OrderInherentData, Pallet!NoData, Pallet!Settles
  <2>2. data.relay_height = relay[offer].height /\ data.ordered_by = orders_placed(offer)
    BY <2>1 DEF OrderInherentData
  <2>3. offer \in DOMAIN relay
    BY <2>1, RelayFacts
  <2> HIDE DEF data
  <2>4. PICK r \in Pallet!Settled :
            /\ r.height = data.relay_height
            /\ r.to = keyOwner[Pallet!order_placer_at(data.relay_height)]
            /\ rewards' = Append(rewards, r)
    BY <1>1, <1>4, PalletAssumes, ServiceAssumes, PowersOfTwo, Pallet!RewardIsTyped
  <2>5. r.to \in data.ordered_by
    BY <1>4, <2>4 DEF Pallet!Settles, Pallet!PlacerOrdered
  <2>6. Pallet!slot_at(r.height) > previousSlot
    <3>1. ~(Pallet!slot_at(r.height) <= previousSlot)
      BY <1>4, <2>4 DEF Pallet!Settles, Pallet!AlreadySettled
    <3>2. r.height \in Pallet!Heights
      BY <2>4 DEF Pallet!Settled
    <3>3. Pallet!slot_at(r.height) \in Nat /\ previousSlot \in Nat
      BY <3>2, PalletAssumes, ServiceAssumes, PowersOfTwo, Pallet!SlotAtIsNat DEF Pallet!TypeOK
    <3> QED
      BY <3>1, <3>3
  <2>7. rewards' # rewards
    <3>1. rewards \in Seq(Pallet!Settled)
      BY DEF Pallet!TypeOK, Pallet!Settled
    <3>2. Len(rewards') = Len(rewards) + 1 /\ Len(rewards) \in Nat
      BY <2>4, <3>1
    <3> QED
      BY <3>2
  <2>8. claims' = Append(claims, [block |-> offer, width |-> slotWidth])
    BY <2>7 DEF CreateOrder
  <2> QED
    BY <2>2, <2>3, <2>4, <2>5, <2>6, <2>8 DEF ClaimStep
<1> QED
    BY <1>2, <1>3, <1>4 DEF Pallet!create_order

(* No other step changes what was settled. *)
LEMMA OnlyCreateOrderClaims ==
    ASSUME [Next]_vars, ~CreateOrder
    PROVE  UNCHANGED <<rewards, claims, previousSlot>>
<1>1. ASSUME UNCHANGED <<chainVars, linkVars>> PROVE UNCHANGED <<rewards, claims, previousSlot>>
    BY <1>1 DEF chainVars, linkVars
<1>2. CASE RelayBlock
    BY <1>1, <1>2 DEF RelayBlock
<1>3. CASE Include
    BY <1>3 DEF Include, chainVars
<1>4. ASSUME NEW n \in Nodes, NodeStep(n) \/ AuthorNoBlock(n)
      PROVE  UNCHANGED <<rewards, claims, previousSlot>>
    BY <1>1, <1>4 DEF NodeStep, AuthorNoBlock
<1>5. ASSUME NEW n \in Nodes, AuthorBlock(n) PROVE UNCHANGED <<rewards, claims, previousSlot>>
    BY <1>5 DEF AuthorBlock, Pallet!OpenBlock, Pallet!rewardVars
<1>6. CASE AdminCall
    BY <1>6 DEF AdminCall, Pallet!set_slot_width, Pallet!set_threshold_parameter,
                Pallet!set_bulk_mode, Pallet!rewardVars
<1>7. CASE FinalizeBlock
    BY <1>7 DEF FinalizeBlock, Pallet!on_finalize, Pallet!rewardVars
<1>8. CASE UNCHANGED vars
    BY <1>1, <1>8 DEF vars
<1> QED
    BY <1>2, <1>3, <1>4, <1>5, <1>6, <1>7, <1>8 DEF Next

(* The relay chain only grows, and so do the orders that were sent. *)
LEMMA ChainGrows ==
    ASSUME ServiceInv, [Service!Next]_(Service!vars)
    PROVE  /\ Len(relay) \in Nat /\ Len(relay') \in Nat /\ Len(relay) <= Len(relay')
           /\ \A b \in DOMAIN relay : b \in DOMAIN relay' /\ relay'[b] = relay[b]
           /\ \A x \in DOMAIN submitted : x \in DOMAIN submitted' /\ submitted'[x] = submitted[x]
<1>1. relay \in Seq(Service!BlockType) /\ submitted \in Seq(Service!OrderType)
    BY DEF ServiceInv, Service!TypeOK
<1>2. ASSUME NEW blk, relay' = Append(relay, blk), submitted' = submitted
      PROVE  /\ Len(relay) \in Nat /\ Len(relay') \in Nat /\ Len(relay) <= Len(relay')
             /\ \A b \in DOMAIN relay : b \in DOMAIN relay' /\ relay'[b] = relay[b]
             /\ \A x \in DOMAIN submitted : x \in DOMAIN submitted' /\ submitted'[x] = submitted[x]
    BY <1>1, <1>2
<1>3. ASSUME relay' = relay, NEW order, submitted' = Append(submitted, order)
      PROVE  /\ Len(relay) \in Nat /\ Len(relay') \in Nat /\ Len(relay) <= Len(relay')
             /\ \A b \in DOMAIN relay : b \in DOMAIN relay' /\ relay'[b] = relay[b]
             /\ \A x \in DOMAIN submitted : x \in DOMAIN submitted' /\ submitted'[x] = submitted[x]
    BY <1>1, <1>3
<1>4. CASE relay' = relay /\ submitted' = submitted
    BY <1>1, <1>4
<1>5. CASE Service!RelayNext
    BY <1>2, <1>5 DEF Service!RelayNext, Service!NewBest
<1>6. ASSUME NEW n \in Nodes, Service!SubmitOrder(n)
      PROVE  relay' = relay /\ \E order : submitted' = Append(submitted, order)
    BY <1>6 DEF Service!SubmitOrder
<1>7. ASSUME NEW n \in Nodes, Service!NodeNext(n), ~Service!SubmitOrder(n)
      PROVE  relay' = relay /\ submitted' = submitted
    BY <1>7 DEF Service!NodeNext, Service!FollowHead, Service!FollowReturn, Service!FollowDecide,
                Service!FollowCommit, Service!FollowFail, Service!EventNext, Service!EventRecord,
                Service!EventReconnect, Service!AuthorStart, Service!AuthorLock,
                Service!AuthorDone, Service!Restart, Service!relayVars
<1>8. CASE UNCHANGED Service!vars
    BY <1>4, <1>8 DEF Service!vars, Service!relayVars
<1> QED
    BY <1>3, <1>4, <1>5, <1>6, <1>7, <1>8 DEF Service!Next

-----------------------------------------------------------------------------
(* A block is under way only while no other one waits for its inclusion. *)
OneBlockAtATime == phase # "idle" => unincluded = 0

LinkInv == ApiTyped /\ Pallet!TypeOK /\ TypeOK /\ OneBlockAtATime

LEMMA UnincludedStep ==
    ASSUME LinkInv, [Next]_vars
    PROVE  /\ unincluded' \in 0 .. UNINCLUDED_SEGMENT_CAPACITY
           /\ OneBlockAtATime'
           /\ adminCalls' \in 0 .. MaxAdminCalls
<1> USE DEF LinkInv, OneBlockAtATime
<1>1. /\ unincluded \in 0 .. 1 /\ UNINCLUDED_SEGMENT_CAPACITY = 1
      /\ adminCalls \in 0 .. MaxAdminCalls /\ MaxAdminCalls \in Nat
    BY SystemAssumption DEF TypeOK, UNINCLUDED_SEGMENT_CAPACITY
<1>2. CASE UNCHANGED <<phase, unincluded, adminCalls>>
    BY <1>1, <1>2
<1>3. CASE Include
    BY <1>1, <1>3 DEF Include, chainVars
<1>4. ASSUME NEW n \in Nodes, AuthorBlock(n)
      PROVE  unincluded = 0 /\ UNCHANGED <<unincluded, adminCalls>>
    BY <1>1, <1>4 DEF AuthorBlock, can_build_upon
<1>5. CASE CreateOrder
    BY <1>1, <1>5 DEF CreateOrder, Pallet!create_order
<1>6. CASE AdminCall
  <2>1. UNCHANGED <<phase, unincluded>>
    BY <1>6 DEF AdminCall, Pallet!set_slot_width, Pallet!set_threshold_parameter,
                Pallet!set_bulk_mode
  <2>2. adminCalls < MaxAdminCalls /\ adminCalls' = adminCalls + 1
    BY <1>6 DEF AdminCall
  <2> QED
    BY <1>1, <2>1, <2>2
<1>7. CASE FinalizeBlock
    BY <1>1, <1>7 DEF FinalizeBlock, Pallet!on_finalize
<1>8. CASE UNCHANGED <<chainVars, linkVars>>
    BY <1>2, <1>8 DEF chainVars, linkVars
<1> QED
    BY <1>1, <1>3, <1>4, <1>5, <1>6, <1>7, <1>8
    DEF Next, RelayBlock, NodeStep, AuthorNoBlock, vars

LEMMA OfferStep ==
    ASSUME ServiceInv, ServiceInv', LinkInv, [Next]_vars
    PROVE  offer' \in 0 .. Len(relay')
<1>1. Len(relay) \in Nat /\ Len(relay') \in Nat /\ Len(relay) <= Len(relay')
    BY SystemStepsService, ChainGrows DEF ServiceInv, LinkInv
<1>2. offer \in 0 .. Len(relay)
    BY DEF LinkInv, TypeOK
<1>3. ASSUME NEW n \in Nodes, AuthorBlock(n) PROVE offer' \in 0 .. Len(relay)
    BY <1>3, RelayFacts DEF AuthorBlock
<1>4. ASSUME ~\E n \in Nodes : AuthorBlock(n) PROVE offer' = offer
    BY <1>4 DEF Next, RelayBlock, Include, NodeStep, AuthorNoBlock, CreateOrder, AdminCall,
                FinalizeBlock, vars, linkVars
<1> QED
    BY <1>1, <1>2, <1>3, <1>4

LEMMA ClaimsStep ==
    ASSUME ServiceInv, LinkInv, [Next]_vars
    PROVE  /\ claims' \in Seq([block : 1 .. Len(relay'), width : Widths])
           /\ Len(claims') = Len(rewards')
<1>1. Len(relay) \in Nat /\ Len(relay') \in Nat /\ Len(relay) <= Len(relay')
    BY SystemStepsService, ChainGrows DEF ServiceInv, LinkInv
<1>2. Claim \subseteq [block : 1 .. Len(relay'), width : Widths]
    BY <1>1 DEF Claim
<1>3. claims \in Seq(Claim) /\ Len(claims) = Len(rewards) /\ rewards \in Seq(Pallet!Settled)
    BY DEF LinkInv, TypeOK, Claim, Pallet!TypeOK, Pallet!Settled
<1>4. claims' \in Seq(Claim) /\ Len(claims') = Len(rewards')
  <2>1. CASE UNCHANGED <<rewards, claims>>
    BY <1>3, <2>1
  <2>2. CASE ClaimStep
    <3>1. PICK r \in Pallet!Settled : rewards' = Append(rewards, r)
      BY <2>2 DEF ClaimStep
    <3>2. [block |-> offer, width |-> slotWidth] \in Claim
      BY <2>2, RelayFacts DEF ClaimStep, Claim, LinkInv, ApiTyped
    <3>3. claims' = Append(claims, [block |-> offer, width |-> slotWidth])
      BY <2>2 DEF ClaimStep
    <3> QED
      BY <1>3, <3>1, <3>2, <3>3
  <2> QED
    BY <2>1, <2>2, CreateOrderClaims, OnlyCreateOrderClaims DEF LinkInv, TypeOK
<1>5. \A S, T : S \subseteq T => Seq(S) \subseteq Seq(T)
    OBVIOUS
<1> QED
    BY <1>2, <1>4, <1>5

LEMMA LinkInvHolds == Spec => []LinkInv
<1>1. Init => LinkInv
  <2> SUFFICES ASSUME Init PROVE LinkInv
    OBVIOUS
  <2>1. ApiTyped
    BY SystemAssumption
    DEF Init, testnet_genesis, OnDemandRuntimeApi, AuraApi, ApiTyped, ApiType, AuraSets
  <2>2. Pallet!TypeOK
    <3>1. /\ GenesisAuthorities \in Seq(Keys)
          /\ GenesisKeyOwner \in [Keys -> Accounts \union {NoAccount}]
          /\ StartWidth \in Widths /\ StartThreshold \in Thresholds
      BY SystemAssumption
    <3>2. rewards \in Seq(Pallet!Settled)
      BY DEF Init, testnet_genesis
    <3>3. parent \in [width : Widths, authorities : Seq(Keys)]
      BY <3>1 DEF Init
    <3>4. /\ authorities \in Seq(Keys) /\ auraAuthorities \in Seq(Keys)
          /\ keyOwner \in [Keys -> Accounts \union {NoAccount}]
      BY <3>1 DEF Init, testnet_genesis
    <3>5. /\ slotWidth \in Widths /\ thresholdParameter \in Thresholds /\ bulkMode \in BOOLEAN
          /\ previousSlot \in Nat
          /\ phase \in {"idle", "inherents", "extrinsics"} /\ blockFees \in Nat
          /\ moves \subseteq {"narrower", "wider"}
      BY <3>1 DEF Init, testnet_genesis
    <3> QED
      BY <3>2, <3>3, <3>4, <3>5 DEF Pallet!TypeOK, Pallet!Settled
  <2>3. Len(relay) = 1
    BY DEF Init, Service!Init
  <2>4. TypeOK
    BY <2>1, <2>3, SystemAssumption
    DEF Init, testnet_genesis, ApiTyped, TypeOK, UNINCLUDED_SEGMENT_CAPACITY
  <2>5. OneBlockAtATime
    BY DEF Init, OneBlockAtATime
  <2> QED
    BY <2>1, <2>2, <2>4, <2>5 DEF LinkInv
<1>2. ServiceInv /\ ServiceInv' /\ LinkInv /\ [Next]_vars => LinkInv'
  <2> SUFFICES ASSUME ServiceInv, ServiceInv', LinkInv, [Next]_vars PROVE LinkInv'
    OBVIOUS
  <2>1. ApiTyped'
    BY ApiTypedStep DEF LinkInv
  <2>2. [Pallet!Next]_(Pallet!vars)
    BY SystemStepsPallet DEF LinkInv, TypeOK
  <2>3. Pallet!TypeOK'
    BY <2>2, PalletAssumes, ServiceAssumes, PowersOfTwo, Pallet!PalletTypedStep DEF LinkInv
  <2>4. TypeOK'
    BY <2>1, UnincludedStep, OfferStep, ClaimsStep DEF TypeOK, ApiTyped
  <2> QED
    BY <2>1, <2>3, <2>4, UnincludedStep DEF LinkInv
<1> QED
    BY <1>1, <1>2, ServiceInvHolds, PTL DEF Spec

(* What goes between the nodes and the pallet is well typed: in particular a
   block shows a relay block that exists, every reward has its claim, and no
   more blocks are authored on a head than the unincluded segment holds. *)
THEOREM SystemTyped == Spec => []TypeOK
<1>1. LinkInv => TypeOK
    BY DEF LinkInv
<1> QED
    BY <1>1, LinkInvHolds, PTL

(* The composed system takes no step that the pallet alone could not take: the
   inherent data that nodes make is data it was proved about. *)
THEOREM SystemRunsPallet == Spec => [][Pallet!Next]_(Pallet!vars)
<1>1. ServiceInv /\ LinkInv /\ [Next]_vars => [Pallet!Next]_(Pallet!vars)
    BY SystemStepsPallet DEF LinkInv, TypeOK
<1> QED
    BY <1>1, ServiceInvHolds, LinkInvHolds, PTL DEF Spec

-----------------------------------------------------------------------------
(* What was claimed stays what it was: a claim's relay block, with its orders
   and who signed them, and the reward for it. *)
LEMMA ClaimsStay ==
    ASSUME ServiceInv, LinkInv, [Next]_vars, NEW i \in 1 .. Len(claims)
    PROVE  /\ i \in 1 .. Len(claims') /\ claims'[i] = claims[i]
           /\ i \in 1 .. Len(rewards) /\ rewards'[i] = rewards[i]
           /\ claims[i] \in Claim /\ claims[i].block \in DOMAIN relay /\ claims[i].width \in Nat
           /\ rewards[i] \in Pallet!Settled /\ rewards[i].height \in Nat
           /\ relay'[claims[i].block] = relay[claims[i].block]
<1>1. claims \in Seq(Claim) /\ Len(claims) = Len(rewards) /\ rewards \in Seq(Pallet!Settled)
    BY DEF LinkInv, TypeOK, Claim, Pallet!TypeOK, Pallet!Settled
<1>2. claims[i] \in Claim /\ i \in 1 .. Len(rewards) /\ rewards[i] \in Pallet!Settled
    BY <1>1
<1>3. claims[i].block \in DOMAIN relay /\ claims[i].width \in Nat
    BY <1>2, RelayFacts, PalletAssumes DEF Claim
<1>4. rewards[i].height \in Nat
    BY <1>2, PalletAssumes DEF Pallet!Settled, Pallet!Heights
<1>5. relay'[claims[i].block] = relay[claims[i].block]
    BY <1>3, SystemStepsService, ChainGrows DEF ServiceInv, LinkInv
<1>6. i \in 1 .. Len(claims') /\ claims'[i] = claims[i] /\ rewards'[i] = rewards[i]
  <2>1. CASE UNCHANGED <<rewards, claims>>
    BY <2>1
  <2>2. CASE ClaimStep
    <3>1. PICK r : rewards' = Append(rewards, r)
      BY <2>2 DEF ClaimStep
    <3>2. PICK c : claims' = Append(claims, c)
      BY <2>2 DEF ClaimStep
    <3> QED
      BY <1>1, <1>2, <3>1, <3>2
  <2> QED
    BY <2>1, <2>2, CreateOrderClaims, OnlyCreateOrderClaims DEF LinkInv, TypeOK
<1> QED
    BY <1>2, <1>3, <1>4, <1>5, <1>6

(* A step adds no claim, or one for a block that exists. *)
LEMMA NewClaim ==
    ASSUME ServiceInv, LinkInv, [Next]_vars
    PROVE  \/ UNCHANGED <<rewards, claims>>
           \/ /\ CreateOrder /\ ClaimStep
              /\ Len(claims') = Len(claims) + 1 /\ Len(claims) \in Nat
              /\ claims'[Len(claims')] = [block |-> offer, width |-> slotWidth]
              /\ rewards'[Len(claims')].to \in orders_placed(offer)
              /\ rewards'[Len(claims')].height = relay[offer].height
              /\ Pallet!slot_at(relay[offer].height) > previousSlot
<1>1. claims \in Seq(Claim) /\ Len(claims) = Len(rewards) /\ rewards \in Seq(Pallet!Settled)
    BY DEF LinkInv, TypeOK, Claim, Pallet!TypeOK, Pallet!Settled
<1>2. CASE CreateOrder /\ ClaimStep
  <2>1. PICK r \in Pallet!Settled : /\ rewards' = Append(rewards, r)
                                    /\ r.to \in orders_placed(offer)
                                    /\ r.height = relay[offer].height
                                    /\ Pallet!slot_at(r.height) > previousSlot
    BY <1>2 DEF ClaimStep
  <2>2. claims' = Append(claims, [block |-> offer, width |-> slotWidth])
    BY <1>2 DEF ClaimStep
  <2>3. /\ Len(claims') = Len(claims) + 1 /\ Len(claims) \in Nat
        /\ claims'[Len(claims')] = [block |-> offer, width |-> slotWidth]
    BY <1>1, <2>2
  <2>4. rewards'[Len(claims')] = r
    BY <1>1, <2>1, <2>3
  <2> QED
    BY <1>2, <2>1, <2>3, <2>4
<1> QED
    BY <1>2, CreateOrderClaims, OnlyCreateOrderClaims DEF LinkInv, TypeOK

LEMMA EarnedStep ==
    ASSUME ServiceInv, LinkInv, RewardsAreEarned, [Next]_vars
    PROVE  RewardsAreEarned'
<1>1. ASSUME NEW b \in DOMAIN relay PROVE orders_placed(b)' = orders_placed(b)
  <2>1. relay'[b] = relay[b] /\ \A x \in relay[b].orders : submitted'[x] = submitted[x]
    BY SystemStepsService, ChainGrows, RelayFacts DEF ServiceInv, LinkInv
  <2> QED
    BY <2>1 DEF orders_placed, signer
<1>2. ASSUME NEW i \in 1 .. Len(claims), NEW b, b = claims'[i].block
      PROVE  rewards'[i].to \in orders_placed(b)'
  <2>1. rewards[i].to \in orders_placed(claims[i].block)
    BY DEF RewardsAreEarned
  <2>2. b = claims[i].block /\ b \in DOMAIN relay /\ rewards'[i] = rewards[i]
    BY <1>2, ClaimsStay
  <2> QED
    BY <1>1, <2>1, <2>2
<1>3. ASSUME NEW i \in 1 .. Len(claims'), NEW b, b = claims'[i].block
      PROVE  rewards'[i].to \in orders_placed(b)'
  <2>1. CASE UNCHANGED <<rewards, claims>>
    BY <1>2, <1>3, <2>1
  <2>2. CASE ClaimStep /\ ~UNCHANGED <<rewards, claims>>
    <3>1. /\ Len(claims') = Len(claims) + 1 /\ Len(claims) \in Nat
          /\ claims'[Len(claims')] = [block |-> offer, width |-> slotWidth]
          /\ rewards'[Len(claims')].to \in orders_placed(offer)
      BY <2>2, NewClaim
    <3>2. CASE i \in 1 .. Len(claims)
      BY <1>2, <1>3, <3>2
    <3>3. CASE i = Len(claims')
      <4>1. b = offer /\ offer \in DOMAIN relay
        BY <1>3, <2>2, <3>1, <3>3 DEF ClaimStep
      <4> QED
        BY <1>1, <3>1, <3>3, <4>1
    <3> QED
      BY <3>1, <3>2, <3>3
  <2> QED
    BY <2>1, <2>2, NewClaim
<1>4. \A i \in 1 .. Len(claims') : \A b :
        b = claims'[i].block => rewards'[i].to \in orders_placed(b)'
    BY <1>3
<1> QED
    BY <1>4 DEF RewardsAreEarned

(* Nobody is paid who did not order: the account that a reward went to signed
   an order which the relay block shown to create_order includes, whatever the
   relay chain, the nodes, the sessions and the admin did since. *)
THEOREM RewardsWereEarned == Spec => []RewardsAreEarned
<1>1. Init => RewardsAreEarned
    BY DEF Init, RewardsAreEarned
<1>2. ServiceInv /\ LinkInv /\ RewardsAreEarned /\ [Next]_vars => RewardsAreEarned'
    BY EarnedStep
<1> QED
    BY <1>1, <1>2, ServiceInvHolds, LinkInvHolds, PTL DEF Spec

-----------------------------------------------------------------------------
(* Both components count slots and turns alike. *)
LEMMA ServiceSlots ==
    ASSUME NEW set, NEW h, NEW w
    PROVE  /\ Service!first_block_in_slot(h, w) = first_block_in_slot(h, w)
           /\ Service!Death(h, w) = Death(h, w)
           /\ Service!order_placer(set, h, w) = order_placer(set, h, w)
<1>1. Service!current_slot(h, w) = current_slot(h, w)
    BY DEF Service!current_slot, Service!Shr, current_slot, Shr
<1>2. Service!first_block_in_slot(h, w) = first_block_in_slot(h, w)
    BY <1>1 DEF Service!first_block_in_slot, Service!Shl, first_block_in_slot, Shl
<1>3. Service!mortality(w) = mortality(w)
    BY DEF Service!mortality, Service!Shl, mortality, Shl
<1>4. Service!Death(h, w) = Death(h, w)
    BY <1>2, <1>3 DEF Service!Death, Service!EraPeriod, Death, EraPeriod
<1> QED
    BY <1>1, <1>2, <1>4 DEF Service!order_placer, order_placer

LEMMA PalletSlots ==
    ASSUME NEW h
    PROVE  /\ Pallet!slot_at(h) = current_slot(h, slotWidth)
           /\ Pallet!order_placer_at(h) = order_placer(authorities, h, slotWidth)
<1>1. Pallet!current_slot(h, slotWidth) = current_slot(h, slotWidth)
    BY DEF Pallet!current_slot, Pallet!Shr, current_slot, Shr
<1> QED
    BY <1>1 DEF Pallet!slot_at, Pallet!order_placer_at, Pallet!order_placer, order_placer

(* An order is included in the slot that the node read before it ordered: it
   is mortal from the slot's first block, and lives no longer than the slot. *)
LEMMA OrderInItsSlot ==
    ASSUME ServiceInv, NEW b \in DOMAIN relay, NEW x \in relay[b].orders,
           mortality(submitted[x].width) >= 4
    PROVE  /\ submitted[x].width \in Nat /\ submitted[x].head \in DOMAIN relay
           /\ relay[b].height \in Nat /\ relay[submitted[x].head].height \in Nat
           /\ submitted[x].width = relay[submitted[x].head].view.width
           /\ current_slot(relay[b].height, submitted[x].width)
                = current_slot(relay[submitted[x].head].height, submitted[x].width)
           /\ Service!Responsible(submitted[x].by, submitted[x].head)
<1>1. x \in DOMAIN submitted /\ submitted[x].width \in Nat /\ relay[b].height \in Nat
    BY RelayFacts
<1>2. submitted[x].birth < relay[b].height /\ relay[b].height < submitted[x].death
    BY DEF ServiceInv, Service!InclusionInv, Service!IncludedInTime
<1> DEFINE a == submitted[x].head
           n == submitted[x].by
<1>3. a \in DOMAIN relay /\ submitted[x] = Service!Order(n, a) /\ Service!Responsible(n, a)
    BY <1>1 DEF ServiceInv, Service!TurnInv, Service!OrdersOnTurn
<1> HIDE DEF a, n
<1>4. relay[a].height \in Nat /\ relay[a].height < 2^BITS
    BY <1>3, RelayFacts
<1>5. /\ Service!Order(n, a).width = relay[a].view.width
      /\ Service!Order(n, a).birth = first_block_in_slot(relay[a].height, relay[a].view.width)
      /\ Service!Order(n, a).death = Death(relay[a].height, relay[a].view.width)
    BY ServiceSlots DEF Service!Order, Service!View
<1>6. /\ submitted[x].width = relay[a].view.width
      /\ submitted[x].birth = first_block_in_slot(relay[a].height, submitted[x].width)
      /\ submitted[x].death = Death(relay[a].height, submitted[x].width)
    BY <1>3, <1>5
<1>7. current_slot(relay[b].height, submitted[x].width)
        = current_slot(relay[a].height, submitted[x].width)
    BY <1>1, <1>2, <1>4, <1>6, LifetimeIsSlot
<1> QED
    BY <1>1, <1>3, <1>4, <1>6, <1>7 DEF a, n

(* The order service and the pallet hold the same collator to be on turn: who
   ordered for a slot has the key that order_placer_at names at whichever block
   includes the order, as long as the pallet has the width and the Aura set
   that the node read. *)
THEOREM SchedulesAgree == Spec => []ScheduleAgrees
<1>1. ServiceInv => ScheduleAgrees
  <2> SUFFICES ASSUME ServiceInv, NEW b \in DOMAIN relay, NEW x \in relay[b].orders,
                      mortality(submitted[x].width) >= 4,
                      slotWidth = submitted[x].width,
                      authorities = relay[submitted[x].head].view.authorities
               PROVE  Pallet!order_placer_at(relay[b].height) \in Keystore[submitted[x].by]
    BY DEF ScheduleAgrees
  <2> DEFINE a == submitted[x].head
  <2>1. /\ slotWidth = relay[a].view.width
        /\ current_slot(relay[b].height, slotWidth) = current_slot(relay[a].height, slotWidth)
        /\ Service!Responsible(submitted[x].by, a)
    BY OrderInItsSlot
  <2>2. order_placer(authorities, relay[b].height, slotWidth)
          = order_placer(authorities, relay[a].height, slotWidth)
    BY <2>1 DEF order_placer
  <2>3. order_placer(authorities, relay[a].height, slotWidth) \in Keystore[submitted[x].by]
    BY <2>1, ServiceSlots DEF Service!Responsible, Service!View
  <2> QED
    BY <2>2, <2>3, PalletSlots
<1> QED
    BY <1>1, ServiceInvHolds, PTL

-----------------------------------------------------------------------------
(* The history of the claims.  Every claim is settled at the height of its
   relay block, *)
ClaimHeights ==
    \A i \in 1 .. Len(claims) : rewards[i].height = relay[claims[i].block].height

(* while no slot was narrowed the widths grow, up to the present one, *)
WidthsGrow ==
    \A i \in 1 .. Len(claims) : claims[i].width % BITS <= slotWidth % BITS

(* and a claim is for a later slot than every claim before it, in the width
   that the later one was settled with. *)
Before(i, j) ==
    /\ claims[i].width % BITS <= claims[j].width % BITS
    /\ current_slot(rewards[i].height, claims[j].width)
         < current_slot(rewards[j].height, claims[j].width)

ClaimsApart == \A i, j \in 1 .. Len(claims) : i < j => Before(i, j)

ClaimInv == ClaimHeights /\ ("narrower" \notin moves => WidthsGrow /\ ClaimsApart)

(* A step that settles nothing keeps it: a new width is no narrower. *)
LEMMA ClaimInvStable ==
    ASSUME ServiceInv, LinkInv, ClaimInv, [Next]_vars, UNCHANGED <<rewards, claims>>
    PROVE  ClaimInv'
<1>1. ClaimHeights'
    BY ClaimsStay DEF ClaimInv, ClaimHeights
<1>2. ASSUME "narrower" \notin moves' PROVE "narrower" \notin moves /\ WidthsGrow /\ ClaimsApart
  <2>1. [Pallet!Next]_(Pallet!vars)
    BY SystemStepsPallet DEF LinkInv, TypeOK
  <2>2. moves \subseteq moves'
    BY <2>1, PalletAssumes, ServiceAssumes, PowersOfTwo, Pallet!MovesStay
  <2> QED
    BY <1>2, <2>2 DEF ClaimInv
<1>3. ASSUME "narrower" \notin moves' PROVE ClaimsApart'
  <2>1. ClaimsApart
    BY <1>2, <1>3
  <2> QED
    BY <2>1 DEF ClaimsApart, Before
<1>4. ASSUME "narrower" \notin moves', NEW i \in 1 .. Len(claims)
      PROVE  claims[i].width % BITS <= slotWidth' % BITS
  <2>1. claims[i].width % BITS <= slotWidth % BITS
    BY <1>2, <1>4 DEF WidthsGrow
  <2>2. CASE slotWidth' = slotWidth
    BY <2>1, <2>2
  <2>3. ASSUME NEW width \in Widths, Pallet!set_slot_width(width)
        PROVE  claims[i].width % BITS <= slotWidth' % BITS
    <3>1. slotWidth' = width /\ moves' = moves \union Pallet!Move(slotWidth, width)
      BY <2>3 DEF Pallet!set_slot_width
    <3>2. rewards # <<>>
      BY <1>4, ClaimsStay
    <3>3. ~(width % BITS < slotWidth % BITS)
      BY <1>4, <3>1, <3>2 DEF Pallet!Move
    <3>4. width \in Nat /\ slotWidth \in Nat /\ claims[i].width \in Nat /\ BITS \in Nat \ {0}
      BY <1>4, ClaimsStay, PalletAssumes, ServiceAssumes DEF LinkInv, ApiTyped
    <3>5. /\ width % BITS \in Nat /\ slotWidth % BITS \in Nat
          /\ claims[i].width % BITS \in Nat
      BY <3>4
    <3> QED
      BY <2>1, <3>1, <3>3, <3>5
  <2>4. slotWidth' = slotWidth \/ \E width \in Widths : Pallet!set_slot_width(width)
    <3>1. [Pallet!Next]_(Pallet!vars)
      BY SystemStepsPallet DEF LinkInv, TypeOK
    <3> QED
      BY <3>1 DEF Pallet!Next, Pallet!OpenBlock, Pallet!create_order,
                  Pallet!set_threshold_parameter, Pallet!set_bulk_mode,
                  Pallet!UserTransaction, Pallet!SetKeys, Pallet!PurgeKeys,
                  Pallet!on_finalize, Pallet!vars, Pallet!configVars
  <2> QED
    BY <2>2, <2>3, <2>4
<1>5. ASSUME "narrower" \notin moves' PROVE WidthsGrow'
    BY <1>4, <1>5 DEF WidthsGrow
<1> QED
    BY <1>1, <1>3, <1>5 DEF ClaimInv

(* A new claim is for a slot beyond the latch, and every claim before it is at
   or below the latch. *)
LEMMA ClaimInvSettle ==
    ASSUME ServiceInv, LinkInv, Pallet!ChainInvUnlessNarrowed, ClaimInv, [Next]_vars,
           ~UNCHANGED <<rewards, claims>>
    PROVE  ClaimInv'
<1>1. CreateOrder /\ ClaimStep
    BY NewClaim
<1> DEFINE k == Len(claims) + 1
<1>2. Len(claims) \in Nat /\ Len(claims') = k /\ claims'[k] = [block |-> offer, width |-> slotWidth]
    BY NewClaim
<1>3. rewards'[k].height = relay[offer].height /\ Pallet!slot_at(relay[offer].height) > previousSlot
    BY <1>2, NewClaim
<1>4. offer \in DOMAIN relay /\ relay'[offer] = relay[offer]
    BY <1>1, SystemStepsService, ChainGrows DEF ClaimStep, ServiceInv, LinkInv
<1>5. UNCHANGED <<slotWidth, moves>>
    BY <1>1 DEF CreateOrder, Pallet!create_order, Pallet!configVars
<1>6. \A i \in 1 .. Len(claims') : i \in 1 .. Len(claims) \/ i = k
    BY <1>2
<1>7. ClaimHeights'
  <2>1. ASSUME NEW i \in 1 .. Len(claims), NEW b, b = claims'[i].block
        PROVE  rewards'[i].height = relay'[b].height
    BY <2>1, ClaimsStay DEF ClaimInv, ClaimHeights
  <2>2. rewards'[k].height = relay'[claims'[k].block].height
    BY <1>2, <1>3, <1>4
  <2> QED
    BY <1>6, <2>1, <2>2 DEF ClaimHeights
<1>8. ASSUME "narrower" \notin moves' PROVE WidthsGrow /\ ClaimsApart /\ Pallet!ChainInv
    BY <1>5, <1>8 DEF ClaimInv, Pallet!ChainInvUnlessNarrowed
<1>9. slotWidth \in Nat /\ slotWidth % BITS \in Nat
    BY PalletAssumes, ServiceAssumes DEF LinkInv, ApiTyped
<1>10. ASSUME "narrower" \notin moves' PROVE WidthsGrow'
  <2>1. ASSUME NEW i \in 1 .. Len(claims) PROVE claims'[i].width % BITS <= slotWidth' % BITS
    BY <1>5, <1>8, <1>10, ClaimsStay DEF WidthsGrow
  <2>2. claims'[k].width % BITS <= slotWidth' % BITS
    BY <1>2, <1>5, <1>9
  <2> QED
    BY <1>6, <2>1, <2>2 DEF WidthsGrow
<1>11. ASSUME "narrower" \notin moves' PROVE ClaimsApart'
  <2>1. ASSUME NEW i \in 1 .. Len(claims), NEW j \in 1 .. Len(claims), i < j PROVE Before(i, j)'
    <3>1. Before(i, j)
      BY <1>8, <1>11, <2>1 DEF ClaimsApart
    <3>2. /\ claims'[i] = claims[i] /\ claims'[j] = claims[j]
          /\ rewards'[i] = rewards[i] /\ rewards'[j] = rewards[j]
      BY ClaimsStay
    <3> QED
      BY <3>1, <3>2 DEF Before
  <2>2. ASSUME NEW i \in 1 .. Len(claims), NEW j, j = k PROVE Before(i, j)'
    <3>1. claims'[i] = claims[i] /\ rewards'[i] = rewards[i] /\ rewards[i].height \in Nat
          /\ i \in 1 .. Len(rewards)
      BY ClaimsStay
    <3>2. claims'[j].width = slotWidth /\ rewards'[j].height = relay[offer].height
      BY <1>2, <1>3, <2>2
    <3>3. claims[i].width % BITS <= slotWidth % BITS
      BY <1>8, <1>11 DEF WidthsGrow
    <3>4. Pallet!slot_at(rewards[i].height) <= previousSlot
      BY <1>8, <1>11, <3>1 DEF Pallet!ChainInv, Pallet!SettledBelowLatch
    <3>5. /\ current_slot(rewards[i].height, slotWidth) <= previousSlot
          /\ current_slot(relay[offer].height, slotWidth) > previousSlot
      BY <1>3, <3>4, PalletSlots
    <3>6. /\ current_slot(rewards[i].height, slotWidth) \in Nat
          /\ current_slot(relay[offer].height, slotWidth) \in Nat
          /\ previousSlot \in Nat
      BY <1>4, <1>9, <3>1, RelayFacts, SlotIsNat DEF LinkInv, Pallet!TypeOK
    <3>7. current_slot(rewards[i].height, slotWidth) < current_slot(relay[offer].height, slotWidth)
      BY <3>5, <3>6
    <3> QED
      BY <3>1, <3>2, <3>3, <3>7 DEF Before
  <2>3. ASSUME NEW i \in 1 .. Len(claims'), NEW j \in 1 .. Len(claims'), i < j PROVE Before(i, j)'
    BY <1>2, <1>6, <2>1, <2>2, <2>3
  <2> QED
    BY <2>3 DEF ClaimsApart
<1> QED
    BY <1>7, <1>10, <1>11 DEF ClaimInv

LEMMA ClaimInvHolds == Spec => []ClaimInv
<1>1. Init => ClaimInv /\ Pallet!ChainInvUnlessNarrowed
  <2> SUFFICES ASSUME Init PROVE ClaimInv /\ Pallet!ChainInvUnlessNarrowed
    OBVIOUS
  <2>1. Len(claims) = 0 /\ Len(rewards) = 0
    BY DEF Init, testnet_genesis
  <2> QED
    BY <2>1 DEF ClaimInv, ClaimHeights, WidthsGrow, ClaimsApart,
                Pallet!ChainInvUnlessNarrowed, Pallet!ChainInv, Pallet!SettledBelowLatch,
                Pallet!InChainOrder
<1>2. ServiceInv /\ LinkInv /\ Pallet!ChainInvUnlessNarrowed /\ [Next]_vars
        => Pallet!ChainInvUnlessNarrowed'
  <2> SUFFICES ASSUME ServiceInv, LinkInv, Pallet!ChainInvUnlessNarrowed, [Next]_vars
               PROVE  Pallet!ChainInvUnlessNarrowed'
    OBVIOUS
  <2>1. [Pallet!Next]_(Pallet!vars) /\ Pallet!TypeOK
    BY SystemStepsPallet DEF LinkInv, TypeOK
  <2> QED
    BY <2>1, PalletAssumes, ServiceAssumes, PowersOfTwo, Pallet!ChainInvStep
<1>3. ServiceInv /\ LinkInv /\ Pallet!ChainInvUnlessNarrowed /\ ClaimInv /\ [Next]_vars
        => ClaimInv'
    BY ClaimInvStable, ClaimInvSettle
<1> QED
    BY <1>1, <1>2, <1>3, ServiceInvHolds, LinkInvHolds, PTL DEF Spec

(* One order transaction is paid for once, whichever competing relay blocks
   include it and whoever's record of them reaches the pallet: all its
   inclusions are in one slot of the width it was sent for, that slot lies in
   one slot of every wider width, and the claims are for different slots. *)
THEOREM OrdersPaidOnce == Spec => []OrderPaidOnce
<1>1. ServiceInv /\ LinkInv /\ ClaimInv => OrderPaidOnce
  <2> SUFFICES ASSUME ServiceInv, LinkInv, ClaimInv,
                      NEW i \in 1 .. Len(claims), NEW j \in 1 .. Len(claims), i < j,
                      "narrower" \notin moves,
                      NEW x \in relay[claims[i].block].orders \intersect relay[claims[j].block].orders,
                      ~(mortality(submitted[x].width) < 4),
                      ~(claims[i].width % BITS < submitted[x].width % BITS)
               PROVE  FALSE
    BY DEF OrderPaidOnce
  <2> DEFINE w == submitted[x].width
             v == claims[j].width
             g == relay[claims[i].block].height
             h == relay[claims[j].block].height
  <2>1. /\ claims[i].block \in DOMAIN relay /\ claims[j].block \in DOMAIN relay
        /\ claims[i].width \in Nat /\ v \in Nat
    <3>1. claims \in Seq(Claim)
      BY DEF LinkInv, TypeOK, Claim
    <3>2. claims[i] \in Claim /\ claims[j] \in Claim
      BY <3>1
    <3> QED
      BY <3>2, RelayFacts, PalletAssumes DEF Claim
  <2>2. w \in Nat /\ g \in Nat /\ h \in Nat
    BY <2>1, RelayFacts
  <2>3. mortality(w) >= 4
    <3>1. \A u \in Nat : mortality(u) \in Nat
      BY ShlIsNat DEF mortality
    <3>2. mortality(w) \in Nat
      BY <2>2, <3>1
    <3> QED
      BY <3>2
  <2>4. current_slot(g, w) = current_slot(h, w)
    BY <2>1, <2>3, OrderInItsSlot
  <2>5. claims[i].width % BITS <= v % BITS /\ current_slot(g, v) < current_slot(h, v)
    BY DEF ClaimInv, ClaimHeights, ClaimsApart, Before
  <2>6. w % BITS <= v % BITS
    <3>1. w % BITS \in Nat /\ v % BITS \in Nat /\ claims[i].width % BITS \in Nat
      <4>1. \A u \in Nat : u % BITS \in Nat
        BY BitsAssumption
      <4> QED
        BY <2>1, <2>2, <4>1
    <3> QED
      BY <2>5, <3>1
  <2> HIDE DEF w, v, g, h
  <2>7. current_slot(g, v) = current_slot(h, v)
    BY <2>1, <2>2, <2>4, <2>6, SlotsNest
  <2>8. current_slot(g, v) \in Nat
    BY <2>1, <2>2, SlotIsNat
  <2> QED
    BY <2>5, <2>7, <2>8
<1> QED
    BY <1>1, ServiceInvHolds, LinkInvHolds, ClaimInvHolds, PTL

=============================================================================
