------------------------- MODULE OrderService_proofs ------------------------
(***************************************************************************)
(* Proofs about the order service, for any number of nodes, relay blocks,  *)
(* forks, views, failures and restarts.                                    *)
(***************************************************************************)
EXTENDS OrderService, SlotLemmas, FiniteSetTheorems, TLAPS

USE DEF ServiceConstants

(* What a relay block is made of. *)
LEMMA BlockFields ==
    ASSUME TypeOK, NEW b \in 1 .. Best
    PROVE  /\ relay[b] \in BlockType
           /\ relay[b].height \in Nat
           /\ View(b).width \in Nat
           /\ get_spot_price(View(b)) \in Nat
           /\ Slot(b) \in Nat
<1>1. relay[b] \in BlockType
    BY DEF TypeOK, Best
<1>2. relay[b].height \in Nat /\ relay[b].view \in Views
    BY <1>1 DEF BlockType
<1>3. View(b).width \in Nat /\ get_spot_price(View(b)) \in Nat
    BY <1>2, ServiceAssumption DEF View, get_spot_price
<1> QED
    BY <1>1, <1>2, <1>3, SlotIsNat DEF Slot

(* The transaction that submit_order signs at a head is well formed. *)
LEMMA OrderIsTyped ==
    ASSUME TypeOK, NEW n \in Nodes, NEW b \in 1 .. Best
    PROVE  Order(n, b) \in OrderType
<1>1. b \in Blocks
  <2>1. Len(relay) \in Blocks
    BY DEF TypeOK
  <2> QED
    BY <2>1, ServiceAssumption DEF Best, Blocks
<1>2. Death(relay[b].height, View(b).width) \in Nat
    BY BlockFields, DeathIsNat
<1>3. first_block_in_slot(relay[b].height, View(b).width) \in Nat
    BY BlockFields, SlotIsNat, ShlIsNat DEF first_block_in_slot
<1> QED
    BY <1>1, <1>2, <1>3, BlockFields DEF Order, OrderType

(* A task that is not idle is at a block. *)
LEMMA TaskBlocks ==
    ASSUME TypeOK, NEW n \in Nodes
    PROVE  /\ follow[n].pc # "idle" => follow[n].head \in 1 .. Best
           /\ event[n].pc # "idle" => event[n].block \in 1 .. Best
<1>1. follow[n] \in FollowType /\ event[n] \in EventType
    BY DEF TypeOK
<1>2. follow[n].pc # "idle" => follow[n].head \in 1 .. Best
    BY <1>1 DEF FollowType, FollowIdle
<1>3. event[n].pc # "idle" => event[n].block \in 1 .. Best
    BY <1>1 DEF EventType, EventIdle
<1> QED
    BY <1>2, <1>3

(* The follow task's own steps keep its type, *)
LEMMA FollowAtTyped ==
    ASSUME TypeOK, NEW n \in Nodes, NEW pc \in {"lock", "submit", "answer"},
           NEW b \in 1 .. Best, FollowAt(n, pc, b)
    PROVE  follow' \in [Nodes -> FollowType]
<1>1. [pc |-> pc, head |-> b] \in FollowType
    BY DEF FollowType
<1> QED
    BY <1>1 DEF FollowAt, TypeOK

(* and so does stopping. *)
LEMMA FollowStopTyped ==
    ASSUME TypeOK, NEW n \in Nodes, FollowStop(n)
    PROVE  follow' \in [Nodes -> FollowType]
<1>1. FollowIdle \in FollowType
    BY DEF FollowType
<1> QED
    BY <1>1 DEF FollowStop, TypeOK

(* A node's step keeps the types of the node's variables, relative to the
   relay chain's blocks so far. *)
LocalTypes ==
    /\ record' \in [Nodes -> RecordType]
    /\ holder' \in [Nodes -> {"none", "follow", "author"}]
    /\ follow' \in [Nodes -> FollowType]
    /\ event' \in [Nodes -> EventType]
    /\ author' \in [Nodes -> {"idle", "lock", "prove"}]
    /\ cursor' \in [Nodes -> CursorType]
    /\ acked' \in [Nodes -> Seq(Nat)]
    /\ handled' \in [Nodes -> 0 .. Best]

(* Steps of the follow task. *)
LEMMA FollowTyped ==
    ASSUME TypeOK, NEW n \in Nodes,
           \/ FollowHead(n) \/ FollowReturn(n) \/ FollowDecide(n)
           \/ SubmitOrder(n) \/ FollowCommit(n) \/ FollowFail(n)
    PROVE  LocalTypes
<1>1. Best \in Nat
    BY DEF TypeOK, Best, Blocks
<1>2. follow[n].pc # "idle" => follow[n].head \in 1 .. Best
    BY TaskBlocks
<1>3. CASE FollowHead(n)
  <2> DEFINE b == cursor[n].heads + 1
  <2>1. cursor[n] \in CursorType
    BY DEF TypeOK
  <2>2. b \in 0 .. Best /\ b \in 1 .. Best
    BY <1>1, <1>3, <2>1 DEF FollowHead, CursorType
  <2>3. [cursor[n] EXCEPT !.heads = b] \in CursorType
    BY <2>1, <2>2 DEF CursorType
  <2>4. cursor' = [cursor EXCEPT ![n] = [cursor[n] EXCEPT !.heads = b]]
    BY <1>3 DEF FollowHead, TypeOK
  <2>5. cursor' \in [Nodes -> CursorType]
    BY <2>3, <2>4 DEF TypeOK
  <2>6. FollowAt(n, "lock", b) \/ UNCHANGED follow
    BY <1>3 DEF FollowHead
  <2>7. follow' \in [Nodes -> FollowType]
    BY <2>2, <2>6, FollowAtTyped DEF TypeOK
  <2> QED
    BY <1>3, <2>5, <2>7 DEF FollowHead, LocalTypes, TypeOK
<1>4. CASE FollowReturn(n)
  <2>1. follow' \in [Nodes -> FollowType]
    BY <1>4, FollowStopTyped DEF FollowReturn
  <2> QED
    BY <1>4, <2>1 DEF FollowReturn, LocalTypes, TypeOK
<1>5. CASE FollowDecide(n)
  <2>1. follow' \in [Nodes -> FollowType]
    BY <1>2, <1>5, FollowAtTyped DEF FollowDecide
  <2> QED
    BY <1>5, <2>1 DEF FollowDecide, LocalTypes, TypeOK
<1>6. CASE SubmitOrder(n)
  <2>1. follow' \in [Nodes -> FollowType]
    BY <1>2, <1>6, FollowAtTyped DEF SubmitOrder
  <2> QED
    BY <1>6, <2>1 DEF SubmitOrder, LocalTypes, TypeOK
<1>7. CASE FollowCommit(n)
  <2>1. follow' \in [Nodes -> FollowType]
    BY <1>7, FollowStopTyped DEF FollowCommit
  <2>2. follow[n].head \in 1 .. Best /\ follow[n].head \in 0 .. Best
    BY <1>1, <1>2, <1>7 DEF FollowCommit
  <2>3. Slot(follow[n].head) \in Nat
    BY <2>2, BlockFields
  <2>4. [hash |-> follow[n].head, last_slot |-> Slot(follow[n].head)] \in RecordType
    BY <2>2, <2>3 DEF RecordType
  <2>5. record' \in [Nodes -> RecordType]
    BY <1>7, <2>4 DEF FollowCommit, Committed, TypeOK
  <2>6. acked' \in [Nodes -> Seq(Nat)]
    BY <1>7, <2>3 DEF FollowCommit, TypeOK
  <2> QED
    BY <1>7, <2>1, <2>5, <2>6 DEF FollowCommit, Release, LocalTypes, TypeOK
<1>8. CASE FollowFail(n)
  <2>1. follow' \in [Nodes -> FollowType]
    BY <1>8, FollowStopTyped DEF FollowFail
  <2> QED
    BY <1>8, <2>1 DEF FollowFail, Release, LocalTypes, TypeOK
<1> QED
    BY <1>3, <1>4, <1>5, <1>6, <1>7, <1>8

(* Steps of the event task, of the author, and a restart. *)
LEMMA OtherTasksTyped ==
    ASSUME TypeOK, NEW n \in Nodes,
           \/ EventNext(n) \/ EventRecord(n) \/ EventReconnect(n)
           \/ AuthorStart(n) \/ AuthorLock(n) \/ AuthorDone(n) \/ Restart(n)
    PROVE  LocalTypes
<1>1. Best \in Nat /\ Best \in 0 .. Best /\ Best - 1 \in 0 .. Best
    BY DEF TypeOK, Best, Blocks
<1>2. event[n].pc # "idle" => event[n].block \in 1 .. Best
    BY TaskBlocks
<1>3. cursor[n] \in CursorType /\ record[n] \in RecordType
    BY DEF TypeOK
<1>4. EventIdle \in EventType /\ FollowIdle \in FollowType
    BY DEF EventType, FollowType
<1>5. CASE EventNext(n)
  <2> DEFINE b == cursor[n].events + 1
  <2>1. b \in 0 .. Best /\ b \in 1 .. Best
    BY <1>1, <1>3, <1>5 DEF EventNext, CursorType
  <2>2. [cursor[n] EXCEPT !.events = b] \in CursorType
    BY <1>3, <2>1 DEF CursorType
  <2>3. cursor' = [cursor EXCEPT ![n] = [cursor[n] EXCEPT !.events = b]]
    BY <1>5 DEF EventNext, TypeOK
  <2>4. cursor' \in [Nodes -> CursorType]
    BY <2>2, <2>3 DEF TypeOK
  <2>5. [pc |-> "lock", block |-> b] \in EventType
    BY <2>1 DEF EventType
  <2>6. event' = event \/ event' = [event EXCEPT ![n] = [pc |-> "lock", block |-> b]]
    BY <1>5 DEF EventNext
  <2>7. event' \in [Nodes -> EventType]
    BY <2>5, <2>6 DEF TypeOK
  <2> QED
    BY <1>5, <2>4, <2>7 DEF EventNext, LocalTypes, TypeOK
<1>6. CASE EventRecord(n)
  <2>1. event[n].block \in 0 .. Best
    BY <1>1, <1>2, <1>6 DEF EventRecord
  <2>2. [record[n] EXCEPT !.hash = event[n].block] \in RecordType
    BY <1>3, <2>1 DEF RecordType
  <2>3. record' = [record EXCEPT ![n] = [record[n] EXCEPT !.hash = event[n].block]]
    BY <1>6 DEF EventRecord, TypeOK
  <2>4. record' \in [Nodes -> RecordType]
    BY <2>2, <2>3 DEF TypeOK
  <2> QED
    BY <1>4, <1>6, <2>1, <2>4 DEF EventRecord, LocalTypes, TypeOK
<1>7. CASE EventReconnect(n)
  <2>1. [cursor[n] EXCEPT !.events = Best - 1] \in CursorType
    BY <1>1, <1>3 DEF CursorType
  <2>2. cursor' = [cursor EXCEPT ![n] = [cursor[n] EXCEPT !.events = Best - 1]]
    BY <1>7 DEF EventReconnect, TypeOK
  <2> QED
    BY <1>7, <2>1, <2>2 DEF EventReconnect, LocalTypes, TypeOK
<1>8. CASE AuthorStart(n) \/ AuthorLock(n) \/ AuthorDone(n)
    BY <1>8 DEF AuthorStart, AuthorLock, AuthorDone, Release, LocalTypes, TypeOK
<1>9. CASE Restart(n)
  <2>1. NewRecord \in RecordType
    BY <1>1 DEF NewRecord, RecordType
  <2>2. [heads |-> Best, events |-> Best - 1] \in CursorType
    BY <1>1 DEF CursorType
  <2> QED
    BY <1>1, <1>4, <1>9, <2>1, <2>2 DEF Restart, LocalTypes, TypeOK
<1> QED
    BY <1>5, <1>6, <1>7, <1>8, <1>9

(* A step of the relay chain is a new best block with submitted orders. *)
LEMMA RelayStep ==
    ASSUME RelayNext
    PROVE  \E parent \in DOMAIN relay, view \in Views, skipped \in 0 .. MaxSkipped,
              passed \in SUBSET DOMAIN submitted, orders \in SUBSET DOMAIN submitted :
                  NewBest(parent, skipped, passed, orders, view)
<1>1. ASSUME NEW parent, NEW heights PROVE Includable(parent, heights) \subseteq DOMAIN submitted
    BY DEF Includable
<1>2. PICK parent \in DOMAIN relay, view \in Views, skipped \in 0 .. MaxSkipped :
        \E passed \in SUBSET Includable(parent, relay[parent].height + 1 ..
                                                  relay[parent].height + skipped) :
            \E orders \in SUBSET (Includable(parent, {Top(parent, skipped)}) \ passed) :
                NewBest(parent, skipped, passed, orders, view)
    BY DEF RelayNext
<1> QED
    BY <1>1, <1>2

(* The first state is well typed. *)
LEMMA ServiceTypedInit == Init => TypeOK
<1> USE ServiceAssumption
<1> SUFFICES ASSUME Init PROVE TypeOK
    OBVIOUS
<1>1. [height |-> StartHeight, orders |-> {}, past |-> {}, view |-> StartView] \in BlockType
    BY DEF BlockType
<1>2. relay \in Seq(BlockType) /\ Len(relay) = 1 /\ Len(relay) \in Blocks
    BY <1>1 DEF Init, Blocks
<1> QED
    BY <1>2 DEF Init, TypeOK, NewRecord, Best, RecordType, CursorType, FollowType, EventType

(* Every step keeps the types. *)
LEMMA ServiceTypedStep == TypeOK /\ [Next]_vars => TypeOK'
<1> USE ServiceAssumption
<1> SUFFICES ASSUME TypeOK, [Next]_vars PROVE TypeOK'
    OBVIOUS
<1>1. ASSUME NEW parent \in DOMAIN relay, NEW view \in Views,
             NEW skipped \in 0 .. MaxSkipped, NEW passed \in SUBSET DOMAIN submitted,
             NEW orders \in SUBSET DOMAIN submitted,
             NewBest(parent, skipped, passed, orders, view)
      PROVE  TypeOK'
  <2> DEFINE blk == [height |-> Top(parent, skipped), orders |-> orders,
                     past |-> relay[parent].past \union relay[parent].orders
                                \union passed,
                     view |-> view]
  <2>1. parent \in 1 .. Best /\ Len(relay) \in Nat
    BY DEF TypeOK, Best
  <2>2. Top(parent, skipped) \in Nat /\ relay[parent].past \subseteq Nat
        /\ relay[parent].orders \subseteq Nat
    BY <2>1, BlockFields DEF BlockType, Top
  <2>3. orders \subseteq Nat /\ passed \subseteq Nat
    BY DEF TypeOK
  <2>4. blk \in BlockType
    BY <2>2, <2>3 DEF BlockType
  <2>5. relay' = Append(relay, blk)
    BY <1>1 DEF NewBest
  <2>6. relay' \in Seq(BlockType) /\ Len(relay') = Len(relay) + 1
    BY <2>4, <2>5 DEF TypeOK
  <2>7. Len(relay') \in Blocks
    BY <1>1, <2>1, <2>6 DEF NewBest, Blocks, TypeOK
  <2>8. (0 .. Best) \subseteq (0 .. Best)' /\ (1 .. Best) \subseteq (1 .. Best)'
    BY <2>1, <2>6 DEF Best
  <2>9. /\ RecordType \subseteq RecordType' /\ CursorType \subseteq CursorType'
        /\ FollowType \subseteq FollowType' /\ EventType \subseteq EventType'
    BY <2>8 DEF RecordType, CursorType, FollowType, EventType
  <2>10. UNCHANGED <<submitted, nodeVars, faults>>
    BY <1>1 DEF NewBest
  <2> QED
    BY <2>6, <2>7, <2>8, <2>9, <2>10 DEF TypeOK, nodeVars, faults
<1>2. ASSUME NEW n \in Nodes, NodeNext(n) PROVE TypeOK'
  <2>1. LocalTypes
    BY <1>2, FollowTyped, OtherTasksTyped DEF NodeNext
  <2>2. relay' = relay
    BY <1>2 DEF NodeNext, FollowHead, FollowReturn, FollowDecide, SubmitOrder, FollowCommit,
                FollowFail, EventNext, EventRecord, EventReconnect, AuthorStart,
                AuthorLock, AuthorDone, Restart, relayVars
  <2>3. submitted' \in Seq(OrderType)
    <3>1. CASE SubmitOrder(n)
      <4>1. follow[n].head \in 1 .. Best
        BY <3>1, TaskBlocks DEF SubmitOrder
      <4>2. Order(n, follow[n].head) \in OrderType
        BY <4>1, OrderIsTyped
      <4> QED
        BY <3>1, <4>2 DEF SubmitOrder, TypeOK
    <3>2. CASE submitted' = submitted
      BY <3>2 DEF TypeOK
    <3> QED
      BY <1>2, <3>1, <3>2
      DEF NodeNext, FollowHead, FollowReturn, FollowDecide, FollowCommit,
          FollowFail, EventNext, EventRecord, EventReconnect, AuthorStart,
          AuthorLock, AuthorDone, Restart, relayVars
  <2>4. /\ failures' \in Nat /\ reconnects' \in Nat /\ restarts' \in Nat
        /\ failures' + reconnects' + restarts' <= MaxFaults
    <3>1. \/ UNCHANGED <<failures, reconnects, restarts>>
          \/ FaultAllowed /\ failures' = failures + 1 /\ UNCHANGED <<reconnects, restarts>>
          \/ FaultAllowed /\ reconnects' = reconnects + 1 /\ UNCHANGED <<failures, restarts>>
          \/ FaultAllowed /\ restarts' = restarts + 1 /\ UNCHANGED <<failures, reconnects>>
      BY <1>2 DEF NodeNext, FollowHead, FollowReturn, FollowDecide, SubmitOrder, FollowCommit,
                  FollowFail, EventNext, EventRecord, EventReconnect, AuthorStart,
                  AuthorLock, AuthorDone, Restart, faults
    <3>2. /\ failures \in Nat /\ reconnects \in Nat /\ restarts \in Nat
          /\ failures + reconnects + restarts <= MaxFaults
      BY DEF TypeOK
    <3> QED
      BY <3>1, <3>2 DEF FaultAllowed
  <2>5. relay \in Seq(BlockType) /\ Len(relay) \in Blocks
    BY DEF TypeOK
  <2> QED
    BY <2>1, <2>2, <2>3, <2>4, <2>5
    DEF LocalTypes, TypeOK, Best, RecordType, CursorType, FollowType, EventType
<1>3. CASE UNCHANGED vars
    BY <1>3 DEF vars, relayVars, nodeVars, faults, TypeOK, Best,
              RecordType, CursorType, FollowType, EventType
<1> QED
    BY <1>1, <1>2, <1>3, RelayStep DEF Next

(* Every reachable state of the relay chain and of the nodes' tasks is well
   typed; in particular no task refers to a block that does not exist. *)
THEOREM ServiceTyped == Spec => []TypeOK
    BY ServiceTypedInit, ServiceTypedStep, PTL DEF Spec

-----------------------------------------------------------------------------
(* The inductive invariant behind the latch and behind EventSurvives.  While
   an order is under way the follow task holds the lock, and the author while it
   proves the inherent's data; *)
Placing(n) == follow[n].pc \in {"submit", "answer"}

LockHeld ==
    \A n \in Nodes : /\ Placing(n) => holder[n] = "follow"
                     /\ author[n] = "prove" => holder[n] = "author"

(* the order under way is for a slot beyond the record's; *)
PendingFresh ==
    \A n \in Nodes : Placing(n) => Slot(follow[n].head) > record[n].last_slot

(* a head is followed at most once, whatever restarts there are: what a node
   submitted, it submitted at heads its stream has delivered, and before
   SubmitOrder nothing was submitted at the current one; *)
HeadsOnce ==
    \A n \in Nodes :
        /\ follow[n].pc # "idle" => follow[n].head = cursor[n].heads
        /\ \A x \in DOMAIN submitted : submitted[x].by = n =>
            /\ submitted[x].head <= cursor[n].heads
            /\ follow[n].pc \in {"lock", "submit"} => submitted[x].head # follow[n].head

(* an order is included in a later block than the head it was sent at; *)
IncludedLater ==
    \A b \in DOMAIN relay : \A x \in relay[b].orders :
        x \in DOMAIN submitted /\ submitted[x].head < b

(* and the block that includes the order under way is not recorded yet. *)
PendingUnrecorded ==
    \A n \in Nodes : follow[n].pc = "answer" /\ handled[n] # 0 =>
        \A x \in relay[handled[n]].orders :
            submitted[x].by = n => submitted[x].head # follow[n].head

RecordInv ==
    /\ LockHeld
    /\ PendingFresh
    /\ HeadsOnce
    /\ IncludedLater
    /\ PendingUnrecorded
    /\ EventSurvives

(* Types in the form the following steps use. *)
LEMMA RecordFacts ==
    ASSUME TypeOK
    PROVE  /\ Len(relay) \in Nat /\ DOMAIN relay = 1 .. Len(relay)
           /\ Len(submitted) \in Nat /\ DOMAIN submitted = 1 .. Len(submitted)
           /\ \A x \in DOMAIN submitted : submitted[x].by \in Nodes /\ submitted[x].head \in Nat
           /\ \A n \in Nodes :
                /\ cursor[n].heads \in 0 .. Len(relay)
                /\ handled[n] \in 0 .. Len(relay)
                /\ record[n].last_slot \in Nat
                /\ follow[n].head \in 0 .. Len(relay)
<1>1. relay \in Seq(BlockType) /\ submitted \in Seq(OrderType)
    BY DEF TypeOK
<1>2. /\ Len(relay) \in Nat /\ DOMAIN relay = 1 .. Len(relay)
      /\ Len(submitted) \in Nat /\ DOMAIN submitted = 1 .. Len(submitted)
    BY <1>1
<1>3. ASSUME NEW x \in DOMAIN submitted
      PROVE  submitted[x].by \in Nodes /\ submitted[x].head \in Nat
  <2>1. submitted[x] \in OrderType
    BY <1>1
  <2> QED
    BY <2>1 DEF OrderType, Blocks
<1>4. ASSUME NEW n \in Nodes
      PROVE  /\ cursor[n].heads \in 0 .. Len(relay)
             /\ handled[n] \in 0 .. Len(relay)
             /\ record[n].last_slot \in Nat
             /\ follow[n].head \in 0 .. Len(relay)
  <2>1. cursor[n] \in CursorType /\ handled[n] \in 0 .. Best /\ record[n] \in RecordType
        /\ follow[n] \in FollowType
    BY DEF TypeOK
  <2>2. cursor[n].heads \in 0 .. Len(relay) /\ record[n].last_slot \in Nat
    BY <2>1 DEF CursorType, RecordType, Best
  <2>3. follow[n].head \in 0 .. Len(relay)
    BY <2>1, <1>2 DEF FollowType, FollowIdle, Best
  <2> QED
    BY <2>1, <2>2, <2>3 DEF Best
<1> QED
    BY <1>2, <1>3, <1>4

(* A new best block. *)
LEMMA NewBestKeeps ==
    ASSUME TypeOK, RecordInv, NEW parent \in DOMAIN relay, NEW view \in Views,
           NEW skipped \in 0 .. MaxSkipped, NEW passed \in SUBSET DOMAIN submitted,
           NEW orders \in SUBSET DOMAIN submitted,
           NewBest(parent, skipped, passed, orders, view)
    PROVE  RecordInv'
<1> USE RecordFacts
<1>1. relay \in Seq(BlockType)
    BY DEF TypeOK
<1>2. PICK blk : relay' = Append(relay, blk) /\ blk.orders = orders
    BY DEF NewBest
<1>3. /\ DOMAIN relay' = 1 .. Len(relay) + 1
      /\ \A b \in DOMAIN relay : relay'[b] = relay[b]
      /\ relay'[Len(relay) + 1].orders = orders
    BY <1>1, <1>2
<1>4. UNCHANGED <<submitted, record, holder, follow, event, author, cursor, acked, handled>>
    BY DEF NewBest, nodeVars
<1>5. LockHeld' /\ HeadsOnce'
    BY <1>4 DEF RecordInv, LockHeld, HeadsOnce, Placing
<1>6. PendingFresh'
  <2> SUFFICES ASSUME NEW n \in Nodes, Placing(n)
               PROVE  Slot(follow[n].head)' > record[n].last_slot
    BY <1>4 DEF PendingFresh, Placing
  <2>1. follow[n].head \in 1 .. Best
    BY TaskBlocks DEF Placing
  <2>2. Slot(follow[n].head)' = Slot(follow[n].head)
    BY <1>3, <1>4, <2>1 DEF Slot, View, Best
  <2> QED
    BY <2>2 DEF RecordInv, PendingFresh
<1>7. IncludedLater'
  <2>1. ASSUME NEW x \in orders
        PROVE  x \in DOMAIN submitted /\ submitted[x].head < Len(relay) + 1
    <3>1. x \in DOMAIN submitted
      OBVIOUS
    <3>2. submitted[x].by \in Nodes /\ submitted[x].head \in Nat
      BY <3>1
    <3>3. submitted[x].head <= cursor[submitted[x].by].heads
      BY <3>1, <3>2 DEF RecordInv, HeadsOnce
    <3>4. cursor[submitted[x].by].heads \in 0 .. Len(relay) /\ Len(relay) \in Nat
      BY <3>2
    <3> QED
      BY <3>1, <3>2, <3>3, <3>4
  <2> QED
    BY <1>3, <1>4, <2>1 DEF RecordInv, IncludedLater
<1>8. PendingUnrecorded' /\ EventSurvives'
    BY <1>3, <1>4 DEF RecordInv, PendingUnrecorded, EventSurvives
<1> QED
    BY <1>5, <1>6, <1>7, <1>8 DEF RecordInv

(* Steps that leave the relay chain and the pool alone keep what is said of
   the blocks. *)
LEMMA IncludedLaterStable ==
    ASSUME RecordInv, UNCHANGED <<relay, submitted>>
    PROVE  IncludedLater'
BY DEF RecordInv, IncludedLater

(* The follow task: a head, or nothing to do at it, *)
LEMMA FollowIdleKeeps ==
    ASSUME TypeOK, RecordInv, NEW n \in Nodes, FollowHead(n) \/ FollowReturn(n)
    PROVE  RecordInv'
<1> USE RecordFacts
<1>1. UNCHANGED <<relay, submitted, record, holder, author, handled>>
    BY DEF FollowHead, FollowReturn, relayVars
<1>2. \A m \in Nodes : m # n => follow'[m] = follow[m] /\ cursor'[m] = cursor[m]
    BY DEF FollowHead, FollowReturn, FollowAt, FollowStop, TypeOK
<1>3. ~Placing(n) /\ follow'[n].pc \in {"idle", "lock"}
    BY DEF FollowHead, FollowReturn, FollowAt, FollowStop, FollowIdle, Placing, TypeOK
<1>4. \/ cursor'[n].heads = cursor[n].heads /\ follow'[n].pc = "idle"
      \/ /\ cursor'[n].heads = cursor[n].heads + 1
         /\ follow'[n].pc = "idle" \/ follow'[n].head = cursor[n].heads + 1
    BY DEF FollowHead, FollowReturn, FollowAt, FollowStop, FollowIdle, TypeOK, CursorType
<1>5. LockHeld'
    BY <1>1, <1>2, <1>3 DEF RecordInv, LockHeld, Placing
<1>6. PendingFresh'
    BY <1>1, <1>2, <1>3 DEF RecordInv, PendingFresh, Placing, Slot, View
<1>7. HeadsOnce'
  <2>1. ASSUME NEW x \in DOMAIN submitted, submitted[x].by = n
        PROVE  /\ submitted[x].head <= cursor'[n].heads
               /\ follow'[n].pc \in {"lock", "submit"} => submitted[x].head # follow'[n].head
    BY <1>4, <2>1 DEF RecordInv, HeadsOnce
  <2>2. follow'[n].pc # "idle" => follow'[n].head = cursor'[n].heads
    BY <1>4
  <2> QED
    BY <1>1, <1>2, <2>1, <2>2 DEF RecordInv, HeadsOnce
<1>8. PendingUnrecorded' /\ EventSurvives'
    BY <1>1, <1>2, <1>3 DEF RecordInv, PendingUnrecorded, EventSurvives
<1> QED
    BY <1>1, <1>5, <1>6, <1>7, <1>8, IncludedLaterStable DEF RecordInv

(* the decision to order, with the lock, *)
LEMMA FollowDecideKeeps ==
    ASSUME TypeOK, RecordInv, NEW n \in Nodes, FollowDecide(n)
    PROVE  RecordInv'
<1> USE RecordFacts
<1>1. UNCHANGED <<relay, submitted, record, author, cursor, handled>>
    BY DEF FollowDecide, relayVars
<1>2. \A m \in Nodes : m # n => follow'[m] = follow[m] /\ holder'[m] = holder[m]
    BY DEF FollowDecide, FollowAt, TypeOK
<1>3. /\ follow[n].pc = "lock" /\ holder[n] = "none"
      /\ follow'[n].pc = "submit" /\ follow'[n].head = follow[n].head
      /\ holder'[n] = "follow"
    BY DEF FollowDecide, FollowAt, TypeOK
<1>4. LockHeld'
    BY <1>1, <1>2, <1>3 DEF RecordInv, LockHeld, Placing
<1>5. PendingFresh'
  <2>1. follow[n].head \in 1 .. Best
    BY <1>3, TaskBlocks
  <2>2. Slot(follow[n].head) \in Nat
    BY <2>1, BlockFields
  <2>3. Slot(follow[n].head) > record[n].last_slot
    BY <2>2 DEF FollowDecide, OrderAlreadyPlaced
  <2> QED
    BY <1>1, <1>2, <1>3, <2>3 DEF RecordInv, PendingFresh, Placing, Slot, View
<1>6. HeadsOnce'
    BY <1>1, <1>2, <1>3 DEF RecordInv, HeadsOnce
<1>7. PendingUnrecorded' /\ EventSurvives'
    BY <1>1, <1>2, <1>3 DEF RecordInv, PendingUnrecorded, EventSurvives
<1> QED
    BY <1>1, <1>4, <1>5, <1>6, <1>7, IncludedLaterStable DEF RecordInv

(* the submission: no block includes the new transaction yet, *)
LEMMA SubmitOrderKeeps ==
    ASSUME TypeOK, RecordInv, NEW n \in Nodes, SubmitOrder(n)
    PROVE  RecordInv'
<1> USE RecordFacts
<1> DEFINE new == Len(submitted) + 1
<1>1. UNCHANGED <<relay, record, holder, author, cursor, handled>>
    BY DEF SubmitOrder
<1>2. \A m \in Nodes : m # n => follow'[m] = follow[m]
    BY DEF SubmitOrder, FollowAt, TypeOK
<1>3. /\ follow[n].pc = "submit"
      /\ follow'[n].pc = "answer" /\ follow'[n].head = follow[n].head
    BY DEF SubmitOrder, FollowAt, TypeOK
<1>4. /\ DOMAIN submitted' = 1 .. new
      /\ submitted'[new].by = n /\ submitted'[new].head = follow[n].head
      /\ \A x \in DOMAIN submitted : submitted'[x] = submitted[x]
    BY DEF SubmitOrder, Order, TypeOK
<1>5. LockHeld' /\ PendingFresh'
    BY <1>1, <1>2, <1>3 DEF RecordInv, LockHeld, PendingFresh, Placing, Slot, View
<1>6. HeadsOnce'
    BY <1>1, <1>2, <1>3, <1>4 DEF RecordInv, HeadsOnce
<1>7. IncludedLater'
    BY <1>1, <1>4 DEF RecordInv, IncludedLater
<1>8. \A m \in Nodes : handled[m] # 0 => \A x \in relay[handled[m]].orders :
        x \in DOMAIN submitted /\ submitted'[x] = submitted[x]
    BY <1>4 DEF RecordInv, IncludedLater
<1>9. PendingUnrecorded'
  <2>1. ASSUME handled[n] # 0, NEW x \in relay[handled[n]].orders, submitted'[x].by = n
        PROVE  submitted'[x].head # follow[n].head
    BY <1>3, <1>8, <2>1 DEF RecordInv, HeadsOnce
  <2> QED
    BY <1>1, <1>2, <1>3, <1>8, <2>1 DEF RecordInv, PendingUnrecorded
<1>10. EventSurvives'
    BY <1>1, <1>8 DEF RecordInv, EventSurvives
<1> QED
    BY <1>5, <1>6, <1>7, <1>9, <1>10 DEF RecordInv

(* and its outcome. *)
LEMMA FollowEndKeeps ==
    ASSUME TypeOK, RecordInv, NEW n \in Nodes, FollowCommit(n) \/ FollowFail(n)
    PROVE  RecordInv'
<1> USE RecordFacts
<1>1. UNCHANGED <<relay, submitted, author, cursor, handled>>
    BY DEF FollowCommit, FollowFail, relayVars
<1>2. \A m \in Nodes : m # n =>
        /\ follow'[m] = follow[m] /\ holder'[m] = holder[m]
        /\ record'[m] = record[m]
    BY DEF FollowCommit, FollowFail, FollowStop, Release, Committed, TypeOK
<1>3. Placing(n) /\ follow'[n].pc = "idle" /\ author[n] # "prove"
    BY DEF FollowCommit, FollowFail, FollowStop, FollowIdle, Placing, RecordInv, LockHeld, TypeOK
<1>4. \/ record'[n].hash = record[n].hash
      \/ follow[n].pc = "answer" /\ record'[n].hash = follow[n].head
    BY DEF FollowCommit, FollowFail, Committed, TypeOK
<1>5. LockHeld' /\ PendingFresh'
    BY <1>1, <1>2, <1>3 DEF RecordInv, LockHeld, PendingFresh, Placing, Slot, View
<1>6. HeadsOnce' /\ PendingUnrecorded'
    BY <1>1, <1>2, <1>3 DEF RecordInv, HeadsOnce, PendingUnrecorded
<1>7. EventSurvives'
    BY <1>1, <1>2, <1>4 DEF RecordInv, EventSurvives, PendingUnrecorded
<1> QED
    BY <1>1, <1>5, <1>6, <1>7, IncludedLaterStable DEF RecordInv

(* The event task records a block only when no order is under way. *)
LEMMA EventKeeps ==
    ASSUME TypeOK, RecordInv, NEW n \in Nodes,
           EventNext(n) \/ EventRecord(n) \/ EventReconnect(n)
    PROVE  RecordInv'
<1> USE RecordFacts
<1>1. UNCHANGED <<relay, submitted, holder, follow, author>>
    BY DEF EventNext, EventRecord, EventReconnect, relayVars
<1>2. \A m \in Nodes :
        /\ cursor'[m].heads = cursor[m].heads
        /\ record'[m].last_slot = record[m].last_slot
        /\ m # n => record'[m] = record[m] /\ handled'[m] = handled[m]
  <2>1. cursor \in [Nodes -> CursorType] /\ record \in [Nodes -> RecordType]
        /\ handled \in [Nodes -> 0 .. Best]
    BY DEF TypeOK
  <2>2. \A m \in Nodes : cursor[m] \in CursorType /\ record[m] \in RecordType
    BY <2>1
  <2>3. CASE EventNext(n)
    BY <2>1, <2>2, <2>3 DEF EventNext, CursorType
  <2>4. CASE EventRecord(n)
    BY <2>1, <2>2, <2>4 DEF EventRecord, RecordType
  <2>5. CASE EventReconnect(n)
    BY <2>1, <2>2, <2>5 DEF EventReconnect, CursorType
  <2> QED
    BY <2>3, <2>4, <2>5
<1>3. \/ record'[n] = record[n] /\ handled'[n] = handled[n]
      \/ /\ ~Placing(n) /\ event[n].block \in DOMAIN relay
         /\ record'[n].hash = event[n].block /\ handled'[n] = event[n].block
  <2>1. CASE EventRecord(n)
    <3>1. event[n].block \in DOMAIN relay /\ ~Placing(n)
      BY <2>1, TaskBlocks DEF EventRecord, Best, RecordInv, LockHeld
    <3>2. record'[n].hash = event[n].block /\ handled'[n] = event[n].block
      BY <2>1 DEF EventRecord, TypeOK, RecordType
    <3> QED
      BY <3>1, <3>2
  <2> QED
    BY <2>1 DEF EventNext, EventReconnect
<1>4. LockHeld'
    BY <1>1 DEF RecordInv, LockHeld, Placing
<1>5. PendingFresh'
  <2> SUFFICES ASSUME NEW m \in Nodes, Placing(m)
               PROVE  Slot(follow[m].head) > record'[m].last_slot
    BY <1>1 DEF PendingFresh, Placing, Slot, View
  <2>1. record'[m].last_slot = record[m].last_slot
    BY <1>2
  <2> QED
    BY <2>1 DEF RecordInv, PendingFresh
<1>6. HeadsOnce'
  <2> SUFFICES ASSUME NEW m \in Nodes
               PROVE  /\ follow[m].pc # "idle" => follow[m].head = cursor'[m].heads
                      /\ \A x \in DOMAIN submitted : submitted[x].by = m =>
                            /\ submitted[x].head <= cursor'[m].heads
                            /\ follow[m].pc \in {"lock", "submit"} => submitted[x].head # follow[m].head
    BY <1>1 DEF HeadsOnce
  <2>1. cursor'[m].heads = cursor[m].heads
    BY <1>2
  <2> QED
    BY <2>1 DEF RecordInv, HeadsOnce
<1>7. PendingUnrecorded'
  <2> SUFFICES ASSUME NEW m \in Nodes, follow[m].pc = "answer", handled'[m] # 0,
                      NEW x \in relay[handled'[m]].orders, submitted[x].by = m
               PROVE  submitted[x].head # follow[m].head
    BY <1>1 DEF PendingUnrecorded
  <2>1. handled'[m] = handled[m]
    BY <1>2, <1>3 DEF Placing
  <2> QED
    BY <2>1 DEF RecordInv, PendingUnrecorded
<1>8. EventSurvives'
  <2> SUFFICES ASSUME NEW m \in Nodes, handled'[m] # 0,
                      NEW x \in relay[handled'[m]].orders, submitted[x].by = m
               PROVE  record'[m].hash # submitted[x].head
    BY <1>1 DEF EventSurvives
  <2>1. CASE record'[m] = record[m] /\ handled'[m] = handled[m]
    BY <2>1 DEF RecordInv, EventSurvives
  <2>2. CASE m = n /\ handled'[n] \in DOMAIN relay /\ record'[n].hash = handled'[n]
    <3>1. x \in DOMAIN submitted /\ submitted[x].head < handled'[n]
      BY <2>2 DEF RecordInv, IncludedLater
    <3> QED
      BY <2>2, <3>1
  <2> QED
    BY <1>2, <1>3, <2>1, <2>2
<1> QED
    BY <1>1, <1>4, <1>5, <1>6, <1>7, <1>8, IncludedLaterStable DEF RecordInv

(* The author only takes and releases the lock; *)
LEMMA AuthorKeeps ==
    ASSUME TypeOK, RecordInv, NEW n \in Nodes,
           AuthorStart(n) \/ AuthorLock(n) \/ AuthorDone(n)
    PROVE  RecordInv'
<1>1. UNCHANGED <<relay, submitted, record, follow, cursor, handled>>
    BY DEF AuthorStart, AuthorLock, AuthorDone, relayVars
<1>2. LockHeld'
    BY DEF AuthorStart, AuthorLock, AuthorDone, Release, RecordInv, LockHeld, Placing, TypeOK
<1>3. PendingFresh' /\ HeadsOnce' /\ PendingUnrecorded' /\ EventSurvives'
    BY <1>1 DEF RecordInv, PendingFresh, HeadsOnce, PendingUnrecorded, EventSurvives,
                Placing, Slot, View
<1> QED
    BY <1>1, <1>2, <1>3, IncludedLaterStable DEF RecordInv

(* and a restarted node has delivered, and recorded, nothing. *)
LEMMA RestartKeeps ==
    ASSUME TypeOK, RecordInv, NEW n \in Nodes, Restart(n)
    PROVE  RecordInv'
<1> USE RecordFacts
<1>1. UNCHANGED <<relay, submitted>>
    BY DEF Restart, relayVars
<1>2. \A m \in Nodes : m # n =>
        UNCHANGED <<follow[m], holder[m], record[m], author[m], cursor[m], handled[m]>>
    BY DEF Restart, TypeOK
<1>3. /\ follow'[n].pc = "idle" /\ author'[n] = "idle" /\ handled'[n] = 0
      /\ cursor'[n].heads = Len(relay)
    BY DEF Restart, FollowIdle, Best, TypeOK
<1>4. LockHeld' /\ PendingFresh'
    BY <1>1, <1>2, <1>3 DEF RecordInv, LockHeld, PendingFresh, Placing, Slot, View
<1>5. HeadsOnce'
    BY <1>1, <1>2, <1>3 DEF RecordInv, HeadsOnce
<1>6. PendingUnrecorded' /\ EventSurvives'
    BY <1>1, <1>2, <1>3 DEF RecordInv, PendingUnrecorded, EventSurvives
<1> QED
    BY <1>1, <1>4, <1>5, <1>6, IncludedLaterStable DEF RecordInv

(* The invariant holds throughout. *)
LEMMA RecordInvHolds == Spec => []RecordInv
<1>1. Init => RecordInv
    BY DEF Init, RecordInv, LockHeld, PendingFresh, HeadsOnce, IncludedLater,
           PendingUnrecorded, EventSurvives, Placing, FollowIdle, NewRecord
<1>2. TypeOK /\ RecordInv /\ [Next]_vars => RecordInv'
  <2> SUFFICES ASSUME TypeOK, RecordInv, [Next]_vars PROVE RecordInv'
    OBVIOUS
  <2>1. ASSUME NEW n \in Nodes, NodeNext(n) PROVE RecordInv'
    BY <2>1, FollowIdleKeeps, FollowDecideKeeps, SubmitOrderKeeps, FollowEndKeeps,
       EventKeeps, AuthorKeeps, RestartKeeps
    DEF NodeNext
  <2>2. ASSUME NEW parent \in DOMAIN relay, NEW view \in Views,
               NEW skipped \in 0 .. MaxSkipped, NEW passed \in SUBSET DOMAIN submitted,
               NEW orders \in SUBSET DOMAIN submitted,
               NewBest(parent, skipped, passed, orders, view)
        PROVE  RecordInv'
    BY <2>2, NewBestKeeps
  <2>3. CASE UNCHANGED vars
    BY <2>3 DEF vars, relayVars, nodeVars, RecordInv, LockHeld, PendingFresh, HeadsOnce,
                IncludedLater, PendingUnrecorded, EventSurvives, Placing, Slot, View
  <2> QED
    BY <2>1, <2>2, <2>3, RelayStep DEF Next
<1> QED
    BY <1>1, <1>2, ServiceTyped, PTL DEF Spec

(* The event task's work is never undone by the follow task: once the block
   that includes a node's order is recorded, the record does not fall back to
   the head the order was sent at. *)
THEOREM EventNotOverwritten == Spec => []EventSurvives
<1>1. RecordInv => EventSurvives
    BY DEF RecordInv
<1> QED
    BY <1>1, RecordInvHolds, PTL

(* A step other than a commit or a restart leaves every latch alone. *)
LEMMA LatchesUntouched ==
    ASSUME TypeOK, NEW n \in Nodes, NodeNext(n), ~FollowCommit(n), ~Restart(n)
    PROVE  \A m \in Nodes : record'[m].last_slot = record[m].last_slot /\ acked'[m] = acked[m]
<1>1. record \in [Nodes -> RecordType] /\ \A m \in Nodes : record[m] \in RecordType
    BY DEF TypeOK
<1>2. CASE EventRecord(n)
    BY <1>1, <1>2 DEF EventRecord, RecordType
<1>3. CASE ~EventRecord(n)
    BY <1>3 DEF NodeNext, FollowHead, FollowReturn, FollowDecide, SubmitOrder, FollowFail,
                EventNext, EventReconnect, AuthorStart, AuthorLock, AuthorDone
<1> QED
    BY <1>2, <1>3

(* Every node's last_slot is a slot latch that only a restart resets: for any
   number of nodes, whatever the forks and whatever the collators read, a
   node's acknowledged orders are for ever later slots.  The lock is what
   makes it so: the slot was compared with last_slot some steps before. *)
THEOREM ServiceIsLatch == Spec => OrderLatch
<1>1. Init => LatchInit
    BY DEF Init, NewRecord, LatchInit, Latch!Init
<1>2. TypeOK /\ RecordInv /\ [Next]_vars => [LatchStep]_vars
  <2> SUFFICES ASSUME TypeOK, RecordInv, Next PROVE LatchStep
    OBVIOUS
  <2> SUFFICES ASSUME NEW m \in Nodes
               PROVE  Latch(m)!Next \/ UNCHANGED Latch(m)!latchVars
    BY DEF LatchStep
  <2>1. ASSUME NEW n \in Nodes, NodeNext(n) PROVE Latch(m)!Next \/ UNCHANGED Latch(m)!latchVars
    <3>1. CASE FollowCommit(n)
      <4>1. CASE m = n
        <5>1. Slot(follow[n].head) \in Nat /\ Slot(follow[n].head) > record[n].last_slot
          BY <3>1, TaskBlocks, BlockFields DEF FollowCommit, RecordInv, PendingFresh, Placing
        <5>2. record'[n].last_slot = Slot(follow[n].head)
              /\ acked'[n] = Append(acked[n], Slot(follow[n].head))
          BY <3>1 DEF FollowCommit, Committed, TypeOK
        <5> QED
          BY <4>1, <5>1, <5>2 DEF Latch!Next, Latch!Fire
      <4>2. CASE m # n
        BY <3>1, <4>2 DEF FollowCommit, Committed, TypeOK, Latch!latchVars
      <4> QED
        BY <4>1, <4>2
    <3>2. CASE Restart(n)
      <4>1. CASE m = n
        <5>1. record'[n].last_slot = 0 /\ acked'[n] = <<>>
          BY <3>2 DEF Restart, NewRecord, TypeOK
        <5> QED
          BY <4>1, <5>1 DEF Latch!Next, Latch!Reset
      <4>2. CASE m # n
        BY <3>2, <4>2 DEF Restart, TypeOK, Latch!latchVars
      <4> QED
        BY <4>1, <4>2
    <3>3. CASE ~FollowCommit(n) /\ ~Restart(n)
      BY <2>1, <3>3, LatchesUntouched DEF Latch!latchVars
    <3> QED
      BY <3>1, <3>2, <3>3
  <2>2. CASE RelayNext
    BY <2>2 DEF RelayNext, NewBest, nodeVars, Latch!latchVars
  <2> QED
    BY <2>1, <2>2 DEF Next
<1> QED
    BY <1>1, <1>2, ServiceTyped, RecordInvHolds, PTL DEF Spec, OrderLatch

-----------------------------------------------------------------------------
(* The inductive invariant behind OnePlacerPerSlot.  Every transaction is the
   one that submit_order signs at a head where it was the node's turn; and
   between the check of the turn and the submission the head does not change. *)
OrdersOnTurn ==
    \A x \in DOMAIN submitted :
        LET order == submitted[x] IN
        /\ order.head \in DOMAIN relay
        /\ order = Order(order.by, order.head)
        /\ Responsible(order.by, order.head)

PlacersOnTurn == \A n \in Nodes : Placing(n) => Responsible(n, follow[n].head)

TurnInv == OrdersOnTurn /\ PlacersOnTurn

(* What is said of a head stays true when the relay chain grows. *)
LEMMA HeadsStay ==
    ASSUME TypeOK, NEW blk, relay' = Append(relay, blk), NEW b \in DOMAIN relay, NEW n
    PROVE  /\ b \in DOMAIN relay'
           /\ relay'[b] = relay[b]
           /\ Slot(b)' = Slot(b)
           /\ Order(n, b)' = Order(n, b)
           /\ Responsible(n, b)' = Responsible(n, b)
<1>1. relay \in Seq(BlockType)
    BY DEF TypeOK
<1>2. b \in DOMAIN relay' /\ relay'[b] = relay[b]
    BY <1>1
<1> QED
    BY <1>2 DEF Slot, Order, Responsible, View

(* A new best block, *)
LEMMA NewBestTurns ==
    ASSUME TypeOK, TurnInv, NEW parent, NEW skipped, NEW passed, NEW orders, NEW view,
           NewBest(parent, skipped, passed, orders, view)
    PROVE  TurnInv'
<1>1. PICK blk : relay' = Append(relay, blk)
    BY DEF NewBest
<1>2. UNCHANGED <<submitted, follow>>
    BY DEF NewBest, nodeVars
<1>3. OrdersOnTurn'
    BY <1>1, <1>2, HeadsStay DEF TurnInv, OrdersOnTurn
<1>4. PlacersOnTurn'
  <2> SUFFICES ASSUME NEW n \in Nodes, Placing(n) PROVE Responsible(n, follow[n].head)'
    BY <1>2 DEF PlacersOnTurn, Placing
  <2>1. follow[n].head \in DOMAIN relay
    BY TaskBlocks, RecordFacts DEF Placing, Best
  <2>2. Responsible(n, follow[n].head)
    BY DEF TurnInv, PlacersOnTurn
  <2> QED
    BY <1>1, <1>2, <2>1, <2>2, HeadsStay DEF Responsible, View
<1> QED
    BY <1>3, <1>4 DEF TurnInv

(* the submission, *)
LEMMA SubmitOrderTurns ==
    ASSUME TypeOK, TurnInv, NEW n \in Nodes, SubmitOrder(n)
    PROVE  TurnInv'
<1> DEFINE head == follow[n].head
           new == Len(submitted) + 1
<1>1. UNCHANGED relay
    BY DEF SubmitOrder
<1>2. head \in DOMAIN relay /\ Placing(n)
    BY TaskBlocks, RecordFacts DEF SubmitOrder, Placing, Best
<1>3. Responsible(n, head)
    BY <1>2 DEF TurnInv, PlacersOnTurn
<1>4. /\ DOMAIN submitted' = DOMAIN submitted \union {new}
      /\ submitted'[new] = Order(n, head)
      /\ \A x \in DOMAIN submitted : submitted'[x] = submitted[x]
    BY RecordFacts DEF SubmitOrder, TypeOK
<1>5. Order(n, head).by = n /\ Order(n, head).head = head
    BY DEF Order
<1>6. OrdersOnTurn'
  <2> SUFFICES ASSUME NEW x \in DOMAIN submitted'
               PROVE  /\ submitted'[x].head \in DOMAIN relay
                      /\ submitted'[x] = Order(submitted'[x].by, submitted'[x].head)
                      /\ Responsible(submitted'[x].by, submitted'[x].head)
    BY <1>1 DEF OrdersOnTurn, Order, Responsible, Slot, View
  <2>1. CASE x = new
    BY <1>2, <1>3, <1>4, <1>5, <2>1
  <2>2. CASE x \in DOMAIN submitted
    BY <1>4, <2>2 DEF TurnInv, OrdersOnTurn
  <2> QED
    BY <1>4, <2>1, <2>2
<1>7. PlacersOnTurn'
    BY <1>1, <1>2, <1>3 DEF SubmitOrder, FollowAt, TurnInv, PlacersOnTurn, Placing, Responsible,
                            View, TypeOK
<1> QED
    BY <1>6, <1>7 DEF TurnInv

(* and the other steps of a node. *)
LEMMA NodeTurns ==
    ASSUME TypeOK, TurnInv, NEW n \in Nodes, NodeNext(n), ~SubmitOrder(n)
    PROVE  TurnInv'
<1>1. UNCHANGED <<relay, submitted>>
    BY DEF NodeNext, FollowHead, FollowReturn, FollowDecide, FollowCommit, FollowFail, EventNext,
           EventRecord, EventReconnect, AuthorStart, AuthorLock, AuthorDone, Restart, relayVars
<1>2. \A m \in Nodes : m # n => follow'[m] = follow[m]
    BY DEF NodeNext, FollowHead, FollowReturn, FollowDecide, FollowCommit, FollowFail, EventNext,
           EventRecord, EventReconnect, AuthorStart, AuthorLock, AuthorDone, Restart,
           FollowAt, FollowStop, TypeOK
<1>3. \/ follow'[n] = follow[n]
      \/ follow'[n].pc \in {"idle", "lock"}
      \/ follow'[n].head = follow[n].head /\ Responsible(n, follow[n].head)
    BY DEF NodeNext, FollowHead, FollowReturn, FollowDecide, FollowCommit, FollowFail, EventNext,
           EventRecord, EventReconnect, AuthorStart, AuthorLock, AuthorDone, Restart,
           FollowAt, FollowStop, FollowIdle, TypeOK
<1>4. OrdersOnTurn'
    BY <1>1 DEF TurnInv, OrdersOnTurn, Order, Responsible, Slot, View
<1>5. PlacersOnTurn'
    BY <1>1, <1>2, <1>3 DEF TurnInv, PlacersOnTurn, Placing, Responsible, View
<1> QED
    BY <1>4, <1>5 DEF TurnInv

LEMMA TurnInvHolds == Spec => []TurnInv
<1>1. Init => TurnInv
    BY DEF Init, TurnInv, OrdersOnTurn, PlacersOnTurn, Placing, FollowIdle
<1>2. TypeOK /\ TurnInv /\ [Next]_vars => TurnInv'
  <2> SUFFICES ASSUME TypeOK, TurnInv, [Next]_vars PROVE TurnInv'
    OBVIOUS
  <2>1. ASSUME NEW n \in Nodes, NodeNext(n) PROVE TurnInv'
    BY <2>1, SubmitOrderTurns, NodeTurns
  <2>2. CASE RelayNext
    BY <2>2, RelayStep, NewBestTurns
  <2>3. CASE UNCHANGED vars
    BY <2>3 DEF vars, relayVars, nodeVars, TurnInv, OrdersOnTurn, PlacersOnTurn, Placing, Order,
                Responsible, Slot, View
  <2> QED
    BY <2>1, <2>2, <2>3 DEF Next
<1> QED
    BY <1>1, <1>2, ServiceTyped, PTL DEF Spec

(* Whatever forks, reconfigurations, failures and restarts there are: two
   transactions for the same slot, sent at heads with the same width and Aura
   set, come from the same collator.  The slot alone decides whose turn it
   is, not the height at which a collator looks; and no key is in two
   keystores. *)
THEOREM CollatorsTakeTurns == Spec => []OnePlacerPerSlot
<1>1. TypeOK /\ TurnInv => OnePlacerPerSlot
  <2> SUFFICES ASSUME TypeOK, TurnInv, NEW x \in DOMAIN submitted, NEW y \in DOMAIN submitted,
                      submitted[x].slot = submitted[y].slot, SameSchedule(x, y)
               PROVE  submitted[x].by = submitted[y].by
    BY DEF OnePlacerPerSlot
  <2> DEFINE placer(z) == LET auths == View(submitted[z].head).authorities
                          IN  auths[(submitted[z].slot % Len(auths)) + 1]
  <2>1. ASSUME NEW z \in DOMAIN submitted
        PROVE  placer(z) \in Keystore[submitted[z].by]
    <3>1. Responsible(submitted[z].by, submitted[z].head)
      BY DEF TurnInv, OrdersOnTurn
    <3>2. submitted[z].slot = Slot(submitted[z].head)
      <4>1. submitted[z] = Order(submitted[z].by, submitted[z].head)
        BY DEF TurnInv, OrdersOnTurn
      <4>2. Order(submitted[z].by, submitted[z].head).slot = Slot(submitted[z].head)
        BY DEF Order
      <4> QED
        BY <4>1, <4>2
    <3> QED
      BY <3>1, <3>2 DEF Responsible, order_placer, Slot
  <2>2. placer(x) = placer(y)
    BY DEF SameSchedule
  <2>3. submitted[x].by \in Nodes /\ submitted[y].by \in Nodes
    BY RecordFacts
  <2> HIDE DEF placer
  <2> QED
    BY <2>1, <2>2, <2>3, ServiceAssumption
<1> QED
    BY <1>1, ServiceTyped, TurnInvHolds, PTL

-----------------------------------------------------------------------------
(* The inductive invariant behind DuplicatesAreRetries: the orders of a node
   for a slot number at most one for each fault so far, and one more once the
   slot is recorded or its order is under way.  So nothing that forgets a slot
   is free: a failed call or a restart pays for it. *)
Spent(n, slot) ==
    IF \/ slot <= record[n].last_slot
       \/ follow[n].pc = "answer" /\ Slot(follow[n].head) = slot
    THEN 1 ELSE 0

RetriesPaid ==
    \A n \in Nodes, slot \in Nat :
        Cardinality(Orders(n, slot)) <= failures + restarts + Spent(n, slot)

(* What a step without a fault does. *)
NothingForgotten == \A n \in Nodes, slot \in Nat : Spent(n, slot)' >= Spent(n, slot)

(* The orders of a node for a slot are finitely many. *)
LEMMA OrdersFinite ==
    ASSUME TypeOK, NEW n, NEW slot
    PROVE  IsFiniteSet(Orders(n, slot)) /\ Cardinality(Orders(n, slot)) \in Nat
<1>1. IsFiniteSet(DOMAIN submitted)
    BY RecordFacts, FS_Interval
<1>2. Orders(n, slot) \in SUBSET DOMAIN submitted
    BY DEF Orders
<1> QED
    BY <1>1, <1>2, FS_Subset, FS_CardinalityType

(* The submission adds one order to a slot that was not spent, *)
LEMMA SubmitOrderPays ==
    ASSUME TypeOK, RecordInv, RetriesPaid, NEW n \in Nodes, SubmitOrder(n)
    PROVE  RetriesPaid'
<1> DEFINE now == Slot(follow[n].head)
           new == Len(submitted) + 1
<1>1. UNCHANGED <<relay, record, failures, restarts>>
    BY DEF SubmitOrder, faults
<1>2. follow[n].head \in 1 .. Best /\ Placing(n)
    BY TaskBlocks DEF SubmitOrder, Placing
<1>3. now \in Nat /\ now > record[n].last_slot
    BY <1>2, BlockFields DEF RecordInv, PendingFresh
<1>4. /\ DOMAIN submitted' = DOMAIN submitted \union {new} /\ new \notin DOMAIN submitted
      /\ submitted'[new].by = n /\ submitted'[new].slot = now
      /\ \A x \in DOMAIN submitted : submitted'[x] = submitted[x]
  <2>1. submitted \in Seq(OrderType) /\ submitted' = Append(submitted, Order(n, follow[n].head))
    BY DEF SubmitOrder, TypeOK
  <2>2. Order(n, follow[n].head).by = n /\ Order(n, follow[n].head).slot = now
    BY DEF Order
  <2> QED
    BY <2>1, <2>2
<1> SUFFICES ASSUME NEW m \in Nodes, NEW slot \in Nat
             PROVE  Cardinality(Orders(m, slot)') <= failures + restarts + Spent(m, slot)'
    BY <1>1 DEF RetriesPaid
<1>5. Cardinality(Orders(m, slot)) <= failures + restarts + Spent(m, slot)
    BY DEF RetriesPaid
<1>6. CASE m = n /\ slot = now
  <2>1. Orders(m, slot)' = Orders(m, slot) \union {new} /\ new \notin Orders(m, slot)
    BY <1>4, <1>6 DEF Orders
  <2>2. Cardinality(Orders(m, slot)') = Cardinality(Orders(m, slot)) + 1
    BY <2>1, OrdersFinite, FS_AddElement
  <2>3. Spent(m, slot) = 0
    BY <1>3, <1>6, RecordFacts DEF Spent, SubmitOrder
  <2>4. follow'[n].pc = "answer" /\ follow'[n].head = follow[n].head
    BY DEF SubmitOrder, FollowAt, TypeOK
  <2>5. Spent(m, slot)' = 1
    BY <1>1, <1>6, <2>4 DEF Spent, Slot, View
  <2> QED
    BY <1>5, <2>2, <2>3, <2>5, OrdersFinite DEF TypeOK
<1>7. CASE ~(m = n /\ slot = now)
  <2>1. Orders(m, slot)' = Orders(m, slot)
    BY <1>4, <1>7 DEF Orders
  <2>2. CASE m = n
    <3>1. follow[n].pc = "submit" /\ follow'[n].head = follow[n].head
      BY DEF SubmitOrder, FollowAt, TypeOK
    <3>2. Spent(m, slot)' = Spent(m, slot)
      BY <1>1, <1>7, <2>2, <3>1 DEF Spent, Slot, View
    <3> QED
      BY <1>5, <2>1, <3>2
  <2>3. CASE m # n
    <3>1. follow'[m] = follow[m]
      BY <2>3 DEF SubmitOrder, FollowAt, TypeOK
    <3>2. Spent(m, slot)' = Spent(m, slot)
      BY <1>1, <3>1 DEF Spent, Slot, View
    <3> QED
      BY <1>5, <2>1, <3>2
  <2> QED
    BY <2>2, <2>3
<1> QED
    BY <1>6, <1>7

(* a step that leaves the pool alone is free when no slot is forgotten, and a
   fault pays for what it forgets; *)
LEMMA PayOrKeep ==
    ASSUME TypeOK, RetriesPaid, submitted' = submitted,
           \/ failures' = failures + 1 /\ restarts' = restarts
           \/ failures' = failures /\ restarts' = restarts + 1
           \/ failures' = failures /\ restarts' = restarts /\ NothingForgotten
    PROVE  RetriesPaid'
<1> SUFFICES ASSUME NEW n \in Nodes, NEW slot \in Nat
             PROVE  Cardinality(Orders(n, slot)) <= failures' + restarts' + Spent(n, slot)'
    BY DEF RetriesPaid, Orders
<1>1. Cardinality(Orders(n, slot)) <= failures + restarts + Spent(n, slot)
    BY DEF RetriesPaid
<1>2. Spent(n, slot) \in 0 .. 1 /\ Spent(n, slot)' \in 0 .. 1
    BY DEF Spent
<1>3. failures \in Nat /\ restarts \in Nat /\ Cardinality(Orders(n, slot)) \in Nat
    BY OrdersFinite DEF TypeOK
<1>4. NothingForgotten => Spent(n, slot)' >= Spent(n, slot)
    BY Zenon DEF NothingForgotten
<1> QED
    BY <1>1, <1>2, <1>3, <1>4

(* and what is acknowledged is recorded, in place of the order under way. *)
LEMMA CommitPays ==
    ASSUME TypeOK, RecordInv, RetriesPaid, NEW n \in Nodes, FollowCommit(n)
    PROVE  RetriesPaid'
<1> DEFINE now == Slot(follow[n].head)
<1>1. UNCHANGED <<relay, submitted, failures, restarts>>
    BY DEF FollowCommit, relayVars, faults
<1>2. follow[n].head \in 1 .. Best /\ Placing(n)
    BY TaskBlocks DEF FollowCommit, Placing
<1>3. now \in Nat /\ now > record[n].last_slot /\ record[n].last_slot \in Nat
    BY <1>2, BlockFields, RecordFacts DEF RecordInv, PendingFresh
<1>4. record'[n].last_slot = now
    BY DEF FollowCommit, Committed, TypeOK
<1>5. ASSUME NEW m \in Nodes, NEW slot \in Nat PROVE Spent(m, slot)' >= Spent(m, slot)
  <2>1. CASE m = n
    <3>1. Spent(m, slot) = 1 => slot <= now
      BY <1>3, <2>1 DEF Spent
    <3>2. slot <= now => Spent(m, slot)' = 1
      BY <1>4, <2>1 DEF Spent
    <3>3. Spent(m, slot) \in {0, 1} /\ Spent(m, slot)' \in {0, 1}
      BY DEF Spent
    <3> QED
      BY <3>1, <3>2, <3>3
  <2>2. CASE m # n
    <3>1. follow'[m] = follow[m] /\ record'[m] = record[m]
      BY <2>2 DEF FollowCommit, FollowStop, Committed, TypeOK
    <3> QED
      BY <1>1, <3>1 DEF Spent, Slot, View
  <2> QED
    BY <2>1, <2>2
<1> QED
    BY <1>1, <1>5, PayOrKeep DEF NothingForgotten, TypeOK

(* The other steps of a node: *)
LEMMA NodePays ==
    ASSUME TypeOK, RetriesPaid, NEW n \in Nodes, NodeNext(n), ~SubmitOrder(n), ~FollowCommit(n)
    PROVE  RetriesPaid'
<1>1. UNCHANGED <<relay, submitted>>
    BY DEF NodeNext, FollowHead, FollowReturn, FollowDecide, FollowFail, EventNext,
           EventRecord, EventReconnect, AuthorStart, AuthorLock, AuthorDone, Restart, relayVars
<1>2. failures \in Nat /\ restarts \in Nat
    BY DEF TypeOK
<1>3. CASE FollowFail(n) \/ Restart(n)
  <2>1. \/ failures' = failures + 1 /\ restarts' = restarts
        \/ failures' = failures /\ restarts' = restarts + 1
    BY <1>3 DEF FollowFail, Restart
  <2> QED
    BY <1>1, <1>2, <2>1, PayOrKeep
<1>4. CASE ~FollowFail(n) /\ ~Restart(n)
  <2>1. failures' = failures /\ restarts' = restarts
    BY <1>4 DEF NodeNext, FollowHead, FollowReturn, FollowDecide, EventNext,
                EventRecord, EventReconnect, AuthorStart, AuthorLock, AuthorDone, faults
  <2>2. \A m \in Nodes : record'[m].last_slot = record[m].last_slot
    BY <1>4, LatchesUntouched
  <2>3. \A m \in Nodes : follow'[m] = follow[m] \/ follow[m].pc # "answer"
    BY <1>4 DEF NodeNext, FollowHead, FollowReturn, FollowDecide, EventNext, EventRecord,
                EventReconnect, AuthorStart, AuthorLock, AuthorDone, FollowAt, FollowStop, TypeOK
  <2>4. ASSUME NEW m \in Nodes, NEW slot \in Nat PROVE Spent(m, slot)' >= Spent(m, slot)
    BY <1>1, <2>2, <2>3 DEF Spent, Slot, View
  <2> QED
    BY <1>1, <1>2, <2>1, <2>4, PayOrKeep DEF NothingForgotten
<1> QED
    BY <1>3, <1>4

(* A new best block changes no head that was followed. *)
LEMMA NewBestPays ==
    ASSUME TypeOK, RetriesPaid, NEW parent, NEW skipped, NEW passed, NEW orders, NEW view,
           NewBest(parent, skipped, passed, orders, view)
    PROVE  RetriesPaid'
<1>1. PICK blk : relay' = Append(relay, blk)
    BY DEF NewBest
<1>2. UNCHANGED <<submitted, follow, record, failures, restarts>>
    BY DEF NewBest, nodeVars, faults
<1>3. ASSUME NEW n \in Nodes, NEW slot \in Nat PROVE Spent(n, slot)' = Spent(n, slot)
  <2>1. follow[n].pc = "answer" => follow[n].head \in DOMAIN relay
    BY TaskBlocks, RecordFacts DEF Best
  <2>2. follow[n].pc = "answer" => Slot(follow[n].head)' = Slot(follow[n].head)
    BY <1>1, <1>2, <2>1, HeadsStay DEF Slot, View
  <2> QED
    BY <1>2, <2>2 DEF Spent
<1>4. NothingForgotten
    BY <1>3 DEF NothingForgotten, Spent
<1> QED
    BY <1>2, <1>4, PayOrKeep DEF TypeOK

LEMMA RetriesPaidHolds == Spec => []RetriesPaid
<1>1. Init => RetriesPaid
  <2> SUFFICES ASSUME Init, NEW n \in Nodes, NEW slot \in Nat
               PROVE  Cardinality(Orders(n, slot)) <= failures + restarts + Spent(n, slot)
    BY DEF RetriesPaid
  <2>1. Orders(n, slot) = {} /\ failures = 0 /\ restarts = 0
    BY DEF Init, Orders
  <2>2. Cardinality(Orders(n, slot)) = 0
    BY <2>1, FS_EmptySet
  <2> QED
    BY <2>1, <2>2 DEF Spent
<1>2. TypeOK /\ RecordInv /\ RetriesPaid /\ [Next]_vars => RetriesPaid'
  <2> SUFFICES ASSUME TypeOK, RecordInv, RetriesPaid, [Next]_vars PROVE RetriesPaid'
    OBVIOUS
  <2>1. ASSUME NEW n \in Nodes, NodeNext(n) PROVE RetriesPaid'
    BY <2>1, SubmitOrderPays, CommitPays, NodePays
  <2>2. CASE RelayNext
    BY <2>2, RelayStep, NewBestPays
  <2>3. CASE UNCHANGED vars
    BY <2>3 DEF vars, relayVars, nodeVars, faults, RetriesPaid, Orders, Spent, Slot, View
  <2> QED
    BY <2>1, <2>2, <2>3 DEF Next
<1> QED
    BY <1>1, <1>2, ServiceTyped, RecordInvHolds, PTL DEF Spec

(* A node sends at most one order for a slot, and one more for each failed call
   or restart: whatever reorganisations, late heads and events there are, and
   whatever the other nodes and the author task do. *)
THEOREM RetriesHaveCause == Spec => []DuplicatesAreRetries
<1>1. TypeOK /\ RetriesPaid => DuplicatesAreRetries
  <2> SUFFICES ASSUME TypeOK, RetriesPaid, NEW x \in DOMAIN submitted
               PROVE  Cardinality(Orders(submitted[x].by, submitted[x].slot))
                        <= 1 + failures + restarts
    BY DEF DuplicatesAreRetries
  <2> DEFINE n == submitted[x].by
             slot == submitted[x].slot
  <2>1. submitted[x] \in OrderType
    BY RecordFacts DEF TypeOK
  <2>2. n \in Nodes /\ slot \in Nat
    BY <2>1 DEF OrderType
  <2>3. Cardinality(Orders(n, slot)) <= failures + restarts + Spent(n, slot)
    BY <2>2 DEF RetriesPaid
  <2>4. Spent(n, slot) \in {0, 1} /\ Cardinality(Orders(n, slot)) \in Nat
        /\ failures \in Nat /\ restarts \in Nat
    BY OrdersFinite DEF Spent, TypeOK
  <2> QED
    BY <2>3, <2>4
<1> QED
    BY <1>1, ServiceTyped, RetriesPaidHolds, PTL

-----------------------------------------------------------------------------
(* The inductive invariant behind FreshSlotOrderable: the slot in a record, if
   it has one, is that of an order the node sent, and so is the slot about to
   be recorded. *)
LatchOrdered ==
    \A n \in Nodes :
        /\ record[n].last_slot # 0 => Orders(n, record[n].last_slot) # {}
        /\ follow[n].pc = "answer" => Orders(n, Slot(follow[n].head)) # {}

(* The submission, *)
LEMMA SubmitOrderLatches ==
    ASSUME TypeOK, LatchOrdered, NEW n \in Nodes, SubmitOrder(n)
    PROVE  LatchOrdered'
<1> DEFINE head == follow[n].head
           new == Len(submitted) + 1
<1>1. UNCHANGED <<relay, record>>
    BY DEF SubmitOrder
<1>2. /\ DOMAIN submitted' = DOMAIN submitted \union {new}
      /\ submitted'[new] = Order(n, head)
      /\ \A x \in DOMAIN submitted : submitted'[x] = submitted[x]
    BY RecordFacts DEF SubmitOrder, TypeOK
<1>3. Order(n, head).by = n /\ Order(n, head).slot = Slot(head)
    BY DEF Order
<1>4. follow'[n].head = head /\ \A m \in Nodes : m # n => follow'[m] = follow[m]
    BY DEF SubmitOrder, FollowAt, TypeOK
<1> SUFFICES ASSUME NEW m \in Nodes
             PROVE  /\ record'[m].last_slot # 0 => Orders(m, record[m].last_slot)' # {}
                    /\ follow'[m].pc = "answer" => Orders(m, Slot(follow[m].head))' # {}
    BY <1>1 DEF LatchOrdered, Orders
<1>5. record'[m].last_slot # 0 => Orders(m, record[m].last_slot)' # {}
  <2>1. record[m].last_slot # 0 => Orders(m, record[m].last_slot) # {}
    BY DEF LatchOrdered
  <2> QED
    BY <1>1, <1>2, <2>1 DEF Orders
<1>6. follow'[m].pc = "answer" => Orders(m, Slot(follow[m].head))' # {}
  <2>1. CASE m = n
    BY <1>1, <1>2, <1>3, <1>4, <2>1 DEF Orders, Slot, View
  <2>2. CASE m # n
    <3>1. follow'[m].pc = "answer" => Orders(m, Slot(follow[m].head)) # {}
      BY <1>4, <2>2 DEF LatchOrdered
    <3> QED
      BY <1>1, <1>2, <1>4, <2>2, <3>1 DEF Orders, Slot, View
  <2> QED
    BY <2>1, <2>2
<1> QED
    BY <1>5, <1>6

(* the answer, *)
LEMMA CommitLatches ==
    ASSUME TypeOK, LatchOrdered, NEW n \in Nodes, FollowCommit(n)
    PROVE  LatchOrdered'
<1>1. UNCHANGED <<relay, submitted>>
    BY DEF FollowCommit, relayVars
<1>2. record'[n].last_slot = Slot(follow[n].head) /\ follow'[n].pc = "idle"
    BY DEF FollowCommit, Committed, FollowStop, FollowIdle, TypeOK
<1>3. \A m \in Nodes : m # n => follow'[m] = follow[m] /\ record'[m] = record[m]
    BY DEF FollowCommit, FollowStop, Committed, TypeOK
<1>4. Orders(n, Slot(follow[n].head)) # {}
    BY DEF FollowCommit, LatchOrdered
<1> QED
    BY <1>1, <1>2, <1>3, <1>4 DEF LatchOrdered, Orders, Slot, View

(* and the other steps of a node; *)
LEMMA NodeLatches ==
    ASSUME TypeOK, LatchOrdered, NEW n \in Nodes, NodeNext(n), ~SubmitOrder(n), ~FollowCommit(n)
    PROVE  LatchOrdered'
<1>1. UNCHANGED <<relay, submitted>>
    BY DEF NodeNext, FollowHead, FollowReturn, FollowDecide, FollowFail, EventNext,
           EventRecord, EventReconnect, AuthorStart, AuthorLock, AuthorDone, Restart, relayVars
<1>2. \A m \in Nodes : follow'[m] = follow[m] \/ follow'[m].pc # "answer"
    BY DEF NodeNext, FollowHead, FollowReturn, FollowDecide, FollowFail, EventNext, EventRecord,
           EventReconnect, AuthorStart, AuthorLock, AuthorDone, Restart, FollowAt, FollowStop,
           FollowIdle, TypeOK
<1>3. \A m \in Nodes : record'[m].last_slot \in {0, record[m].last_slot}
  <2>1. CASE Restart(n)
    BY <2>1 DEF Restart, NewRecord, TypeOK
  <2>2. CASE ~Restart(n)
    BY <2>2, LatchesUntouched
  <2> QED
    BY <2>1, <2>2
<1> QED
    BY <1>1, <1>2, <1>3 DEF LatchOrdered, Orders, Slot, View

(* a new best block changes no head that was followed. *)
LEMMA NewBestLatches ==
    ASSUME TypeOK, LatchOrdered, NEW parent, NEW skipped, NEW passed, NEW orders, NEW view,
           NewBest(parent, skipped, passed, orders, view)
    PROVE  LatchOrdered'
<1>1. PICK blk : relay' = Append(relay, blk)
    BY DEF NewBest
<1>2. UNCHANGED <<submitted, follow, record>>
    BY DEF NewBest, nodeVars
<1>3. ASSUME NEW n \in Nodes, follow[n].pc = "answer"
      PROVE  Slot(follow[n].head)' = Slot(follow[n].head)
  <2>1. follow[n].head \in DOMAIN relay
    BY <1>3, TaskBlocks, RecordFacts DEF Best
  <2> QED
    BY <1>1, <1>2, <2>1, HeadsStay DEF Slot, View
<1> QED
    BY <1>2, <1>3 DEF LatchOrdered, Orders

LEMMA LatchOrderedHolds == Spec => []LatchOrdered
<1>1. Init => LatchOrdered
    BY DEF Init, LatchOrdered, NewRecord, FollowIdle
<1>2. TypeOK /\ LatchOrdered /\ [Next]_vars => LatchOrdered'
  <2> SUFFICES ASSUME TypeOK, LatchOrdered, [Next]_vars PROVE LatchOrdered'
    OBVIOUS
  <2>1. ASSUME NEW n \in Nodes, NodeNext(n) PROVE LatchOrdered'
    BY <2>1, SubmitOrderLatches, CommitLatches, NodeLatches
  <2>2. CASE RelayNext
    BY <2>2, RelayStep, NewBestLatches
  <2>3. CASE UNCHANGED vars
    BY <2>3 DEF vars, relayVars, nodeVars, LatchOrdered, Orders, Slot, View
  <2> QED
    BY <2>1, <2>2, <2>3 DEF Next
<1> QED
    BY <1>1, <1>2, ServiceTyped, PTL DEF Spec

(* A node is never silenced for a slot later than 0 that it has not ordered for
   and that lies beyond all it ordered for, unless its slots were widened. *)
THEOREM FreshSlotsAreOrderable == Spec => []FreshSlotOrderable
<1>1. TypeOK /\ TurnInv /\ LatchOrdered => FreshSlotOrderable
  <2> SUFFICES ASSUME TypeOK, TurnInv, LatchOrdered, NEW n \in Nodes, NEW b \in DOMAIN relay,
                      0 < Slot(b), OrderAlreadyPlaced(n, b)
               PROVE  \E x \in DOMAIN submitted :
                        /\ submitted[x].by = n
                        /\ \/ current_slot(relay[submitted[x].head].height, View(b).width)
                                >= Slot(b)
                           \/ submitted[x].width % BITS < View(b).width % BITS
    BY DEF FreshSlotOrderable
  <2>1. b \in 1 .. Best
    BY RecordFacts DEF Best
  <2>2. Slot(b) \in Nat /\ View(b).width \in Nat /\ record[n].last_slot \in Nat
    BY <2>1, BlockFields, RecordFacts
  <2>3. Slot(b) <= record[n].last_slot /\ record[n].last_slot # 0
    BY <2>2 DEF OrderAlreadyPlaced
  <2>4. PICK x \in DOMAIN submitted :
            submitted[x].by = n /\ submitted[x].slot = record[n].last_slot
    BY <2>3 DEF LatchOrdered, Orders
  <2> DEFINE head == submitted[x].head
             h == relay[head].height
             v == submitted[x].width
             w == View(b).width
  <2>5. head \in DOMAIN relay /\ submitted[x] = Order(n, head)
    BY <2>4 DEF TurnInv, OrdersOnTurn
  <2>6. v = View(head).width /\ submitted[x].slot = Slot(head)
    BY <2>5 DEF Order
  <2>7. h \in Nat /\ v \in Nat
    BY <2>5, <2>6, BlockFields, RecordFacts DEF Best
  <2>8. record[n].last_slot = current_slot(h, v)
    BY <2>4, <2>6 DEF Slot
  <2>9. CASE w % BITS <= v % BITS
    <3>1. current_slot(h, v) <= current_slot(h, w)
      BY <2>2, <2>7, <2>9, WiderSlotIsEarlier
    <3>2. current_slot(h, v) \in Nat /\ current_slot(h, w) \in Nat
      BY <2>2, <2>7, SlotIsNat
    <3> QED
      BY <2>2, <2>3, <2>4, <2>8, <3>1, <3>2
  <2>10. CASE v % BITS < w % BITS
    BY <2>4, <2>10
  <2>11. v % BITS \in Nat /\ w % BITS \in Nat
    BY <2>2, <2>7, BitsAssumption
  <2> QED
    BY <2>9, <2>10, <2>11
<1> QED
    BY <1>1, ServiceTyped, TurnInvHolds, LatchOrderedHolds, PTL

-----------------------------------------------------------------------------
(* What a relay block may include, for the proofs about the pallet: an order
   during its lifetime only, *)
IncludedInTime ==
    \A b \in DOMAIN relay : \A x \in relay[b].orders :
        /\ x \in DOMAIN submitted
        /\ submitted[x].birth < relay[b].height
        /\ relay[b].height < submitted[x].death

(* and how high it may be. *)
HeightsBounded ==
    \A b \in DOMAIN relay : relay[b].height <= StartHeight + (b - 1) * (MaxSkipped + 1)

InclusionInv == IncludedInTime /\ HeightsBounded

(* The bound grows with the chain. *)
LEMMA BoundGrows ==
    ASSUME NEW p \in Nat, NEW q \in Nat, NEW k \in Nat, p < q
    PROVE  (p * k) + k <= q * k
<1>1. p + 1 <= q /\ p + 1 \in Nat
    OBVIOUS
<1>2. (p + 1) * k <= q * k
    BY <1>1, Z3
<1>3. (p + 1) * k = (p * k) + k
    BY Z3
<1> QED
    BY <1>2, <1>3

LEMMA NewBestIncludes ==
    ASSUME TypeOK, InclusionInv, NEW parent \in DOMAIN relay, NEW view,
           NEW skipped \in 0 .. MaxSkipped, NEW passed,
           NEW orders \in SUBSET Includable(parent, {Top(parent, skipped)}),
           NewBest(parent, skipped, passed, orders, view)
    PROVE  InclusionInv'
<1> DEFINE new == Len(relay) + 1
           blk == [height |-> Top(parent, skipped), orders |-> orders,
                   past |-> relay[parent].past \union relay[parent].orders \union passed,
                   view |-> view]
<1>1. relay \in Seq(BlockType) /\ Len(relay) \in Nat /\ DOMAIN relay = 1 .. Len(relay)
    BY RecordFacts DEF TypeOK
<1>2. relay' = Append(relay, blk) /\ submitted' = submitted
    BY DEF NewBest
<1>3. blk.height = Top(parent, skipped) /\ blk.orders = orders
    OBVIOUS
<1> HIDE DEF blk
<1>4. /\ DOMAIN relay' = 1 .. new
      /\ relay'[new] = blk
      /\ \A b \in DOMAIN relay : relay'[b] = relay[b]
    BY <1>1, <1>2
<1>5. IncludedInTime'
  <2>1. \A x \in orders : /\ x \in DOMAIN submitted
                           /\ submitted[x].birth < Top(parent, skipped)
                           /\ Top(parent, skipped) < submitted[x].death
    BY DEF Includable
  <2>2. \A b \in DOMAIN relay' : b \in DOMAIN relay \/ b = new
    BY <1>1, <1>4
  <2> QED
    BY <1>2, <1>3, <1>4, <2>1, <2>2 DEF InclusionInv, IncludedInTime
<1>6. HeightsBounded'
  <2> DEFINE k == MaxSkipped + 1
  <2>1. k \in Nat /\ StartHeight \in Nat /\ MaxSkipped \in Nat
    BY ServiceAssumption
  <2>2. parent - 1 \in Nat /\ parent - 1 < Len(relay)
    BY <1>1
  <2>3. relay[parent].height \in Nat
    BY <1>1, BlockFields DEF Best
  <2>4. relay[parent].height <= StartHeight + (parent - 1) * k
    BY DEF InclusionInv, HeightsBounded
  <2>5. Top(parent, skipped) <= relay[parent].height + k
    BY <2>1, <2>3 DEF Top
  <2>6. ((parent - 1) * k) + k <= Len(relay) * k
    BY <1>1, <2>1, <2>2, BoundGrows
  <2>7. (parent - 1) * k \in Nat /\ Len(relay) * k \in Nat /\ Top(parent, skipped) \in Nat
    BY <1>1, <2>1, <2>2, <2>3 DEF Top
  <2> HIDE DEF k
  <2>8. Top(parent, skipped) <= StartHeight + Len(relay) * k
    BY <2>1, <2>3, <2>4, <2>5, <2>6, <2>7
  <2>9. new - 1 = Len(relay)
    BY <1>1
  <2>10. ASSUME NEW b \in DOMAIN relay' PROVE relay'[b].height <= StartHeight + (b - 1) * k
    <3>1. CASE b \in DOMAIN relay
      BY <1>4, <3>1 DEF InclusionInv, HeightsBounded, k
    <3>2. CASE b = new
      BY <1>3, <1>4, <2>8, <2>9, <3>2
    <3> QED
      BY <1>1, <1>4, <3>1, <3>2
  <2> QED
    BY <2>10 DEF HeightsBounded, k
<1> QED
    BY <1>5, <1>6 DEF InclusionInv

LEMMA InclusionInvHolds == Spec => []InclusionInv
<1>1. Init => InclusionInv
  <2> SUFFICES ASSUME Init PROVE InclusionInv
    OBVIOUS
  <2>1. DOMAIN relay = {1} /\ relay[1].orders = {} /\ relay[1].height = StartHeight
    BY DEF Init
  <2> QED
    BY <2>1, ServiceAssumption DEF InclusionInv, IncludedInTime, HeightsBounded
<1>2. TypeOK /\ InclusionInv /\ [Next]_vars => InclusionInv'
  <2> SUFFICES ASSUME TypeOK, InclusionInv, [Next]_vars PROVE InclusionInv'
    OBVIOUS
  <2>1. CASE RelayNext
    <3>1. PICK parent \in DOMAIN relay, view \in Views, skipped \in 0 .. MaxSkipped :
            \E passed \in SUBSET Includable(parent, relay[parent].height + 1 ..
                                                      relay[parent].height + skipped) :
                \E orders \in SUBSET (Includable(parent, {Top(parent, skipped)}) \ passed) :
                    NewBest(parent, skipped, passed, orders, view)
      BY <2>1 DEF RelayNext
    <3>2. PICK passed : \E orders \in SUBSET (Includable(parent, {Top(parent, skipped)}) \ passed) :
                    NewBest(parent, skipped, passed, orders, view)
      BY <3>1
    <3>3. PICK orders \in SUBSET Includable(parent, {Top(parent, skipped)}) :
                    NewBest(parent, skipped, passed, orders, view)
      BY <3>2
    <3> QED
      BY <3>3, NewBestIncludes
  <2>2. ASSUME NEW n \in Nodes, SubmitOrder(n) PROVE InclusionInv'
    <3>1. relay' = relay /\ submitted' = Append(submitted, Order(n, follow[n].head))
      BY <2>2 DEF SubmitOrder
    <3>2. submitted \in Seq(OrderType)
      BY DEF TypeOK
    <3>3. \A x \in DOMAIN submitted : x \in DOMAIN submitted' /\ submitted'[x] = submitted[x]
      BY <3>1, <3>2
    <3> QED
      BY <3>1, <3>3 DEF InclusionInv, IncludedInTime, HeightsBounded
  <2>3. CASE UNCHANGED <<relay, submitted>>
    BY <2>3 DEF InclusionInv, IncludedInTime, HeightsBounded
  <2>4. ASSUME NEW n \in Nodes, NodeNext(n), ~SubmitOrder(n) PROVE UNCHANGED <<relay, submitted>>
    BY <2>4 DEF NodeNext, FollowHead, FollowReturn, FollowDecide, FollowCommit, FollowFail,
                EventNext, EventRecord, EventReconnect, AuthorStart, AuthorLock, AuthorDone,
                Restart, relayVars
  <2>5. CASE UNCHANGED vars
    BY <2>3, <2>5 DEF vars, relayVars
  <2> QED
    BY <2>1, <2>2, <2>3, <2>4, <2>5 DEF Next
<1> QED
    BY <1>1, <1>2, ServiceTyped, PTL DEF Spec
=============================================================================
