---------------------------- MODULE OrderService ----------------------------
(***************************************************************************)
(* The on-demand order service of the collators, and the part of their     *)
(* block authoring that shares its record.  Each node runs three tasks     *)
(* around one Mutex<OrderRecord>:                                          *)
(*   follow  takes the new best relay heads one by one and may place an    *)
(*           order; it holds the lock from the last_slot check, across the *)
(*           calls that submit the order, to the update of the record;     *)
(*   event   watches the relay chain's best blocks over RPC and records a  *)
(*           block that has an order of this parachain;                    *)
(*   author  reads the record and, still holding the lock, proves to       *)
(*           itself what the order inherent will say.                      *)
(* The relay chain is external: blocks that become best one after another, *)
(* on any fork, each with the orders it includes and with what the node    *)
(* reads at it (the lifecycle, the cores, the traffic of the order queue,  *)
(* and the parachain's head).  When a fork takes over, its lower blocks    *)
(* never become best: both streams pass over them.                         *)
(***************************************************************************)
EXTENDS Slots, FiniteSets, FiniteSetsExt

CONSTANTS Nodes,
          Keystore,        \* Aura keys each node holds
          Views,           \* what may be read at a relay block
          StartHeight,     \* height of the first relay block
          StartView,
          ONE,             \* FixedU128::DIV: a traffic of ONE means 1.0
          OnDemandBaseFee, \* scheduler_params.on_demand_base_fee
          MaxBlocks,       \* bound on relay blocks that become best
          MaxSkipped,      \* bound on the blocks a new best one passes over
          MaxFaults        \* bound on failures, reconnects and restarts together

(* No Aura set is empty: order_placer would panic on an empty one.  Collators do
   not share Aura keys: with a shared key, two of them would seal blocks of the
   same slots. *)
ServiceConstants ==
    /\ StartHeight \in Nat
    /\ ONE \in Nat \ {0} /\ OnDemandBaseFee \in Nat
    /\ MaxBlocks \in Nat \ {0} /\ MaxSkipped \in Nat
    /\ MaxFaults \in Nat
    /\ StartView \in Views
    /\ \A v \in Views : /\ v.parathread \in BOOLEAN /\ v.bulk \in BOOLEAN
                        /\ v.width \in Nat /\ v.traffic \in Nat
                        /\ Len(v.authorities) \in Nat \ {0}
    /\ \A m, n \in Nodes : m # n => Keystore[m] \intersect Keystore[n] = {}

ASSUME ServiceAssumption == ServiceConstants

VARIABLES relay,       \* the relay blocks, in the order they became best
          submitted,   \* the order transactions the relay chain's pool received
          record,      \* each node's OrderRecord; hash 0 is None
          holder,      \* the task that holds the lock on the record
          follow,      \* follow_relay_chain: where it is, and at which head
          event,       \* ondemand_event_task: likewise
          author,      \* the collator's create_inherent_data_providers
          cursor,      \* how many heads each of the two streams delivered
          acked,       \* history: slots whose orders were acknowledged
          handled,     \* history: the block the event task last recorded
          failures, reconnects, restarts   \* how often things went wrong

relayVars == <<relay, submitted>>
nodeVars  == <<record, holder, follow, event, author, cursor, acked, handled>>
faults    == <<failures, reconnects, restarts>>
vars == <<relayVars, nodeVars, faults>>

Blocks == 1 .. MaxBlocks
Best == Len(relay)
View(b) == relay[b].view
FaultAllowed == failures + reconnects + restarts < MaxFaults

-----------------------------------------------------------------------------
(* The first core that has work decides.  A core's descriptor has no work, or
   a set of assignments. *)
NoWork == {}

on_demand_cores_available(cores) ==
    LET working == {c \in DOMAIN cores : cores[c] # NoWork} IN
    working # {} /\ "Pool" \in cores[Min(working)]

is_parathread(view) == view.parathread

(* handle_relaychain_stream up to the lock: what it reads at the head sends
   it on only for a parathread that is not in bulk mode. *)
Eligible(view) ==
    /\ is_parathread(view)
    /\ ~view.bulk
    /\ ~on_demand_cores_available(view.cores)

Slot(b) == current_slot(relay[b].height, View(b).width)

OrderAlreadyPlaced_thisSlotOnly(n, b) == Slot(b) = record[n].last_slot

OrderAlreadyPlaced(n, b) == Slot(b) <= record[n].last_slot

(* The key whose turn the slot is, is in the node's keystore. *)
Responsible_always(n, b) == TRUE

Responsible(n, b) ==
    order_placer(View(b).authorities, relay[b].height, View(b).width) \in Keystore[n]

(* The traffic is a fixed-point number; the price is computed from the integer
   that represents it. *)
get_spot_price(view) == view.traffic * OnDemandBaseFee

(* The transaction that submit_order signs. *)
Order(n, b) ==
    [by |-> n, head |-> b, slot |-> Slot(b), width |-> View(b).width,
     max_amount |-> get_spot_price(View(b)),
     birth |-> first_block_in_slot(relay[b].height, View(b).width),
     death |-> Death(relay[b].height, View(b).width)]

-----------------------------------------------------------------------------
(* The relay chain: a block on any parent, with some blocks between them that
   never were best, makes the best chain no shorter. *)

(* The price the relay chain charges for an order. *)
Charged(view) == (view.traffic * OnDemandBaseFee) \div ONE

(* The order transactions that are valid at one of these heights, and that the
   chain up to the parent does not have yet. *)
Includable(parent, heights) ==
    {x \in DOMAIN submitted :
        /\ x \notin relay[parent].past \union relay[parent].orders
        /\ \E h \in heights : submitted[x].birth < h /\ h < submitted[x].death}

Top(parent, skipped) == relay[parent].height + skipped + 1

(* passed are the orders in the blocks passed over.  An order whose maximum is
   below the price fails, without an event. *)
NewBest(parent, skipped, passed, orders, view) ==
    /\ Len(relay) < MaxBlocks
    /\ Top(parent, skipped) >= relay[Best].height
    /\ \A x \in orders : Charged(view) <= submitted[x].max_amount
    /\ relay' = Append(relay, [height |-> Top(parent, skipped),
                               orders |-> orders,
                               past   |-> relay[parent].past \union relay[parent].orders
                                            \union passed,
                               view   |-> view])
    /\ UNCHANGED <<submitted, nodeVars, faults>>

-----------------------------------------------------------------------------
(* follow_relay_chain. *)
Release(n) == holder' = [holder EXCEPT ![n] = "none"]

FollowIdle == [pc |-> "idle", head |-> 0]

FollowStop(n) == follow' = [follow EXCEPT ![n] = FollowIdle]

FollowAt(n, pc, b) == follow' = [follow EXCEPT ![n] = [pc |-> pc, head |-> b]]

(* The next head of the stream, unless it has no validation data or a read at
   it fails. *)
FollowHead(n) ==
    /\ follow[n].pc = "idle"
    /\ cursor[n].heads < Best
    /\ LET b == cursor[n].heads + 1 IN
        /\ cursor' = [cursor EXCEPT ![n].heads = b]
        /\ \/ Eligible(View(b)) /\ FollowAt(n, "lock", b)
           \/ UNCHANGED follow
    /\ UNCHANGED <<relayVars, record, holder, event, author, acked, handled, faults>>

(* With the lock: nothing to do (the slot has an order, it is another
   collator's turn, the criteria are not met or a read fails), *)
FollowReturn(n) ==
    /\ follow[n].pc = "lock"
    /\ holder[n] = "none"
    /\ FollowStop(n)
    /\ UNCHANGED <<relayVars, record, holder, event, author, cursor, acked, handled,
                   faults>>

(* or an order to place: the lock is kept. *)
FollowDecide_unlocked(n) ==
    /\ follow[n].pc = "lock"
    /\ holder[n] = "none"
    /\ ~OrderAlreadyPlaced(n, follow[n].head)
    /\ Responsible(n, follow[n].head)
    /\ FollowAt(n, "submit", follow[n].head)
    /\ UNCHANGED <<relayVars, record, holder, event, author, cursor, acked, handled,
                   faults>>

FollowDecide(n) ==
    /\ follow[n].pc = "lock"
    /\ holder[n] = "none"
    /\ ~OrderAlreadyPlaced(n, follow[n].head)
    /\ Responsible(n, follow[n].head)
    /\ holder' = [holder EXCEPT ![n] = "follow"]
    /\ FollowAt(n, "submit", follow[n].head)
    /\ UNCHANGED <<relayVars, record, event, author, cursor, acked, handled,
                   faults>>

(* submit_order reaches the relay chain's pool, *)
SubmitOrder(n) ==
    /\ follow[n].pc = "submit"
    /\ submitted' = Append(submitted, Order(n, follow[n].head))
    /\ FollowAt(n, "answer", follow[n].head)
    /\ UNCHANGED <<relay, record, holder, event, author, cursor, acked, handled,
                   faults>>

(* its answer arrives and the record is updated, *)
Committed_noSlot(n) ==
    [record EXCEPT ![n].hash = follow[n].head]

Committed_nextBlock(n) ==
    [record EXCEPT ![n] = [hash |-> follow[n].head + 1, last_slot |-> Slot(follow[n].head)]]

Committed_nextSlot(n) ==
    [record EXCEPT ![n] = [hash |-> follow[n].head, last_slot |-> Slot(follow[n].head) + 1]]

Committed(n) ==
    [record EXCEPT ![n] = [hash |-> follow[n].head, last_slot |-> Slot(follow[n].head)]]

FollowCommit(n) ==
    /\ follow[n].pc = "answer"
    /\ record' = Committed(n)
    /\ acked' = [acked EXCEPT ![n] = Append(@, Slot(follow[n].head))]
    /\ Release(n)
    /\ FollowStop(n)
    /\ UNCHANGED <<relayVars, event, author, cursor, handled, faults>>


FollowFail(n) ==
    /\ follow[n].pc \in {"submit", "answer"}
    /\ FaultAllowed
    /\ failures' = failures + 1
    /\ Release(n)
    /\ FollowStop(n)
    /\ UNCHANGED <<relayVars, record, event, author, cursor, acked, handled,
                   reconnects, restarts>>

-----------------------------------------------------------------------------
(* ondemand_event_task. *)
EventIdle == [pc |-> "idle", block |-> 0]

EventNext(n) ==
    /\ event[n].pc = "idle"
    /\ cursor[n].events < Best
    /\ LET b == cursor[n].events + 1 IN
        /\ cursor' = [cursor EXCEPT ![n].events = b]
        /\ event' = IF relay[b].orders = {} THEN event
                    ELSE [event EXCEPT ![n] = [pc |-> "lock", block |-> b]]
    /\ UNCHANGED <<relayVars, record, holder, follow, author, acked, handled, faults>>

EventRecord_tryLock(n) ==
    /\ event[n].pc = "lock"
    /\ event' = [event EXCEPT ![n] = EventIdle]
    /\ IF holder[n] = "none"
       THEN /\ record' = [record EXCEPT ![n].hash = event[n].block]
            /\ handled' = [handled EXCEPT ![n] = event[n].block]
       ELSE UNCHANGED <<record, handled>>
    /\ UNCHANGED <<relayVars, holder, follow, author, cursor, acked, faults>>

EventRecord(n) ==
    /\ event[n].pc = "lock"
    /\ holder[n] = "none"
    /\ record' = [record EXCEPT ![n].hash = event[n].block]
    /\ handled' = [handled EXCEPT ![n] = event[n].block]
    /\ event' = [event EXCEPT ![n] = EventIdle]
    /\ UNCHANGED <<relayVars, holder, follow, author, cursor, acked, faults>>

(* A call fails: event_notification subscribes anew, from the best block on. *)
EventReconnect(n) ==
    /\ event[n].pc = "idle"
    /\ FaultAllowed
    /\ reconnects' = reconnects + 1
    /\ cursor' = [cursor EXCEPT ![n].events = Best - 1]
    /\ UNCHANGED <<relayVars, record, holder, follow, event, author, acked, handled,
                   failures, restarts>>

-----------------------------------------------------------------------------
(* Block authoring: create_inherent_data_providers. *)
AuthorStart(n) ==
    /\ author[n] = "idle"
    /\ author' = [author EXCEPT ![n] = "lock"]
    /\ UNCHANGED <<relayVars, record, holder, follow, event, cursor, acked, handled,
                   faults>>

AuthorLock(n) ==
    /\ author[n] = "lock"
    /\ holder[n] = "none"
    /\ holder' = [holder EXCEPT ![n] = "author"]
    /\ author' = [author EXCEPT ![n] = "prove"]
    /\ UNCHANGED <<relayVars, record, follow, event, cursor, acked, handled,
                   faults>>

(* create_at returns: no data, the data of the recorded block, or nothing at
   all when the block's header or state is not available, in which case the
   node authors no block.  The record is the same whichever it is. *)
AuthorDone(n) ==
    /\ author[n] = "prove"
    /\ Release(n)
    /\ author' = [author EXCEPT ![n] = "idle"]
    /\ UNCHANGED <<relayVars, record, follow, event, cursor, acked, handled,
                   faults>>

-----------------------------------------------------------------------------
(* The record is kept in memory only: a restarted node has a new one, and its
   streams begin with what is best then. *)
NewRecord == [hash |-> 0, last_slot |-> 0]

Restart(n) ==
    /\ FaultAllowed
    /\ restarts' = restarts + 1
    /\ record' = [record EXCEPT ![n] = NewRecord]
    /\ holder' = [holder EXCEPT ![n] = "none"]
    /\ follow' = [follow EXCEPT ![n] = FollowIdle]
    /\ event' = [event EXCEPT ![n] = EventIdle]
    /\ author' = [author EXCEPT ![n] = "idle"]
    /\ cursor' = [cursor EXCEPT ![n] = [heads |-> Best, events |-> Best - 1]]
    /\ acked' = [acked EXCEPT ![n] = <<>>]
    /\ handled' = [handled EXCEPT ![n] = 0]
    /\ UNCHANGED <<relayVars, failures, reconnects>>

-----------------------------------------------------------------------------
Init ==
    /\ relay = <<[height |-> StartHeight, orders |-> {}, past |-> {}, view |-> StartView]>>
    /\ submitted = <<>>
    /\ record = [n \in Nodes |-> NewRecord]
    /\ holder = [n \in Nodes |-> "none"]
    /\ follow = [n \in Nodes |-> FollowIdle]
    /\ event = [n \in Nodes |-> EventIdle]
    /\ author = [n \in Nodes |-> "idle"]
    /\ cursor = [n \in Nodes |-> [heads |-> 0, events |-> 0]]
    /\ acked = [n \in Nodes |-> <<>>]
    /\ handled = [n \in Nodes |-> 0]
    /\ failures = 0
    /\ reconnects = 0
    /\ restarts = 0

RelayNext ==
    \E parent \in DOMAIN relay, view \in Views, skipped \in 0 .. MaxSkipped :
        \E passed \in SUBSET Includable(parent, relay[parent].height + 1 ..
                                                  relay[parent].height + skipped) :
            \E orders \in SUBSET (Includable(parent, {Top(parent, skipped)}) \ passed) :
                NewBest(parent, skipped, passed, orders, view)

NodeNext(n) ==
    \/ FollowHead(n) \/ FollowReturn(n) \/ FollowDecide(n)
    \/ SubmitOrder(n) \/ FollowCommit(n) \/ FollowFail(n)
    \/ EventNext(n) \/ EventRecord(n) \/ EventReconnect(n)
    \/ AuthorStart(n) \/ AuthorLock(n) \/ AuthorDone(n)
    \/ Restart(n)

Next == RelayNext \/ \E n \in Nodes : NodeNext(n)

Spec == Init /\ [][Next]_vars

-----------------------------------------------------------------------------
OrderType ==
    [by : Nodes, head : Blocks, slot : Nat, width : Nat, max_amount : Nat,
     birth : Nat, death : Nat]

BlockType ==
    [height : Nat, orders : SUBSET Nat, past : SUBSET Nat, view : Views]

RecordType == [hash : 0 .. Best, last_slot : Nat]
CursorType == [heads : 0 .. Best, events : 0 .. Best]
FollowType == {FollowIdle} \union [pc : {"lock", "submit", "answer"}, head : 1 .. Best]
EventType  == {EventIdle} \union [pc : {"lock"}, block : 1 .. Best]

TypeOK ==
    /\ relay \in Seq(BlockType) /\ Len(relay) \in Blocks
    /\ submitted \in Seq(OrderType)
    /\ record \in [Nodes -> RecordType]
    /\ holder \in [Nodes -> {"none", "follow", "author"}]
    /\ follow \in [Nodes -> FollowType]
    /\ event \in [Nodes -> EventType]
    /\ author \in [Nodes -> {"idle", "lock", "prove"}]
    /\ cursor \in [Nodes -> CursorType]
    /\ acked \in [Nodes -> Seq(Nat)]
    /\ handled \in [Nodes -> 0 .. Best]
    /\ failures \in Nat /\ reconnects \in Nat /\ restarts \in Nat
    /\ failures + reconnects + restarts <= MaxFaults

(* The record's last_slot is a slot latch that only a restart resets: a node
   has at most one acknowledged order per slot, in slot order. *)
Latch(n) == INSTANCE SlotLatch WITH latch <- record[n].last_slot, fired <- acked[n],
                                    Volatile <- TRUE

LatchInit == \A n \in Nodes : Latch(n)!Init
LatchStep == \A n \in Nodes : Latch(n)!Next \/ UNCHANGED Latch(n)!latchVars
OrderLatch == LatchInit /\ [][LatchStep]_vars

(* A node sends a second order for a slot only after a failed call or a
   restart, one for each (counted over all nodes): nothing else makes it
   forget, no reorganisation, no late head and no event. *)
Orders(n, slot) == {x \in DOMAIN submitted : submitted[x].by = n /\ submitted[x].slot = slot}

DuplicatesAreRetries ==
    \A x \in DOMAIN submitted :
        Cardinality(Orders(submitted[x].by, submitted[x].slot)) <= 1 + failures + restarts

(* The record turns a head away only because the node sent an order for the
   head's slot or a later one: a restart, a failed call, a reorganisation or a
   change of the width never silences it, but for slot 0, which the record
   excludes from the start, and for slots that are wider than those of an
   order it sent before, whose number may be ahead of theirs. *)
FreshSlotOrderable ==
    \A n \in Nodes, b \in DOMAIN relay :
        0 < Slot(b) /\ OrderAlreadyPlaced(n, b) =>
            \E x \in DOMAIN submitted :
                /\ submitted[x].by = n
                /\ \/ current_slot(relay[submitted[x].head].height, View(b).width) >= Slot(b)
                   \/ submitted[x].width % BITS < View(b).width % BITS

(* Once the event task has recorded the block that includes a node's order,
   the record never falls back to the head at which the order was sent (where
   there is nothing to prove): that is why the lock is held from the check to
   the update. *)
EventSurvives ==
    \A n \in Nodes : handled[n] # 0 =>
        \A x \in relay[handled[n]].orders :
            submitted[x].by = n => record[n].hash # submitted[x].head

(* The collators agree whose turn a slot is without talking: no two of them
   order for the same slot, if they read the same width and Aura set. *)
SameSchedule(x, y) ==
    /\ submitted[x].width = submitted[y].width
    /\ View(submitted[x].head).authorities = View(submitted[y].head).authorities

OnePlacerPerSlot ==
    \A x, y \in DOMAIN submitted :
        submitted[x].slot = submitted[y].slot /\ SameSchedule(x, y) =>
            submitted[x].by = submitted[y].by

(* get_spot_price: "Get the spot price from the relay chain."  The price is the
   maximum the order may cost; so an order never costs more than the price
   was at the head it was sent at. *)
CostsNoMoreThanPrice ==
    \A b \in DOMAIN relay : \A x \in relay[b].orders :
        Charged(View(b)) <= Charged(View(submitted[x].head))

(* on_demand_cores_available: "Checks if there are any cores allocated to
   on-demand."  The service logs "No cores allocated to on-demand" where it
   gives up; so an order is placed only where there are. *)
OrdersNeedCores ==
    \A x \in DOMAIN submitted :
        \E c \in DOMAIN View(submitted[x].head).cores :
            "Pool" \in View(submitted[x].head).cores[c]
=============================================================================
