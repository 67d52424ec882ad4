---------------------------- MODULE OnDemandCores ---------------------------
(***************************************************************************)
(* OnDemandSystem for a parachain that has no core but those it orders: an *)
(* order that the relay chain includes buys a core for one block of the    *)
(* parachain, and the relay chain asks for a collation only while a core   *)
(* that was bought waits.  Without orders the parachain stops, as the      *)
(* end-to-end test order-placement.ts expects.                             *)
(*                                                                         *)
(* This is where fairness is assumed, and what must eventually happen is   *)
(* stated.  The admin leaves the configuration as it is.                   *)
(***************************************************************************)
EXTENDS OnDemandSystem

VARIABLE used   \* the orders whose core a block of the parachain has used

coreVars == <<vars, used>>

(* The orders that the best relay chain includes, in blocks it announced or in
   blocks it passed over; those whose core waits to be used. *)
Bought == relay[Len(relay)].orders \union relay[Len(relay)].past

Waiting == Bought \ used

-----------------------------------------------------------------------------
(* A node is asked for a collation only while a core waits, *)
Asked(n) == author[n] = "idle" /\ author'[n] # "idle" => Waiting # {}

(* and the block it builds uses that core. *)
UseCore(n) == AuthorBlock(n) /\ \E x \in Waiting : used' = used \union {x}

CoresInit == Init /\ used = {}

CoresNext ==
    \/ RelayBlock /\ UNCHANGED used
    \/ Include /\ UNCHANGED used
    \/ \E n \in Nodes :
        \/ NodeStep(n) /\ Asked(n) /\ UNCHANGED used
        \/ UseCore(n)
        \/ AuthorNoBlock(n) /\ UNCHANGED used
    \/ CreateOrder /\ UNCHANGED used
    \/ FinalizeBlock /\ UNCHANGED used

CoresSpec == CoresInit /\ [][CoresNext]_coreVars

(* Every call is answered or fails, the event stream delivers, and a task that
   waits for a lock which is free again and again gets it.  The relay chain
   asks for a collation as long as a core waits, a block that could be built
   for it again and again is built, and once built it is executed to its end
   and included.  Nothing is assumed of orders, of new best relay blocks or of
   the stream of heads. *)
NodeDoes(action) == action /\ UNCHANGED <<chainVars, linkVars, used>>

AskCollation(n) == Waiting # {} /\ NodeDoes(Service!AuthorStart(n))

Fairness ==
    /\ \A n \in Nodes :
        /\ WF_coreVars(NodeDoes(Service!SubmitOrder(n) \/ Service!FollowCommit(n)
                                 \/ Service!FollowFail(n)))
        /\ SF_coreVars(NodeDoes(Service!EventNext(n) \/ Service!EventRecord(n)))
        /\ WF_coreVars(AskCollation(n))
        /\ SF_coreVars(NodeDoes(Service!AuthorLock(n)))
        /\ WF_coreVars(NodeDoes(Service!AuthorDone(n)))
        /\ SF_coreVars(UseCore(n))
    /\ WF_coreVars((CreateOrder \/ FinalizeBlock \/ Include) /\ UNCHANGED used)

FairSpec == CoresSpec /\ Fairness

-----------------------------------------------------------------------------
(* A core that was bought is used, or the relay chain drops its order in a
   reorganisation; though order placement holds the record's lock across calls
   to another machine while authoring needs it for every block.  What makes a
   core wait for ever is one thing only: a record that names for ever a relay
   block whose state is gone, so that create_at returns nothing.
   (A node sends at most one order per head.) *)
RecordGone == \E n \in Nodes : ~Readable(record[n].hash)


(* Every order in a best relay block that is still ahead in a node's stream of
   events reaches its record, also after the stream broke and began anew or
   the node restarted, though order placement and authoring hold the lock:
   until the next time that the stream breaks or the node restarts. *)
Ahead(n, b) ==
    /\ b \in DOMAIN relay /\ relay[b].orders # {}
    /\ cursor[n].events < b \/ event[n].block = b

EventsAreRecorded ==
    \A n \in Nodes, b \in 1 .. MaxBlocks, broken \in 0 .. MaxFaults :
        Ahead(n, b) /\ reconnects + restarts = broken
            ~> handled[n] >= b \/ reconnects + restarts # broken
=============================================================================
