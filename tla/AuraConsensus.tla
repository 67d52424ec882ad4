--------------------------- MODULE AuraConsensus ----------------------------
(***************************************************************************)
(* The deprecated AuraConsensus, which is still part of the crate's        *)
(* interface.  Clones of it share one atomic, last_slot_processed, and one *)
(* mutex around the Aura worker, and each clone may be in the middle of a  *)
(* produce_candidate of its own: asking for the inherent data, which has   *)
(* the slot, then taking the slot with one atomic step, then waiting for   *)
(* the worker.                                                             *)
(***************************************************************************)
EXTENDS Integers, Sequences

CONSTANTS Clones,
          Slots,         \* slots the inherent data may name
          MaxRestarts    \* bound on restarts of the node

ASSUME AuraAssumption ==
    /\ Slots \subseteq Nat
    /\ MaxRestarts \in Nat

VARIABLES last_slot_processed,   \* the shared atomic
          worker,     \* the clones that use the worker: one or none
          call,       \* where each clone's produce_candidate is, and its slot
          taken,      \* history: slots that were taken, since the start
          authored,   \* history: slots the worker was asked for, in order
          restarts

vars == <<last_slot_processed, worker, call, taken, authored, restarts>>

Idle == [pc |-> "idle", slot |-> 0]

-----------------------------------------------------------------------------
Goto(c, pc, slot) == call' = [call EXCEPT ![c] = [pc |-> pc, slot |-> slot]]

Return(c) == call' = [call EXCEPT ![c] = Idle]

(* inherent_data: it fails, which leaves everything as it was, or it says
   which slot it is.  The calls of two clones may learn their slots in one
   order and go on in the other. *)
inherent_data(c, slot) ==
    /\ call[c].pc = "idle"
    /\ Goto(c, "slot", slot)
    /\ UNCHANGED <<last_slot_processed, worker, taken, authored, restarts>>

(* The "hack" to only produce one block per slot: the slot is taken with a
   fetch_max, unless it, or a later one, has been taken before. *)
fetch_max_swap(slot) == slot

fetch_max(slot) == IF slot > last_slot_processed THEN slot ELSE last_slot_processed

Fresh_orSame(slot) == last_slot_processed <= slot

Fresh(slot) == last_slot_processed < slot

TakeSlot(c) ==
    /\ call[c].pc = "slot"
    /\ last_slot_processed' = fetch_max(call[c].slot)
    /\ \/ /\ Fresh(call[c].slot)
          /\ taken' = Append(taken, call[c].slot)
          /\ Goto(c, "lock", call[c].slot)
       \/ /\ ~Fresh(call[c].slot)
          /\ UNCHANGED taken
          /\ Return(c)
    /\ UNCHANGED <<worker, authored, restarts>>

(* The worker's mutex. *)
WorkerFree_always == TRUE

WorkerFree == worker = {}

LockWorker(c) ==
    /\ call[c].pc = "lock"
    /\ WorkerFree
    /\ worker' = worker \union {c}
    /\ Goto(c, "work", call[c].slot)
    /\ authored' = Append(authored, call[c].slot)
    /\ UNCHANGED <<last_slot_processed, taken, restarts>>

(* on_slot has a block, or none: it is not the node's turn, or it failed.  The
   guard is dropped either way. *)
Unlock_leaked == UNCHANGED worker

Unlock == worker' = {}

OnSlot(c) ==
    /\ call[c].pc = "work"
    /\ Unlock
    /\ Return(c)
    /\ UNCHANGED <<last_slot_processed, taken, authored, restarts>>

(* The atomic is in memory only. *)
Restart ==
    /\ restarts < MaxRestarts
    /\ restarts' = restarts + 1
    /\ last_slot_processed' = 0
    /\ worker' = {}
    /\ call' = [c \in Clones |-> Idle]
    /\ taken' = <<>>
    /\ authored' = <<>>

-----------------------------------------------------------------------------
Init ==
    /\ last_slot_processed = 0
    /\ worker = {}
    /\ call = [c \in Clones |-> Idle]
    /\ taken = <<>>
    /\ authored = <<>>
    /\ restarts = 0

produce_candidate(c) ==
    \/ \E slot \in Slots : inherent_data(c, slot)
    \/ TakeSlot(c)
    \/ LockWorker(c)
    \/ OnSlot(c)

Next ==
    \/ \E c \in Clones : produce_candidate(c)
    \/ Restart

Spec == Init /\ [][Next]_vars

(* on_slot ends (the proposer has a deadline), and unlocking wakes a waiter. *)
Fairness ==
    \A c \in Clones : /\ WF_vars(TakeSlot(c)) /\ WF_vars(OnSlot(c))
                      /\ SF_vars(LockWorker(c))

FairSpec == Spec /\ Fairness

-----------------------------------------------------------------------------
CallType == {Idle} \union [pc : {"slot", "lock", "work"}, slot : Slots]

(* (No two clones use the worker at a time.) *)
TypeOK ==
    /\ last_slot_processed \in Nat
    /\ worker \in {{}} \union {{c} : c \in Clones}
    /\ call \in [Clones -> CallType]
    /\ taken \in Seq(Slots)
    /\ authored \in Seq(Slots)
    /\ restarts \in 0 .. MaxRestarts

(* The comment in produce_candidate: "we have this "hack" to only produce on
   block per slot".  However the clones' calls interleave, the worker is asked
   at most once for a slot.  (Not in slot order: a clone may take a later slot
   and get the worker first.) *)
OneCandidatePerSlot ==
    \A i, j \in 1 .. Len(authored) : i # j => authored[i] # authored[j]

(* The atomic is a slot latch, which only a restart resets. *)
Latch == INSTANCE SlotLatch WITH latch <- last_slot_processed, fired <- taken,
                                 Volatile <- TRUE

ConsensusLatch == Latch!Spec

(* A slot that was taken is not lost: the clone gets the worker in the end. *)
TakenSlotIsWorked == \A c \in Clones : call[c].pc = "lock" ~> call[c].pc # "lock"
=============================================================================
