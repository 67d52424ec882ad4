------------------------ MODULE AuraConsensus_proofs ------------------------
(***************************************************************************)
(* Proofs about AuraConsensus, for any number of clones, slots and         *)
(* restarts.                                                               *)
(***************************************************************************)
EXTENDS AuraConsensus, TLAPS

(* What a call is made of. *)
LEMMA CallFields ==
    ASSUME TypeOK, NEW c \in Clones
    PROVE  /\ call[c].pc # "idle" => call[c].slot \in Slots
           /\ Slots \subseteq Nat
           /\ last_slot_processed \in Nat
<1>1. call[c] \in CallType
    BY DEF TypeOK
<1> QED
    BY <1>1, AuraAssumption DEF CallType, Idle, TypeOK

(* The state of the clones, the worker and the atomic is well typed; no two
   clones use the worker at a time. *)
THEOREM ConsensusTyped == Spec => []TypeOK
<1> USE AuraAssumption DEF CallType, Idle
<1>1. Init => TypeOK
    BY DEF Init, TypeOK
<1>2. TypeOK /\ [Next]_vars => TypeOK'
  <2> SUFFICES ASSUME TypeOK, [Next]_vars PROVE TypeOK'
    OBVIOUS
  <2>1. ASSUME NEW c \in Clones, NEW slot \in Slots, inherent_data(c, slot) PROVE TypeOK'
    BY <2>1 DEF inherent_data, Goto, TypeOK
  <2>2. ASSUME NEW c \in Clones, TakeSlot(c) PROVE TypeOK'
    <3>1. call[c].slot \in Slots /\ call[c].slot \in Nat
      BY <2>2, CallFields DEF TakeSlot
    <3>2. last_slot_processed' \in Nat
      BY <2>2, <3>1 DEF TakeSlot, fetch_max, TypeOK
    <3>3. taken' \in Seq(Slots)
      BY <2>2, <3>1 DEF TakeSlot, TypeOK
    <3>4. call' \in [Clones -> CallType]
      <4>1. [pc |-> "lock", slot |-> call[c].slot] \in CallType /\ Idle \in CallType
        BY <3>1
      <4> QED
        BY <2>2, <4>1 DEF TakeSlot, Goto, Return, TypeOK
    <3> QED
      BY <2>2, <3>2, <3>3, <3>4 DEF TakeSlot, TypeOK
  <2>3. ASSUME NEW c \in Clones, LockWorker(c) PROVE TypeOK'
    <3>1. call[c].slot \in Slots
      BY <2>3, CallFields DEF LockWorker
    <3>2. worker' = {c}
      BY <2>3 DEF LockWorker, WorkerFree
    <3>3. call' \in [Clones -> CallType] /\ authored' \in Seq(Slots)
      BY <2>3, <3>1 DEF LockWorker, Goto, TypeOK
    <3> QED
      BY <2>3, <3>2, <3>3 DEF LockWorker, TypeOK
  <2>4. ASSUME NEW c \in Clones, OnSlot(c) PROVE TypeOK'
    BY <2>4 DEF OnSlot, Unlock, Return, TypeOK
  <2>5. CASE Restart
    BY <2>5 DEF Restart, TypeOK
  <2>6. CASE UNCHANGED vars
    BY <2>6 DEF vars, TypeOK
  <2> QED
    BY <2>1, <2>2, <2>3, <2>4, <2>5, <2>6 DEF Next, produce_candidate
<1> QED
    BY <1>1, <1>2, PTL DEF Spec

-----------------------------------------------------------------------------
(* The shared atomic is a slot latch: taking a slot is a Fire, a restart a
   Reset, and everything else a stutter. *)
THEOREM ConsensusIsLatch == Spec => ConsensusLatch
<1>1. Init => Latch!Init
    BY DEF Init, Latch!Init
<1>2. TypeOK /\ [Next]_vars => [Latch!Next]_(Latch!latchVars)
  <2> SUFFICES ASSUME TypeOK, [Next]_vars PROVE [Latch!Next]_(Latch!latchVars)
    OBVIOUS
  <2>1. ASSUME NEW c \in Clones, TakeSlot(c) PROVE [Latch!Next]_(Latch!latchVars)
    <3>1. call[c].slot \in Nat /\ last_slot_processed \in Nat
      BY <2>1, CallFields DEF TakeSlot
    <3>2. CASE Fresh(call[c].slot)
      BY <2>1, <3>1, <3>2 DEF TakeSlot, Fresh, fetch_max, Latch!Next, Latch!Fire
    <3>3. CASE ~Fresh(call[c].slot)
      BY <2>1, <3>1, <3>3 DEF TakeSlot, Fresh, fetch_max, Latch!latchVars
    <3> QED
      BY <3>2, <3>3
  <2>2. CASE Restart
    BY <2>2 DEF Restart, Latch!Next, Latch!Reset
  <2> QED
    BY <2>1, <2>2 DEF Next, produce_candidate, inherent_data, LockWorker, OnSlot, vars,
                      Latch!latchVars
<1> QED
    BY <1>1, <1>2, ConsensusTyped, PTL DEF Spec, ConsensusLatch, Latch!Spec

-----------------------------------------------------------------------------
(* The inductive invariant behind OneCandidatePerSlot.  The slots the worker
   was asked for lie up to the atomic; *)
AuthoredTaken == \A i \in 1 .. Len(authored) : authored[i] <= last_slot_processed

(* so do the slots of the clones that wait for the worker, and the worker was
   not asked for those yet; *)
WaitingTaken ==
    \A c \in Clones : call[c].pc = "lock" =>
        /\ call[c].slot <= last_slot_processed
        /\ \A i \in 1 .. Len(authored) : authored[i] # call[c].slot

(* and no two clones wait with the same slot. *)
WaitingApart ==
    \A c, d \in Clones :
        c # d /\ call[c].pc = "lock" /\ call[d].pc = "lock" => call[c].slot # call[d].slot

SlotInv == AuthoredTaken /\ WaitingTaken /\ WaitingApart /\ OneCandidatePerSlot

(* A step that takes no slot and asks the worker for none. *)
LEMMA SlotInvStable ==
    ASSUME SlotInv, UNCHANGED <<last_slot_processed, authored>>,
           \A c \in Clones : call'[c].pc = "lock" => call'[c] = call[c]
    PROVE  SlotInv'
BY DEF SlotInv, AuthoredTaken, WaitingTaken, WaitingApart, OneCandidatePerSlot

(* A fresh slot is above all that were taken before. *)
LEMMA SlotInvTake ==
    ASSUME TypeOK, SlotInv, NEW c \in Clones, TakeSlot(c)
    PROVE  SlotInv'
<1>1. /\ call[c].slot \in Nat /\ last_slot_processed \in Nat
      /\ call \in [Clones -> CallType]
    BY CallFields DEF TakeSlot, TypeOK
<1>2. CASE ~Fresh(call[c].slot)
  <2>1. last_slot_processed' = last_slot_processed /\ authored' = authored
    BY <1>1, <1>2 DEF TakeSlot, Fresh, fetch_max
  <2>2. \A d \in Clones : call'[d].pc = "lock" => call'[d] = call[d]
    BY <1>1, <1>2 DEF TakeSlot, Return, Idle
  <2> QED
    BY <2>1, <2>2, SlotInvStable
<1>3. CASE Fresh(call[c].slot)
  <2> DEFINE s == call[c].slot
  <2>1. last_slot_processed' = s /\ last_slot_processed < s /\ authored' = authored
    BY <1>1, <1>3 DEF TakeSlot, Fresh, fetch_max
  <2>2. /\ call' = [call EXCEPT ![c] = [pc |-> "lock", slot |-> s]]
        /\ call'[c].slot = s
        /\ \A d \in Clones : d # c => call'[d] = call[d]
    BY <1>1, <1>3 DEF TakeSlot, Goto
  <2>3. \A i \in 1 .. Len(authored) : authored[i] \in Nat
    <3>1. authored \in Seq(Slots) /\ Slots \subseteq Nat
      BY AuraAssumption DEF TypeOK
    <3>2. \A i \in 1 .. Len(authored) : authored[i] \in Slots
      BY <3>1
    <3> QED
      BY <3>1, <3>2
  <2>4. \A d \in Clones : call[d].pc = "lock" => call[d].slot \in Nat
    BY CallFields
  <2>5. AuthoredTaken'
    BY <1>1, <2>1, <2>3 DEF SlotInv, AuthoredTaken
  <2>6. WaitingTaken'
    <3> SUFFICES ASSUME NEW d \in Clones, call'[d].pc = "lock"
                 PROVE  /\ call'[d].slot <= s
                        /\ \A i \in 1 .. Len(authored) : authored[i] # call'[d].slot
      BY <2>1 DEF WaitingTaken
    <3>1. CASE d = c
      BY <1>1, <2>1, <2>2, <2>3, <3>1 DEF SlotInv, AuthoredTaken
    <3>2. CASE d # c
      BY <1>1, <2>1, <2>2, <2>4, <3>2 DEF SlotInv, WaitingTaken
    <3> QED
      BY <3>1, <3>2
  <2>7. WaitingApart'
    BY <1>1, <2>1, <2>2, <2>4 DEF SlotInv, WaitingTaken, WaitingApart
  <2>8. OneCandidatePerSlot'
    BY <2>1 DEF SlotInv, OneCandidatePerSlot
  <2> QED
    BY <2>5, <2>6, <2>7, <2>8 DEF SlotInv
<1> QED
    BY <1>2, <1>3

(* The worker is asked for a slot it was not asked for, and nobody else waits
   with it. *)
LEMMA SlotInvLock ==
    ASSUME TypeOK, SlotInv, NEW c \in Clones, LockWorker(c)
    PROVE  SlotInv'
<1> DEFINE s == call[c].slot
<1>1. call \in [Clones -> CallType] /\ authored \in Seq(Slots) /\ Len(authored) \in Nat
    BY DEF TypeOK
<1>2. /\ authored' = Append(authored, s)
      /\ last_slot_processed' = last_slot_processed
      /\ call[c].pc = "lock"
    BY DEF LockWorker
<1>3. /\ s \in Slots
      /\ s <= last_slot_processed
      /\ \A i \in 1 .. Len(authored) : authored[i] # s
    BY <1>2, CallFields DEF SlotInv, WaitingTaken
<1>4. /\ Len(authored') = Len(authored) + 1
      /\ authored'[Len(authored) + 1] = s
      /\ \A i \in 1 .. Len(authored) : authored'[i] = authored[i]
    BY <1>1, <1>2, <1>3
<1>5. \A d \in Clones : call'[d].pc = "lock" => d # c /\ call'[d] = call[d]
    BY <1>1 DEF LockWorker, Goto
<1>6. AuthoredTaken'
    BY <1>1, <1>2, <1>3, <1>4 DEF SlotInv, AuthoredTaken
<1>7. WaitingTaken'
    BY <1>1, <1>2, <1>4, <1>5 DEF SlotInv, WaitingTaken, WaitingApart
<1>8. WaitingApart'
    BY <1>5 DEF SlotInv, WaitingApart
<1>9. OneCandidatePerSlot'
    BY <1>1, <1>3, <1>4 DEF SlotInv, OneCandidatePerSlot
<1> QED
    BY <1>6, <1>7, <1>8, <1>9 DEF SlotInv

(* However the calls of the clones interleave, the worker is asked at most
   once for a slot between two restarts of the node. *)
THEOREM CandidatePerSlot == Spec => []OneCandidatePerSlot
<1>1. Init => SlotInv
    BY DEF Init, Idle, SlotInv, AuthoredTaken, WaitingTaken, WaitingApart, OneCandidatePerSlot
<1>2. TypeOK /\ SlotInv /\ [Next]_vars => SlotInv'
  <2> SUFFICES ASSUME TypeOK, SlotInv, [Next]_vars PROVE SlotInv'
    OBVIOUS
  <2>1. ASSUME NEW c \in Clones, NEW slot \in Slots, inherent_data(c, slot) PROVE SlotInv'
    BY <2>1, SlotInvStable DEF inherent_data, Goto, TypeOK
  <2>2. ASSUME NEW c \in Clones, OnSlot(c) PROVE SlotInv'
    BY <2>2, SlotInvStable DEF OnSlot, Return, Idle, TypeOK
  <2>3. CASE Restart
    BY <2>3 DEF Restart, Idle, SlotInv, AuthoredTaken, WaitingTaken, WaitingApart,
                OneCandidatePerSlot
  <2>4. CASE UNCHANGED vars
    BY <2>4, SlotInvStable DEF vars
  <2> QED
    BY <2>1, <2>2, <2>3, <2>4, SlotInvTake, SlotInvLock DEF Next, produce_candidate
<1>3. SlotInv => OneCandidatePerSlot
    BY DEF SlotInv
<1> QED
    BY <1>1, <1>2, <1>3, ConsensusTyped, PTL DEF Spec
=============================================================================
