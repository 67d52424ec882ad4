------------------------ MODULE BasicCollator_proofs ------------------------
(***************************************************************************)
(* Proofs about the basic collator, for any slot durations, keys,          *)
(* authorities and number of relay blocks, failures and restarts.          *)
(***************************************************************************)
EXTENDS BasicCollator, TLAPS

RelayBlock == [parent : 0 .. MaxBlocks, number : Blocks, slot : Nat]
LogEntry == [kind : Kinds, at : Blocks, slot : Nat]

(* The block numbers leave room for the next block's. *)
Numbered == \A b \in DOMAIN relay : relay[b].number <= b

Typed == TypeOK /\ Numbered

(* A number of milliseconds has a number of slots. *)
LEMMA DivIsNat ==
    ASSUME NEW a \in Nat, NEW d \in Nat \ {0}
    PROVE  a \div d \in Nat
OBVIOUS

(* What the relay chain is made of. *)
LEMMA RelayFields ==
    ASSUME TypeOK, NEW b \in DOMAIN relay
    PROVE  /\ b \in Blocks
           /\ relay[b] \in RelayBlock
           /\ relay[b].number \in Blocks
           /\ relay[b].slot \in Nat
           /\ ClaimedSlot(b) \in Nat
<1>1. relay \in Seq(RelayBlock) /\ Len(relay) \in Blocks
    BY DEF TypeOK, RelayBlock
<1>2. relay[b] \in RelayBlock /\ b \in 1 .. Len(relay)
    BY <1>1
<1>3. relay[b].number \in Blocks /\ relay[b].slot \in Nat
    BY <1>2 DEF RelayBlock
<1>4. b \in Blocks
    BY <1>1, <1>2, CollatorAssumption DEF Blocks
<1>5. relay[b].slot * RelaySlotDuration \in Nat
    BY <1>3, CollatorAssumption
<1>6. ClaimedSlot(b) \in Nat
    BY <1>5, DivIsNat, CollatorAssumption DEF ClaimedSlot
<1> QED
    BY <1>2, <1>3, <1>4, <1>6

(* An entry of the log is well formed. *)
LEMMA EntryTyped ==
    ASSUME TypeOK, NEW b \in DOMAIN relay, NEW kind \in Kinds
    PROVE  Entry(kind, b) \in LogEntry
BY RelayFields DEF Entry, LogEntry

(* The request that is taken, and the one whose block is imported, are at
   relay blocks. *)
LEMMA Positions ==
    ASSUME TypeOK
    PROVE  /\ Len(relay) \in Nat \ {0} /\ DOMAIN relay = 1 .. Len(relay)
           /\ served \in 0 .. Len(relay) /\ importing \in 0 .. served
           /\ Taken => Request \in DOMAIN relay /\ Request \in 0 .. Len(relay)
           /\ importing # 0 => importing \in DOMAIN relay
<1>1. relay \in Seq(RelayBlock) /\ Len(relay) \in Blocks
    BY DEF TypeOK, RelayBlock
<1>2. Len(relay) \in Nat \ {0} /\ DOMAIN relay = 1 .. Len(relay)
    BY <1>1 DEF Blocks
<1>3. served \in 0 .. Len(relay) /\ importing \in 0 .. served
    BY DEF TypeOK
<1> QED
    BY <1>2, <1>3 DEF Taken, Request

(* A step of the relay chain. *)
LEMMA ImportTyped ==
    ASSUME Typed, NEW parent \in DOMAIN relay, NEW gap \in 1 .. MaxGap,
           RelayImport(parent, gap)
    PROVE  Typed'
<1> USE CollatorAssumption
<1> DEFINE blk == [parent |-> parent, number |-> relay[parent].number + 1,
                   slot |-> relay[parent].slot + gap]
<1>1. relay \in Seq(RelayBlock) /\ Len(relay) \in Blocks /\ DOMAIN relay = 1 .. Len(relay)
    BY Positions DEF Typed, TypeOK, RelayBlock
<1>2. relay' = Append(relay, blk) /\ Len(relay) < MaxBlocks
    BY DEF RelayImport
<1>3. relay[parent].number \in Blocks /\ relay[parent].slot \in Nat /\ parent \in Blocks
      /\ relay[parent].number <= Len(relay)
  <2>1. relay[parent].number \in Blocks /\ relay[parent].slot \in Nat /\ parent \in Blocks
    BY RelayFields DEF Typed
  <2>2. relay[parent].number <= parent /\ parent <= Len(relay)
    BY <1>1 DEF Typed, Numbered
  <2> QED
    BY <1>1, <2>1, <2>2 DEF Blocks
<1>4. blk \in RelayBlock /\ blk.number <= Len(relay) + 1
  <2>1. relay[parent].number + 1 \in Blocks /\ relay[parent].number + 1 <= Len(relay) + 1
    BY <1>1, <1>2, <1>3 DEF Blocks
  <2>2. relay[parent].slot + gap \in Nat /\ parent \in 0 .. MaxBlocks
    BY <1>3 DEF Blocks
  <2> QED
    BY <2>1, <2>2 DEF RelayBlock
<1> HIDE DEF blk
<1>5. /\ relay' \in Seq(RelayBlock) /\ Len(relay') = Len(relay) + 1
      /\ DOMAIN relay' = 1 .. Len(relay) + 1
      /\ relay'[Len(relay) + 1] = blk
      /\ \A b \in DOMAIN relay : relay'[b] = relay[b]
    BY <1>1, <1>2, <1>4
<1>6. Numbered'
    BY <1>1, <1>4, <1>5 DEF Typed, Numbered
<1>7. UNCHANGED <<served, last_processed_slot, last_relay_chain_block, importing, processed, log>>
    BY DEF RelayImport, latchVars
<1>8. Len(relay') \in Blocks /\ served \in 0 .. Len(relay')
    BY <1>1, <1>2, <1>5 DEF Blocks, Typed, TypeOK
<1> QED
    BY <1>5, <1>6, <1>7, <1>8 DEF Typed, TypeOK, RelayBlock

(* Steps of the collator. *)
LEMMA ServeTyped ==
    ASSUME Typed,
           \/ Drop
           \/ \E authorities \in AuthoritySets : Serve(authorities)
           \/ Complete \/ CollationFailed \/ Restart
    PROVE  Typed'
<1> USE Positions DEF Typed
<1>1. relay' = relay
    BY DEF Drop, Serve, Rejected, NoProposal, BuildAndImport, Complete, CollationFailed, Restart
<1>2. served' \in 0 .. Len(relay) /\ importing' \in 0 .. served'
    BY DEF Drop, Serve, Rejected, NoProposal, BuildAndImport, Complete, CollationFailed, Restart,
           Taken, Request
<1>3. log' \in Seq(LogEntry)
  <2>1. log \in Seq(LogEntry)
    BY DEF TypeOK, LogEntry
  <2>2. \/ log' = log
        \/ \E b \in DOMAIN relay, kind \in Kinds : log' = Append(log, Entry(kind, b))
    BY DEF Drop, Serve, Rejected, NoProposal, BuildAndImport, Complete, CollationFailed, Restart,
           Kinds
  <2> QED
    BY <2>1, <2>2, EntryTyped
<1>4. \/ UNCHANGED <<last_processed_slot, last_relay_chain_block, processed>>
      \/ \E b \in DOMAIN relay : Processed(b)
      \/ last_processed_slot' = 0 /\ last_relay_chain_block' = 0 /\ processed' = <<>>
    BY DEF Drop, Serve, Rejected, NoProposal, BuildAndImport, Complete, CollationFailed, Restart,
           latchVars
<1>5. last_processed_slot' \in Nat /\ last_relay_chain_block' \in 0 .. MaxBlocks
      /\ processed' \in Seq(Nat)
  <2>1. last_processed_slot \in Nat /\ last_relay_chain_block \in 0 .. MaxBlocks
        /\ processed \in Seq(Nat)
    BY DEF TypeOK
  <2>2. \A b \in DOMAIN relay : ClaimedSlot(b) \in Nat /\ relay[b].number \in 0 .. MaxBlocks
    BY RelayFields DEF Blocks
  <2>3. MaxBlocks \in Nat
    BY CollatorAssumption
  <2>4. ASSUME NEW b \in DOMAIN relay, Processed(b)
        PROVE  last_processed_slot' \in Nat /\ last_relay_chain_block' \in 0 .. MaxBlocks
               /\ processed' \in Seq(Nat)
    <3>1. ClaimedSlot(b) \in Nat /\ relay[b].number \in 0 .. MaxBlocks
      BY <2>2
    <3> QED
      BY <2>1, <2>4, <3>1 DEF Processed
  <2>5. CASE last_processed_slot' = 0 /\ last_relay_chain_block' = 0 /\ processed' = <<>>
    BY <2>3, <2>5
  <2>6. CASE UNCHANGED <<last_processed_slot, last_relay_chain_block, processed>>
    BY <2>1, <2>6
  <2> QED
    BY <1>4, <2>4, <2>5, <2>6
<1> QED
    BY <1>1, <1>2, <1>3, <1>5 DEF TypeOK, Numbered, LogEntry

(* Every reachable state is well typed. *)
LEMMA CollatorTypedInv == Spec => []Typed
<1>1. Init => Typed
  <2> SUFFICES ASSUME Init PROVE Typed
    OBVIOUS
  <2>1. [parent |-> 0, number |-> 1, slot |-> StartSlot] \in RelayBlock
    BY CollatorAssumption DEF RelayBlock, Blocks
  <2>2. relay \in Seq(RelayBlock) /\ Len(relay) = 1 /\ DOMAIN relay = {1} /\ relay[1].number = 1
    BY <2>1 DEF Init
  <2> QED
    BY <2>2, CollatorAssumption DEF Init, Typed, TypeOK, Numbered, RelayBlock, Blocks
<1>2. Typed /\ [Next]_vars => Typed'
  <2> SUFFICES ASSUME Typed, [Next]_vars PROVE Typed'
    OBVIOUS
  <2>1. CASE \E parent \in DOMAIN relay, gap \in 1 .. MaxGap : RelayImport(parent, gap)
    BY <2>1, ImportTyped
  <2>2. CASE \/ Drop
             \/ \E authorities \in AuthoritySets : Serve(authorities)
             \/ Complete \/ CollationFailed \/ Restart
    BY <2>2, ServeTyped
  <2>3. CASE UNCHANGED vars
    BY <2>3 DEF vars, latchVars, Typed, TypeOK, Numbered
  <2> QED
    BY <2>1, <2>2, <2>3 DEF Next
<1> QED
    BY <1>1, <1>2, PTL DEF Spec

(* In particular the log's relay blocks exist. *)
THEOREM CollatorTyped == Spec => []TypeOK
<1>1. Typed => TypeOK
    BY DEF Typed
<1> QED
    BY <1>1, CollatorTypedInv, PTL

-----------------------------------------------------------------------------
(* The inductive invariant behind CollatorLatch, while the relay chain has no
   forks: a block's number is its place in the stream of requests, so the
   next request's number is above last_relay_chain_block and the comparison of
   the slots decides; a block that is imported is of a slot not processed. *)
ChainInv ==
    /\ \A b \in DOMAIN relay : relay[b].number = b
    /\ last_relay_chain_block <= served
    /\ importing # 0 => ClaimedSlot(importing) > last_processed_slot

(* The request that gets past AlreadyProcessed is of a later slot. *)
LEMMA LaterSlot ==
    ASSUME TypeOK, ChainInv, Taken, ~AlreadyProcessed(Request)
    PROVE  ClaimedSlot(Request) > last_processed_slot
<1>1. Request \in DOMAIN relay /\ relay[Request].number = Request
    BY Positions DEF ChainInv
<1>2. ClaimedSlot(Request) \in Nat /\ last_processed_slot \in Nat
    BY <1>1, RelayFields DEF TypeOK
<1>3. last_relay_chain_block < Request
    BY CollatorAssumption, Positions DEF ChainInv, Request, TypeOK
<1> QED
    BY <1>1, <1>2, <1>3 DEF AlreadyProcessed

(* A step of the relay chain, *)
LEMMA ImportChain ==
    ASSUME Typed, ChainInv, Unforked', NEW parent \in DOMAIN relay, NEW gap \in 1 .. MaxGap,
           RelayImport(parent, gap)
    PROVE  ChainInv'
<1>1. relay \in Seq(RelayBlock) /\ DOMAIN relay = 1 .. Len(relay) /\ Len(relay) \in Nat
    BY Positions DEF Typed, TypeOK, RelayBlock
<1>2. PICK blk : relay' = Append(relay, blk) /\ blk.number = Len(relay) + 1
  <2> DEFINE new == [parent |-> parent, number |-> relay[parent].number + 1,
                     slot |-> relay[parent].slot + gap]
  <2>1. relay' = Append(relay, new)
    BY DEF RelayImport
  <2>2. parent = Len(relay)
    BY <1>1, <2>1 DEF Unforked
  <2>3. new.number = Len(relay) + 1
    BY <2>2 DEF ChainInv
  <2> QED
    BY <2>1, <2>3
<1>3. /\ DOMAIN relay' = 1 .. Len(relay) + 1
      /\ relay'[Len(relay) + 1].number = Len(relay) + 1
      /\ \A b \in DOMAIN relay : relay'[b] = relay[b]
    BY <1>1, <1>2
<1>4. UNCHANGED <<served, last_processed_slot, last_relay_chain_block, importing>>
    BY DEF RelayImport, latchVars
<1>5. importing # 0 => ClaimedSlot(importing)' = ClaimedSlot(importing)
    BY <1>3, <1>4, Positions DEF ClaimedSlot, Typed
<1>6. \A b \in DOMAIN relay' : relay'[b].number = b
    BY <1>1, <1>3 DEF ChainInv
<1> QED
    BY <1>4, <1>5, <1>6 DEF ChainInv

(* and of the collator. *)
LEMMA ServeChain ==
    ASSUME Typed, ChainInv,
           \/ Drop
           \/ \E authorities \in AuthoritySets : Serve(authorities)
           \/ Complete \/ CollationFailed \/ Restart
    PROVE  ChainInv'
<1> USE Positions DEF Typed
<1>1. relay' = relay
    BY DEF Drop, Serve, Rejected, NoProposal, BuildAndImport, Complete, CollationFailed, Restart
<1>2. last_relay_chain_block \in Nat /\ last_relay_chain_block <= served
    BY CollatorAssumption DEF TypeOK, ChainInv
<1>3. CASE Drop
    BY <1>1, <1>2, <1>3 DEF Drop, Taken, Request, latchVars, ChainInv
<1>4. ASSUME NEW authorities, NoProposal(authorities) PROVE ChainInv'
    BY <1>1, <1>2, <1>4 DEF NoProposal, Taken, Request, Processed, ChainInv
<1>5. ASSUME NEW authorities, BuildAndImport(authorities) PROVE ChainInv'
  <2>1. ClaimedSlot(Request) > last_processed_slot
    BY <1>5, LaterSlot DEF BuildAndImport
  <2> QED
    BY <1>1, <1>2, <1>5, <2>1 DEF BuildAndImport, Taken, Request, latchVars, ChainInv, ClaimedSlot
<1>6. CASE Complete
    BY <1>1, <1>6 DEF Complete, Processed, ChainInv
<1>7. CASE CollationFailed
    BY <1>1, <1>7 DEF CollationFailed, latchVars, ChainInv
<1>8. CASE Restart
    BY <1>1, <1>8 DEF Restart, ChainInv
<1>9. ASSUME NEW authorities, Rejected(authorities) PROVE ChainInv'
    BY <1>1, <1>2, <1>9 DEF Rejected, Taken, Request, latchVars, ChainInv
<1> QED
    BY <1>3, <1>4, <1>5, <1>6, <1>7, <1>8, <1>9 DEF Serve

(* The relay chain only grows: what has no forks never had one. *)
LEMMA UnforkedBefore ==
    ASSUME Typed, [Next]_vars, Unforked'
    PROVE  Unforked
<1>1. CASE relay' = relay
    BY <1>1 DEF Unforked
<1>2. ASSUME NEW parent \in DOMAIN relay, NEW gap \in 1 .. MaxGap, RelayImport(parent, gap)
      PROVE  Unforked
  <2>1. relay \in Seq(RelayBlock)
    BY DEF Typed, TypeOK, RelayBlock
  <2>2. PICK blk : relay' = Append(relay, blk)
    BY <1>2 DEF RelayImport
  <2>3. DOMAIN relay \subseteq DOMAIN relay' /\ \A b \in DOMAIN relay : relay'[b] = relay[b]
    BY <2>1, <2>2
  <2> QED
    BY <2>3 DEF Unforked
<1> QED
    BY <1>1, <1>2 DEF Next, Drop, Serve, Rejected, NoProposal, BuildAndImport, Complete,
                      CollationFailed, Restart, vars

(* While the relay chain has no forks, last_processed_slot is a slot latch: the
   collator processes slots in order and each once, until it restarts,
   whatever the gaps between relay blocks and whichever collations fail. *)
THEOREM CollatorIsLatch == Spec => CollatorLatch
<1> DEFINE Inv == Unforked => ChainInv
<1>1. Init => Inv /\ Latch!Init
    BY DEF Init, ChainInv, Latch!Init
<1>2. ASSUME Typed, ChainInv, [Next]_vars PROVE LatchStep /\ (Unforked' => ChainInv')
  <2>1. CASE \E parent \in DOMAIN relay, gap \in 1 .. MaxGap : RelayImport(parent, gap)
    BY <1>2, <2>1, ImportChain DEF RelayImport, latchVars, LatchStep, Latch!latchVars
  <2>2. CASE \/ Drop
             \/ \E authorities \in AuthoritySets : Serve(authorities)
             \/ Complete \/ CollationFailed \/ Restart
    <3>1. ChainInv'
      BY <1>2, <2>2, ServeChain
    <3>2. ASSUME NEW b \in DOMAIN relay, Processed(b), ClaimedSlot(b) > last_processed_slot
          PROVE  LatchStep
      BY <1>2, <3>2, RelayFields DEF Typed, Processed, LatchStep, Latch!Next, Latch!Fire
    <3>3. CASE \E authorities \in AuthoritySets : Serve(authorities)
      <4>1. ASSUME NEW authorities, NoProposal(authorities) PROVE LatchStep
        BY <1>2, <3>2, <4>1, LaterSlot, Positions DEF NoProposal, Typed
      <4> QED
        BY <3>1, <3>3, <4>1
        DEF Serve, Rejected, BuildAndImport, latchVars, LatchStep, Latch!latchVars
    <3>4. CASE Complete
      BY <1>2, <3>1, <3>2, <3>4, Positions DEF Complete, ChainInv, Typed
    <3>5. CASE Restart
      BY <3>1, <3>5 DEF Restart, LatchStep, Latch!Next, Latch!Reset
    <3> QED
      BY <2>2, <3>1, <3>3, <3>4, <3>5
      DEF Drop, CollationFailed, latchVars, LatchStep, Latch!latchVars
  <2>3. CASE UNCHANGED vars
    BY <1>2, <2>3 DEF vars, latchVars, ChainInv, ClaimedSlot, LatchStep, Latch!latchVars
  <2> QED
    BY <1>2, <2>1, <2>2, <2>3 DEF Next
<1>3. Typed /\ Inv /\ [Next]_vars => Inv' /\ [Unforked => LatchStep]_vars
    BY <1>2, UnforkedBefore
<1> HIDE DEF Inv
<1> QED
    BY <1>1, <1>3, CollatorTypedInv, PTL DEF Spec, CollatorLatch

-----------------------------------------------------------------------------
(* The inductive invariant behind RepeatsHaveCause.  The relay chain is a tree
   whose numbers and slots grow from parent to child; *)
Tree ==
    \A b \in DOMAIN relay :
        /\ relay[b].parent \in 0 .. b - 1
        /\ relay[b].parent # 0 => /\ relay[relay[b].parent].number < relay[b].number
                                  /\ relay[relay[b].parent].slot < relay[b].slot

(* an entry of the log has the slot of its relay block; *)
Slotted == \A i \in DOMAIN log : log[i].at \in DOMAIN relay /\ log[i].slot = ClaimedSlot(log[i].at)

(* with no failure and no restart in between, requests are served in order; *)
Calm(i, j) == \A k \in i .. j : log[k].kind \in {"none", "block"}

InOrder == \A i, j \in DOMAIN log : i < j /\ Calm(i, j) => log[i].at < log[j].at

(* the two variables are those of the last entry, unless that is a failure, a
   restart, or a block that is not answered yet; *)
LastEntry == log[Len(log)]

Remembers ==
    /\ importing # 0 => log # <<>> /\ LastEntry.kind = "block" /\ LastEntry.at = importing
    /\ log # <<>> /\ LastEntry.kind \in {"none", "block"} =>
        /\ LastEntry.at <= served
        /\ importing = 0 => /\ last_processed_slot = LastEntry.slot
                            /\ last_relay_chain_block = relay[LastEntry.at].number

RepeatInv ==
    /\ Tree
    /\ Slotted
    /\ InOrder
    /\ Remembers
    /\ RepeatsHaveCause

(* The members of a chain are ordered: a later one is a descendant, of a higher
   number and a later slot.  Each half of the argument gives a closed set that
   the chain, the least one, is part of. *)
LEMMA ChainLeast ==
    ASSUME NEW b \in Nat, NEW S \in SUBSET (1 .. b), b \in S, Closed(S)
    PROVE  Chain(b) \subseteq S
BY DEF Chain

LEMMA ChainClosed ==
    ASSUME Typed, Tree, NEW b \in DOMAIN relay
    PROVE  /\ b \in Chain(b)
           /\ Chain(b) \subseteq 1 .. b
           /\ \A c \in Chain(b) : relay[c].parent # 0 => relay[c].parent \in Chain(b)
<1>1. b \in 1 .. b /\ b \in Nat /\ DOMAIN relay = 1 .. Len(relay) /\ Len(relay) \in Nat
    BY Positions DEF Typed
<1>2. ASSUME NEW c \in Chain(b), relay[c].parent # 0
      PROVE  relay[c].parent \in Chain(b)
  <2>1. c \in DOMAIN relay /\ c \in 1 .. b
    BY <1>1 DEF Chain
  <2>2. relay[c].parent \in 1 .. b
    BY <1>1, <1>2, <2>1 DEF Tree
  <2> SUFFICES ASSUME NEW S \in SUBSET (1 .. b), b \in S, Closed(S)
               PROVE  relay[c].parent \in S
    BY <2>2 DEF Chain
  <2>3. c \in S
    BY DEF Chain
  <2> QED
    BY <1>2, <2>3 DEF Closed
<1> QED
    BY <1>1, <1>2 DEF Chain

LEMMA ChainOrdered ==
    ASSUME Typed, Tree, NEW b \in DOMAIN relay,
           NEW c \in Chain(b), NEW d \in Chain(b), c < d
    PROVE  relay[c].number < relay[d].number /\ relay[c].slot < relay[d].slot
<1> USE ChainClosed
<1>1. /\ b \in Nat /\ DOMAIN relay = 1 .. Len(relay) /\ Len(relay) \in Nat
      /\ Chain(b) \subseteq DOMAIN relay /\ Chain(b) \subseteq Nat
    BY Positions DEF Typed
<1>2. \A e \in Chain(b) : relay[e].number \in Nat /\ relay[e].slot \in Nat
    BY <1>1, RelayFields, CollatorAssumption DEF Typed, Blocks
<1>3. \A e \in Chain(b) :
        /\ relay[e].parent \in 0 .. e - 1
        /\ relay[e].parent # 0 =>
            /\ relay[e].parent \in Chain(b)
            /\ relay[relay[e].parent].number < relay[e].number
            /\ relay[relay[e].parent].slot < relay[e].slot
    BY <1>1 DEF Tree
<1> DEFINE Below(e) == \A f \in Chain(b) : f > e =>
                          /\ relay[f].parent >= e
                          /\ relay[e].number < relay[f].number
                          /\ relay[e].slot < relay[f].slot
           T == {e \in Chain(b) : Below(e)}
<1>4. T \in SUBSET (1 .. b) /\ b \in T
    BY <1>1
<1>5. ASSUME NEW e \in T, relay[e].parent # 0
      PROVE  relay[e].parent \in T
  <2> DEFINE p == relay[e].parent
             U == {f \in Chain(b) : f >= e \/ f <= p}
  <2>1. /\ e \in Chain(b) /\ Below(e)
        /\ p \in Chain(b) /\ p \in Nat /\ p < e
        /\ relay[p].number < relay[e].number /\ relay[p].slot < relay[e].slot
    BY <1>1, <1>3, <1>5
  <2>2. U \in SUBSET (1 .. b) /\ b \in U
    BY <1>1, <2>1
  <2>3. Closed(U)
    <3> SUFFICES ASSUME NEW f \in U, relay[f].parent # 0 PROVE relay[f].parent \in U
      BY DEF Closed
    <3>1. f \in Chain(b) /\ relay[f].parent \in Chain(b) /\ relay[f].parent < f
      BY <1>1, <1>3
    <3>2. f > e => relay[f].parent >= e
      BY <2>1, <3>1
    <3> QED
      BY <1>1, <2>1, <3>1, <3>2
  <2>4. Chain(b) \subseteq U
    BY <1>1, <2>2, <2>3, ChainLeast
  <2>5. ASSUME NEW f \in Chain(b), f > p
        PROVE  /\ relay[f].parent >= p
               /\ relay[p].number < relay[f].number
               /\ relay[p].slot < relay[f].slot
    <3>1. f >= e
      BY <1>1, <2>1, <2>4, <2>5
    <3>2. CASE f = e
      BY <2>1, <3>2
    <3>3. CASE f > e
      <4>1. /\ relay[f].parent >= e /\ relay[e].number < relay[f].number
            /\ relay[e].slot < relay[f].slot /\ relay[f].parent \in Int
        BY <1>1, <1>3, <2>1, <3>3
      <4>2. /\ relay[p].number \in Nat /\ relay[e].number \in Nat /\ relay[f].number \in Nat
            /\ relay[p].slot \in Nat /\ relay[e].slot \in Nat /\ relay[f].slot \in Nat
            /\ e \in Nat
        BY <1>1, <1>2, <2>1
      <4>3. relay[p].number < relay[f].number /\ relay[p].slot < relay[f].slot
        BY <2>1, <4>1, <4>2
      <4>4. relay[f].parent >= p
        BY <2>1, <4>1, <4>2
      <4> QED
        BY <4>3, <4>4
    <3> QED
      BY <1>1, <3>1, <3>2, <3>3
  <2> QED
    BY <2>1, <2>5
<1>6. Closed(T)
    BY <1>5 DEF Closed
<1>7. Chain(b) \subseteq T
    BY <1>1, <1>4, <1>6, ChainLeast
<1> QED
    BY <1>1, <1>7

(* A chain does not change when the relay chain grows. *)
LEMMA ChainStays ==
    ASSUME Typed, NEW blk, relay' = Append(relay, blk), NEW b \in DOMAIN relay
    PROVE  Chain(b)' = Chain(b)
<1>1. relay \in Seq(RelayBlock) /\ DOMAIN relay = 1 .. Len(relay) /\ Len(relay) \in Nat
    BY Positions DEF Typed, TypeOK, RelayBlock
<1>2. \A c \in 1 .. b : relay'[c] = relay[c]
    BY <1>1
<1>3. \A S \in SUBSET (1 .. b) : Closed(S)' <=> Closed(S)
    BY <1>2 DEF Closed
<1> QED
    BY <1>3 DEF Chain

(* Slots of the parachain follow the relay chain's. *)
LEMMA ClaimedMonotone ==
    ASSUME TypeOK, NEW a \in DOMAIN relay, NEW c \in DOMAIN relay,
           relay[a].slot <= relay[c].slot
    PROVE  ClaimedSlot(a) <= ClaimedSlot(c)
<1> DEFINE x == relay[a].slot * RelaySlotDuration
           y == relay[c].slot * RelaySlotDuration
<1>1. relay[a].slot \in Nat /\ relay[c].slot \in Nat
    BY RelayFields
<1>2. x \in Nat /\ y \in Nat /\ x <= y
    BY <1>1, CollatorAssumption, Z3
<1> HIDE DEF x, y
<1>3. x \div SlotDuration <= y \div SlotDuration
    BY <1>2, CollatorAssumption, Z3
<1> QED
    BY <1>3 DEF ClaimedSlot, x, y

(* A step of the relay chain. *)
LEMMA ImportRepeats ==
    ASSUME Typed, RepeatInv, NEW parent \in DOMAIN relay, NEW gap \in 1 .. MaxGap,
           RelayImport(parent, gap)
    PROVE  RepeatInv'
<1> DEFINE new == Len(relay) + 1
           blk == [parent |-> parent, number |-> relay[parent].number + 1,
                   slot |-> relay[parent].slot + gap]
<1>1. relay \in Seq(RelayBlock) /\ DOMAIN relay = 1 .. Len(relay) /\ Len(relay) \in Nat
    BY Positions DEF Typed, TypeOK, RelayBlock
<1>2. relay' = Append(relay, blk)
    BY DEF RelayImport
<1>3. /\ DOMAIN relay' = 1 .. new /\ relay'[new] = blk
      /\ \A b \in DOMAIN relay : relay'[b] = relay[b]
    BY <1>1, <1>2
<1>4. UNCHANGED <<served, last_processed_slot, last_relay_chain_block, importing, log>>
    BY DEF RelayImport, latchVars
<1>6. Tree'
  <2> SUFFICES ASSUME NEW b \in DOMAIN relay'
               PROVE  /\ relay'[b].parent \in 0 .. b - 1
                      /\ relay'[b].parent # 0 =>
                            /\ relay'[relay'[b].parent].number < relay'[b].number
                            /\ relay'[relay'[b].parent].slot < relay'[b].slot
    BY DEF Tree
  <2>1. CASE b \in DOMAIN relay
    <3>1. /\ relay[b].parent \in 0 .. b - 1
          /\ relay[b].parent # 0 => /\ relay[relay[b].parent].number < relay[b].number
                                    /\ relay[relay[b].parent].slot < relay[b].slot
      BY <2>1 DEF RepeatInv, Tree
    <3>2. relay[b].parent # 0 => relay[b].parent \in DOMAIN relay
      BY <1>1, <2>1, <3>1
    <3> QED
      BY <1>3, <2>1, <3>1, <3>2
  <2>2. CASE b = new
    <3>1. relay[parent].number \in Nat /\ relay[parent].slot \in Nat
      BY RelayFields, CollatorAssumption DEF Typed, Blocks
    <3>2. /\ relay'[b].parent = parent /\ relay'[parent] = relay[parent]
          /\ relay'[b].number = relay[parent].number + 1
          /\ relay'[b].slot = relay[parent].slot + gap
      BY <1>3, <2>2
    <3>3. parent \in 0 .. b - 1
      BY <1>1, <2>2
    <3>4. relay[parent].number < relay[parent].number + 1
          /\ relay[parent].slot < relay[parent].slot + gap
      BY <3>1, CollatorAssumption
    <3> QED
      BY <3>2, <3>3, <3>4
  <2> QED
    BY <1>1, <1>3, <2>1, <2>2
<1>7. Slotted'
  <2>1. ASSUME NEW i \in DOMAIN log
        PROVE  log[i].at \in DOMAIN relay' /\ log[i].slot = ClaimedSlot(log[i].at)'
    <3>1. log[i].at \in DOMAIN relay /\ log[i].slot = ClaimedSlot(log[i].at)
      BY DEF RepeatInv, Slotted
    <3>2. log[i].at \in DOMAIN relay' /\ relay'[log[i].at] = relay[log[i].at]
      BY <1>1, <1>3, <3>1
    <3> QED
      BY <1>4, <3>1, <3>2 DEF ClaimedSlot
  <2> QED
    BY <1>4, <2>1 DEF Slotted
<1>8. InOrder'
    BY <1>4 DEF RepeatInv, InOrder, Calm
<1>9. Remembers'
  <2>1. log # <<>> => LastEntry.at \in DOMAIN relay
    <3>1. log # <<>> => Len(log) \in DOMAIN log
      BY DEF Typed, TypeOK
    <3> QED
      BY <3>1 DEF RepeatInv, Slotted, LastEntry
  <2>2. log # <<>> => relay'[LastEntry.at] = relay[LastEntry.at]
    BY <1>3, <2>1
  <2>3. Remembers
    BY DEF RepeatInv
  <2> QED
    BY <1>4, <2>2, <2>3 DEF Remembers, LastEntry
<1>10. RepeatsHaveCause'
  <2>1. ASSUME NEW i \in DOMAIN log, NEW j \in DOMAIN log
        PROVE  SameChain(i, j)' <=> SameChain(i, j)
    <3>1. log[j].at \in DOMAIN relay
      BY DEF RepeatInv, Slotted
    <3>2. Chain(log[j].at)' = Chain(log[j].at)
      BY <1>2, <1>4, <3>1, ChainStays DEF Chain, Closed
    <3> QED
      BY <1>4, <3>2 DEF SameChain
  <2> SUFFICES ASSUME NEW i \in DOMAIN log, NEW j \in DOMAIN log, Repeat(i, j)'
               PROVE  \E k \in i + 1 .. j - 1 : \/ log[k].kind \in {"failed", "restart"}
                                               \/ ~SameChain(k, j)'
    BY <1>4 DEF RepeatsHaveCause
  <2>2. Repeat(i, j)
    BY <1>4, <2>1 DEF Repeat
  <2>3. PICK k \in i + 1 .. j - 1 : log[k].kind \in {"failed", "restart"} \/ ~SameChain(k, j)
    BY <2>2 DEF RepeatInv, RepeatsHaveCause
  <2>4. k \in DOMAIN log
    BY DEF Typed, TypeOK
  <2> QED
    BY <2>1, <2>3, <2>4
<1> QED
    BY <1>6, <1>7, <1>8, <1>9, <1>10 DEF RepeatInv

(* An entry that the collator appends to the log.  If it is of a request that
   got past AlreadyProcessed, then the last entry before it, when that is not
   a failure or a restart and is on the same chain, is of an earlier slot; and
   so is every entry of the chain before that one. *)
LEMMA EntryRepeats ==
    ASSUME Typed, RepeatInv, relay' = relay, NEW kind \in Kinds, NEW b \in DOMAIN relay,
           log' = Append(log, Entry(kind, b)),
           kind \in {"none", "block"} => Taken /\ b = Request /\ ~AlreadyProcessed(b)
    PROVE  Tree' /\ Slotted' /\ InOrder' /\ RepeatsHaveCause'
<1> DEFINE new == Len(log) + 1
<1>1. /\ DOMAIN relay = 1 .. Len(relay) /\ Len(relay) \in Nat
      /\ served \in Nat /\ importing \in 0 .. served
      /\ b \in Nat
    BY Positions DEF Typed
<1>2. log \in Seq(LogEntry) /\ DOMAIN log = 1 .. Len(log) /\ Len(log) \in Nat
    BY DEF Typed, TypeOK, LogEntry
<1>3. /\ DOMAIN log' = 1 .. new
      /\ log'[new] = Entry(kind, b)
      /\ \A i \in DOMAIN log : log'[i] = log[i]
    BY <1>2
<1>4. Entry(kind, b).kind = kind /\ Entry(kind, b).at = b /\ Entry(kind, b).slot = ClaimedSlot(b)
    BY DEF Entry
<1>5. Tree'
    BY DEF RepeatInv, Tree
<1>6. Slotted'
  <2>1. ASSUME NEW i \in DOMAIN log'
        PROVE  log'[i].at \in DOMAIN relay /\ log'[i].slot = ClaimedSlot(log'[i].at)
    <3>1. CASE i = new
      BY <1>3, <1>4, <3>1
    <3>2. CASE i \in DOMAIN log
      BY <1>3, <3>2 DEF RepeatInv, Slotted
    <3> QED
      BY <1>2, <1>3, <3>1, <3>2
  <2> QED
    BY <2>1 DEF Slotted, ClaimedSlot
<1>7. ASSUME NEW i \in DOMAIN log, NEW j \in DOMAIN log, Calm(i, j), i <= j
      PROVE  log[i].at <= log[j].at
  <2>1. log[i].at \in Nat /\ log[j].at \in Nat
    BY <1>1 DEF RepeatInv, Slotted
  <2>2. i < j => log[i].at < log[j].at
    BY <1>7 DEF RepeatInv, InOrder
  <2> QED
    BY <1>2, <1>7, <2>1, <2>2
<1>8. CASE kind \notin {"none", "block"}
  <2>1. InOrder'
    <3> SUFFICES ASSUME NEW i \in DOMAIN log', NEW j \in DOMAIN log', i < j, Calm(i, j)'
                 PROVE  log'[i].at < log'[j].at
      BY DEF InOrder
    <3>1. j # new
      <4>1. j \in i .. j
        BY <1>3
      <4>2. log'[j].kind \in {"none", "block"}
        BY <4>1 DEF Calm
      <4> QED
        BY <1>3, <1>4, <1>8, <4>2
    <3>2. i \in DOMAIN log /\ j \in DOMAIN log /\ \A k \in i .. j : k \in DOMAIN log
      BY <1>2, <1>3, <3>1
    <3>3. Calm(i, j)
      BY <1>3, <3>2 DEF Calm
    <3> QED
      BY <1>3, <3>2, <3>3 DEF RepeatInv, InOrder
  <2>2. RepeatsHaveCause'
    <3> SUFFICES ASSUME NEW i \in DOMAIN log', NEW j \in DOMAIN log', Repeat(i, j)'
                 PROVE  \E k \in i + 1 .. j - 1 : \/ log'[k].kind \in {"failed", "restart"}
                                                 \/ ~SameChain(k, j)'
      BY DEF RepeatsHaveCause
    <3>1. i \in DOMAIN log /\ j \in DOMAIN log
      BY <1>2, <1>3, <1>4, <1>8 DEF Repeat
    <3>2. Repeat(i, j)
      BY <1>3, <3>1 DEF Repeat, SameChain, Chain, Closed
    <3>3. PICK k \in i + 1 .. j - 1 : log[k].kind \in {"failed", "restart"} \/ ~SameChain(k, j)
      BY <3>1, <3>2 DEF RepeatInv, RepeatsHaveCause
    <3>4. k \in DOMAIN log
      BY <1>2, <3>1
    <3> QED
      BY <1>3, <3>1, <3>3, <3>4 DEF SameChain, Chain, Closed
  <2> QED
    BY <1>5, <1>6, <2>1, <2>2
<1>9. CASE kind \in {"none", "block"}
  <2> DEFINE last == Len(log)
  <2>1. importing = 0 /\ b = served + 1
    BY <1>9 DEF Taken, Request
  <2>2. ASSUME last \in DOMAIN log, log[last].kind \in {"none", "block"}
        PROVE  /\ log[last].at < b
               /\ last_processed_slot = ClaimedSlot(log[last].at)
               /\ last_relay_chain_block = relay[log[last].at].number
    <3>1. log # <<>> /\ LastEntry = log[last]
      BY <1>2, <2>2 DEF LastEntry
    <3>2. /\ log[last].at <= served /\ last_processed_slot = log[last].slot
          /\ last_relay_chain_block = relay[log[last].at].number
      BY <2>1, <2>2, <3>1 DEF RepeatInv, Remembers
    <3>3. log[last].at \in Nat /\ log[last].slot = ClaimedSlot(log[last].at)
      BY <1>1, <2>2 DEF RepeatInv, Slotted
    <3> QED
      BY <1>1, <2>1, <3>2, <3>3
  <2>3. InOrder'
    <3> SUFFICES ASSUME NEW i \in DOMAIN log', NEW j \in DOMAIN log', i < j, Calm(i, j)'
                 PROVE  log'[i].at < log'[j].at
      BY DEF InOrder
    <3>1. CASE j = new
      <4>1. i \in DOMAIN log /\ last \in DOMAIN log /\ i <= last /\ \A k \in i .. last : k \in i .. j
        BY <1>2, <1>3, <3>1
      <4>2. Calm(i, last)
        BY <1>2, <1>3, <4>1 DEF Calm
      <4>3. log[last].kind \in {"none", "block"}
        BY <1>2, <4>1, <4>2 DEF Calm
      <4>4. log[i].at <= log[last].at /\ log[last].at < b
        BY <1>7, <2>2, <4>1, <4>2, <4>3
      <4>5. log[i].at \in Nat /\ log[last].at \in Nat
        BY <1>1, <4>1 DEF RepeatInv, Slotted
      <4> QED
        BY <1>1, <1>3, <1>4, <3>1, <4>1, <4>4, <4>5
    <3>2. CASE j # new
      <4>1. i \in DOMAIN log /\ j \in DOMAIN log /\ \A k \in i .. j : k \in DOMAIN log
        BY <1>2, <1>3, <3>2
      <4>2. Calm(i, j)
        BY <1>3, <4>1 DEF Calm
      <4> QED
        BY <1>3, <4>1, <4>2 DEF RepeatInv, InOrder
    <3> QED
      BY <3>1, <3>2
  <2>4. RepeatsHaveCause'
    <3> SUFFICES ASSUME NEW i \in DOMAIN log', NEW j \in DOMAIN log', Repeat(i, j)',
                        \A k \in i + 1 .. j - 1 : /\ log'[k].kind \notin {"failed", "restart"}
                                                  /\ SameChain(k, j)'
                 PROVE  FALSE
      BY DEF RepeatsHaveCause
    <3>1. i < j /\ log'[i].kind = "block" /\ log'[i].slot = log'[j].slot /\ SameChain(i, j)'
      BY DEF Repeat
    <3>2. CASE j # new
      <4>1. i \in DOMAIN log /\ j \in DOMAIN log /\ \A k \in i + 1 .. j - 1 : k \in DOMAIN log
        BY <1>2, <1>3, <3>1, <3>2
      <4>2. Repeat(i, j)
        BY <1>3, <4>1 DEF Repeat, SameChain, Chain, Closed
      <4>3. PICK k \in i + 1 .. j - 1 : log[k].kind \in {"failed", "restart"} \/ ~SameChain(k, j)
        BY <4>1, <4>2 DEF RepeatInv, RepeatsHaveCause
      <4> QED
        BY <1>3, <4>1, <4>3 DEF SameChain, Chain, Closed
    <3>3. CASE j = new
      <4>1. i \in DOMAIN log /\ last \in DOMAIN log /\ i <= last /\ j - 1 = last
        BY <1>2, <1>3, <3>1, <3>3
      <4>2. Chain(b)' = Chain(b)
        BY DEF Chain, Closed
      <4>3. \A k \in i .. last : log[k].at \in Chain(b) /\ log[k].kind \notin {"failed", "restart"}
        <5>1. ASSUME NEW k \in i .. last
              PROVE  log[k].at \in Chain(b) /\ log[k].kind \notin {"failed", "restart"}
          <6>1. k \in DOMAIN log /\ log'[k] = log[k] /\ (k = i \/ k \in i + 1 .. j - 1)
            BY <1>2, <1>3, <4>1
          <6>2. SameChain(k, j)' /\ log'[k].kind \notin {"failed", "restart"}
            BY <3>1, <6>1
          <6> QED
            BY <1>3, <1>4, <3>3, <4>2, <6>1, <6>2 DEF SameChain
        <5> QED
          BY <5>1
      <4>4. Calm(i, last)
        <5>1. \A k \in i .. last : log[k] \in LogEntry
          BY <1>2, <4>1
        <5>2. \A k \in i .. last : log[k].kind \in Kinds
          BY <5>1 DEF LogEntry
        <5> QED
          BY <4>3, <5>2 DEF Calm, Kinds
      <4> DEFINE a == log[i].at
                 c == log[last].at
      <4>5. /\ a \in Chain(b) /\ c \in Chain(b) /\ a <= c
            /\ log[last].kind \in {"none", "block"}
        BY <1>2, <1>7, <4>1, <4>3, <4>4 DEF Calm
      <4>6. /\ c < b /\ last_processed_slot = ClaimedSlot(c)
            /\ last_relay_chain_block = relay[c].number
        BY <2>2, <4>1, <4>5
      <4>7. a \in DOMAIN relay /\ c \in DOMAIN relay /\ b \in Chain(b)
        BY <4>1, ChainClosed DEF RepeatInv, Slotted
      <4>8. relay[c].number < relay[b].number
        BY <4>5, <4>6, <4>7, ChainOrdered DEF RepeatInv
      <4>9. ClaimedSlot(c) < ClaimedSlot(b)
        <5>1. ClaimedSlot(c) \in Nat /\ ClaimedSlot(b) \in Nat
          BY <4>7, RelayFields DEF Typed
        <5> QED
          BY <1>9, <4>6, <4>8, <5>1 DEF AlreadyProcessed
      <4>10. relay[a].slot <= relay[c].slot
        <5>1. a < c => relay[a].slot < relay[c].slot
          BY <4>5, ChainOrdered DEF RepeatInv
        <5>2. a \in Nat /\ c \in Nat /\ relay[a].slot \in Nat /\ relay[c].slot \in Nat
          BY <1>1, <4>7, RelayFields DEF Typed
        <5> QED
          BY <4>5, <5>1, <5>2
      <4>11. ClaimedSlot(a) <= ClaimedSlot(c)
        BY <4>7, <4>10, ClaimedMonotone DEF Typed
      <4>12. ClaimedSlot(a) = ClaimedSlot(b)
        BY <1>3, <1>4, <3>1, <3>3, <4>1 DEF RepeatInv, Slotted
      <4>13. ClaimedSlot(a) \in Nat /\ ClaimedSlot(b) \in Nat /\ ClaimedSlot(c) \in Nat
        BY <4>7, RelayFields DEF Typed
      <4> QED
        BY <4>9, <4>11, <4>12, <4>13
    <3> QED
      BY <3>2, <3>3
  <2> QED
    BY <1>5, <1>6, <2>3, <2>4
<1> QED
    BY <1>8, <1>9

(* Steps that append nothing: a request dropped or rejected, and a block whose
   collation is complete; *)
LEMMA QuietRepeats ==
    ASSUME Typed, RepeatInv,
           \/ Drop \/ Complete
           \/ \E authorities \in AuthoritySets : Rejected(authorities)
    PROVE  RepeatInv'
<1>1. relay' = relay /\ log' = log
    BY DEF Drop, Complete, Rejected
<1>2. Tree' /\ Slotted' /\ InOrder' /\ RepeatsHaveCause'
    BY <1>1 DEF RepeatInv, Tree, Slotted, InOrder, RepeatsHaveCause, Calm, Repeat, SameChain,
                Chain, Closed, ClaimedSlot
<1>3. served \in Nat /\ importing \in 0 .. served
    BY Positions DEF Typed
<1>4. log # <<>> => LastEntry.at \in Nat /\ LastEntry.slot = ClaimedSlot(LastEntry.at)
  <2>1. log # <<>> => Len(log) \in DOMAIN log
    BY DEF Typed, TypeOK
  <2> QED
    BY <2>1, Positions DEF RepeatInv, Slotted, LastEntry, Typed
<1>5. LastEntry' = LastEntry
    BY <1>1 DEF LastEntry
<1>6. Remembers
    BY DEF RepeatInv
<1>7. CASE Complete
  <2>1. /\ importing # 0 /\ importing' = 0 /\ served' = served
        /\ last_processed_slot' = ClaimedSlot(importing)
        /\ last_relay_chain_block' = relay[importing].number
    BY <1>7 DEF Complete, Processed
  <2> QED
    BY <1>1, <1>2, <1>4, <1>5, <1>6, <2>1 DEF RepeatInv, Remembers
<1>8. CASE ~Complete
  <2>1. /\ served' = served + 1
        /\ UNCHANGED <<importing, last_processed_slot, last_relay_chain_block>>
    BY <1>8 DEF Drop, Rejected, Taken, Request, latchVars
  <2>2. Remembers'
    BY <1>1, <1>3, <1>4, <1>5, <1>6, <2>1 DEF Remembers
  <2> QED
    BY <1>2, <2>2 DEF RepeatInv
<1> QED
    BY <1>7, <1>8

(* and steps that do. *)
LEMMA LoggedRepeats ==
    ASSUME Typed, RepeatInv,
           \/ CollationFailed \/ Restart
           \/ \E authorities \in AuthoritySets :
                NoProposal(authorities) \/ BuildAndImport(authorities)
    PROVE  RepeatInv'
<1> USE Positions DEF Typed
<1>1. relay' = relay
    BY DEF CollationFailed, Restart, NoProposal, BuildAndImport
<1>2. ASSUME NEW kind \in Kinds, NEW b \in DOMAIN relay, log' = Append(log, Entry(kind, b))
      PROVE  log' # <<>> /\ LastEntry'.kind = kind /\ LastEntry'.at = b
             /\ LastEntry'.slot = ClaimedSlot(b)
  <2>1. log \in Seq(LogEntry)
    BY DEF TypeOK, LogEntry
  <2>2. Len(log') = Len(log) + 1 /\ log'[Len(log) + 1] = Entry(kind, b) /\ log' # <<>>
    BY <1>2, <2>1
  <2> QED
    BY <2>2 DEF LastEntry, Entry
<1>3. CASE CollationFailed
  <2>1. importing \in DOMAIN relay /\ importing' = 0 /\ log' = Append(log, Entry("failed", importing))
    BY <1>3 DEF CollationFailed
  <2>2. "failed" \in Kinds
    BY DEF Kinds
  <2>3. LastEntry'.kind = "failed"
    BY <1>2, <2>1, <2>2
  <2>4. Remembers'
    BY <2>1, <2>3 DEF Remembers
  <2> QED
    BY <1>1, <2>1, <2>2, <2>4, EntryRepeats DEF RepeatInv
<1>4. CASE Restart
  <2>1. Len(relay) \in DOMAIN relay /\ importing' = 0 /\ log' = Append(log, Entry("restart", Len(relay)))
    BY <1>4 DEF Restart
  <2>2. "restart" \in Kinds
    BY DEF Kinds
  <2>3. LastEntry'.kind = "restart"
    BY <1>2, <2>1, <2>2
  <2>4. Remembers'
    BY <2>1, <2>3 DEF Remembers
  <2> QED
    BY <1>1, <2>1, <2>2, <2>4, EntryRepeats DEF RepeatInv
<1>5. ASSUME NEW authorities, NoProposal(authorities) PROVE RepeatInv'
  <2>1. /\ Taken /\ ~AlreadyProcessed(Request) /\ Request \in DOMAIN relay
        /\ importing' = 0 /\ served' = Request
        /\ log' = Append(log, Entry("none", Request))
        /\ last_processed_slot' = ClaimedSlot(Request)
        /\ last_relay_chain_block' = relay[Request].number
    BY <1>5 DEF NoProposal, Processed, Taken
  <2>2. "none" \in Kinds
    BY DEF Kinds
  <2>3. LastEntry'.at = Request /\ LastEntry'.slot = ClaimedSlot(Request)
    BY <1>2, <2>1, <2>2
  <2>4. Remembers'
    BY <1>1, <2>1, <2>3 DEF Remembers
  <2> QED
    BY <1>1, <2>1, <2>2, <2>4, EntryRepeats DEF RepeatInv
<1>6. ASSUME NEW authorities, BuildAndImport(authorities) PROVE RepeatInv'
  <2>1. /\ Taken /\ ~AlreadyProcessed(Request) /\ Request \in DOMAIN relay /\ Request # 0
        /\ importing' = Request /\ served' = Request
        /\ log' = Append(log, Entry("block", Request))
    BY <1>6 DEF BuildAndImport, Taken
  <2>2. "block" \in Kinds
    BY DEF Kinds
  <2>3. log' # <<>> /\ LastEntry'.kind = "block" /\ LastEntry'.at = Request
    BY <1>2, <2>1, <2>2
  <2>4. Remembers'
    BY <1>1, <2>1, <2>3 DEF Remembers
  <2> QED
    BY <1>1, <2>1, <2>2, <2>4, EntryRepeats DEF RepeatInv
<1> QED
    BY <1>3, <1>4, <1>5, <1>6

LEMMA RepeatInvHolds == Spec => []RepeatInv
<1>1. Init => RepeatInv
  <2> SUFFICES ASSUME Init PROVE RepeatInv
    OBVIOUS
  <2>1. DOMAIN relay = {1} /\ relay[1].parent = 0 /\ log = <<>> /\ importing = 0
    BY DEF Init
  <2>2. DOMAIN log = {}
    BY <2>1
  <2>3. Tree
    BY <2>1 DEF Tree
  <2>4. Slotted /\ InOrder /\ RepeatsHaveCause /\ Remembers
    BY <2>1, <2>2 DEF Slotted, InOrder, RepeatsHaveCause, Remembers
  <2> QED
    BY <2>3, <2>4 DEF RepeatInv
<1>2. Typed /\ RepeatInv /\ [Next]_vars => RepeatInv'
  <2> SUFFICES ASSUME Typed, RepeatInv, [Next]_vars PROVE RepeatInv'
    OBVIOUS
  <2>1. CASE Next
    BY <2>1, ImportRepeats, QuietRepeats, LoggedRepeats DEF Next, Serve
  <2>2. CASE UNCHANGED vars
    <3>1. UNCHANGED <<relay, log, served, importing, last_processed_slot, last_relay_chain_block>>
      BY <2>2 DEF vars, latchVars
    <3>2. Tree' /\ Slotted' /\ InOrder' /\ Remembers'
      BY <3>1 DEF RepeatInv, Tree, Slotted, InOrder, Remembers, Calm, ClaimedSlot, LastEntry
    <3>3. RepeatsHaveCause'
      BY <3>1 DEF RepeatInv, RepeatsHaveCause, Repeat, SameChain, Chain, Closed
    <3> QED
      BY <3>2, <3>3 DEF RepeatInv
  <2> QED
    BY <2>1, <2>2
<1> QED
    BY <1>1, <1>2, CollatorTypedInv, PTL DEF Spec

(* The "hack" of run, in its exact strength: when the collator builds a second
   block of a slot on one relay chain, then since the first it has served
   another fork, a collation failed after its block's import, or the node
   restarted.  For every tree of relay blocks and every order of requests. *)
THEOREM HackHolds == Spec => []RepeatsHaveCause
<1>1. RepeatInv => RepeatsHaveCause
    BY DEF RepeatInv
<1> QED
    BY <1>1, RepeatInvHolds, PTL
=============================================================================
