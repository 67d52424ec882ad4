--------------------------- MODULE BasicCollator ----------------------------
(***************************************************************************)
(* The basic relay-chain driven Aura collator: collators::basic::run and   *)
(* the Collator it drives.  One task serves the collation requests, one    *)
(* for each relay block that became a leaf, and remembers the slot and the *)
(* relay block number it processed last, in local variables.  A request    *)
(* ends in one of the ways the loop's body does: dropped, rejected, served *)
(* with no block, or served with one.  A block is imported before its      *)
(* collation is built, so that a failure or a crash may fall between.      *)
(***************************************************************************)
EXTENDS Integers, Sequences

CONSTANTS RelaySlotDuration, SlotDuration,
          Keys,            \* Aura keys in the keystore
          AuthoritySets,   \* Aura authorities that may be read at the parent
          StartSlot,       \* relay slot of the first block
          MaxBlocks,       \* bound on relay blocks
          MaxGap,          \* bound on the relay slots between two blocks
          MaxFailures,     \* bound on collations that fail after the import
          MaxRestarts      \* bound on restarts of the node

ASSUME CollatorAssumption ==
    /\ RelaySlotDuration \in Nat \ {0} /\ SlotDuration \in Nat \ {0}
    /\ StartSlot \in Nat /\ MaxBlocks \in Nat \ {0} /\ MaxGap \in Nat \ {0}
    /\ MaxFailures \in Nat /\ MaxRestarts \in Nat

VARIABLES relay,       \* relay blocks, in the order they became leaves
          served,      \* how many of their collation requests were taken
          last_processed_slot,
          last_relay_chain_block,
          importing,   \* the relay parent of a block that is imported and not
                       \* yet answered, 0 if there is none
          processed,   \* history: the slots processed since the start
          log          \* history: what became of the requests, in order

latchVars == <<last_processed_slot, last_relay_chain_block>>
vars == <<relay, served, latchVars, importing, processed, log>>

Count(kind) == Len(SelectSeq(log, LAMBDA e : e.kind = kind))

-----------------------------------------------------------------------------
(* A relay block with a parent, the number after it and a later relay slot. *)
RelayImport(parent, gap) ==
    /\ Len(relay) < MaxBlocks
    /\ relay' = Append(relay, [parent |-> parent,
                               number |-> relay[parent].number + 1,
                               slot   |-> relay[parent].slot + gap])
    /\ UNCHANGED <<served, latchVars, importing, processed, log>>

(* claim_slot: the parachain slot at the relay parent's timestamp. *)
ClaimedSlot(b) == (relay[b].slot * RelaySlotDuration) \div SlotDuration

Claims(b, authorities) ==
    /\ authorities # <<>>
    /\ authorities[(ClaimedSlot(b) % Len(authorities)) + 1] \in Keys

(* The "hack" of run: at most one block per slot per relay chain fork. *)
AlreadyProcessed_never(b) == FALSE

AlreadyProcessed(b) ==
    /\ last_processed_slot >= ClaimedSlot(b)
    /\ last_relay_chain_block < relay[b].number

Entry(kind, b) == [kind |-> kind, at |-> b, slot |-> ClaimedSlot(b)]

(* The request at the head of the stream. *)
Request == served + 1

Taken == /\ importing = 0
         /\ served < Len(relay)
         /\ served' = Request

Processed_relaySlot(b) ==
    /\ last_processed_slot' = ClaimedSlot(b)
    /\ last_relay_chain_block' = relay[b].slot
    /\ processed' = Append(processed, ClaimedSlot(b))

Processed(b) ==
    /\ last_processed_slot' = ClaimedSlot(b)
    /\ last_relay_chain_block' = relay[b].number
    /\ processed' = Append(processed, ClaimedSlot(b))

-----------------------------------------------------------------------------
(* The parent is not known, its code or the relay header is missing, there is
   no claim, or the slot was processed; or one of these cannot be read. *)
Drop ==
    /\ Taken
    /\ UNCHANGED <<relay, latchVars, importing, processed, log>>

(* There is a claim, but the inherent data, the proposal, the seal or the
   import fails: the request is rejected and the slot is not processed. *)
Rejected(authorities) ==
    /\ Taken
    /\ Claims(Request, authorities)
    /\ ~AlreadyProcessed(Request)
    /\ UNCHANGED <<relay, latchVars, importing, processed, log>>

(* No proposal: the slot counts as processed. *)
NoProposal(authorities) ==
    /\ Taken
    /\ Claims(Request, authorities)
    /\ ~AlreadyProcessed(Request)
    /\ Processed(Request)
    /\ log' = Append(log, Entry("none", Request))
    /\ UNCHANGED <<relay, importing>>

(* build_block_and_import: a block is proposed, sealed and imported. *)
BuildAndImport(authorities) ==
    /\ Taken
    /\ Claims(Request, authorities)
    /\ ~AlreadyProcessed(Request)
    /\ importing' = Request
    /\ log' = Append(log, Entry("block", Request))
    /\ UNCHANGED <<relay, latchVars, processed>>

(* collate builds the collation: the request is completed with it, *)
Complete_noSlot ==
    /\ importing # 0
    /\ last_relay_chain_block' = relay[importing].number
    /\ processed' = Append(processed, ClaimedSlot(importing))
    /\ importing' = 0
    /\ UNCHANGED <<relay, served, last_processed_slot, log>>

Complete ==
    /\ importing # 0
    /\ Processed(importing)
    /\ importing' = 0
    /\ UNCHANGED <<relay, served, log>>

(* or it cannot, and the request is rejected though the block is imported. *)
CollationFailed ==
    /\ importing # 0
    /\ Count("failed") < MaxFailures
    /\ importing' = 0
    /\ log' = Append(log, Entry("failed", importing))
    /\ UNCHANGED <<relay, served, latchVars, processed>>

(* A restarted node remembers nothing, and gets a request for the leaf. *)
Restart ==
    /\ Count("restart") < MaxRestarts
    /\ served' = Len(relay) - 1
    /\ last_processed_slot' = 0
    /\ last_relay_chain_block' = 0
    /\ importing' = 0
    /\ processed' = <<>>
    /\ log' = Append(log, Entry("restart", Len(relay)))
    /\ UNCHANGED relay

-----------------------------------------------------------------------------
Init ==
    /\ relay = <<[parent |-> 0, number |-> 1, slot |-> StartSlot]>>
    /\ served = 0
    /\ last_processed_slot = 0
    /\ last_relay_chain_block = 0
    /\ importing = 0
    /\ processed = <<>>
    /\ log = <<>>

Serve(authorities) ==
    Rejected(authorities) \/ NoProposal(authorities) \/ BuildAndImport(authorities)

Next ==
    \/ \E parent \in DOMAIN relay, gap \in 1 .. MaxGap : RelayImport(parent, gap)
    \/ Drop
    \/ \E authorities \in AuthoritySets : Serve(authorities)
    \/ Complete
    \/ CollationFailed
    \/ Restart

Spec == Init /\ [][Next]_vars

-----------------------------------------------------------------------------
Blocks == 1 .. MaxBlocks
Kinds == {"none", "block", "failed", "restart"}

TypeOK ==
    /\ relay \in Seq([parent : 0 .. MaxBlocks, number : Blocks, slot : Nat])
    /\ Len(relay) \in Blocks
    /\ served \in 0 .. Len(relay)
    /\ last_processed_slot \in Nat
    /\ last_relay_chain_block \in 0 .. MaxBlocks
    /\ importing \in 0 .. served
    /\ processed \in Seq(Nat)
    /\ log \in Seq([kind : Kinds, at : Blocks, slot : Nat])

(* A relay block and the blocks it descends from: the least set that has the
   block and the parents of its members. *)
Closed(S) == \A c \in S : relay[c].parent \in S \union {0}

Chain(b) == {c \in 1 .. b : \A S \in SUBSET (1 .. b) : b \in S /\ Closed(S) => c \in S}

SameChain(i, j) == log[i].at \in Chain(log[j].at)

Repeat(i, j) ==
    /\ i < j
    /\ log[i].kind = "block" /\ log[j].kind = "block"
    /\ log[i].slot = log[j].slot
    /\ SameChain(i, j)

(* The comment in run: "we have this "hack" to only produce one block per slot
   per relay chain fork". *)
OneBlockPerSlotPerFork == \A i, j \in DOMAIN log : ~Repeat(i, j)

(* A second block of a slot on one relay chain always has one of three
   causes in between: the node served a request on another fork, which took
   its memory of this one; a collation failed after the import of its block;
   or the node restarted. *)
RepeatsHaveCause ==
    \A i, j \in DOMAIN log : Repeat(i, j) =>
        \E k \in i + 1 .. j - 1 :
            \/ log[k].kind \in {"failed", "restart"}
            \/ ~SameChain(k, j)

(* While the relay chain has no forks, the two variables make a slot latch,
   which only a restart resets: the node processes its slots in order, each
   once. *)
Unforked == \A b \in DOMAIN relay : relay[b].parent = b - 1

Latch == INSTANCE SlotLatch WITH latch <- last_processed_slot, fired <- processed,
                                 Volatile <- TRUE

LatchStep == Latch!Next \/ UNCHANGED Latch!latchVars

CollatorLatch == Latch!Init /\ [][Unforked => LatchStep]_vars
=============================================================================
