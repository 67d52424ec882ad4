------------------------ MODULE EquivocationDefender ------------------------
(***************************************************************************)
(* The verifier of fully_verifying_import_queue and the                    *)
(* NaiveEquivocationDefender it asks: a map from slots to the number of    *)
(* blocks seen for each, which keeps only the LRU_WINDOW slots that were   *)
(* asked for last.  A block that passes the seal check is counted; once a  *)
(* slot has EQUIVOCATION_LIMIT of them, further ones are rejected, until   *)
(* the map has forgotten the slot.                                         *)
(***************************************************************************)
EXTENDS Integers, FiniteSets, Sequences

CONSTANTS Slots,
          LRU_WINDOW,
          EQUIVOCATION_LIMIT,
          MaxBlocks   \* bound on blocks that pass the seal check

ASSUME DefenderAssumption ==
    /\ LRU_WINDOW \in Nat \ {0}
    /\ EQUIVOCATION_LIMIT \in Nat \ {0}
    /\ MaxBlocks \in Nat

VARIABLES cache,    \* the LRU map: for each slot it has, the count and the
                    \* access that asked for the slot last
          verdict,  \* what verify returned last
          counted   \* history: the blocks that were counted, and which passed

vars == <<cache, verdict, counted>>

-----------------------------------------------------------------------------
(* LruMap::get_or_insert(slot, 0): the entry becomes the newest one, and a full
   map makes room for a new one by dropping its oldest. *)
Count(slot) == IF slot \in DOMAIN cache THEN cache[slot].count ELSE 0

Oldest ==
    CHOOSE slot \in DOMAIN cache : \A s \in DOMAIN cache : cache[slot].used <= cache[s].used

Kept(slot) ==
    IF slot \in DOMAIN cache \/ Cardinality(DOMAIN cache) < LRU_WINDOW THEN DOMAIN cache
    ELSE DOMAIN cache \ {Oldest}

Access == Len(counted) + 1

get_or_insert_fifo(slot, count) ==
    [s \in Kept(slot) \union {slot} |->
        IF s # slot THEN cache[s]
        ELSE IF s \in DOMAIN cache THEN [cache[s] EXCEPT !.count = count]
        ELSE [count |-> count, used |-> Access]]

get_or_insert(slot, count) ==
    [s \in Kept(slot) \union {slot} |->
        IF s = slot THEN [count |-> count, used |-> Access] ELSE cache[s]]

Excessive_tooSoon(slot) == Count(slot) = EQUIVOCATION_LIMIT - 1

Excessive(slot) == Count(slot) = EQUIVOCATION_LIMIT

insert_and_check_uncapped(slot) ==
    /\ cache' = get_or_insert(slot, Count(slot) + 1)
    /\ counted' = Append(counted, [slot |-> slot, passed |-> ~Excessive(slot)])

insert_and_check(slot) ==
    /\ cache' = get_or_insert(slot, IF Excessive(slot) THEN Count(slot) ELSE Count(slot) + 1)
    /\ counted' = Append(counted, [slot |-> slot, passed |-> ~Excessive(slot)])

-----------------------------------------------------------------------------
(* verify.  Blocks that come with their state, or whose execution is skipped,
   are taken unchecked; *)
VerifyUnchecked ==
    /\ verdict' = "unchecked"
    /\ UNCHANGED <<cache, counted>>

(* the authorities or the slot duration cannot be read, the slot is in the
   future, or the seal is bad: rejected, and not counted; *)
VerifySealRejected(why) ==
    /\ verdict' = why
    /\ UNCHANGED <<cache, counted>>

(* a sealed block is counted, and rejected when its slot has too many, or
   when its inherents (of a block with a body) cannot be made or are wrong:
   it was counted all the same. *)
VerifySealed(slot, inherents) ==
    /\ Len(counted) < MaxBlocks
    /\ insert_and_check(slot)
    /\ verdict' = IF Excessive(slot) THEN "excess"
                  ELSE IF inherents THEN "ok" ELSE "inherents"

Init ==
    /\ cache = <<>>
    /\ verdict = "none"
    /\ counted = <<>>

Next ==
    \/ VerifyUnchecked
    \/ \E why \in {"unreadable", "future", "seal"} : VerifySealRejected(why)
    \/ \E slot \in Slots, inherents \in BOOLEAN : VerifySealed(slot, inherents)

Spec == Init /\ [][Next]_vars

-----------------------------------------------------------------------------
Verdicts == {"none", "unchecked", "unreadable", "future", "seal", "excess", "ok", "inherents"}

(* The map never exceeds its window, nor a count the limit: the comparison
   with the limit is an equality. *)
TypeOK ==
    /\ cache \in [DOMAIN cache -> [count : 1 .. EQUIVOCATION_LIMIT, used : DOMAIN counted]]
    /\ DOMAIN cache \subseteq Slots /\ Cardinality(DOMAIN cache) <= LRU_WINDOW
    /\ verdict \in Verdicts
    /\ counted \in Seq([slot : Slots, passed : BOOLEAN])

SlotsIn(i, j) == {counted[k].slot : k \in i .. j}

Passes(slot, i, j) == {k \in i .. j : counted[k] = [slot |-> slot, passed |-> TRUE]}

(* Among blocks of at most LRU_WINDOW different slots, however they are mixed,
   the defender passes no more than EQUIVOCATION_LIMIT of any one slot. *)
LimitPerWindow ==
    \A i, j \in DOMAIN counted :
        Cardinality(SlotsIn(i, j)) <= LRU_WINDOW =>
            \A slot \in Slots : Cardinality(Passes(slot, i, j)) <= EQUIVOCATION_LIMIT

(* A block is rejected for equivocation only when the slot has used up its
   limit without being forgotten: from the first of those blocks on, fewer
   than LRU_WINDOW other slots came between one block of the slot and the
   next. *)
Remembered(slot, i, j) ==
    \A a, b \in {k \in i .. j : counted[k].slot = slot} :
        a < b /\ (\A k \in a + 1 .. b - 1 : counted[k].slot # slot) =>
            Cardinality(SlotsIn(a + 1, b - 1)) < LRU_WINDOW

RejectionsAreEarned ==
    \A j \in DOMAIN counted : ~counted[j].passed =>
        \E i \in 1 .. j :
            /\ Cardinality(Passes(counted[j].slot, i, j - 1)) = EQUIVOCATION_LIMIT
            /\ Remembered(counted[j].slot, i, j)
=============================================================================
