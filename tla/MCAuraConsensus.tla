-------------------------- MODULE MCAuraConsensus ---------------------------
(***************************************************************************)
(* A small AuraConsensus: three clones and three slots.                    *)
(***************************************************************************)
EXTENDS AuraConsensus

CONSTANTS c1, c2, c3

MCClones == {c1, c2, c3}
=============================================================================
