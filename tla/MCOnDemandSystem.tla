-------------------------- MODULE MCOnDemandSystem --------------------------
(***************************************************************************)
(* Small instances of OnDemandSystem: one of two collators, on the turns   *)
(* that both have.                                                         *)
(***************************************************************************)
EXTENDS OnDemandSystem, TLC

CONSTANTS n1, alice, bob, ka, kb

MCNodes == {n1}
MCKeystore == n1 :> {kb}
MCSigningKey == n1 :> kb
MCAccounts == {alice, bob}
MCKeys == {ka, kb}
MCGenesis == <<ka, kb>>
MCAuthoritySets == {<<kb, ka>>}
MCKeyOwner == ka :> alice @@ kb :> bob
MCAccountOf == ka :> alice @@ kb :> bob

OnDemandSide == [parathread |-> TRUE, cores |-> <<{"Task"}, {"Pool"}>>, traffic |-> 4]
MCRelaySides == {OnDemandSide}
=============================================================================
