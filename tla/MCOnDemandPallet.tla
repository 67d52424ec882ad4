-------------------------- MODULE MCOnDemandPallet --------------------------
(***************************************************************************)
(* Small instances of OnDemandPallet: two collators, of which one may      *)
(* rotate its Aura key, and relay heights up to MaxHeight.                 *)
(***************************************************************************)
EXTENDS OnDemandPallet, TLC

CONSTANTS alice, bob, ka, kb, kc

MCAccounts == {alice, bob}
MCKeys == {ka, kb, kc}
MCGenesis == <<ka, kb>>
MCAuthoritySets == {<<ka, kb>>, <<kc, kb>>}
MCKeyOwner == ka :> alice @@ kb :> bob @@ kc :> NoAccount

(* One collator, whose keys never change: for questions about widths. *)
SoloAccounts == {alice}
SoloKeys == {ka}
SoloGenesis == <<ka>>
SoloKeyOwner == ka :> alice
=============================================================================
