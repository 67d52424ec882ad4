--------------------------- MODULE MCOnDemandCores --------------------------
(***************************************************************************)
(* The instance of OnDemandCores has the one node of MCOnDemandSystem.     *)
(***************************************************************************)
EXTENDS OnDemandCores, MCOnDemandSystem
=============================================================================
