-------------------------- MODULE MCBasicCollator ---------------------------
(***************************************************************************)
(* Small instances of BasicCollator: parachain slots of two relay slots,   *)
(* and a node that is one of the collators, or the only one.               *)
(***************************************************************************)
EXTENDS BasicCollator

CONSTANTS ka, kb

MyKeys == {ka}
Alone == {<<ka>>}
Rotating == {<<ka>>, <<kb, ka>>, <<>>}
=============================================================================
