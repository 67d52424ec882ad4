--------------------------- MODULE MCOrderService ---------------------------
(***************************************************************************)
(* Small instances of OrderService.                                        *)
(***************************************************************************)
EXTENDS OrderService, TLC

CONSTANTS n1, n2, ka, kb

OneNode == {n1}
OneKeystore == n1 :> {ka}
TwoNodes == {n1, n2}
TwoKeystore == n1 :> {ka} @@ n2 :> {kb}

(* What a node may read at a relay block. *)
OnDemand(width, authorities, cores) ==
    [parathread |-> TRUE, bulk |-> FALSE, cores |-> cores, width |-> width,
     authorities |-> authorities, traffic |-> 4]

Duo == OnDemand(1, <<ka, kb>>, <<{}, {"Task"}, {"Pool"}>>)
WideDuo == [Duo EXCEPT !.width = 2, !.authorities = <<kb, ka>>]
MovingViews == {Duo, WideDuo}

NoPool == OnDemand(1, <<ka>>, <<{"Task"}>>)
Pool == OnDemand(1, <<ka>>, <<{"Pool"}>>)
CoreViews == {NoPool, Pool}

Narrow == OnDemand(1, <<ka>>, <<>>)
Busy == [Narrow EXCEPT !.traffic = 8]
PriceViews == {Narrow, Busy}
=============================================================================
