----------------------------- MODULE MCExchange -----------------------------
(* Small instances of Exchange: keys of two digits, so that a tree has a      *)
(* root, inner nodes, compressed paths and leaves.                            *)
EXTENDS Exchange

k00 == <<0, 0>>
k01 == <<0, 1>>
k10 == <<1, 0>>
k11 == <<1, 1>>

Holding(a, b) == ("a" :> [tree |-> a, blobs |-> a]) @@ ("b" :> [tree |-> b, blobs |-> b])
Both(a, b) == ("a" :> a) @@ ("b" :> b)
Lands == [k \in TreeKeys |-> "land"]

Offer1 ==
  [kind |-> "records", offer |-> TRUE,
   sends |-> Both(TRUE, FALSE), receives |-> Both(FALSE, TRUE),
   store |-> Holding({k00, k01, k10}, {k10, k11}), own |-> Both({k11}, {k00}),
   gate |-> Both(Lands, Lands), faults |-> 0, fails |-> FALSE, rounds |-> 1]
OfferAgain == [Offer1 EXCEPT !.rounds = 2, !.faults = 1, !.store = Holding({k00, k10}, {}),
                             !.own = Both({k11}, {})]
OfferFails == [Offer1 EXCEPT !.fails = TRUE, !.own = Both({}, {})]
References == [Offer1 EXCEPT !.kind = "references", !.offer = FALSE, !.fails = TRUE,
                 !.own = Both({}, {k00}), !.rounds = 1,
                 !.store = "a" :> [tree |-> {k00, k01, k10}, blobs |-> {k00, k01, k10}]
                        @@ "b" :> [tree |-> {k10}, blobs |-> {k10, k01, k11}]]
Grants == [Offer1 EXCEPT !.kind = "grants", !.offer = FALSE,
             !.sends = Both(TRUE, TRUE), !.receives = Both(TRUE, TRUE),
             !.store = Holding({k00, k01, k10}, {k00, k01, k11}), !.own = Both({}, {}),
             !.gate = Both([Lands EXCEPT ![k11] = "skip"], Lands)]

SameWay == [References EXCEPT !.sends = Both(TRUE, TRUE), !.receives = Both(FALSE, FALSE),
                              !.fails = FALSE, !.own = Both({}, {})]

MCUses == {Offer1, OfferAgain, OfferFails, References, Grants}
MCSameWay == {SameWay}
=============================================================================
