--------------------------- MODULE MCReconcile ---------------------------
(* Small situations for Reconcile.                                          *)
EXTENDS Reconcile

Situation(wants, records, hydrates, demand, authored, moving) ==
  [wants |-> wants, records |-> records, hydrate |-> hydrates, demand |-> demand,
   authored |-> authored, moving |-> moving, obtainable |-> {3}, cancels |-> FALSE,
   selects |-> FALSE, failing |-> FALSE]

(* Three WANTs, the last of which comes and goes. *)
Wanting == [Situation({1, 2}, {}, FALSE, {3}, {}, {}) EXCEPT !.obtainable = {1}]
(* Three roots, the last of which is authored meanwhile. *)
Rooted == Situation({}, {1, 2}, TRUE, {}, {3}, {})
(* Two WANTs beside two roots, one handle being both. *)
Mixed == [Situation({1, 2}, {2, 3}, TRUE, {}, {}, {}) EXCEPT !.cancels = TRUE, !.obtainable = {}]
(* Records and blobs come and go under the memo. *)
Moving == Situation({}, {1}, TRUE, {}, {1, 2}, {1})
(* Hydration is switched off and on. *)
Selecting == [Situation({1}, {2, 3}, TRUE, {}, {}, {}) EXCEPT !.selects = TRUE, !.obtainable = {}]
(* The records cannot always be observed. *)
Failing == [Situation({}, {1, 2}, TRUE, {}, {}, {}) EXCEPT !.failing = TRUE, !.obtainable = {}]

(* Nothing is asked for. *)
Unasked == Situation({}, {}, FALSE, {}, {}, {})

MCUses == {Unasked, Wanting, Rooted, Mixed, Moving, Selecting, Failing}
===========================================================================
