------------------------------ MODULE MCPeering ------------------------------
(* Small instances of Peering: two nodes, one definition, two connections. *)
EXTENDS Peering

CONSTANTS x, y, d

Reads(n) == [subject |-> n, action |-> "read", definition |-> d]
Writes(n) == [subject |-> n, action |-> "write", definition |-> d]
MCProofs == {Reads(x), Reads(y), Writes(x), Writes(y)}

Both(f, g) == [n \in Nodes |-> IF n = x THEN f ELSE g]
Has(interest, proofs, defs) ==
    [interest |-> interest, full |-> FALSE, proofs |-> proofs, defs |-> defs]

(* Both select the collection and hold all there is to know. *)
Settled ==
    [stores |-> Both(Has("selected", {Reads(x), Reads(y)}, {d}),
                     Has("selected", {Reads(x), Reads(y)}, {d})),
     proofs |-> Both({}, {}), definitions |-> Both({}, {}),
     links |-> {1}, id |-> Both(<<1, 2>>, <<2, 1>>), asks |-> {x, y},
     crowded |-> FALSE, changes |-> 0, swaps |-> 0]

(* Each knows its own right to read; y has yet to learn the definition. *)
Learning ==
    [Settled EXCEPT !.stores = Both(Has("selected", {Reads(x)}, {d}),
                                    Has("selected", {Reads(y)}, {})),
                    !.proofs = Both({}, {Reads(x)}), !.definitions = Both({}, {d})]

(* x may write, and learns that y may read; y has yet to hold and select   *)
(* the collection.                                                         *)
OneWay ==
    [Settled EXCEPT !.stores = Both(Has("selected", {Writes(x)}, {d}),
                                    Has("absent", {Writes(x)}, {d})),
                    !.proofs = Both({Reads(y)}, {}), !.changes = 1]

(* Selections and modes change. *)
Changing == [Settled EXCEPT !.changes = 2]

(* Other nodes take the inbound room, or a neighbour's place. *)
Crowded == [Settled EXCEPT !.asks = {x}, !.crowded = TRUE, !.changes = 1, !.swaps = 1]

(* Two connections, of which the tie-break keeps one. *)
Doubled == [Settled EXCEPT !.asks = {x}, !.links = {1, 2}]

MCUses == {Learning, OneWay, Changing, Crowded, Doubled}

=============================================================================
