------------------------------- MODULE MCPile -------------------------------
(* A pile: two handles on the file and a reader of a prefix. *)
EXTENDS Pile, TLC

CONSTANTS h1, h2, p1, small, large, fixed

(* A small blob of two cells, a large one of three, a record of two. *)
MCSize == [n \in PileRecords |-> IF n = large THEN 3 ELSE 2]

(* Appends of different sizes; torn appends of two kinds of record; a reader  *)
(* of a prefix while an append is torn and the power fails.                   *)
MCPileUses ==
  {[stores |-> {small, large}, readers |-> {}, tears |-> 0, powers |-> 0],
   [stores |-> {small, fixed}, readers |-> {}, tears |-> 1, powers |-> 0],
   [stores |-> {small}, readers |-> {p1}, tears |-> 1, powers |-> 1]}

(* One append of any kind of record is torn. *)
MCTornUses == {[stores |-> PileRecords, readers |-> {}, tears |-> 1, powers |-> 0]}

MCSymmetry == Permutations({h1, h2})
=============================================================================
