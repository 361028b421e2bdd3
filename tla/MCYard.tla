------------------------------- MODULE MCYard -------------------------------
(* A record that names blobA, which names blobB; a want for blobB, found   *)
(* with it in a file that is not the young one.  blobB doubles as the      *)
(* description of the kind of blobs.                                       *)
EXTENDS Yard

CONSTANTS blobA, blobB, r, w

MCRefs == [i \in Items |->
    CASE i = r -> {blobA} [] i = blobA -> {blobB} [] i = w -> {blobB} [] OTHER -> {}]
MCRoots == {NoRoots, [direct |-> {blobA}, recursive |-> {}]}
Holding(layout) == [l \in Levels |-> IF l \in DOMAIN layout THEN layout[l] ELSE {}]

(* Blobs and wants moving through the tiers, a record and what it owns,    *)
(* and a budget that lets a tier hold something.                           *)
MCUses ==
    {[found |-> Holding(<<{}, {w, blobB}>>), stores |-> {blobA, w}, budget |-> 0,
      faults |-> {"copy"}],
     [found |-> Holding(<<{}, {blobB}>>), stores |-> {blobA, r}, budget |-> 0,
      faults |-> {"sync"}],
     [found |-> Holding(<<{}, {blobB}>>), stores |-> {blobA, blobB}, budget |-> 1,
      faults |-> {"rewrite"}]}
MCSyncUses == {[u EXCEPT !.faults = {"sync"}] : u \in MCUses}
MCRewriteUses == {[u EXCEPT !.faults = {"rewrite"}] : u \in MCUses}

=============================================================================
