----------------------------- MODULE MCCovered ------------------------------
(* A root collection c1 whose policy and whose only proof each name a      *)
(* definition that may land late, with a foundation, a merge and a map by  *)
(* the host and a merge by another key; a derived collection d1 and an     *)
(* attached one a1, open to every writer, with a commit and a derive into  *)
(* the one and a merge by the host into the other.                         *)
EXTENDS Covered

CONSTANTS root, writer, host, c1, d1, a1, pol, cap, write, n1, n2

MCKeys == {root, writer, host}
MCInvokes == [d \in {pol, cap} |-> {write}]
MCDelegates == [d \in {pol, cap} |-> {}]
MCProofs == {[id |-> 1, root |-> root, resource |-> c1,
              edges |-> <<[capability |-> cap, delegate |-> writer, signed |-> TRUE]>>]}
MCPolicies == [c \in {c1, d1, a1} |->
    {[definition |-> pol, open |-> c # c1, roots |-> IF c = c1 THEN {root} ELSE {},
      threshold |-> 1]}]
MCKinds == [c \in {c1, d1, a1} |->
    CASE c = c1 -> "root" [] c = d1 -> "derived" [] c = a1 -> "attached"]
MCRecords == {
    [collection |-> c1, kind |-> "commit", signer |-> writer, node |-> n1],
    [collection |-> c1, kind |-> "merge", signer |-> host, node |-> n2],
    [collection |-> c1, kind |-> "merge", signer |-> writer, node |-> n2],
    [collection |-> c1, kind |-> "map", signer |-> host, node |-> n2],
    [collection |-> d1, kind |-> "commit", signer |-> writer, node |-> n1],
    [collection |-> d1, kind |-> "derive", signer |-> writer, node |-> n1],
    [collection |-> a1, kind |-> "merge", signer |-> host, node |-> n2]}
Into(C, kinds) == {a \in MCRecords : a.collection \in C /\ a.kind \in kinds}
Situation(C, definitions, held, kinds) ==
    [blobs |-> C \cup definitions, proofs |-> held, records |-> Into(C, kinds)]
MCUses ==
    {Situation({c1}, {pol, cap}, MCProofs, {"commit", "merge"}),
     Situation({c1}, {pol, cap}, MCProofs, {"commit", "map"}),
     Situation({d1}, {pol}, {}, {"commit", "derive"}),
     Situation({d1, a1}, {pol}, {}, {"derive", "merge"})}

=============================================================================
