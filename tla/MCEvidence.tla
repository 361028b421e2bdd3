----------------------------- MODULE MCEvidence -----------------------------
(* Two roots, two writers and a key that is no principal; chains of one to *)
(* three edges, one with a bad signature behind a good prefix and one that *)
(* hands on more than it was given.                                        *)
EXTENDS Evidence

CONSTANTS r1, r2, a, b, weak, c1, c2, pol, full, leaf, read, write

MCKeys == {r1, r2, a, b, weak}
MCPrincipals == MCKeys \ {weak}
MCCollections == {c1, c2}
MCDefinitions == {pol, full, leaf}
MCActions == {write, read}
MCInvokes == [d \in MCDefinitions |->
                IF d = full THEN {write, read} ELSE {write}]
MCDelegates == [d \in MCDefinitions |->
                IF d = full THEN {write, read} ELSE IF d = pol THEN {write} ELSE {}]

Edge(d, k) == [capability |-> d, delegate |-> k, signed |-> TRUE]
Unverified(d, k) == [capability |-> d, delegate |-> k, signed |-> FALSE]
MCProofs == {
    [id |-> 1, root |-> r1, resource |-> c1, edges |-> <<Edge(full, a), Edge(leaf, b)>>],
    [id |-> 2, root |-> r1, resource |-> c1, edges |-> <<Edge(leaf, a), Unverified(leaf, b)>>],
    [id |-> 3, root |-> r2, resource |-> c1, edges |-> <<Edge(pol, a), Edge(full, b)>>],
    [id |-> 4, root |-> r2, resource |-> c1,
        edges |-> <<Edge(full, r1), Edge(pol, a), Edge(leaf, b)>>],
    [id |-> 5, root |-> r2, resource |-> c2, edges |-> <<Edge(leaf, b)>>]}

MCPolicies == [c \in MCCollections |->
    IF c = c1
    THEN {[definition |-> pol, open |-> FALSE, roots |-> {r1, r2}, threshold |-> 2],
          [definition |-> full, open |-> FALSE, roots |-> {r2, weak}, threshold |-> 1]}
    ELSE {[definition |-> leaf, open |-> FALSE, roots |-> {r2}, threshold |-> 1],
          [definition |-> full, open |-> TRUE, roots |-> {}, threshold |-> 1]}]

=============================================================================
