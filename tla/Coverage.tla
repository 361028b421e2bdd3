------------------------------ MODULE Coverage ------------------------------
(***************************************************************************)
(* The fold behind `CoverageIndex` (triblespace-core/src/collection/       *)
(* coverage.rs): which foundations of its own collection each lattice node *)
(* stands for, and which nodes a reader attaches (the frontier).           *)
(*                                                                         *)
(* No attestation reads a row of another collection, so the module models  *)
(* ONE collection.  It starts where admission ends: an attestation arrives *)
(* here because `decide` has believed it (module Covered models `decide`). *)
(* `believe` folds the attestation and then drains a worklist of nodes     *)
(* whose support grew.  The index is behind `&mut self`, so a second       *)
(* attestation is only folded once that worklist is empty; inside one fold *)
(* the model takes one step per join driven.  The edges of a node are      *)
(* visited in the order of their digests, which says nothing about the     *)
(* lattice: the model visits them in any order.                            *)
(***************************************************************************)
EXTENDS Naturals, Sequences, FiniteSets

CONSTANTS
    Nodes,      \* payload handles
    Signers,    \* public keys whose foundations may be believed
    Locators,   \* source foundations a leaf may map
    Joins,      \* the host's MERGEs: records [inputs, result]
    Foundable,  \* the payloads some COMMIT or DERIVE names
    Maps        \* the host's MAPs: pairs <<node, attachment>>

ASSUME NodesAssumption == IsFiniteSet(Nodes)
ASSUME JoinsAssumption == Joins \subseteq [inputs : SUBSET Nodes, result : Nodes]
ASSUME FoundableAssumption == Foundable \subseteq Nodes
ASSUME MapsAssumption == Maps \subseteq Nodes \X Nodes

VARIABLES
    kind,         \* "root" or "derived": what its descriptor makes the collection
    rows,         \* node -> the foundations it covers; no row is no entry
    frontier,     \* the nodes a reader attaches
    blocked,      \* believed joins with an input that has no row
    owners,       \* <<node, signer>> of every believed COMMIT or DERIVE
    leaves,       \* <<locator, output>> of every believed DERIVE
    joins,        \* the believed joins; their inputs are the consumer edges
    attachments,  \* <<node, attachment>> of every believed MAP
    grown,        \* `believe`'s stack of nodes whose support grew
    edges         \* consumers of the node popped last, still to be driven

published == <<kind, rows, frontier, blocked, owners, leaves, joins, attachments>>
vars == <<published, grown, edges>>

-----------------------------------------------------------------------------
(* The fold is between two attestations. *)
Idle == grown = <<>> /\ edges = {}

(* The believed foundations: every node with an owner. *)
Founded == {o[1] : o \in owners}

(* The joins that read a node, found through its consumer edges. *)
Consumers(n) == {j \in joins : n \in j.inputs}

(* Every input of the join has a row: `drive` is all or nothing. *)
Ready(j, R) == j.inputs \subseteq DOMAIN R

(* Mutant of Support: the result stands for itself as well. *)
SupportWithResult(j, R) == (UNION {R[i] : i \in j.inputs}) \cup {j.result}

(* What a ready join stands for. *)
Support(j, R) == UNION {R[i] : i \in j.inputs}

(* Mutant of Widen: a second route to a node replaces its row. *)
WidenByReplacing(R, n, support) ==
    [m \in DOMAIN R \cup {n} |-> IF m # n THEN R[m] ELSE support]

(* The table with `support` unioned into the row of n. *)
Widen(R, n, support) ==
    [m \in DOMAIN R \cup {n} |->
        IF m # n THEN R[m]
        ELSE (IF n \in DOMAIN R THEN R[n] ELSE {}) \cup support]

(* Whether a driven join of J reads node n: one whose result is another    *)
(* node, and whose result and other inputs have rows.                      *)
Consumed(n, R, J) ==
    \E j \in J : /\ n \in j.inputs
                 /\ j.result # n
                 /\ j.result \in DOMAIN R
                 /\ j.inputs \ {n} \subseteq DOMAIN R

(* Mutant of AdvanceFrontier: consumed inputs stay. *)
AdvanceFrontierOnly(result, consumes, R, J) ==
    frontier \cup (IF Consumed(result, R, J) THEN {} ELSE {result})

(* The frontier after an attestation with this result has been driven: the *)
(* inputs it consumes go, the result comes unless a driven join reads it.  *)
AdvanceFrontier(result, consumes, R, J) ==
    (frontier \ (consumes \ {result}))
        \cup (IF Consumed(result, R, J) THEN {} ELSE {result})

(* Mutant of Contribute: every drive wakes the consumers, grown or not. *)
ContributeAlwaysWakes(result, consumes, support, J) ==
    /\ rows' = Widen(rows, result, support)
    /\ grown' = Append(grown, result)
    /\ frontier' = AdvanceFrontier(result, consumes, rows', J)

(* Union a contribution into its result's row, move the frontier, and push *)
(* the result on the worklist if its row grew.                             *)
Contribute(result, consumes, support, J) ==
    LET R == Widen(rows, result, support)
    IN  /\ rows' = R
        /\ grown' = IF R # rows THEN Append(grown, result) ELSE grown
        /\ frontier' = AdvanceFrontier(result, consumes, R, J)

(* Mutant of DriveJoin: a driven join keeps its blocked mark. *)
DriveJoinStaysBlocked(j, J) ==
    \/ /\ ~Ready(j, rows)
       /\ blocked' = blocked \cup {j}
       /\ UNCHANGED <<rows, frontier, grown>>
    \/ /\ Ready(j, rows)
       /\ blocked' = blocked
       /\ Contribute(j.result, j.inputs, Support(j, rows), J)

(* `drive` for a join believed as a member of J. *)
DriveJoin(j, J) ==
    \/ /\ ~Ready(j, rows)
       /\ blocked' = blocked \cup {j}
       /\ UNCHANGED <<rows, frontier, grown>>
    \/ /\ Ready(j, rows)
       /\ blocked' = blocked \ {j}
       /\ Contribute(j.result, j.inputs, Support(j, rows), J)

-----------------------------------------------------------------------------
Init ==
    /\ kind \in {"root", "derived"}
    /\ rows = [n \in {} |-> {}]
    /\ frontier = {}
    /\ blocked = {}
    /\ owners = {}
    /\ leaves = {}
    /\ joins = {}
    /\ attachments = {}
    /\ grown = <<>>
    /\ edges = {}

(* `believe` of a COMMIT: the payload is a foundation and covers itself. *)
BelieveFoundation(n, s) ==
    /\ kind = "root"
    /\ Idle
    /\ owners' = owners \cup {<<n, s>>}
    /\ Contribute(n, {}, {n}, joins)
    /\ UNCHANGED <<kind, blocked, leaves, joins, attachments, edges>>

(* `believe` of a DERIVE: the output is a foundation of a derived          *)
(* collection, found again by the locator of its source foundation.        *)
BelieveLeaf(l, n, s) ==
    /\ kind = "derived"
    /\ Idle
    /\ owners' = owners \cup {<<n, s>>}
    /\ leaves' = leaves \cup {<<l, n>>}
    /\ Contribute(n, {}, {n}, joins)
    /\ UNCHANGED <<kind, blocked, joins, attachments, edges>>

(* `believe` of a host MERGE: published, given its consumer edges, driven. *)
BelieveJoin(j) ==
    /\ Idle
    /\ joins' = joins \cup {j}
    /\ DriveJoin(j, joins')
    /\ UNCHANGED <<kind, owners, leaves, attachments, edges>>

(* `believe` of a host MAP: recorded against its node, touching no row. *)
BelieveAttachment(m) ==
    /\ Idle
    /\ attachments' = attachments \cup {m}
    /\ UNCHANGED <<kind, rows, frontier, blocked, owners, leaves, joins, grown, edges>>

(* Mutant of Pop: growth is not propagated to the consumers. *)
PopWithoutEdges ==
    /\ edges = {}
    /\ grown # <<>>
    /\ grown' = SubSeq(grown, 1, Len(grown) - 1)
    /\ UNCHANGED <<published, edges>>

(* The worklist loop takes the node pushed last and copies its edges. *)
Pop ==
    /\ edges = {}
    /\ grown # <<>>
    /\ grown' = SubSeq(grown, 1, Len(grown) - 1)
    /\ edges' = Consumers(grown[Len(grown)])
    /\ UNCHANGED published

(* The loop drives one of those consumers. *)
DriveEdge(j) ==
    /\ j \in edges
    /\ edges' = edges \ {j}
    /\ DriveJoin(j, joins)
    /\ UNCHANGED <<kind, owners, leaves, joins, attachments>>

Believe ==
    \/ \E n \in Foundable, s \in Signers : BelieveFoundation(n, s)
    \/ \E l \in Locators, n \in Foundable, s \in Signers : BelieveLeaf(l, n, s)
    \/ \E j \in Joins : BelieveJoin(j)
    \/ \E m \in Maps : BelieveAttachment(m)

Drain == Pop \/ \E j \in edges : DriveEdge(j)

Next == Believe \/ Drain

Spec == Init /\ [][Next]_vars

(* The worklist is a loop of one call: it runs until it is empty. *)
FairSpec == Spec /\ WF_vars(Drain)

-----------------------------------------------------------------------------
(* The joins a reader may descend from n through: `Coverage::producers`. *)
Producers(n) == {j \in joins \ blocked : j.result = n}

(* What the whole frontier stands for: `Coverage::frontier_support`. *)
FrontierSupport == UNION {rows[n] : n \in frontier}

(* Every published table and the worklist stay within their universes. *)
TypeOK ==
    /\ kind \in {"root", "derived"}
    /\ DOMAIN rows \subseteq Nodes
    /\ \A n \in DOMAIN rows : rows[n] \subseteq Nodes
    /\ frontier \subseteq Nodes
    /\ blocked \subseteq joins
    /\ joins \subseteq Joins
    /\ owners \subseteq Foundable \X Signers
    /\ leaves \subseteq Locators \X Foundable
    /\ attachments \subseteq Maps
    /\ grown \in Seq(Nodes)
    /\ edges \subseteq joins

(* A table that holds what the believed attestations say: a foundation     *)
(* covers itself, and a join whose inputs all have rows covers them all.   *)
Closed(T) ==
    /\ \A n \in Founded : n \in DOMAIN T /\ n \in T[n]
    /\ \A j \in joins :
          Ready(j, T) => /\ j.result \in DOMAIN T
                         /\ Support(j, T) \subseteq T[j.result]

(* The rows say nothing a table T does not say. *)
Below(T) ==
    /\ DOMAIN rows \subseteq DOMAIN T
    /\ \A n \in DOMAIN rows : rows[n] \subseteq T[n]

(* One round of every believed attestation at once, and the table those    *)
(* rounds settle in: the reference the incremental fold is held against.   *)
(* Paths through the lattice are shorter than the number of nodes: as many *)
(* rounds give every node its row, and as many more complete the rows.     *)
Round(R) ==
    LET driven == {j \in joins : Ready(j, R)}
    IN  [n \in DOMAIN R \cup Founded \cup {j.result : j \in driven} |->
            (IF n \in DOMAIN R THEN R[n] ELSE {})
                \cup ({n} \cap Founded)
                \cup UNION {Support(j, R) : j \in {d \in driven : d.result = n}}]

Denotation ==
    LET last == 2 * Cardinality(Nodes)
        after[k \in 0 .. last] ==
            IF k = 0 THEN [n \in {} |-> {}] ELSE Round(after[k - 1])
    IN  after[last]

(* Between two attestations the rows are exactly what the believed set     *)
(* denotes, whatever order the attestations arrived in: no merge that came *)
(* ahead of its inputs is lost, none contributes before all its inputs     *)
(* have support, and growth has reached every consumer.                    *)
RowsAreDenotation == Idle => rows = Denotation

(* The half of RowsAreDenotation that says nothing is missing: every       *)
(* believed foundation and every ready join is already in the rows.        *)
RowsAreClosed == Idle => Closed(rows)

(* Between two attestations the frontier is exactly the nodes with support *)
(* that no driven merge consumes, so it does not depend on arrival order   *)
(* either: `advance_frontier` moves it before later attestations are known.*)
FrontierIsUnconsumed ==
    Idle => frontier =
        {n \in DOMAIN rows :
            ~\E j \in joins : /\ Ready(j, rows)
                              /\ n \in j.inputs
                              /\ j.result # n}

(* Between two attestations a join is marked blocked exactly while an      *)
(* input of it has no row, so a reader descending through `producers`      *)
(* never meets an input without support and never misses a driven join.    *)
BlockedIsExact == Idle => blocked = {j \in joins : ~Ready(j, rows)}

(* No believed merges lead from a node back to it: in every set of nodes   *)
(* some node is merged into no other node of the set.  A union is never    *)
(* smaller than what it joins, so correctly computed merges have no cycle. *)
Acyclic ==
    \A S \in (SUBSET Nodes) \ {{}} :
        \E n \in S : \A j \in joins : n \in j.inputs /\ j.result # n => j.result \notin S

(* Attaching the frontier stands for every believed foundation and nothing *)
(* else, unless wrongly computed merges form a cycle.                      *)
FrontierCoversAll == Idle /\ Acyclic => FrontierSupport = Founded

(* The frontier a reader attaches is both: nothing on it is already part   *)
(* of a merge that is driven, and nothing believed is missing from what    *)
(* the whole of it stands for.                                             *)
FrontierIsExact == FrontierIsUnconsumed /\ FrontierCoversAll

(* Even in the middle of a fold nothing is attributed to a node that is    *)
(* not a believed foundation: no step widens support by anything else.     *)
NothingInjected == \A n \in DOMAIN rows : rows[n] \subseteq Founded

(* Rows are never narrowed and never dropped: a support a reader has seen  *)
(* is part of every later one.                                             *)
RowsOnlyGrow ==
    [][/\ DOMAIN rows \subseteq DOMAIN rows'
       /\ \A n \in DOMAIN rows : rows[n] \subseteq rows'[n]]_vars

(* The worklist drains, cyclic merges included. *)
WorklistDrains == []<>Idle

=============================================================================
