----------------------------- MODULE Retention ------------------------------
(***************************************************************************)
(* Which blobs a collecting store keeps (`retention_observation` of        *)
(* triblespace-core/src/repo/yard.rs and `RetentionRoots::expanded` of     *)
(* repo.rs): what the caller names, what the retained records, proofs and  *)
(* wants name, and everything resident that those blobs refer to.          *)
(***************************************************************************)
EXTENDS Naturals, FiniteSets

CONSTANTS
    Blobs,
    Records,   \* collection records and capability proofs
    Wants,     \* durable requests
    Refs,      \* blob, record or want -> the blobs it names; for a record or
               \* want the description of its kind is among them
    BlobKind,  \* the description of the blob kind itself
    Roots      \* the roots callers pass to a collection

Items == Blobs \cup Records \cup Wants

ASSUME RefsAssumption == Refs \in [Items -> SUBSET Blobs]
ASSUME ItemsAssumption ==
    /\ Blobs \cap Records = {} /\ Blobs \cap Wants = {} /\ Records \cap Wants = {}
    /\ BlobKind \in Blobs
ASSUME RootsAssumption == Roots \subseteq [direct : SUBSET Blobs, recursive : SUBSET Blobs]

(* A caller's roots: direct ones keep only themselves. *)
NoRoots == [direct |-> {}, recursive |-> {}]

(* Everything resident that is reachable from S: `reachable`. *)
Reach(S, present) ==
    {b \in present :
        \A T \in SUBSET present :
            /\ S \cap present \subseteq T
            /\ \A x \in T : Refs[x] \cap present \subseteq T
            => b \in T}

(* The keep set: the roots of the caller and of the owners, expanded; and  *)
(* as long as that keeps any blob, the description of the blob kind.       *)
Keep(present, owners, roots) ==
    LET recursive == roots.recursive \cup UNION {Refs[o] : o \in owners}
        kept == roots.direct \cup Reach(recursive, present)
    IN  IF kept \cap present = {} THEN kept
        ELSE roots.direct \cup Reach(recursive \cup {BlobKind}, present)

(* The part of a set of items that is kept by the records and wants in it. *)
Supported(S) == (S \ Blobs) \cup (Keep(S \cap Blobs, S \ Blobs, NoRoots) \cap S)

=============================================================================
