----------------------------- MODULE Capability -----------------------------
(***************************************************************************)
(* Who may act on a resource (triblespace-core/src/capability.rs and the   *)
(* admission half of collection/{descriptor,api,coverage}.rs), as a        *)
(* function of the evidence a reader holds: capability definitions and     *)
(* descriptors (blobs) and capability proofs.                              *)
(*                                                                         *)
(* A proof is a chain from a root key: each edge hands a definition to a   *)
(* delegate, signed by the delegate before it.  A policy asks that the     *)
(* shares of enough of its roots reach the subject.  Evidence only ever    *)
(* arrives, so a decision that does not admit also says which blobs could  *)
(* change it: the callers park on exactly those.                           *)
(*                                                                         *)
(* A reader walks its proofs in the order of their ids.  Key encoding and  *)
(* signature arithmetic are abstracted: an edge says whether its signature *)
(* verifies, Principals are the keys `is_valid_capability_principal`       *)
(* accepts.                                                                *)
(***************************************************************************)
EXTENDS Naturals, Sequences, FiniteSets

CONSTANTS
    Keys,         \* public keys
    Principals,   \* those that may hold authority
    Collections,  \* resources, named by the handle of their descriptor
    Definitions,  \* handles of capability definitions
    Actions,      \* WRITE and whatever else definitions speak about
    WRITE,
    Invokes,      \* definition -> the actions it lets its holder invoke
    Delegates,    \* definition -> the actions it lets its holder delegate
    Proofs,       \* [id, root, resource, edges], edges a sequence of
                  \* [capability, delegate, signed]
    Policies      \* collection -> the policies its descriptor binds:
                  \* [definition, open, roots, threshold]

ASSUME KeysAssumption == Principals \subseteq Keys
ASSUME ActionsAssumption ==
    /\ WRITE \in Actions
    /\ Invokes \in [Definitions -> SUBSET Actions]
    /\ Delegates \in [Definitions -> SUBSET Actions]
ASSUME ProofsAssumption ==
    /\ IsFiniteSet(Proofs)
    /\ \A p \in Proofs :
          /\ p.id \in Nat
          /\ p.root \in Principals
          /\ p.resource \in Collections
          /\ p.edges \in Seq([capability : Definitions, delegate : Principals,
                              signed : BOOLEAN])
    /\ \A p, q \in Proofs : p.id = q.id => p = q
ASSUME PoliciesAssumption ==
    \A c \in Collections : \A y \in Policies[c] :
        /\ y.definition \in Definitions
        /\ y.open \in BOOLEAN
        /\ y.roots \subseteq Keys /\ IsFiniteSet(y.roots)
        /\ y.threshold \in Nat \ {0}

-----------------------------------------------------------------------------
(* The handle an edge hands on, and the actions it names. *)
Handed(p, k) == p.edges[k].capability
Named(p, k) == Invokes[Handed(p, k)] \cup Delegates[Handed(p, k)]

(* Edge k of the walk succeeds: it is signed by the holder before, its     *)
(* definition is readable, and it names no action that the definition      *)
(* before it does not delegate.                                            *)
Passes(p, k, D) ==
    /\ p.edges[k].signed
    /\ Handed(p, k) \in D
    /\ k > 1 => Named(p, k) \subseteq Delegates[Handed(p, k - 1)]

(* Some walkable prefix of the proof hands the action to the subject.      *)
(* What follows that prefix is not looked at.                              *)
Supports(p, subject, action, D) ==
    \E k \in DOMAIN p.edges :
        /\ \A i \in 1 .. k : Passes(p, i, D)
        /\ p.edges[k].delegate = subject
        /\ action \in Invokes[Handed(p, k)]

(* The definition whose absence ends the walk, if that is what ends it.    *)
CutAt(p, D) ==
    {Handed(p, k) : k \in {i \in DOMAIN p.edges :
        /\ \A j \in 1 .. i - 1 : Passes(p, j, D)
        /\ p.edges[i].signed
        /\ Handed(p, i) \notin D}}

(* The proof names the subject as a delegate at some edge. *)
NamesDelegate(p, subject) == \E k \in DOMAIN p.edges : p.edges[k].delegate = subject

(* The proofs of P that bear on a policy over resource c. *)
Bearing(P, c, roots) == {p \in P : p.root \in roots /\ p.resource = c}

(* The roots whose share reaches the subject; a root holds its own. *)
Support(P, c, roots, subject, action, D) ==
    {r \in roots :
        \/ r = subject
        \/ \E p \in Bearing(P, c, roots) :
              p.root = r /\ Supports(p, subject, action, D)}

(* Usable roots and subject: otherwise a quorum is never met. *)
Canonical(roots, subject, threshold) ==
    /\ subject \in Principals
    /\ roots \subseteq Principals
    /\ Cardinality(roots) >= threshold

(* `capability_quorum_decide_if` answers Met. *)
QuorumMet(P, c, roots, threshold, subject, action, D) ==
    /\ Canonical(roots, subject, threshold)
    /\ Cardinality(Support(P, c, roots, subject, action, D)) >= threshold

(* A proof is walked unless its root's share has arrived already. *)
Walked(p, P, c, roots, subject, action, D) ==
    /\ p \in Bearing(P, c, roots)
    /\ p.root # subject
    /\ ~\E q \in Bearing(P, c, roots) :
          q.id < p.id /\ q.root = p.root /\ Supports(q, subject, action, D)

(* The definitions of an Undefined answer: where a walk that could have    *)
(* reached the subject was cut short.  Empty is an Unmet answer.           *)
QuorumUndefined(P, c, roots, threshold, subject, action, D) ==
    IF ~Canonical(roots, subject, threshold) THEN {}
    ELSE UNION {CutAt(p, D) : p \in {q \in P :
            /\ Walked(q, P, c, roots, subject, action, D)
            /\ ~Supports(q, subject, action, D)
            /\ NamesDelegate(q, subject)}}

-----------------------------------------------------------------------------
(* The definitions the descriptor's policies name and the reader lacks,    *)
(* and the policies for WRITE whose definitions it holds.                  *)
MissingPolicies(c, B) == {y.definition : y \in Policies[c]} \ B
WritePolicies(c, B) ==
    {y \in Policies[c] : y.definition \in B /\ WRITE \in Invokes[y.definition]}

(* Mutant of UndefinedFor: a proof cut short names nothing to wait for. *)
UndefinedForPolicies(c, s, B, P) == MissingPolicies(c, B)

(* What `StoreWriters::admits` waits for when it does not admit: every     *)
(* definition named by a policy or by a proof for this signer that is not  *)
(* resident.                                                               *)
UndefinedFor(c, s, B, P) ==
    MissingPolicies(c, B)
        \cup UNION {QuorumUndefined(P, c, y.roots, y.threshold, s, WRITE, B) :
                       y \in WritePolicies(c, B)}

(* Mutant of Admitted: every WRITE policy must admit, not one of them. *)
AdmittedByEvery(c, s, B, P) ==
    /\ c \in B
    /\ WritePolicies(c, B) # {}
    /\ \A y \in WritePolicies(c, B) :
          y.open \/ QuorumMet(P, c, y.roots, y.threshold, s, WRITE, B)

(* `StoreWriters::admits` answers Admitted: the descriptor is resident and *)
(* one of its WRITE policies is open or has its quorum.                    *)
Admitted(c, s, B, P) ==
    /\ c \in B
    /\ \E y \in WritePolicies(c, B) :
          y.open \/ QuorumMet(P, c, y.roots, y.threshold, s, WRITE, B)

(* It answers Undescribed. *)
Undescribed(c, B) == c \notin B

=============================================================================
