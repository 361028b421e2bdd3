------------------------------ MODULE Evidence ------------------------------
(***************************************************************************)
(* The evidence a store holds, arriving in any order, and what the two     *)
(* loops of capability.rs compute from it: `capability_quorum_decide_if`   *)
(* with its early exits, and `capability_quorum_authorized_subjects_if`.   *)
(* Module Capability says the same without the loops; the other modules    *)
(* and the proofs use that form.                                           *)
(***************************************************************************)
EXTENDS Capability

VARIABLES
    blobs,   \* resident descriptors and definitions
    proofs   \* resident capability proofs

evidenceVars == <<blobs, proofs>>

(* How `visit_prefixes` ends when the visitor stops at the first prefix    *)
(* that hands the action to the subject.                                   *)
VisitPrefixes(p, subject, action, D) ==
    LET last == Len(p.edges)
        from[k \in 1 .. last + 1] ==
            IF k > last THEN [found |-> FALSE, cut |-> {}]
            ELSE IF ~p.edges[k].signed THEN [found |-> FALSE, cut |-> {}]
            ELSE IF Handed(p, k) \notin D THEN [found |-> FALSE, cut |-> {Handed(p, k)}]
            ELSE IF k > 1 /\ ~(Named(p, k) \subseteq Delegates[Handed(p, k - 1)])
                 THEN [found |-> FALSE, cut |-> {}]
            ELSE IF p.edges[k].delegate = subject /\ action \in Invokes[Handed(p, k)]
                 THEN [found |-> TRUE, cut |-> {}]
            ELSE from[k + 1]
    IN  from[1]

(* Proofs are walked in the order of their ids. *)
LastById(P) == CHOOSE p \in P : \A q \in P : q.id <= p.id

(* Mutant of QuorumDecide: every proof that supports counts once. *)
QuorumDecideCountsProofs(P, c, roots, threshold, subject, action, D) ==
    IF ~Canonical(roots, subject, threshold) THEN [met |-> FALSE, undefined |-> {}]
    ELSE [met |-> Cardinality(roots \cap {subject})
                    + Cardinality({p \in Bearing(P, c, roots) :
                          Supports(p, subject, action, D)}) >= threshold,
          undefined |-> QuorumUndefined(P, c, roots, threshold, subject, action, D)]

(* `capability_quorum_decide_if`, proof by proof: what it has found after  *)
(* the proofs of S.                                                        *)
QuorumDecide(P, c, roots, threshold, subject, action, D) ==
    LET after[S \in SUBSET P] ==
            IF S = {} THEN [support |-> roots \cap {subject}, undefined |-> {}]
            ELSE LET p == LastById(S)
                     acc == after[S \ {p}]
                     walk == VisitPrefixes(p, subject, action, D)
                 IN  IF \/ Cardinality(acc.support) >= threshold
                        \/ p.root \notin roots
                        \/ p.root \in acc.support
                        \/ p.resource # c
                     THEN acc
                     ELSE [support |-> acc.support \cup
                              (IF walk.found THEN {p.root} ELSE {}),
                           undefined |-> acc.undefined \cup
                              (IF NamesDelegate(p, subject) THEN walk.cut ELSE {})]
        final == after[P]
    IN  IF ~Canonical(roots, subject, threshold) THEN [met |-> FALSE, undefined |-> {}]
        ELSE [met |-> Cardinality(final.support) >= threshold,
              undefined |-> final.undefined]

(* `capability_quorum_authorized_subjects_if`: every walkable prefix of    *)
(* every proof gives its root's share to the prefix's delegate.            *)
AuthorizedSubjects(P, c, roots, threshold, action, D) ==
    LET walkable(p) == {k \in DOMAIN p.edges : \A i \in 1 .. k : Passes(p, i, D)}
        shares == {<<r, r>> : r \in roots} \cup
                  UNION {{<<p.edges[k].delegate, p.root>> :
                            k \in {i \in walkable(p) : action \in Invokes[Handed(p, i)]}} :
                         p \in Bearing(P, c, roots)}
    IN  IF ~(roots \subseteq Principals) \/ Cardinality(roots) < threshold THEN {}
        ELSE {s \in Keys : Cardinality({h \in shares : h[1] = s}) >= threshold}

-----------------------------------------------------------------------------
EvidenceInit == blobs = {} /\ proofs = {}

(* A descriptor or definition becomes resident: `put`. *)
BlobArrives(b) == blobs' = blobs \cup {b} /\ UNCHANGED proofs

(* A proof becomes resident: `insert_proof`, which verifies every          *)
(* signature, or the replay of a stored record, which does not.            *)
ProofArrives(p) == proofs' = proofs \cup {p} /\ UNCHANGED blobs

EvidenceNext ==
    \/ \E b \in Collections \cup Definitions : BlobArrives(b)
    \/ \E p \in Proofs : ProofArrives(p)

EvidenceSpec == EvidenceInit /\ [][EvidenceNext]_evidenceVars

-----------------------------------------------------------------------------
Quorums == {q \in Collections \X (UNION {Policies[c] : c \in Collections}) :
               q[2] \in Policies[q[1]] /\ ~q[2].open}

(* The decision loop, with its early exits and its skipped proofs, counts  *)
(* each root once and stops where the declarative walk stops.              *)
DecisionIsQuorum ==
    \A q \in Quorums, s \in Keys :
        LET c == q[1]
            y == q[2]
            answer == QuorumDecide(proofs, c, y.roots, y.threshold, s, WRITE, blobs)
        IN  /\ answer.met = QuorumMet(proofs, c, y.roots, y.threshold, s, WRITE, blobs)
            /\ ~answer.met =>
                 answer.undefined =
                    QuorumUndefined(proofs, c, y.roots, y.threshold, s, WRITE, blobs)

(* The audience a policy is expanded to is exactly the principals the      *)
(* decision admits one by one.                                             *)
AudienceIsTheAdmitted ==
    \A q \in Quorums :
        LET c == q[1]
            y == q[2]
        IN  AuthorizedSubjects(proofs, c, y.roots, y.threshold, WRITE, blobs) =
               {s \in Keys :
                   QuorumDecide(proofs, c, y.roots, y.threshold, s, WRITE, blobs).met}

(* The decision on a signer, proof by proof with its early exits and its   *)
(* skipped proofs, counts each root once and names the cuts the            *)
(* declarative walk names; and the audience a policy is expanded to is     *)
(* exactly the principals that decision admits one by one.                 *)
DecisionIsExact == DecisionIsQuorum /\ AudienceIsTheAdmitted

(* A refusal names every blob that can turn it: whatever else arrives, a   *)
(* signer that is not admitted stays so until one of the definitions it is *)
(* parked under does (a missing one would park a record for ever).  And it *)
(* never waits for a blob that is resident, which would not arrive again.  *)
HintsAreExact ==
    \A c \in Collections, s \in Keys :
        LET hints == UndefinedFor(c, s, blobs, proofs)
        IN  /\ hints \cap blobs = {}
            /\ c \in blobs /\ ~Admitted(c, s, blobs, proofs) =>
                 \A B \in SUBSET (Collections \cup Definitions) :
                     blobs \subseteq B /\ Admitted(c, s, B, proofs) => hints \cap B # {}

(* Evidence that arrives never takes an admission back. *)
AdmissionIsStable ==
    [][\A c \in Collections, s \in Keys :
          Admitted(c, s, blobs, proofs) => Admitted(c, s, blobs', proofs')]_evidenceVars

=============================================================================
