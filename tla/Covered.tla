------------------------------ MODULE Covered -------------------------------
(***************************************************************************)
(* The coverage index of a store, fed by the difference between snapshots  *)
(* and decided one lineage at a time as readers ask                        *)
(* (triblespace-core/src/collection/covered.rs and the admission half of   *)
(* coverage.rs: `park`, `decide`, `hold`, the wakes and the settles).      *)
(*                                                                         *)
(* What the index publishes is a function of the attestations it believes  *)
(* (module Coverage, theorem RowsAreLeast), so here the published half is  *)
(* the set `believed`.  A record is reduced to its attestation.  A         *)
(* snapshot's memo sits behind one lock; every action below is one         *)
(* critical section.  Consecutive snapshots with equal inputs share one    *)
(* memo and are one snapshot here.                                         *)
(*                                                                         *)
(* The evidence of the inner store is that of module Evidence, of which    *)
(* only the variables are used.                                            *)
(***************************************************************************)
EXTENDS Evidence

CONSTANTS
    Kinds,        \* collection -> "root", "derived" or "attached"
    Records,      \* [collection, kind, signer, node], kind one of "commit",
                  \* "derive", "merge", "map"
    Host,         \* the key whose MERGEs and MAPs the fold believes
    Uses,         \* what stores are fed: records [blobs, proofs, records]
    MaxSnapshots  \* bound on the snapshots alive at once

ASSUME KindsAssumption == Kinds \in [Collections -> {"root", "derived", "attached"}]
ASSUME RecordsAssumption ==
    \A a \in Records : /\ a.collection \in Collections
                       /\ a.kind \in {"commit", "derive", "merge", "map"}
                       /\ a.signer \in Keys

Blobs == Collections \cup Definitions

ASSUME UsesAssumption ==
    Uses \subseteq [blobs : SUBSET Blobs, proofs : SUBSET Proofs, records : SUBSET Records]

VARIABLES
    use,      \* which of the uses this is
    records,  \* what the inner store holds besides its blobs and proofs
    snaps     \* snapshots alive, oldest first; the last one is
              \* `Covered::last`.  [blobs, proofs, records, memo]

vars == <<use, blobs, proofs, records, snaps>>

-----------------------------------------------------------------------------
(* `folds`: another key's MERGE or MAP is dropped before it is stored. *)
Folds(a) == a.kind \in {"commit", "derive"} \/ a.signer = Host

(* The kind a descriptor gives its collection, once it is readable. *)
Resolved(c, B) == IF c \in B THEN Kinds[c] ELSE "missing"

(* A COMMIT founds a root collection, a DERIVE a derived one; the other    *)
(* pairings attest nothing.                                                *)
Foundational(a, B) ==
    \/ a.kind = "commit" /\ Resolved(a.collection, B) = "root"
    \/ a.kind = "derive" /\ Resolved(a.collection, B) = "derived"

(* `decide` believes the attestation: the host's MAP always, its MERGE     *)
(* unless the collection is known to be attached, a foundation when its    *)
(* signer is admitted.                                                     *)
Believes(a, B, P) ==
    \/ a.kind = "map"
    \/ a.kind = "merge" /\ Resolved(a.collection, B) # "attached"
    \/ Foundational(a, B) /\ Admitted(a.collection, a.signer, B, P)

(* Mutant of LineageWaits: waits for the definitions of policies only. *)
LineageWaitsForPolicies(a, B, P) ==
    IF a.kind \in {"commit", "derive"} /\ Undescribed(a.collection, B) THEN {a.collection}
    ELSE IF Foundational(a, B) /\ ~Admitted(a.collection, a.signer, B, P)
         THEN MissingPolicies(a.collection, B)
    ELSE {}

(* The blobs it is parked under otherwise: the descriptor, or every        *)
(* definition that could admit the signer.                                 *)
LineageWaits(a, B, P) ==
    IF a.kind \in {"commit", "derive"} /\ Undescribed(a.collection, B) THEN {a.collection}
    ELSE IF Foundational(a, B) /\ ~Admitted(a.collection, a.signer, B, P)
         THEN UndefinedFor(a.collection, a.signer, B, P)
    ELSE {}

(* It is parked under its signer's key as well as under the definitions. *)
ProofWaits(a, B, P) ==
    Foundational(a, B) /\ ~Admitted(a.collection, a.signer, B, P)

-----------------------------------------------------------------------------
EmptyMemo ==
    [believed |-> {},   \* attestations folded into the published half
     lineage |-> {},    \* <<blob, attestation>>: awaiting_lineage
     proof |-> {},      \* attestations awaiting_proof
     fresh |-> {},      \* attestations no decision has been offered to
     joins |-> {},      \* fresh_joins: MERGEs whose inputs are kept
     settled |-> {}]    \* collections all of whose records were offered

(* `park` every attestation of A; a join already believed is not parked. *)
Park(m, A) ==
    LET parked == {a \in A : Folds(a) /\ ~(a.kind = "merge" /\ a \in m.believed)}
    IN  [m EXCEPT !.fresh = @ \cup parked,
                  !.joins = @ \cup {a \in parked : a.kind = "merge"}]

(* `decide` every attestation of A, none of which is fresh any more. *)
Decide(m, A, B, P) ==
    [m EXCEPT !.fresh = @ \ A,
              !.joins = @ \ A,
              !.believed = @ \cup {a \in A : Believes(a, B, P)},
              !.lineage = @ \cup {w \in Blobs \X A : w[1] \in LineageWaits(w[2], B, P)},
              !.proof = @ \cup {a \in A : ProofWaits(a, B, P)}]

(* Mutant of WakeDescriptors: what is woken is still held under the blob. *)
WakeDescriptorsHolding(m, B) ==
    Park(m, {w[2] : w \in {v \in m.lineage : v[1] \in B}})

(* `wake_descriptor` for every blob of B. *)
WakeDescriptors(m, B) ==
    Park([m EXCEPT !.lineage = {w \in @ : w[1] \notin B}],
         {w[2] : w \in {v \in m.lineage : v[1] \in B}})

(* `wake_proofs`. *)
WakeProofs(m) == Park([m EXCEPT !.proof = {}], m.proof)

(* `carry_forward` to a snapshot that differs from the last one: wake what *)
(* waited on a blob that arrived, offer the records that arrived for       *)
(* collections some reader has settled (a backend may offer older ones     *)
(* `again`), and wake what waited on a proof if the proofs changed.        *)
CarryForward(now, fed, again, proofsChanged) ==
    LET woken == WakeDescriptors(fed.memo, now.blobs \ fed.blobs)
        fed2 == Park(woken, {a \in (now.records \ fed.records) \cup again :
                                a.collection \in woken.settled})
    IN  IF proofsChanged THEN WakeProofs(fed2) ELSE fed2

(* `settle_lineage` and `settle_collections`: offer every record of the    *)
(* collections not settled yet, then decide what is fresh in L.            *)
SettleLineage(s, L) ==
    LET unseen == L \ s.memo.settled
        offered == Park(s.memo, {a \in s.records : a.collection \in unseen})
        m == [offered EXCEPT !.settled = @ \cup L]
    IN  Decide(m, {a \in m.fresh : a.collection \in L}, s.blobs, s.proofs)

(* `coverage_index`: the same for every collection some record names. *)
SettleAll(s) ==
    LET all == {a.collection : a \in s.records}
        offered == Park(s.memo, {a \in s.records : a.collection \notin s.memo.settled})
        m == [offered EXCEPT !.settled = @ \cup all]
    IN  Decide(m, m.fresh, s.blobs, s.proofs)

-----------------------------------------------------------------------------
Init == use \in Uses /\ blobs = {} /\ proofs = {} /\ records = {} /\ snaps = <<>>

(* Writes reach the inner store directly; the index does not see them. *)
Put(b) == blobs' = blobs \cup {b} /\ UNCHANGED <<use, proofs, records, snaps>>
InsertProof(p) == proofs' = proofs \cup {p} /\ UNCHANGED <<use, blobs, records, snaps>>
Insert(a) == records' = records \cup {a} /\ UNCHANGED <<use, blobs, proofs, snaps>>

Now(m) == [blobs |-> blobs, proofs |-> proofs, records |-> records, memo |-> m]

(* `snapshot` of a store that has handed out none yet. *)
FirstSnapshot ==
    /\ snaps = <<>>
    /\ snaps' = <<Now(EmptyMemo)>>
    /\ UNCHANGED <<use, blobs, proofs, records>>

(* `snapshot` when the change mask against the last one is not empty.  The *)
(* mask is conservative: it may also be set when nothing changed.          *)
NextSnapshot(again, proofsChanged) ==
    /\ snaps # <<>> /\ Len(snaps) < MaxSnapshots
    /\ LET fed == snaps[Len(snaps)]
       IN  /\ again \subseteq fed.records
           /\ proofs # fed.proofs => proofsChanged
           /\ snaps' = Append(snaps,
                 Now(CarryForward(Now(EmptyMemo), fed, again, proofsChanged)))
    /\ UNCHANGED <<use, blobs, proofs, records>>

(* `CoverageRead::index`: a reader of snapshot i asks for a lineage. *)
Index(i, L) ==
    /\ i \in DOMAIN snaps
    /\ snaps' = [snaps EXCEPT ![i].memo = SettleLineage(snaps[i], L)]
    /\ UNCHANGED <<use, blobs, proofs, records>>

(* `coverage_index`: a reader of snapshot i asks for everything. *)
CoverageIndex(i) ==
    /\ i \in DOMAIN snaps
    /\ snaps' = [snaps EXCEPT ![i].memo = SettleAll(snaps[i])]
    /\ UNCHANGED <<use, blobs, proofs, records>>

(* The last reader of an older snapshot drops it. *)
Release(i) ==
    /\ i \in 1 .. Len(snaps) - 1
    /\ snaps' = SubSeq(snaps, 1, i - 1) \o SubSeq(snaps, i + 1, Len(snaps))
    /\ UNCHANGED <<use, blobs, proofs, records>>

Next ==
    \/ \E b \in use.blobs : Put(b)
    \/ \E p \in use.proofs : InsertProof(p)
    \/ \E a \in use.records : Insert(a)
    \/ FirstSnapshot
    \/ \E again \in SUBSET records, changed \in BOOLEAN : NextSnapshot(again, changed)
    \/ \E i \in DOMAIN snaps, L \in (SUBSET (Collections \cap use.blobs)) \ {{}} : Index(i, L)
    \/ \E i \in DOMAIN snaps : CoverageIndex(i)
    \/ \E i \in DOMAIN snaps : Release(i)

Spec == Init /\ [][Next]_vars

-----------------------------------------------------------------------------
(* Each snapshot froze a part of what the store holds, and its memo holds  *)
(* attestations of that part only.                                         *)
TypeOK ==
    /\ use \in Uses
    /\ blobs \subseteq Blobs /\ proofs \subseteq Proofs /\ records \subseteq Records
    /\ \A i \in DOMAIN snaps :
          LET s == snaps[i]
              m == s.memo
          IN  /\ s.blobs \subseteq blobs
              /\ s.proofs \subseteq proofs
              /\ s.records \subseteq records
              /\ m.believed \cup m.proof \cup m.fresh \cup m.joins \subseteq s.records
              /\ m.lineage \subseteq Blobs \X s.records
              /\ m.settled \subseteq Collections

(* What a fold of the snapshot's own records from nothing believes about a *)
(* collection, MERGEs into attached collections aside: the code documents  *)
(* that such a join, decided before its descriptor, stays stored.          *)
FromScratch(s, c) ==
    {a \in s.records : a.collection = c /\ Folds(a) /\ Believes(a, s.blobs, s.proofs)}

Counted(A) == {a \in A : ~(a.kind = "merge" /\ Kinds[a.collection] = "attached")}

(* Whatever a snapshot's memo was carried forward from, whichever lineages *)
(* were read in whatever order and through whichever older snapshots, a    *)
(* read of collection c decides exactly what a fold from nothing of that   *)
(* snapshot does: no record waits on evidence that is there, and none is   *)
(* believed on evidence the snapshot does not hold.                        *)
ReadsAreExact ==
    \A i \in DOMAIN snaps :
        LET s == snaps[i]
            everything == SettleAll(s)
            about(m, c) == Counted({a \in m.believed : a.collection = c})
        IN  \A c \in {a.collection : a \in s.records} :
                LET exact == Counted(FromScratch(s, c))
                IN  /\ about(SettleLineage(s, {c}), c) = exact
                    /\ about(everything, c) = exact

(* Nothing waits on a blob its snapshot holds: no arrival would wake it.   *)
(* And the inputs of a join are kept exactly while it is parked: a parked  *)
(* key without them would be dropped, kept ones without a key are leaked.  *)
ParkedIsExact ==
    \A i \in DOMAIN snaps :
        LET m == snaps[i].memo
        IN  /\ \A w \in m.lineage : w[1] \notin snaps[i].blobs
            /\ m.joins = {a \in m.fresh : a.kind = "merge"}

(* "WHICH members of `collection` no capability proof admits yet": what    *)
(* `unadmitted_nodes_in` lists, against what is believed by then.          *)
UnadmittedAreNotBelieved ==
    \A i \in DOMAIN snaps : snaps[i].memo.proof \cap snaps[i].memo.believed = {}

=============================================================================
