---------------------------- MODULE CoveredProofs ----------------------------
(***************************************************************************)
(* A read of the coverage index is exact, for every set of collections,    *)
(* policies, proofs and records and any number of snapshots alive at once. *)
(*                                                                         *)
(* The argument follows one attestation.  Once its collection is settled,  *)
(* it is believed, fresh, or waiting; and whatever waits is refused until  *)
(* something it waits for arrives (CapabilityProofs), which makes it fresh *)
(* again.  A read decides what is fresh, so nothing believable is left     *)
(* out.  Nothing is believed too early, as evidence only arrives.          *)
(***************************************************************************)
EXTENDS Covered, CapabilityProofs

Memos ==
    [believed : SUBSET Records, lineage : SUBSET (Blobs \X Records),
     proof : SUBSET Records, fresh : SUBSET Records, joins : SUBSET Records,
     settled : SUBSET Collections]
Snapshots ==
    [blobs : SUBSET Blobs, proofs : SUBSET Proofs, records : SUBSET Records, memo : Memos]

(* Refused on a part of the blobs, and parked on everything that could     *)
(* turn that.                                                              *)
ParkedRefused(a, B, P, m) ==
    /\ a \in m.proof
    /\ \E B0 \in SUBSET B :
          /\ a.collection \in B0
          /\ Foundational(a, B0)
          /\ ~Admitted(a.collection, a.signer, B0, P)
          /\ \A b \in UndefinedFor(a.collection, a.signer, B0, P) : <<b, a>> \in m.lineage

(* Parked on its descriptor. *)
ParkedUndescribed(a, B, m) ==
    /\ a.kind \in {"commit", "derive"}
    /\ a.collection \notin B
    /\ <<a.collection, a>> \in m.lineage

(* An attestation its collection does not take. *)
Dead(a, B) ==
    /\ a.collection \in B
    /\ \/ a.kind \in {"commit", "derive"} /\ ~Foundational(a, B)
       \/ a.kind = "merge" /\ Kinds[a.collection] = "attached"

Waiting(a, B, P, m) == ParkedRefused(a, B, P, m) \/ ParkedUndescribed(a, B, m) \/ Dead(a, B)

(* The memo m of a snapshot of the records R holds attestations of R. *)
Inside(R, m) ==
    /\ m.believed \subseteq R /\ m.proof \subseteq R /\ m.fresh \subseteq R
    /\ m.joins \subseteq R /\ m.lineage \subseteq Blobs \X R
    /\ \A a \in m.believed \cup m.fresh : Folds(a)

(* Nothing is believed on evidence the snapshot does not hold, joins into  *)
(* a collection that turned out to be attached aside.                      *)
Sound(B, P, m) ==
    \A a \in m.believed :
        Believes(a, B, P) \/ (a.kind = "merge" /\ Kinds[a.collection] = "attached")

(* No record of a settled collection is lost. *)
Placed(B, P, R, m) ==
    \A a \in R : Folds(a) /\ a.collection \in m.settled =>
        a \in m.believed \/ a \in m.fresh \/ Waiting(a, B, P, m)

(* ParkedIsExact, of one memo. *)
Parked(B, m) ==
    /\ \A w \in m.lineage : w[1] \notin B
    /\ m.joins = {a \in m.fresh : a.kind = "merge"}

Good(B, P, R, m) == Inside(R, m) /\ Sound(B, P, m) /\ Placed(B, P, R, m) /\ Parked(B, m)

(* A snapshot of a store that holds B, P and R by now. *)
SnapOK(s, B, P, R) ==
    /\ s \in Snapshots
    /\ s.blobs \subseteq B /\ s.proofs \subseteq P /\ s.records \subseteq R
    /\ Good(s.blobs, s.proofs, s.records, s.memo)

IndInv ==
    /\ use \in Uses
    /\ blobs \subseteq Blobs /\ proofs \subseteq Proofs /\ records \subseteq Records
    /\ snaps \in Seq(Snapshots)
    /\ \A i \in 1 .. Len(snaps) : SnapOK(snaps[i], blobs, proofs, records)

(* An edge of a proof is of the kind its sequence says. *)
LEMMA ElementIn ==
    ASSUME NEW S, NEW l \in Seq(S), NEW k \in DOMAIN l
    PROVE  l[k] \in S
  OBVIOUS

(* A dropped snapshot leaves the ones before and the ones after it. *)
LEMMA JoinedFacts ==
    ASSUME NEW S, NEW l \in Seq(S), NEW r \in Seq(S)
    PROVE  /\ l \o r \in Seq(S) /\ Len(l \o r) = Len(l) + Len(r)
           /\ \A j \in 1 .. Len(l) + Len(r) :
                (l \o r)[j] = IF j <= Len(l) THEN l[j] ELSE r[j - Len(l)]
  OBVIOUS

-----------------------------------------------------------------------------
(* What a refusal names are capability definitions. *)
LEMMA HintsAreDefinitions ==
    ASSUME NEW c \in Collections, NEW s, NEW B, NEW P \in SUBSET Proofs
    PROVE  UndefinedFor(c, s, B, P) \subseteq Definitions
  <1>1. MissingPolicies(c, B) \subseteq Definitions
    BY PoliciesAssumption DEF MissingPolicies
  <1>2. ASSUME NEW p \in P
        PROVE  CutAt(p, B) \subseteq Definitions
    <2>1. p.edges \in Seq([capability : Definitions, delegate : Principals, signed : BOOLEAN])
      BY ProofsAssumption, Zenon
    <2>2. ASSUME NEW k \in DOMAIN p.edges
          PROVE  p.edges[k].capability \in Definitions
      <3>1. p.edges[k] \in [capability : Definitions, delegate : Principals, signed : BOOLEAN]
        BY <2>1, <2>2, ElementIn, Zenon
      <3> QED
        BY <3>1
    <2> QED
      BY <2>2 DEF CutAt, Handed
  <1>3. ASSUME NEW y
        PROVE  QuorumUndefined(P, c, y.roots, y.threshold, s, WRITE, B) \subseteq Definitions
    BY <1>2 DEF QuorumUndefined
  <1> QED
    BY <1>1, <1>3 DEF UndefinedFor

(* `park`: only the fresh attestations grow, and of those offered only the *)
(* ones that do not fold, or are joins believed already, are left out.     *)
LEMMA ParkFacts ==
    ASSUME NEW m \in Memos, NEW A \in SUBSET Records
    PROVE  /\ Park(m, A) \in Memos
           /\ Park(m, A).believed = m.believed
           /\ Park(m, A).lineage = m.lineage
           /\ Park(m, A).proof = m.proof
           /\ Park(m, A).settled = m.settled
           /\ m.fresh \subseteq Park(m, A).fresh
           /\ Park(m, A).fresh \subseteq m.fresh \cup {a \in A : Folds(a)}
           /\ \A a \in A : Folds(a) => a \in Park(m, A).fresh \/ a \in m.believed
           /\ m.joins = {a \in m.fresh : a.kind = "merge"} =>
                Park(m, A).joins = {a \in Park(m, A).fresh : a.kind = "merge"}
  <1> DEFINE parked == {a \in A : Folds(a) /\ ~(a.kind = "merge" /\ a \in m.believed)}
             n == Park(m, A)
  <1>1. /\ n = [m EXCEPT !.fresh = @ \cup parked,
                         !.joins = @ \cup {a \in parked : a.kind = "merge"}]
        /\ parked \subseteq A
    BY DEF Park
  <1>2. /\ \A a \in A : Folds(a) => a \in parked \/ a \in m.believed
        /\ \A a \in parked : Folds(a)
    OBVIOUS
  <1> HIDE DEF parked, n
  <1>3. /\ n.believed = m.believed /\ n.lineage = m.lineage /\ n.proof = m.proof
        /\ n.settled = m.settled
        /\ n.fresh = m.fresh \cup parked
        /\ n.joins = m.joins \cup {a \in parked : a.kind = "merge"}
        /\ n \in Memos
    BY <1>1, Zenon DEF Memos
  <1>4. m.joins = {a \in m.fresh : a.kind = "merge"} =>
          n.joins = {a \in n.fresh : a.kind = "merge"}
    BY <1>3
  <1> QED
    BY <1>1, <1>2, <1>3, <1>4 DEF n

(* `decide` of A makes n of the memo m. *)
Decided(m, A, B, P, n) ==
    /\ \A a : a \in n.believed <=> a \in m.believed \/ (a \in A /\ Believes(a, B, P))
    /\ m.lineage \subseteq n.lineage
    /\ \A w \in n.lineage : w \in m.lineage
         \/ (w \in Blobs \X A /\ w[1] \in LineageWaits(w[2], B, P))
    /\ \A b \in Blobs, a \in A : b \in LineageWaits(a, B, P) => <<b, a>> \in n.lineage
    /\ \A a : a \in n.proof <=> a \in m.proof \/ (a \in A /\ ProofWaits(a, B, P))
    /\ n.settled = m.settled /\ n.fresh = m.fresh \ A /\ n.joins = m.joins \ A

(* `decide`: what it does to each part of the memo. *)
LEMMA DecideFacts ==
    ASSUME NEW m \in Memos, NEW A \in SUBSET Records, NEW B, NEW P
    PROVE  Decide(m, A, B, P) \in Memos /\ Decided(m, A, B, P, Decide(m, A, B, P))
  <1> DEFINE yes == {a \in A : Believes(a, B, P)}
             on == {w \in Blobs \X A : w[1] \in LineageWaits(w[2], B, P)}
             no == {a \in A : ProofWaits(a, B, P)}
             n == Decide(m, A, B, P)
  <1>1. /\ n = [m EXCEPT !.fresh = @ \ A, !.joins = @ \ A, !.believed = @ \cup yes,
                         !.lineage = @ \cup on, !.proof = @ \cup no]
        /\ yes \subseteq Records /\ no \subseteq Records /\ on \subseteq Blobs \X Records
    BY DEF Decide
  <1>2. /\ \A a : a \in yes <=> a \in A /\ Believes(a, B, P)
        /\ \A a : a \in no <=> a \in A /\ ProofWaits(a, B, P)
    OBVIOUS
  <1>3. \A w \in on : w \in Blobs \X A /\ w[1] \in LineageWaits(w[2], B, P)
    OBVIOUS
  <1>4. ASSUME NEW b \in Blobs, NEW a \in A, b \in LineageWaits(a, B, P)
        PROVE  <<b, a>> \in on
    BY <1>4
  <1> HIDE DEF yes, on, no, n
  <1>5. /\ n \in Memos
        /\ n.believed = m.believed \cup yes /\ n.lineage = m.lineage \cup on
        /\ n.proof = m.proof \cup no /\ n.settled = m.settled
        /\ n.fresh = m.fresh \ A /\ n.joins = m.joins \ A
    <2>1. m = [believed |-> m.believed, lineage |-> m.lineage, proof |-> m.proof,
               fresh |-> m.fresh, joins |-> m.joins, settled |-> m.settled]
      BY DEF Memos
    <2>2. n = [believed |-> m.believed \cup yes, lineage |-> m.lineage \cup on,
               proof |-> m.proof \cup no, fresh |-> m.fresh \ A, joins |-> m.joins \ A,
               settled |-> m.settled]
      BY <1>1, <2>1, Zenon
    <2>3. /\ m.believed \cup yes \in SUBSET Records
          /\ m.lineage \cup on \in SUBSET (Blobs \X Records)
          /\ m.proof \cup no \in SUBSET Records /\ m.fresh \ A \in SUBSET Records
          /\ m.joins \ A \in SUBSET Records /\ m.settled \in SUBSET Collections
      BY <1>1 DEF Memos
    <2> QED
      BY <2>2, <2>3 DEF Memos
  <1>6. Decided(m, A, B, P, n)
    BY <1>2, <1>3, <1>4, <1>5 DEF Decided
  <1> QED
    BY <1>5, <1>6 DEF n

-----------------------------------------------------------------------------
(* What waits is refused: what `hold` parked would be believed by nobody   *)
(* who folds the snapshot from nothing.                                    *)
LEMMA WaitingIsRefused ==
    ASSUME NEW B \in SUBSET Blobs, NEW P \in SUBSET Proofs, NEW m \in Memos, Parked(B, m),
           NEW a \in Records, Waiting(a, B, P, m), Believes(a, B, P)
    PROVE  a.kind = "merge" /\ Kinds[a.collection] = "attached"
  <1>0. a.collection \in Collections /\ Kinds[a.collection] \in {"root", "derived", "attached"}
    BY RecordsAssumption, KindsAssumption
  <1>1. CASE ParkedRefused(a, B, P, m)
    <2>1. PICK B0 \in SUBSET B :
             /\ a.collection \in B0
             /\ Foundational(a, B0)
             /\ ~Admitted(a.collection, a.signer, B0, P)
             /\ \A b \in UndefinedFor(a.collection, a.signer, B0, P) : <<b, a>> \in m.lineage
      BY <1>1 DEF ParkedRefused
    <2>2. UndefinedFor(a.collection, a.signer, B0, P) \cap B = {}
      BY <2>1, Zenon DEF Parked
    <2>3. ~Admitted(a.collection, a.signer, B, P)
      BY <1>0, <2>1, <2>2, RefusalNamesItsRemedy
    <2>4. a.kind \in {"commit", "derive"}
      BY <2>1 DEF Foundational
    <2> QED
      BY <2>3, <2>4 DEF Believes
  <1>2. CASE ParkedUndescribed(a, B, m)
    BY <1>2 DEF ParkedUndescribed, Believes, Foundational, Resolved
  <1>3. CASE Dead(a, B)
    BY <1>3 DEF Dead, Believes, Foundational, Resolved
  <1> QED
    BY <1>1, <1>2, <1>3 DEF Waiting

(* An undecided attestation that is offered to `decide` is believed, or    *)
(* held under everything that could change the answer.                     *)
LEMMA OfferedIsPlaced ==
    ASSUME NEW m \in Memos, NEW A \in SUBSET Records, NEW B \in SUBSET Blobs,
           NEW P \in SUBSET Proofs, NEW a \in A, ~Believes(a, B, P)
    PROVE  Waiting(a, B, P, Decide(m, A, B, P))
  <1> DEFINE n == Decide(m, A, B, P)
             c == a.collection
             hints == UndefinedFor(c, a.signer, B, P)
  <1>0. /\ a \in Records /\ c \in Collections /\ c \in Blobs
        /\ a.kind \in {"commit", "derive", "merge", "map"}
    BY RecordsAssumption DEF Blobs
  <1>1. /\ \A b \in Blobs : b \in LineageWaits(a, B, P) => <<b, a>> \in n.lineage
        /\ ProofWaits(a, B, P) => a \in n.proof
    <2>1. Decided(m, A, B, P, n)
      BY DecideFacts
    <2> HIDE DEF n
    <2> QED
      BY <2>1 DEF Decided
  <1> HIDE DEF n
  <1>2. CASE a.kind \in {"commit", "derive"} /\ c \notin B
    <2>1. c \in LineageWaits(a, B, P)
      BY <1>2 DEF LineageWaits, Undescribed
    <2> QED
      BY <1>0, <1>1, <1>2, <2>1 DEF Waiting, ParkedUndescribed, n
  <1>3. CASE a.kind \in {"commit", "derive"} /\ c \in B /\ ~Foundational(a, B)
    BY <1>3 DEF Waiting, Dead
  <1>4. CASE a.kind \in {"commit", "derive"} /\ c \in B /\ Foundational(a, B)
    <2>1. ~Admitted(c, a.signer, B, P)
      BY <1>4 DEF Believes
    <2>2. LineageWaits(a, B, P) = hints /\ ProofWaits(a, B, P)
      BY <1>4, <2>1 DEF LineageWaits, ProofWaits, Undescribed
    <2>3. hints \subseteq Blobs
      BY <1>0, HintsAreDefinitions DEF Blobs
    <2>4. a \in n.proof /\ \A b \in hints : <<b, a>> \in n.lineage
      BY <1>1, <2>2, <2>3
    <2>5. ParkedRefused(a, B, P, n)
      BY <1>4, <2>1, <2>4 DEF ParkedRefused
    <2> QED
      BY <2>5 DEF Waiting, n
  <1>5. CASE a.kind \in {"merge", "map"}
    BY <1>5 DEF Believes, Resolved, Waiting, Dead
  <1> QED
    BY <1>0, <1>2, <1>3, <1>4, <1>5

(* What `decide` parks an attestation under is absent. *)
LEMMA WaitsAreAbsent ==
    ASSUME NEW a, NEW B, NEW P, NEW b \in LineageWaits(a, B, P)
    PROVE  b \notin B
  BY HintsAreAbsent DEF LineageWaits, Undescribed

(* `decide` loses no attestation, believes none too early, and parks none  *)
(* on a blob that is there.                                                *)
LEMMA DecideKeeps ==
    ASSUME NEW m \in Memos, NEW B \in SUBSET Blobs, NEW P \in SUBSET Proofs,
           NEW R \in SUBSET Records, Good(B, P, R, m), NEW A \in SUBSET m.fresh
    PROVE  Good(B, P, R, Decide(m, A, B, P))
  <1> DEFINE n == Decide(m, A, B, P)
  <1>0. A \in SUBSET Records /\ A \subseteq R /\ \A a \in A : Folds(a)
    BY DEF Good, Inside
  <1>1. /\ \A a : a \in n.believed <=> a \in m.believed \/ (a \in A /\ Believes(a, B, P))
        /\ m.lineage \subseteq n.lineage
        /\ \A w \in n.lineage : w \in m.lineage
             \/ (w \in Blobs \X A /\ w[1] \in LineageWaits(w[2], B, P))
        /\ \A a : a \in n.proof <=> a \in m.proof \/ (a \in A /\ ProofWaits(a, B, P))
        /\ n.settled = m.settled /\ n.fresh = m.fresh \ A /\ n.joins = m.joins \ A
    <2>1. Decided(m, A, B, P, n)
      BY <1>0, DecideFacts
    <2> HIDE DEF n
    <2> QED
      BY <2>1 DEF Decided
  <1>2. \A a \in A : Believes(a, B, P) \/ Waiting(a, B, P, n)
    BY <1>0, OfferedIsPlaced
  <1> HIDE DEF n
  <1>3. Inside(R, n)
    <2>1. Inside(R, m)
      BY DEF Good
    <2>2. n.lineage \subseteq Blobs \X R
      BY <1>0, <1>1, <2>1 DEF Inside
    <2>3. \A a \in n.believed \cup n.fresh : Folds(a)
      BY <1>0, <1>1, <2>1 DEF Inside
    <2>4. /\ n.believed \subseteq R /\ n.proof \subseteq R /\ n.fresh \subseteq R
          /\ n.joins \subseteq R
      BY <1>0, <1>1, <2>1 DEF Inside
    <2> QED
      BY <2>2, <2>3, <2>4 DEF Inside
  <1>4. Sound(B, P, n)
    BY <1>1 DEF Good, Sound
  <1>5. Placed(B, P, R, n)
    <2>1. ASSUME NEW a \in R, Folds(a), a.collection \in n.settled
          PROVE  a \in n.believed \/ a \in n.fresh \/ Waiting(a, B, P, n)
      <3>1. CASE a \in A
        BY <1>1, <1>2, <3>1
      <3>2. CASE a \notin A /\ (a \in m.believed \/ a \in m.fresh)
        BY <1>1, <3>2
      <3>3. CASE Waiting(a, B, P, m)
        BY <1>1, <3>3 DEF Waiting, ParkedRefused, ParkedUndescribed
      <3> QED
        BY <1>1, <2>1, <3>1, <3>2, <3>3 DEF Good, Placed
    <2> QED
      BY <2>1 DEF Placed
  <1>6. Parked(B, n)
    <2>1. Parked(B, m)
      BY DEF Good
    <2>2. ASSUME NEW w \in n.lineage
          PROVE  w[1] \notin B
      <3>1. CASE w \in m.lineage
        BY <2>1, <3>1 DEF Parked
      <3>2. CASE w[1] \in LineageWaits(w[2], B, P)
        BY <3>2, WaitsAreAbsent
      <3> QED
        BY <1>1, <2>2, <3>1, <3>2
    <2>3. n.joins = {a \in n.fresh : a.kind = "merge"}
      BY <1>1, <2>1 DEF Parked
    <2> QED
      BY <2>2, <2>3 DEF Parked
  <1> QED
    BY <1>3, <1>4, <1>5, <1>6 DEF Good, n

(* The first half of a settle: A is offered, and the collections C are     *)
(* settled.                                                                *)
Offer(m, A, C) == [Park(m, A) EXCEPT !.settled = @ \cup C]

(* Offering every record of the collections that were not settled settles  *)
(* them.                                                                   *)
LEMMA OfferKeeps ==
    ASSUME NEW m \in Memos, NEW B, NEW P, NEW R \in SUBSET Records, Good(B, P, R, m),
           NEW A \in SUBSET R, NEW C \in SUBSET Collections,
           \A a \in R : a.collection \in C \ m.settled => a \in A
    PROVE  /\ Offer(m, A, C) \in Memos
           /\ Offer(m, A, C).settled = m.settled \cup C
           /\ Good(B, P, R, Offer(m, A, C))
  <1> DEFINE k == Park(m, A)
             n == Offer(m, A, C)
  <1>0. Inside(R, m) /\ Sound(B, P, m) /\ Placed(B, P, R, m) /\ Parked(B, m)
    BY DEF Good
  <1>1. /\ k \in Memos
        /\ k.believed = m.believed /\ k.lineage = m.lineage /\ k.proof = m.proof
        /\ k.settled = m.settled /\ m.fresh \subseteq k.fresh
        /\ k.fresh \subseteq m.fresh \cup {a \in A : Folds(a)}
        /\ \A a \in A : Folds(a) => a \in k.fresh \/ a \in m.believed
        /\ k.joins = {a \in k.fresh : a.kind = "merge"}
    BY <1>0, ParkFacts DEF Parked
  <1> HIDE DEF k
  <1>2. /\ n \in Memos
        /\ n.believed = m.believed /\ n.lineage = m.lineage /\ n.proof = m.proof
        /\ n.settled = m.settled \cup C /\ n.fresh = k.fresh /\ n.joins = k.joins
    BY <1>1 DEF Memos, k, Offer
  <1> HIDE DEF n
  <1>3. Inside(R, n)
    BY <1>0, <1>1, <1>2 DEF Inside
  <1>4. Sound(B, P, n)
    BY <1>0, <1>2 DEF Sound
  <1>5. Placed(B, P, R, n)
    <2>1. ASSUME NEW a \in R, Folds(a), a.collection \in n.settled
          PROVE  a \in n.believed \/ a \in n.fresh \/ Waiting(a, B, P, n)
      <3>1. CASE a \in A
        BY <1>1, <1>2, <2>1, <3>1, Zenon
      <3>2. CASE a \notin A
        <4>1. a \in m.believed \/ a \in m.fresh \/ Waiting(a, B, P, m)
          BY <1>0, <1>2, <2>1, <3>2 DEF Placed
        <4> QED
          BY <1>1, <1>2, <4>1 DEF Waiting, ParkedRefused, ParkedUndescribed
      <3> QED
        BY <3>1, <3>2
    <2> QED
      BY <2>1 DEF Placed
  <1>6. Parked(B, n)
    BY <1>0, <1>1, <1>2 DEF Parked
  <1> QED
    BY <1>2, <1>3, <1>4, <1>5, <1>6 DEF Good, n

(* `settle_lineage` keeps the memo good, settles the lineage, and leaves   *)
(* nothing fresh in it.                                                    *)
LEMMA SettleKeeps ==
    ASSUME NEW s \in Snapshots, Good(s.blobs, s.proofs, s.records, s.memo),
           NEW L \in SUBSET Collections
    PROVE  /\ SettleLineage(s, L) \in Memos
           /\ Good(s.blobs, s.proofs, s.records, SettleLineage(s, L))
           /\ L \subseteq SettleLineage(s, L).settled
           /\ \A a \in SettleLineage(s, L).fresh : a.collection \notin L
  <1> DEFINE A == {a \in s.records : a.collection \in L \ s.memo.settled}
             m == Offer(s.memo, A, L)
             F == {a \in m.fresh : a.collection \in L}
  <1>0. /\ s.memo \in Memos /\ s.blobs \in SUBSET Blobs /\ s.proofs \in SUBSET Proofs
        /\ s.records \in SUBSET Records
    BY DEF Snapshots
  <1>1. SettleLineage(s, L) = Decide(m, F, s.blobs, s.proofs)
    BY DEF SettleLineage, Offer
  <1>2. /\ A \in SUBSET s.records
        /\ \A a \in s.records : a.collection \in L \ s.memo.settled => a \in A
    OBVIOUS
  <1> HIDE DEF A
  <1>3. /\ m \in Memos /\ m.settled = s.memo.settled \cup L
        /\ Good(s.blobs, s.proofs, s.records, m)
    <2> HIDE DEF F
    <2>1. m \in Memos /\ Good(s.blobs, s.proofs, s.records, m)
      BY <1>0, <1>2, OfferKeeps, Zenon
    <2>2. m.settled = s.memo.settled \cup L
      BY <1>0, <1>2, OfferKeeps
    <2> QED
      BY <2>1, <2>2
  <1> HIDE DEF m
  <1>4. F \in SUBSET m.fresh /\ F \in SUBSET Records
    BY <1>3 DEF Memos
  <1>5. /\ Decide(m, F, s.blobs, s.proofs) \in Memos
        /\ Decide(m, F, s.blobs, s.proofs).settled = m.settled
        /\ Decide(m, F, s.blobs, s.proofs).fresh = m.fresh \ F
    <2> HIDE DEF F
    <2>1. /\ Decide(m, F, s.blobs, s.proofs) \in Memos
          /\ Decided(m, F, s.blobs, s.proofs, Decide(m, F, s.blobs, s.proofs))
      BY <1>3, <1>4, DecideFacts
    <2> QED
      BY <2>1 DEF Decided
  <1>6. Good(s.blobs, s.proofs, s.records, Decide(m, F, s.blobs, s.proofs))
    BY <1>0, <1>3, <1>4, DecideKeeps
  <1> QED
    BY <1>1, <1>3, <1>5, <1>6

(* `coverage_index` settles the collections the records name. *)
LEMMA SettleAllIsLineage ==
    ASSUME NEW s \in Snapshots, Good(s.blobs, s.proofs, s.records, s.memo)
    PROVE  /\ SettleAll(s) = SettleLineage(s, {a.collection : a \in s.records})
           /\ {a.collection : a \in s.records} \in SUBSET Collections
  <1> DEFINE L == {a.collection : a \in s.records}
             A == {a \in s.records : a.collection \notin s.memo.settled}
             m == Offer(s.memo, A, L)
  <1>0. s.memo \in Memos /\ s.records \in SUBSET Records
    BY DEF Snapshots
  <1>1. L \in SUBSET Collections
    BY <1>0, RecordsAssumption
  <1>2. A = {a \in s.records : a.collection \in L \ s.memo.settled}
    OBVIOUS
  <1>3. /\ A \in SUBSET s.records
        /\ \A a \in s.records : a.collection \in L \ s.memo.settled => a \in A
    OBVIOUS
  <1>4. m \in Memos /\ Good(s.blobs, s.proofs, s.records, m)
    <2> HIDE DEF A, L
    <2> QED
      BY <1>0, <1>1, <1>3, OfferKeeps, Zenon
  <1>5. m.fresh \subseteq s.records
    BY <1>4 DEF Good, Inside
  <1>6. {a \in m.fresh : a.collection \in L} = m.fresh
    <2> HIDE DEF m
    <2> QED
      BY <1>5
  <1> QED
    BY <1>1, <1>2, <1>6, Zenon DEF SettleAll, SettleLineage, Offer

-----------------------------------------------------------------------------
(* `wake_descriptor`: what waited on the blobs D is fresh again. *)
LEMMA WakeDescriptorsFacts ==
    ASSUME NEW m \in Memos, NEW D,
           NEW n, n = WakeDescriptors(m, D),
           m.joins = {a \in m.fresh : a.kind = "merge"}
    PROVE  /\ n \in Memos
           /\ n.believed = m.believed /\ n.proof = m.proof /\ n.settled = m.settled
           /\ n.lineage = {w \in m.lineage : w[1] \notin D}
           /\ m.fresh \subseteq n.fresh
           /\ \A a \in n.fresh \ m.fresh : Folds(a) /\ \E w \in m.lineage : a = w[2]
           /\ \A w \in m.lineage : w[1] \in D /\ Folds(w[2]) =>
                w[2] \in n.fresh \/ w[2] \in m.believed
           /\ n.joins = {a \in n.fresh : a.kind = "merge"}
  <1> DEFINE left == {w \in m.lineage : w[1] \notin D}
             A == {w[2] : w \in {v \in m.lineage : v[1] \in D}}
             k == [m EXCEPT !.lineage = left]
  <1>1. n = Park(k, A)
    BY DEF WakeDescriptors
  <1>2. /\ A \in SUBSET Records
        /\ \A w \in m.lineage : w[1] \in D => w[2] \in A
        /\ \A a \in A : \E w \in m.lineage : a = w[2]
    BY DEF Memos
  <1>3. left \in SUBSET (Blobs \X Records)
    BY DEF Memos
  <1> HIDE DEF A, left
  <1>4. /\ k \in Memos /\ k.lineage = left
        /\ k.believed = m.believed /\ k.proof = m.proof /\ k.settled = m.settled
        /\ k.fresh = m.fresh /\ k.joins = m.joins
    BY <1>3 DEF Memos
  <1> HIDE DEF k
  <1>5. /\ n \in Memos
        /\ n.believed = k.believed /\ n.lineage = k.lineage /\ n.proof = k.proof
        /\ n.settled = k.settled /\ k.fresh \subseteq n.fresh
        /\ n.fresh \subseteq k.fresh \cup {a \in A : Folds(a)}
        /\ \A a \in A : Folds(a) => a \in n.fresh \/ a \in k.believed
        /\ n.joins = {a \in n.fresh : a.kind = "merge"}
    BY <1>1, <1>2, <1>4, ParkFacts, SMTT(30)
  <1>6. n.lineage = {w \in m.lineage : w[1] \notin D}
    BY <1>4, <1>5 DEF left
  <1> QED
    BY <1>2, <1>4, <1>5, <1>6

(* `wake_proofs`: what waited on a proof is fresh again. *)
LEMMA WakeProofsFacts ==
    ASSUME NEW m \in Memos, NEW n, n = WakeProofs(m),
           m.joins = {a \in m.fresh : a.kind = "merge"}
    PROVE  /\ n \in Memos
           /\ n.believed = m.believed /\ n.lineage = m.lineage /\ n.settled = m.settled
           /\ n.proof = {}
           /\ m.fresh \subseteq n.fresh
           /\ \A a \in n.fresh \ m.fresh : Folds(a) /\ a \in m.proof
           /\ \A a \in m.proof : Folds(a) => a \in n.fresh \/ a \in m.believed
           /\ n.joins = {a \in n.fresh : a.kind = "merge"}
  <1> DEFINE k == [m EXCEPT !.proof = {}]
  <1>1. n = Park(k, m.proof) /\ m.proof \in SUBSET Records
    BY DEF WakeProofs, Memos
  <1>2. /\ k \in Memos /\ k.proof = {}
        /\ k.believed = m.believed /\ k.lineage = m.lineage /\ k.settled = m.settled
        /\ k.fresh = m.fresh /\ k.joins = m.joins
    BY DEF Memos
  <1> HIDE DEF k
  <1>3. /\ n \in Memos
        /\ n.believed = k.believed /\ n.lineage = k.lineage /\ n.proof = k.proof
        /\ n.settled = k.settled /\ k.fresh \subseteq n.fresh
        /\ n.fresh \subseteq k.fresh \cup {a \in m.proof : Folds(a)}
        /\ \A a \in m.proof : Folds(a) => a \in n.fresh \/ a \in k.believed
        /\ n.joins = {a \in n.fresh : a.kind = "merge"}
    BY <1>1, <1>2, ParkFacts, SMTT(30)
  <1> QED
    BY <1>2, <1>3

(* `carry_forward` makes n of the memo of fed: everything is fresh that    *)
(* the difference between the two snapshots could decide otherwise.        *)
Carried(now, fed, changed, n) ==
    LET m == fed.memo
        Seen(a) == a \in n.fresh \/ a \in n.believed
    IN  /\ n.believed = m.believed /\ n.settled = m.settled
        /\ n.lineage = {w \in m.lineage : w[1] \notin now.blobs \ fed.blobs}
        /\ n.proof = {} \/ n.proof = m.proof
        /\ changed \/ n.proof = m.proof
        /\ m.fresh \subseteq n.fresh
        /\ \A a \in n.fresh : Folds(a) /\ a \in now.records
        /\ \A w \in m.lineage : w[1] \in now.blobs \ fed.blobs /\ Folds(w[2]) => Seen(w[2])
        /\ \A a \in now.records \ fed.records :
             Folds(a) /\ a.collection \in n.settled => Seen(a)
        /\ changed => \A a \in m.proof : Folds(a) => Seen(a)
        /\ n.joins = {a \in n.fresh : a.kind = "merge"}

(* What `carry_forward` does to each part of the memo. *)
LEMMA CarryFacts ==
    ASSUME NEW fed \in Snapshots, NEW now \in Snapshots, NEW again \in SUBSET fed.records,
           fed.records \subseteq now.records, NEW changed \in BOOLEAN,
           Inside(fed.records, fed.memo), Parked(fed.blobs, fed.memo)
    PROVE  /\ CarryForward(now, fed, again, changed) \in Memos
           /\ Carried(now, fed, changed, CarryForward(now, fed, again, changed))
  <1> DEFINE m == fed.memo
             D == now.blobs \ fed.blobs
             woken == WakeDescriptors(m, D)
             A == {a \in (now.records \ fed.records) \cup again : a.collection \in woken.settled}
             fed2 == Park(woken, A)
             n == CarryForward(now, fed, again, changed)
  <1>0. /\ m \in Memos /\ now.records \in SUBSET Records
        /\ m.joins = {a \in m.fresh : a.kind = "merge"}
    BY DEF Snapshots, Parked
  <1>1. n = IF changed THEN WakeProofs(fed2) ELSE fed2
    BY DEF CarryForward
  <1> HIDE DEF n
  <1>2. /\ woken \in Memos
        /\ woken.believed = m.believed /\ woken.proof = m.proof /\ woken.settled = m.settled
        /\ woken.lineage = {w \in m.lineage : w[1] \notin D}
        /\ m.fresh \subseteq woken.fresh
        /\ \A a \in woken.fresh \ m.fresh : Folds(a) /\ \E w \in m.lineage : a = w[2]
        /\ \A w \in m.lineage : w[1] \in D /\ Folds(w[2]) =>
             w[2] \in woken.fresh \/ w[2] \in m.believed
        /\ woken.joins = {a \in woken.fresh : a.kind = "merge"}
    BY <1>0, WakeDescriptorsFacts
  <1> HIDE DEF woken
  <1>3. A \in SUBSET Records /\ A \subseteq now.records
    BY <1>0, Zenon
  <1>4. \A a \in now.records \ fed.records : a.collection \in m.settled => a \in A
    BY <1>2
  <1> HIDE DEF A
  <1>5. /\ fed2 \in Memos
        /\ fed2.believed = woken.believed /\ fed2.lineage = woken.lineage
        /\ fed2.proof = woken.proof /\ fed2.settled = woken.settled
        /\ woken.fresh \subseteq fed2.fresh
        /\ fed2.fresh \subseteq woken.fresh \cup {a \in A : Folds(a)}
        /\ \A a \in A : Folds(a) => a \in fed2.fresh \/ a \in woken.believed
        /\ fed2.joins = {a \in fed2.fresh : a.kind = "merge"}
    BY <1>2, <1>3, ParkFacts
  <1> HIDE DEF fed2
  <1>6. /\ n \in Memos
        /\ n.believed = fed2.believed /\ n.lineage = fed2.lineage /\ n.settled = fed2.settled
        /\ n.proof = {} \/ n.proof = fed2.proof
        /\ changed \/ n.proof = fed2.proof
        /\ fed2.fresh \subseteq n.fresh
        /\ \A a \in n.fresh \ fed2.fresh : Folds(a) /\ a \in fed2.proof
        /\ changed => \A a \in fed2.proof : Folds(a) => a \in n.fresh \/ a \in fed2.believed
        /\ n.joins = {a \in n.fresh : a.kind = "merge"}
    <2>1. CASE changed
      BY <1>1, <1>5, <2>1, WakeProofsFacts, SMTT(30)
    <2>2. CASE ~changed
      BY <1>1, <1>5, <2>2, Zenon
    <2> QED
      BY <2>1, <2>2
  <1>7. \A a \in n.fresh : Folds(a) /\ a \in now.records
    <2>1. /\ \A w \in m.lineage : w[2] \in fed.records
          /\ \A a \in m.fresh : Folds(a) /\ a \in fed.records
          /\ m.proof \subseteq fed.records
      BY DEF Inside
    <2>2. \A a \in woken.fresh : Folds(a) /\ a \in now.records
      BY <1>2, <2>1
    <2>3. \A a \in fed2.fresh : Folds(a) /\ a \in now.records
      BY <1>3, <1>5, <2>2, Zenon
    <2> QED
      BY <1>2, <1>5, <1>6, <2>1, <2>3, Zenon
  <1>8. /\ n.believed = m.believed /\ n.settled = m.settled
        /\ n.lineage = {w \in m.lineage : w[1] \notin D}
        /\ n.proof = {} \/ n.proof = m.proof
        /\ changed \/ n.proof = m.proof
    BY <1>2, <1>5, <1>6, Zenon
  <1>9. /\ m.fresh \subseteq n.fresh
        /\ \A w \in m.lineage : w[1] \in D /\ Folds(w[2]) =>
             w[2] \in n.fresh \/ w[2] \in n.believed
    BY <1>2, <1>5, <1>6, Zenon
  <1>10. /\ \A a \in now.records \ fed.records :
              Folds(a) /\ a.collection \in n.settled => a \in n.fresh \/ a \in n.believed
         /\ changed => \A a \in m.proof : Folds(a) => a \in n.fresh \/ a \in n.believed
    BY <1>2, <1>4, <1>5, <1>6, Zenon
  <1>11. Carried(now, fed, changed, n)
    BY <1>6, <1>7, <1>8, <1>9, <1>10, Zenon DEF Carried
  <1> QED
    BY <1>6, <1>11 DEF n

(* A belief is kept when evidence arrives. *)
LEMMA BeliefKept ==
    ASSUME NEW B, NEW C, B \subseteq C, NEW P, NEW Q, P \subseteq Q, NEW a \in Records,
           Believes(a, B, P)
    PROVE  Believes(a, C, Q) \/ (a.kind = "merge" /\ Kinds[a.collection] = "attached")
  <1>0. a.collection \in Collections
    BY RecordsAssumption
  <1>1. CASE a.kind = "map"
    BY <1>1 DEF Believes
  <1>2. CASE a.kind = "merge"
    BY <1>2 DEF Believes, Resolved
  <1>3. CASE Foundational(a, B) /\ Admitted(a.collection, a.signer, B, P)
    <2>1. Foundational(a, C)
      BY <1>3 DEF Foundational, Resolved
    <2>2. Admitted(a.collection, a.signer, C, Q)
      BY <1>0, <1>3, AdmissionKept, Zenon
    <2> QED
      BY <2>1, <2>2 DEF Believes
  <1> QED
    BY <1>1, <1>2, <1>3 DEF Believes

(* `carry_forward` from a good memo is good for the later snapshot. *)
LEMMA CarryKeeps ==
    ASSUME NEW fed \in Snapshots, NEW now \in Snapshots, NEW again \in SUBSET fed.records,
           fed.blobs \subseteq now.blobs, fed.proofs \subseteq now.proofs,
           fed.records \subseteq now.records, NEW changed \in BOOLEAN,
           now.proofs # fed.proofs => changed,
           Good(fed.blobs, fed.proofs, fed.records, fed.memo)
    PROVE  /\ CarryForward(now, fed, again, changed) \in Memos
           /\ Good(now.blobs, now.proofs, now.records, CarryForward(now, fed, again, changed))
  <1> DEFINE m == fed.memo
             B == now.blobs
             P == now.proofs
             R == now.records
             n == CarryForward(now, fed, again, changed)
  <1>0. /\ Inside(fed.records, m) /\ Sound(fed.blobs, fed.proofs, m)
        /\ Placed(fed.blobs, fed.proofs, fed.records, m) /\ Parked(fed.blobs, m)
    BY DEF Good
  <1>1. n \in Memos /\ Carried(now, fed, changed, n)
    BY <1>0, CarryFacts, Zenon
  <1> HIDE DEF n
  <1> USE DEF Carried
  <1>2. Inside(R, n)
    <2>1. n.lineage \subseteq Blobs \X R
      BY <1>0, <1>1 DEF Inside
    <2>2. n.believed \subseteq R /\ n.proof \subseteq R /\ n.fresh \subseteq R
      BY <1>0, <1>1, Zenon DEF Inside
    <2>3. n.joins \subseteq R
      BY <1>1, <2>2
    <2>4. \A a \in n.believed \cup n.fresh : Folds(a)
      BY <1>0, <1>1 DEF Inside
    <2> QED
      BY <2>1, <2>2, <2>3, <2>4, Zenon DEF Inside
  <1>3. Sound(B, P, n)
    <2>1. ASSUME NEW a \in m.believed
          PROVE  Believes(a, B, P) \/ (a.kind = "merge" /\ Kinds[a.collection] = "attached")
      <3>1. a \in Records
        BY <2>1 DEF Snapshots, Memos
      <3>2. \/ Believes(a, fed.blobs, fed.proofs)
            \/ (a.kind = "merge" /\ Kinds[a.collection] = "attached")
        BY <1>0, <2>1, Zenon DEF Sound
      <3> QED
        BY <3>1, <3>2, BeliefKept
    <2> QED
      BY <1>1, <2>1, Zenon DEF Sound
  <1>4. Placed(B, P, R, n)
    <2>1. ASSUME NEW a \in R, Folds(a), a.collection \in n.settled
          PROVE  a \in n.believed \/ a \in n.fresh \/ Waiting(a, B, P, n)
      <3>1. CASE a \notin fed.records
        BY <1>1, <2>1, <3>1, Zenon
      <3>2. CASE a \in m.believed \/ a \in m.fresh
        BY <1>1, <3>2
      <3>3. CASE ParkedRefused(a, fed.blobs, fed.proofs, m)
        <4>0. a \in m.proof
          BY <3>3 DEF ParkedRefused
        <4>1. CASE changed
          BY <1>1, <2>1, <4>0, <4>1, Zenon
        <4>2. CASE ~changed
          <5>1. P = fed.proofs /\ n.proof = m.proof
            BY <1>1, <4>2, Zenon
          <5>2. PICK B0 \in SUBSET fed.blobs :
                   /\ a.collection \in B0
                   /\ Foundational(a, B0)
                   /\ ~Admitted(a.collection, a.signer, B0, P)
                   /\ \A b \in UndefinedFor(a.collection, a.signer, B0, P) :
                        <<b, a>> \in m.lineage
            BY <3>3, <5>1 DEF ParkedRefused
          <5>3. CASE \E b \in UndefinedFor(a.collection, a.signer, B0, P) : b \in B \ fed.blobs
            <6>1. PICK b : b \in B \ fed.blobs /\ <<b, a>> \in m.lineage
              BY <5>2, <5>3
            <6> QED
              BY <1>1, <2>1, <6>1
          <5>4. CASE \A b \in UndefinedFor(a.collection, a.signer, B0, P) :
                        b \notin B \ fed.blobs
            <6>1. \A b \in UndefinedFor(a.collection, a.signer, B0, P) : <<b, a>> \in n.lineage
              BY <1>1, <5>2, <5>4, Zenon
            <6>2. B0 \in SUBSET B /\ a \in n.proof
              BY <3>3, <5>1, Zenon DEF ParkedRefused
            <6>3. ParkedRefused(a, B, P, n)
              BY <5>2, <6>1, <6>2, Zenon DEF ParkedRefused
            <6> QED
              BY <6>3, Zenon DEF Waiting
          <5> QED
            BY <5>3, <5>4
        <4> QED
          BY <4>1, <4>2
      <3>4. CASE ParkedUndescribed(a, fed.blobs, m)
        <4>1. CASE a.collection \in B
          BY <1>1, <2>1, <3>4, <4>1, Zenon DEF ParkedUndescribed
        <4>2. CASE a.collection \notin B
          BY <1>1, <3>4, <4>2, Zenon DEF ParkedUndescribed, Waiting
        <4> QED
          BY <4>1, <4>2, Zenon
      <3>5. CASE Dead(a, fed.blobs)
        BY <3>5, Zenon DEF Dead, Foundational, Resolved, Waiting
      <3>6. a \in fed.records =>
              \/ a \in m.believed \/ a \in m.fresh
              \/ Waiting(a, fed.blobs, fed.proofs, m)
        BY <1>0, <1>1, <2>1, Zenon DEF Placed
      <3> QED
        BY <3>1, <3>2, <3>3, <3>4, <3>5, <3>6, Zenon DEF Waiting
    <2> QED
      BY <2>1, Zenon DEF Placed
  <1>5. Parked(B, n)
    BY <1>0, <1>1 DEF Parked
  <1> QED
    BY <1>1, <1>2, <1>3, <1>4, <1>5, Zenon DEF Good, n

-----------------------------------------------------------------------------
(* A snapshot stays one of a store that grows. *)
LEMMA StoreGrows ==
    ASSUME NEW s, NEW B, NEW P, NEW R, SnapOK(s, B, P, R),
           NEW C, NEW Q, NEW S, B \subseteq C, P \subseteq Q, R \subseteq S
    PROVE  SnapOK(s, C, Q, S)
  BY DEF SnapOK

(* A write to the inner store leaves the snapshots good. *)
LEMMA WriteKeeps ==
    ASSUME IndInv, use' = use, snaps' = snaps,
           blobs \subseteq blobs', proofs \subseteq proofs', records \subseteq records',
           blobs' \subseteq Blobs, proofs' \subseteq Proofs, records' \subseteq Records
    PROVE  IndInv'
  <1>1. \A i \in 1 .. Len(snaps) : SnapOK(snaps[i], blobs', proofs', records')
    BY StoreGrows DEF IndInv
  <1> QED
    BY <1>1 DEF IndInv

(* The memo of one snapshot is replaced by a good one. *)
LEMMA MemoKeeps ==
    ASSUME IndInv, NEW i \in DOMAIN snaps, NEW m \in Memos,
           Good(snaps[i].blobs, snaps[i].proofs, snaps[i].records, m),
           snaps' = [snaps EXCEPT ![i].memo = m],
           UNCHANGED <<use, blobs, proofs, records>>
    PROVE  IndInv'
  <1>0. snaps \in Seq(Snapshots) /\ DOMAIN snaps = 1 .. Len(snaps) /\ snaps[i] \in Snapshots
    BY DEF IndInv
  <1> DEFINE s == [snaps[i] EXCEPT !.memo = m]
  <1>1. /\ s \in Snapshots /\ s.blobs = snaps[i].blobs /\ s.proofs = snaps[i].proofs
        /\ s.records = snaps[i].records /\ s.memo = m
    BY <1>0 DEF Snapshots
  <1>2. snaps' = [snaps EXCEPT ![i] = s]
    BY Zenon
  <1>3. SnapOK(s, blobs, proofs, records)
    BY <1>0, <1>1 DEF SnapOK, IndInv
  <1> HIDE DEF s
  <1>4. snaps' \in Seq(Snapshots) /\ Len(snaps') = Len(snaps)
    BY <1>0, <1>1, <1>2
  <1>5. \A j \in 1 .. Len(snaps') : SnapOK(snaps'[j], blobs, proofs, records)
    BY <1>0, <1>2, <1>3, <1>4, Zenon DEF IndInv
  <1> QED
    BY <1>4, <1>5 DEF IndInv

(* An empty memo is good: no collection is settled. *)
LEMMA EmptyIsGood ==
    ASSUME NEW B, NEW P, NEW R
    PROVE  EmptyMemo \in Memos /\ Good(B, P, R, EmptyMemo)
  BY Zenon DEF EmptyMemo, Memos, Good, Inside, Sound, Placed, Parked

(* The first snapshot. *)
LEMMA FirstSnapshotKeeps == IndInv /\ FirstSnapshot => IndInv'
  <1> SUFFICES ASSUME IndInv, FirstSnapshot PROVE IndInv'
    OBVIOUS
  <1> DEFINE s == Now(EmptyMemo)
  <1>1. /\ s.blobs = blobs /\ s.proofs = proofs /\ s.records = records /\ s.memo = EmptyMemo
        /\ s \in Snapshots
    BY EmptyIsGood, Zenon DEF Now, Snapshots, IndInv
  <1>2. SnapOK(s, blobs, proofs, records)
    BY <1>1, EmptyIsGood DEF SnapOK
  <1>3. snaps' = <<s>> /\ UNCHANGED <<use, blobs, proofs, records>>
    BY DEF FirstSnapshot
  <1> HIDE DEF s
  <1>4. snaps' \in Seq(Snapshots) /\ Len(snaps') = 1 /\ snaps'[1] = s
    BY <1>1, <1>3
  <1>5. \A i \in 1 .. Len(snaps') : SnapOK(snaps'[i], blobs, proofs, records)
    BY <1>2, <1>4
  <1> QED
    BY <1>3, <1>4, <1>5 DEF IndInv

(* A later one, carried forward from the last. *)
LEMMA NextSnapshotKeeps ==
    ASSUME IndInv, NEW again \in SUBSET records, NEW changed \in BOOLEAN,
           NextSnapshot(again, changed)
    PROVE  IndInv'
  <1> DEFINE fed == snaps[Len(snaps)]
             now == Now(EmptyMemo)
             n == CarryForward(now, fed, again, changed)
             s == Now(n)
  <1>1. /\ snaps # <<>> /\ again \subseteq fed.records /\ (proofs # fed.proofs => changed)
        /\ snaps' = Append(snaps, s) /\ UNCHANGED <<use, blobs, proofs, records>>
    BY DEF NextSnapshot
  <1>2. snaps \in Seq(Snapshots) /\ Len(snaps) \in 1 .. Len(snaps)
    BY <1>1 DEF IndInv
  <1>3. SnapOK(fed, blobs, proofs, records)
    BY <1>2 DEF IndInv
  <1>4. /\ now.blobs = blobs /\ now.proofs = proofs /\ now.records = records
        /\ now \in Snapshots
    BY EmptyIsGood, Zenon DEF Now, Snapshots, IndInv
  <1> HIDE DEF fed, now
  <1>5. n \in Memos /\ Good(blobs, proofs, records, n)
    BY <1>1, <1>3, <1>4, CarryKeeps, Zenon DEF SnapOK
  <1> HIDE DEF n
  <1>6. SnapOK(s, blobs, proofs, records)
    BY <1>5 DEF Now, Snapshots, SnapOK, IndInv
  <1> HIDE DEF s
  <1>7. snaps' \in Seq(Snapshots) /\ Len(snaps') = Len(snaps) + 1
    BY <1>1, <1>2, <1>6, SMTT(30) DEF SnapOK
  <1>8. \A i \in 1 .. Len(snaps') : SnapOK(snaps'[i], blobs, proofs, records)
    BY <1>1, <1>2, <1>6, <1>7 DEF IndInv
  <1> QED
    BY <1>1, <1>7, <1>8 DEF IndInv

(* A read of a lineage. *)
LEMMA IndexKeeps ==
    ASSUME IndInv, NEW i \in DOMAIN snaps, NEW L \in SUBSET Collections, Index(i, L)
    PROVE  IndInv'
  <1>0. SnapOK(snaps[i], blobs, proofs, records)
    BY DEF IndInv
  <1>1. /\ SettleLineage(snaps[i], L) \in Memos
        /\ Good(snaps[i].blobs, snaps[i].proofs, snaps[i].records, SettleLineage(snaps[i], L))
    BY <1>0, SettleKeeps DEF SnapOK
  <1> QED
    BY <1>1, MemoKeeps, Zenon DEF Index

(* A read of everything. *)
LEMMA CoverageIndexKeeps ==
    ASSUME IndInv, NEW i \in DOMAIN snaps, CoverageIndex(i)
    PROVE  IndInv'
  <1>0. SnapOK(snaps[i], blobs, proofs, records)
    BY DEF IndInv
  <1> DEFINE L == {a.collection : a \in snaps[i].records}
  <1>1. /\ snaps[i] \in Snapshots
        /\ Good(snaps[i].blobs, snaps[i].proofs, snaps[i].records, snaps[i].memo)
    BY <1>0 DEF SnapOK
  <1>2. SettleAll(snaps[i]) = SettleLineage(snaps[i], L) /\ L \in SUBSET Collections
    BY <1>1, SettleAllIsLineage, Zenon
  <1> HIDE DEF L
  <1>3. /\ SettleLineage(snaps[i], L) \in Memos
        /\ Good(snaps[i].blobs, snaps[i].proofs, snaps[i].records, SettleLineage(snaps[i], L))
    BY <1>1, <1>2, SettleKeeps, Zenon
  <1> QED
    BY <1>2, <1>3, MemoKeeps, Zenon DEF CoverageIndex

(* An older snapshot is dropped. *)
LEMMA ReleaseKeeps ==
    ASSUME IndInv, NEW i \in DOMAIN snaps, Release(i)
    PROVE  IndInv'
  <1> DEFINE l == SubSeq(snaps, 1, i - 1)
             r == SubSeq(snaps, i + 1, Len(snaps))
  <1>1. snaps \in Seq(Snapshots) /\ i \in 1 .. Len(snaps) - 1 /\ Len(snaps) \in Nat
    BY DEF IndInv, Release
  <1>2. /\ l \in Seq(Snapshots) /\ Len(l) = i - 1
        /\ \A j \in 1 .. i - 1 : l[j] = snaps[j]
    BY <1>1
  <1>3. /\ r \in Seq(Snapshots) /\ Len(r) = Len(snaps) - i
        /\ \A j \in 1 .. Len(snaps) - i : r[j] = snaps[i + j]
    BY <1>1
  <1>4. snaps' = l \o r /\ UNCHANGED <<use, blobs, proofs, records>>
    BY DEF Release
  <1> HIDE DEF l, r
  <1>5. /\ snaps' \in Seq(Snapshots) /\ Len(snaps') = Len(snaps) - 1
        /\ \A j \in 1 .. Len(snaps') :
             snaps'[j] = IF j < i THEN snaps[j] ELSE snaps[j + 1]
    <2>1. /\ snaps' \in Seq(Snapshots) /\ Len(snaps') = Len(l) + Len(r)
          /\ \A j \in 1 .. Len(l) + Len(r) :
               snaps'[j] = IF j <= Len(l) THEN l[j] ELSE r[j - Len(l)]
      BY <1>2, <1>3, <1>4, JoinedFacts, Zenon
    <2>2. Len(snaps') = Len(snaps) - 1
      BY <1>1, <1>2, <1>3, <2>1, SMTT(30)
    <2>3. ASSUME NEW j \in 1 .. Len(snaps')
          PROVE  snaps'[j] = IF j < i THEN snaps[j] ELSE snaps[j + 1]
      <3>1. CASE j < i
        <4>1. j \in 1 .. i - 1 /\ j <= Len(l) /\ j \in 1 .. Len(l) + Len(r)
          BY <1>1, <1>2, <1>3, <2>2, <2>3, <3>1, SMTT(30)
        <4> QED
          BY <1>2, <2>1, <3>1, <4>1, Zenon
      <3>2. CASE ~(j < i)
        <4> DEFINE k == j - Len(l)
        <4>1. /\ k \in 1 .. Len(snaps) - i /\ ~(j <= Len(l))
              /\ j \in 1 .. Len(l) + Len(r) /\ i + k = j + 1
          BY <1>1, <1>2, <1>3, <2>2, <2>3, <3>2, SMTT(30)
        <4>2. snaps'[j] = r[k] /\ r[k] = snaps[i + k]
          BY <1>3, <2>1, <4>1, Zenon
        <4> QED
          BY <3>2, <4>1, <4>2
      <3> QED
        BY <3>1, <3>2
    <2> QED
      BY <2>1, <2>2, <2>3
  <1>6. \A j \in 1 .. Len(snaps') : SnapOK(snaps'[j], blobs, proofs, records)
    BY <1>1, <1>5, SMTT(30) DEF IndInv
  <1> QED
    BY <1>4, <1>5, <1>6 DEF IndInv

(* Every step keeps every snapshot alive good. *)
LEMMA StepKeeps == IndInv /\ [Next]_vars => IndInv'
  <1> SUFFICES ASSUME IndInv, [Next]_vars PROVE IndInv'
    OBVIOUS
  <1>0. /\ use.blobs \subseteq Blobs /\ use.proofs \subseteq Proofs
        /\ use.records \subseteq Records
        /\ blobs \subseteq Blobs /\ proofs \subseteq Proofs /\ records \subseteq Records
    BY UsesAssumption DEF IndInv
  <1>1. ASSUME NEW b \in use.blobs, Put(b) PROVE IndInv'
    BY <1>0, <1>1, WriteKeeps DEF Put
  <1>2. ASSUME NEW p \in use.proofs, InsertProof(p) PROVE IndInv'
    BY <1>0, <1>2, WriteKeeps DEF InsertProof
  <1>3. ASSUME NEW a \in use.records, Insert(a) PROVE IndInv'
    BY <1>0, <1>3, WriteKeeps DEF Insert
  <1>4. CASE UNCHANGED vars
    BY <1>0, <1>4, WriteKeeps DEF vars
  <1>5. ASSUME NEW i \in DOMAIN snaps,
               NEW L \in (SUBSET (Collections \cap use.blobs)) \ {{}}, Index(i, L)
        PROVE  IndInv'
    BY <1>5, IndexKeeps
  <1> QED
    BY <1>1, <1>2, <1>3, <1>4, <1>5, FirstSnapshotKeeps, NextSnapshotKeeps,
       CoverageIndexKeeps, ReleaseKeeps, Zenon DEF Next

(* Every snapshot alive has a good memo, whatever it was carried from. *)
THEOREM CoveredInvariant == Spec => []IndInv
  <1>1. Init => IndInv
    BY DEF Init, IndInv
  <1> QED
    BY <1>1, StepKeeps, PTL DEF Spec

(* Snapshots are parts of the store, and memos of their snapshots. *)
THEOREM CoveredTypes == Spec => []TypeOK
  <1>1. IndInv => TypeOK
    <2>1. ASSUME IndInv, NEW i \in DOMAIN snaps
          PROVE  /\ snaps[i].blobs \subseteq blobs /\ snaps[i].proofs \subseteq proofs
                 /\ snaps[i].records \subseteq records
                 /\ Inside(snaps[i].records, snaps[i].memo)
                 /\ snaps[i].memo.settled \subseteq Collections
      BY <2>1, SMTT(30) DEF IndInv, SnapOK, Good, Snapshots, Memos
    <2> QED
      BY <2>1, Zenon DEF TypeOK, IndInv, Inside
  <1> QED
    BY <1>1, CoveredInvariant, PTL

(* Nothing waits on a blob its snapshot holds, and the inputs of a join    *)
(* are kept exactly while it is parked (`park`, `hold`, `decide`).         *)
THEOREM ParkedExact == Spec => []ParkedIsExact
  <1>1. IndInv => ParkedIsExact
    BY DEF IndInv, SnapOK, Good, Parked, ParkedIsExact
  <1> QED
    BY <1>1, CoveredInvariant, PTL

(* After a settle of a lineage that has collection c, what is believed     *)
(* about c is what a fold of the snapshot from nothing believes.           *)
LEMMA SettledIsExact ==
    ASSUME NEW s \in Snapshots, Good(s.blobs, s.proofs, s.records, s.memo),
           NEW L \in SUBSET Collections, NEW c \in L
    PROVE  Counted({a \in SettleLineage(s, L).believed : a.collection = c})
             = Counted(FromScratch(s, c))
  <1> DEFINE m == SettleLineage(s, L)
  <1>0. /\ s.blobs \in SUBSET Blobs /\ s.proofs \in SUBSET Proofs
        /\ s.records \in SUBSET Records
    BY DEF Snapshots
  <1>1. /\ m \in Memos /\ Good(s.blobs, s.proofs, s.records, m)
        /\ L \subseteq m.settled /\ \A a \in m.fresh : a.collection \notin L
    BY SettleKeeps
  <1> HIDE DEF m
  <1>2. /\ Inside(s.records, m) /\ Sound(s.blobs, s.proofs, m)
        /\ Placed(s.blobs, s.proofs, s.records, m) /\ Parked(s.blobs, m)
    BY <1>1, Zenon DEF Good
  <1>3. ASSUME NEW a \in m.believed, ~(a.kind = "merge" /\ Kinds[a.collection] = "attached")
        PROVE  a \in s.records /\ Folds(a) /\ Believes(a, s.blobs, s.proofs)
    BY <1>2, <1>3, Zenon DEF Inside, Sound
  <1>4. ASSUME NEW a \in s.records, a.collection = c, Folds(a),
               Believes(a, s.blobs, s.proofs),
               ~(a.kind = "merge" /\ Kinds[a.collection] = "attached")
        PROVE  a \in m.believed
    <2>1. a \in m.believed \/ a \in m.fresh \/ Waiting(a, s.blobs, s.proofs, m)
      BY <1>1, <1>2, <1>4, Zenon DEF Placed
    <2>2. ~Waiting(a, s.blobs, s.proofs, m)
      BY <1>0, <1>1, <1>2, <1>4, WaitingIsRefused, Zenon
    <2> QED
      BY <1>1, <1>4, <2>1, <2>2, Zenon
  <1>5. Counted({a \in m.believed : a.collection = c}) = Counted(FromScratch(s, c))
    BY <1>3, <1>4, Zenon DEF Counted, FromScratch
  <1> QED
    BY <1>5 DEF m

(* Whatever a memo was carried forward from and whatever was read before,  *)
(* a read decides what a fold of its snapshot from nothing would           *)
(* (`CoverageRead::index`, `coverage_index`).                              *)
THEOREM ReadsExact == Spec => []ReadsAreExact
  <1>1. ASSUME IndInv, NEW i \in DOMAIN snaps,
               NEW c \in {a.collection : a \in snaps[i].records}
        PROVE  /\ Counted({a \in SettleLineage(snaps[i], {c}).believed : a.collection = c})
                    = Counted(FromScratch(snaps[i], c))
               /\ Counted({a \in SettleAll(snaps[i]).believed : a.collection = c})
                    = Counted(FromScratch(snaps[i], c))
    <2> DEFINE s == snaps[i]
               all == {a.collection : a \in s.records}
    <2>1. s \in Snapshots /\ Good(s.blobs, s.proofs, s.records, s.memo)
      BY <1>1, SMTT(30) DEF IndInv, SnapOK
    <2>2. SettleAll(s) = SettleLineage(s, all) /\ all \in SUBSET Collections
      BY <2>1, SettleAllIsLineage
    <2>3. c \in all /\ {c} \in SUBSET Collections /\ c \in {c}
      BY <2>2
    <2> HIDE DEF s, all
    <2>4. Counted({a \in SettleLineage(s, {c}).believed : a.collection = c})
            = Counted(FromScratch(s, c))
      BY <2>1, <2>3, SettledIsExact, Zenon
    <2>5. Counted({a \in SettleAll(s).believed : a.collection = c})
            = Counted(FromScratch(s, c))
      BY <2>1, <2>2, <2>3, SettledIsExact, Zenon
    <2> QED
      BY <2>4, <2>5, Zenon DEF s
  <1>2. IndInv => ReadsAreExact
    BY <1>1, Zenon DEF ReadsAreExact
  <1> QED
    BY <1>2, CoveredInvariant, PTL

=============================================================================
