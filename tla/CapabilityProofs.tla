-------------------------- MODULE CapabilityProofs --------------------------
(***************************************************************************)
(* What admission promises to its callers, for every set of keys, every    *)
(* definition, every chain and every policy: evidence that arrives never   *)
(* takes an admission back, and a refusal names every blob that can turn   *)
(* it.  Records are parked on exactly those blobs, so the second is what   *)
(* keeps an admissible record from being parked for ever.                  *)
(*                                                                         *)
(* Then the same of a store whose evidence arrives piece by piece in any   *)
(* order (module Evidence), and that the loops of capability.rs decide     *)
(* what module Capability says.  Both loops are recursive functions.  Each *)
(* is shown to be a function that is written without recursion and         *)
(* satisfies the same equation, by the least argument at which they would  *)
(* differ.                                                                 *)
(***************************************************************************)
EXTENDS Evidence, FiniteSetTheorems, WellFoundedInduction, TLAPS

(* A nonempty set of natural numbers has a least element. *)
LEMMA LeastNatural ==
    ASSUME NEW S \in SUBSET Nat, S # {}
    PROVE  \E n \in S : \A m \in S : n <= m
  <1> DEFINE R == {ss \in Nat \X Nat : ss[1] < ss[2]}
  <1>0. IsWellFoundedOn(R, Nat)
    BY NatLessThanWellFounded DEF OpToRel
  <1> HIDE DEF R
  <1>1. PICK n \in S : \A m \in S : ~(<<m, n>> \in R)
    BY <1>0, WFMin, Zenon
  <1>2. \A m \in S : ~(m < n)
    BY <1>1, Zenon DEF R
  <1> QED
    BY <1>1, <1>2

(* More definitions let a walk go further, never less far. *)
LEMMA PassesKept ==
    ASSUME NEW p, NEW k, NEW D, NEW E, D \subseteq E, Passes(p, k, D)
    PROVE  Passes(p, k, E)
  BY DEF Passes

(* A proof that hands the action to the subject goes on doing so. *)
LEMMA SupportsKept ==
    ASSUME NEW p, NEW s, NEW a, NEW D, NEW E, D \subseteq E, Supports(p, s, a, D)
    PROVE  Supports(p, s, a, E)
  BY PassesKept DEF Supports

(* More proofs and more definitions keep every root's share. *)
LEMMA SupportKept ==
    ASSUME NEW P, NEW Q, P \subseteq Q, NEW D, NEW E, D \subseteq E,
           NEW c, NEW roots, NEW s, NEW a
    PROVE  Support(P, c, roots, s, a, D) \subseteq Support(Q, c, roots, s, a, E)
  BY SupportsKept DEF Support, Bearing

(* A quorum that is met stays met. *)
LEMMA QuorumKept ==
    ASSUME NEW P, NEW Q, P \subseteq Q, NEW D, NEW E, D \subseteq E,
           NEW c, NEW roots, IsFiniteSet(roots), NEW t \in Nat, NEW s, NEW a,
           QuorumMet(P, c, roots, t, s, a, D)
    PROVE  QuorumMet(Q, c, roots, t, s, a, E)
  <1> DEFINE X == Support(P, c, roots, s, a, D)
             Y == Support(Q, c, roots, s, a, E)
  <1>0. X \subseteq Y
    BY SupportKept, Zenon
  <1>1. X \subseteq Y /\ Y \subseteq roots
    BY <1>0 DEF Support
  <1>2. IsFiniteSet(Y) /\ IsFiniteSet(X)
    BY <1>1, FS_Subset
  <1>3. Cardinality(X) \in Nat /\ Cardinality(Y) \in Nat /\ Cardinality(X) <= Cardinality(Y)
    BY <1>1, <1>2, FS_Subset, FS_CardinalityType
  <1>4. Cardinality(X) >= t
    BY DEF QuorumMet
  <1> HIDE DEF X, Y
  <1>5. Cardinality(Y) >= t
    BY <1>3, <1>4
  <1> QED
    BY <1>5 DEF QuorumMet, Y

(* Evidence that arrives never takes an admission back: a record believed  *)
(* against one snapshot is admissible against every later one.             *)
THEOREM AdmissionKept ==
    ASSUME NEW c \in Collections, NEW s, NEW B, NEW C, B \subseteq C, NEW P, NEW Q,
           P \subseteq Q, Admitted(c, s, B, P)
    PROVE  Admitted(c, s, C, Q)
  <1>1. PICK y \in WritePolicies(c, B) :
            y.open \/ QuorumMet(P, c, y.roots, y.threshold, s, WRITE, B)
    BY DEF Admitted
  <1>2. y \in WritePolicies(c, C) /\ c \in C
    BY <1>1 DEF WritePolicies, Admitted
  <1>3. IsFiniteSet(y.roots) /\ y.threshold \in Nat
    BY <1>1, PoliciesAssumption DEF WritePolicies
  <1>4. y.open \/ QuorumMet(Q, c, y.roots, y.threshold, s, WRITE, C)
    BY <1>1, <1>3, QuorumKept
  <1> QED
    BY <1>2, <1>4 DEF Admitted

-----------------------------------------------------------------------------
(* A proof that supports once more definitions are readable, and did not   *)
(* before, was cut at one of them.                                         *)
LEMMA CutNamesTheGap ==
    ASSUME NEW p \in Proofs, NEW s, NEW a, NEW D, NEW E, D \subseteq E,
           Supports(p, s, a, E), ~Supports(p, s, a, D)
    PROVE  CutAt(p, D) \cap E # {}
  <1>0. Len(p.edges) \in Nat /\ DOMAIN p.edges = 1 .. Len(p.edges)
    BY ProofsAssumption
  <1>1. PICK k \in DOMAIN p.edges : /\ \A i \in 1 .. k : Passes(p, i, E)
                                    /\ p.edges[k].delegate = s
                                    /\ a \in Invokes[Handed(p, k)]
    BY DEF Supports
  <1>2. k \in Nat
    BY <1>0, <1>1
  <1> DEFINE S == {i \in 1 .. k : ~Passes(p, i, D)}
  <1>3. S # {} /\ S \in SUBSET Nat
    BY <1>0, <1>1, <1>2 DEF Supports
  <1>4. PICK i \in S : \A j \in S : i <= j
    BY <1>3, LeastNatural, Zenon
  <1>5. i \in 1 .. k /\ ~Passes(p, i, D) /\ Passes(p, i, E) /\ i \in DOMAIN p.edges
    BY <1>0, <1>1, <1>4
  <1>6. \A j \in 1 .. i - 1 : Passes(p, j, D)
    BY <1>2, <1>4, <1>5
  <1>7. p.edges[i].signed /\ Handed(p, i) \notin D /\ Handed(p, i) \in E
    BY <1>5 DEF Passes
  <1>8. Handed(p, i) \in CutAt(p, D)
    BY <1>5, <1>6, <1>7 DEF CutAt
  <1> QED
    BY <1>7, <1>8

(* When none of the definitions a refusal names has arrived, the shares    *)
(* are what they were.                                                     *)
LEMMA SupportUnchanged ==
    ASSUME NEW P \in SUBSET Proofs, NEW D, NEW E, D \subseteq E, NEW c, NEW roots, NEW t,
           NEW s, NEW a, Canonical(roots, s, t),
           QuorumUndefined(P, c, roots, t, s, a, D) \cap E = {}
    PROVE  Support(P, c, roots, s, a, E) \subseteq Support(P, c, roots, s, a, D)
  <1>1. SUFFICES ASSUME NEW r \in roots, r # s,
                        NEW p \in Bearing(P, c, roots), p.root = r, Supports(p, s, a, E)
                 PROVE  \E q \in Bearing(P, c, roots) : q.root = r /\ Supports(q, s, a, D)
    BY DEF Support
  <1>2. SUFFICES ASSUME ~\E q \in Bearing(P, c, roots) :
                            q.root = r /\ Supports(q, s, a, D)
                 PROVE  FALSE
    OBVIOUS
  <1>3. p \in P /\ p \in Proofs /\ NamesDelegate(p, s)
    BY <1>1 DEF Bearing, Supports, NamesDelegate
  <1>4. Walked(p, P, c, roots, s, a, D) /\ ~Supports(p, s, a, D)
    BY <1>1, <1>2 DEF Walked
  <1>5. CutAt(p, D) \subseteq QuorumUndefined(P, c, roots, t, s, a, D)
    BY <1>3, <1>4 DEF QuorumUndefined
  <1>6. CutAt(p, D) \cap E # {}
    BY <1>1, <1>3, <1>4, CutNamesTheGap
  <1> QED
    BY <1>5, <1>6

(* A refusal names every blob that can turn it.  `decide` parks the record *)
(* under each of them, so no arrival that would admit it goes unnoticed.   *)
THEOREM RefusalNamesItsRemedy ==
    ASSUME NEW c \in Collections, NEW s, NEW B, NEW C, B \subseteq C,
           NEW P \in SUBSET Proofs, c \in B, ~Admitted(c, s, B, P),
           UndefinedFor(c, s, B, P) \cap C = {}
    PROVE  ~Admitted(c, s, C, P)
  <1>1. SUFFICES ASSUME NEW y \in WritePolicies(c, C),
                        y.open \/ QuorumMet(P, c, y.roots, y.threshold, s, WRITE, C)
                 PROVE  FALSE
    BY DEF Admitted
  <1>2. y \in WritePolicies(c, B)
    BY <1>1 DEF WritePolicies, UndefinedFor, MissingPolicies
  <1>3. ~y.open /\ ~QuorumMet(P, c, y.roots, y.threshold, s, WRITE, B)
    BY <1>2 DEF Admitted
  <1>4. QuorumUndefined(P, c, y.roots, y.threshold, s, WRITE, B) \cap C = {}
    BY <1>2 DEF UndefinedFor
  <1>5. Canonical(y.roots, s, y.threshold)
    BY <1>1, <1>3 DEF QuorumMet
  <1>6. Support(P, c, y.roots, s, WRITE, C) = Support(P, c, y.roots, s, WRITE, B)
    <2>1. Support(P, c, y.roots, s, WRITE, C) \subseteq Support(P, c, y.roots, s, WRITE, B)
      BY <1>4, <1>5, SupportUnchanged, Zenon
    <2>2. Support(P, c, y.roots, s, WRITE, B) \subseteq Support(P, c, y.roots, s, WRITE, C)
      BY SupportKept, Zenon
    <2> QED
      BY <2>1, <2>2, Zenon
  <1> QED
    BY <1>1, <1>3, <1>6 DEF QuorumMet

(* A refusal waits for nothing that is resident: `decide` lists a          *)
(* definition only where a walk did not find it.                           *)
LEMMA HintsAreAbsent ==
    ASSUME NEW c, NEW s, NEW B, NEW P
    PROVE  UndefinedFor(c, s, B, P) \cap B = {}
  <1>1. ASSUME NEW p
        PROVE  CutAt(p, B) \cap B = {}
    BY DEF CutAt
  <1>2. ASSUME NEW y
        PROVE  QuorumUndefined(P, c, y.roots, y.threshold, s, WRITE, B) \cap B = {}
    BY <1>1 DEF QuorumUndefined
  <1> QED
    BY <1>2 DEF UndefinedFor, MissingPolicies

-----------------------------------------------------------------------------
(* Evidence that arrives *)

(* A store holds proofs that were made (`insert_proof`, or a replay). *)
ProofsAreProofs == proofs \subseteq Proofs

(* Only proofs arrive as proofs. *)
LEMMA ProofsArrive == EvidenceSpec => []ProofsAreProofs
  <1>1. EvidenceInit => ProofsAreProofs
    BY DEF EvidenceInit, ProofsAreProofs
  <1>2. ProofsAreProofs /\ [EvidenceNext]_evidenceVars => ProofsAreProofs'
    BY DEF ProofsAreProofs, EvidenceNext, BlobArrives, ProofArrives, evidenceVars
  <1> QED
    BY <1>1, <1>2, PTL DEF EvidenceSpec

(* A refusal names every blob that can turn it, and no resident one: a     *)
(* record parked on what `decide` names is woken in time, and can be.      *)
THEOREM HintsExact == EvidenceSpec => []HintsAreExact
  <1>1. ASSUME ProofsAreProofs PROVE HintsAreExact
    <2>1. ASSUME NEW c \in Collections, NEW s \in Keys
          PROVE  UndefinedFor(c, s, blobs, proofs) \cap blobs = {}
      BY HintsAreAbsent
    <2>2. ASSUME NEW c \in Collections, NEW s \in Keys, c \in blobs,
                 ~Admitted(c, s, blobs, proofs), NEW B, blobs \subseteq B,
                 Admitted(c, s, B, proofs)
          PROVE  UndefinedFor(c, s, blobs, proofs) \cap B # {}
      BY <1>1, <2>2, RefusalNamesItsRemedy DEF ProofsAreProofs
    <2> QED
      BY <2>1, <2>2 DEF HintsAreExact
  <1> QED
    BY <1>1, ProofsArrive, PTL

(* Evidence that arrives never takes an admission back: a record believed  *)
(* once stays admissible.                                                  *)
THEOREM AdmissionStable == EvidenceSpec => AdmissionIsStable
  <1>1. [EvidenceNext]_evidenceVars => [\A c \in Collections, s \in Keys :
                          Admitted(c, s, blobs, proofs) => Admitted(c, s, blobs', proofs')]_evidenceVars
    <2>1. ASSUME [EvidenceNext]_evidenceVars, NEW c \in Collections, NEW s \in Keys,
                 Admitted(c, s, blobs, proofs)
          PROVE  Admitted(c, s, blobs', proofs')
      <3>1. blobs \subseteq blobs' /\ proofs \subseteq proofs'
        BY <2>1 DEF EvidenceNext, BlobArrives, ProofArrives, evidenceVars
      <3> QED
        BY <2>1, <3>1, AdmissionKept
    <2> QED
      BY <2>1
  <1> QED
    BY <1>1, PTL DEF EvidenceSpec, AdmissionIsStable

-----------------------------------------------------------------------------
(* The walk along a proof *)

(* What the walk finds from edge k on: whether some prefix hands the action *)
(* to the subject, and the definition whose absence ends it otherwise.      *)
Reaches(p, s, a, D, k) ==
    \E j \in k .. Len(p.edges) :
        /\ \A i \in k .. j : Passes(p, i, D)
        /\ p.edges[j].delegate = s
        /\ a \in Invokes[Handed(p, j)]
CutFrom(p, D, k) ==
    {Handed(p, j) : j \in {i \in k .. Len(p.edges) :
        /\ \A h \in k .. i - 1 : Passes(p, h, D)
        /\ p.edges[i].signed
        /\ Handed(p, i) \notin D}}
Walk(p, s, a, D, k) ==
    [found |-> Reaches(p, s, a, D, k),
     cut |-> IF Reaches(p, s, a, D, k) THEN {} ELSE CutFrom(p, D, k)]

(* One turn of `visit_prefixes` at edge k, w being what the next ones find. *)
Turn(p, s, a, D, k, w) ==
    IF k > Len(p.edges) THEN [found |-> FALSE, cut |-> {}]
    ELSE IF ~p.edges[k].signed THEN [found |-> FALSE, cut |-> {}]
    ELSE IF Handed(p, k) \notin D THEN [found |-> FALSE, cut |-> {Handed(p, k)}]
    ELSE IF k > 1 /\ ~(Named(p, k) \subseteq Delegates[Handed(p, k - 1)])
         THEN [found |-> FALSE, cut |-> {}]
    ELSE IF p.edges[k].delegate = s /\ a \in Invokes[Handed(p, k)]
         THEN [found |-> TRUE, cut |-> {}]
    ELSE w

(* A walk that ends at edge k, or goes on after it. *)
LEMMA WalkUnfolds ==
    ASSUME NEW p \in Proofs, NEW s, NEW a, NEW D, NEW k \in 1 .. Len(p.edges) + 1
    PROVE  Walk(p, s, a, D, k) = Turn(p, s, a, D, k, Walk(p, s, a, D, k + 1))
  <1> DEFINE last == Len(p.edges)
             R(j) == Reaches(p, s, a, D, j)
             C(j) == CutFrom(p, D, j)
             stops == [found |-> FALSE, cut |-> {}]
  <1>0. last \in Nat /\ k \in Nat
    BY ProofsAssumption
  <1>w. ASSUME NEW x \in BOOLEAN, NEW y, R(k) = x, x => y = {}, ~x => y = C(k)
        PROVE  Walk(p, s, a, D, k) = [found |-> x, cut |-> y]
    BY <1>w, Zenon DEF Walk
  <1>b. R(k) \in BOOLEAN
    BY Zenon DEF Reaches
  <1>1. CASE k > last
    <2>1. k .. last = {}
      BY <1>0, <1>1
    <2>2. ~R(k) /\ C(k) = {}
      BY <2>1, Zenon DEF Reaches, CutFrom
    <2> QED
      BY <1>1, <1>w, <1>b, <2>2, Zenon DEF Turn
  <1>2. CASE k <= last
    <2>0. k \in k .. last /\ ~(k > last) /\ k + 1 \in Nat
      BY <1>0, <1>2
    <2>1. CASE ~Passes(p, k, D)
      <3>1. ~R(k)
        <4>1. ASSUME NEW j \in k .. last PROVE k \in k .. j
          BY <1>0
        <4> QED
          BY <2>1, <4>1, Zenon DEF Reaches
      <3>2. C(k) = {Handed(p, j) : j \in {i \in {k} : p.edges[i].signed /\ Handed(p, i) \notin D}}
        <4>1. ASSUME NEW i \in k .. last, i # k PROVE k \in k .. i - 1
          BY <1>0, <4>1
        <4>2. k .. k - 1 = {}
          BY <1>0
        <4>3. ASSUME NEW i \in k .. last
              PROVE  (\A h \in k .. i - 1 : Passes(p, h, D)) <=> i = k
          <5>1. CASE i = k
            BY <4>2, <5>1, Zenon
          <5>2. CASE i # k
            BY <2>1, <4>1, <5>2, Zenon
          <5> QED
            BY <5>1, <5>2
        <4>4. {i \in k .. last : /\ \A h \in k .. i - 1 : Passes(p, h, D)
                                /\ p.edges[i].signed
                                /\ Handed(p, i) \notin D}
                = {i \in {k} : p.edges[i].signed /\ Handed(p, i) \notin D}
          BY <2>0, <4>3, Zenon
        <4> QED
          BY <4>4, Zenon DEF CutFrom
      <3>3. CASE ~p.edges[k].signed
        <4>1. C(k) = {}
          BY <3>2, <3>3, Zenon
        <4> QED
          BY <1>w, <1>b, <2>0, <3>1, <3>3, <4>1, Zenon DEF Turn
      <3>4. CASE p.edges[k].signed /\ Handed(p, k) \notin D
        <4>1. C(k) = {Handed(p, k)}
          BY <3>2, <3>4, Zenon
        <4> QED
          BY <1>w, <1>b, <2>0, <3>1, <3>4, <4>1, Zenon DEF Turn
      <3>5. CASE p.edges[k].signed /\ Handed(p, k) \in D
        <4>1. C(k) = {}
          BY <3>2, <3>5, Zenon
        <4>2. k > 1 /\ ~(Named(p, k) \subseteq Delegates[Handed(p, k - 1)])
          BY <2>1, <3>5, Zenon DEF Passes
        <4> QED
          BY <1>w, <1>b, <2>0, <3>1, <3>5, <4>1, <4>2, Zenon DEF Turn
      <3> QED
        BY <3>3, <3>4, <3>5, Zenon
    <2>2. CASE Passes(p, k, D)
      <3>1. /\ p.edges[k].signed /\ Handed(p, k) \in D
            /\ ~(k > 1 /\ ~(Named(p, k) \subseteq Delegates[Handed(p, k - 1)]))
        BY <2>2, Zenon DEF Passes
      <3>2. CASE p.edges[k].delegate = s /\ a \in Invokes[Handed(p, k)]
        <4>1. \A i \in k .. k : i = k
          BY <1>0
        <4>2. R(k)
          BY <2>0, <2>2, <3>2, <4>1, Zenon DEF Reaches
        <4> QED
          BY <1>w, <1>b, <2>0, <3>1, <3>2, <4>2, Zenon DEF Turn
      <3>3. CASE ~(p.edges[k].delegate = s /\ a \in Invokes[Handed(p, k)])
        <4>1. ASSUME NEW j \in k .. last, j # k
              PROVE  j \in k + 1 .. last /\ \A i \in k .. j : i = k \/ i \in k + 1 .. j
          BY <1>0, <4>1
        <4>2. ASSUME NEW j \in k + 1 .. last
              PROVE  /\ j \in k .. last /\ j # k /\ \A i \in k + 1 .. j : i \in k .. j
                     /\ \A i \in k + 1 .. j - 1 : i \in k .. j - 1
                     /\ \A i \in k .. j - 1 : i = k \/ i \in k + 1 .. j - 1
          BY <1>0
        <4>3. R(k) = R(k + 1)
          <5>1. R(k) => R(k + 1)
            <6>1. SUFFICES ASSUME NEW j \in k .. last, \A i \in k .. j : Passes(p, i, D),
                             p.edges[j].delegate = s, a \in Invokes[Handed(p, j)]
                           PROVE  R(k + 1)
              BY Zenon DEF Reaches
            <6>2. j # k
              BY <3>3, <6>1, Zenon
            <6>3. j \in k + 1 .. last /\ \A i \in k + 1 .. j : i \in k .. j
              BY <4>1, <4>2, <6>2, Zenon
            <6> QED
              BY <6>1, <6>3, Zenon DEF Reaches
          <5>2. R(k + 1) => R(k)
            <6>1. SUFFICES ASSUME NEW j \in k + 1 .. last, \A i \in k + 1 .. j : Passes(p, i, D),
                             p.edges[j].delegate = s, a \in Invokes[Handed(p, j)]
                           PROVE  R(k)
              BY Zenon DEF Reaches
            <6>2. j \in k .. last /\ \A i \in k .. j : i = k \/ i \in k + 1 .. j
              BY <4>1, <4>2, Zenon
            <6> QED
              BY <2>2, <6>1, <6>2, Zenon DEF Reaches
          <5> QED
            BY <5>1, <5>2, Zenon DEF Reaches
        <4>4. C(k) = C(k + 1)
          <5>1. {i \in k .. last : /\ \A h \in k .. i - 1 : Passes(p, h, D)
                                  /\ p.edges[i].signed
                                  /\ Handed(p, i) \notin D}
                  = {i \in k + 1 .. last : /\ \A h \in k + 1 .. i - 1 : Passes(p, h, D)
                                          /\ p.edges[i].signed
                                          /\ Handed(p, i) \notin D}
            BY <2>2, <3>1, <4>1, <4>2, Zenon
          <5> QED
            BY <5>1, Zenon DEF CutFrom
        <4> QED
          BY <2>0, <3>1, <3>3, <4>3, <4>4, Zenon DEF Turn, Walk
      <3> QED
        BY <3>2, <3>3, Zenon
    <2> QED
      BY <2>1, <2>2, Zenon
  <1> QED
    BY <1>0, <1>1, <1>2

(* `visit_prefixes` stops at a prefix that hands the action to the subject  *)
(* exactly when there is one that can be walked, and else reports the       *)
(* definition that it lacks.                                                *)
LEMMA WalkIsExact ==
    ASSUME NEW p \in Proofs, NEW s, NEW a, NEW D
    PROVE  VisitPrefixes(p, s, a, D) = [found |-> Supports(p, s, a, D),
              cut |-> IF Supports(p, s, a, D) THEN {} ELSE CutAt(p, D)]
  <1> DEFINE last == Len(p.edges)
             Body(g) == [k \in 1 .. last + 1 |-> Turn(p, s, a, D, k, g[k + 1])]
             from == CHOOSE g : g = Body(g)
             walk == [k \in 1 .. last + 1 |-> Walk(p, s, a, D, k)]
  <1>0. last \in Nat /\ DOMAIN p.edges = 1 .. last
    BY ProofsAssumption
  <1>e. ASSUME NEW k, k > last, NEW v, NEW w
        PROVE  Turn(p, s, a, D, k, v) = Turn(p, s, a, D, k, w)
    BY <1>e, Zenon DEF Turn
  <1>u. ASSUME NEW k \in 1 .. last + 1
        PROVE  Walk(p, s, a, D, k) = Turn(p, s, a, D, k, Walk(p, s, a, D, k + 1))
    BY WalkUnfolds, Zenon
  <1>1. VisitPrefixes(p, s, a, D) = from[1]
    BY Zenon DEF VisitPrefixes, Turn
  <1>2. walk = Body(walk)
    <2>1. ASSUME NEW k \in 1 .. last + 1
          PROVE  Walk(p, s, a, D, k) = Turn(p, s, a, D, k, walk[k + 1])
      <3>1. CASE k > last
        <4>1. Walk(p, s, a, D, k) = Turn(p, s, a, D, k, Walk(p, s, a, D, k + 1))
          BY <1>u, Zenon
        <4>2. Turn(p, s, a, D, k, Walk(p, s, a, D, k + 1)) = Turn(p, s, a, D, k, walk[k + 1])
          BY <1>e, <3>1
        <4> QED
          BY <4>1, <4>2, Zenon
      <3>2. CASE ~(k > last)
        <4>1. k + 1 \in 1 .. last + 1
          BY <1>0, <3>2
        <4>2. walk[k + 1] = Walk(p, s, a, D, k + 1)
          BY <4>1, Zenon
        <4> QED
          BY <1>u, <4>2, Zenon
      <3> QED
        BY <3>1, <3>2, Zenon
    <2> QED
      BY <2>1, Zenon
  <1>3. from = Body(from)
    BY <1>2, Zenon
  <1> HIDE DEF from
  <1>4. ASSUME NEW k \in 1 .. last + 1
        PROVE  from[k] = Turn(p, s, a, D, k, from[k + 1])
    BY <1>3, Zenon
  <1> DEFINE T == {n \in 0 .. last : from[last + 1 - n] # Walk(p, s, a, D, last + 1 - n)}
  <1>5. T = {}
    <2>1. SUFFICES ASSUME T # {} PROVE FALSE
      OBVIOUS
    <2>2. T \in SUBSET Nat
      BY <1>0
    <2>3. PICK n \in T : \A m \in T : n <= m
      BY <2>1, <2>2, LeastNatural, Zenon
    <2> DEFINE k == last + 1 - n
    <2>4. /\ k \in 1 .. last + 1 /\ n \in 0 .. last
          /\ n > 0 => n - 1 \in 0 .. last /\ last + 1 - (n - 1) = k + 1 /\ ~(n <= n - 1)
          /\ n = 0 => k > last
      BY <1>0, <2>3
    <2>5. from[k] # Walk(p, s, a, D, k)
      BY <2>3, Zenon
    <2> HIDE DEF k
    <2>6. CASE n = 0
      <3>1. Turn(p, s, a, D, k, Walk(p, s, a, D, k + 1)) = Turn(p, s, a, D, k, from[k + 1])
        BY <1>e, <2>4, <2>6
      <3> QED
        BY <1>4, <1>u, <2>4, <2>5, <3>1, Zenon
    <2>7. CASE n > 0
      <3>1. from[k + 1] = Walk(p, s, a, D, k + 1)
        BY <2>3, <2>4, <2>7, Zenon
      <3> QED
        BY <1>4, <1>u, <2>4, <2>5, <3>1, Zenon
    <2> QED
      BY <2>4, <2>6, <2>7
  <1>6. from[1] = Walk(p, s, a, D, 1)
    <2>1. last \in 0 .. last /\ last + 1 - last = 1
      BY <1>0
    <2> QED
      BY <1>5, <2>1, Zenon
  <1>7. Reaches(p, s, a, D, 1) = Supports(p, s, a, D) /\ CutFrom(p, D, 1) = CutAt(p, D)
    BY <1>0, Zenon DEF Reaches, Supports, CutFrom, CutAt
  <1> QED
    BY <1>1, <1>6, <1>7, Zenon DEF Walk

-----------------------------------------------------------------------------
(* The decision, proof by proof *)

(* Of finitely many proofs one comes last. *)
LEMMA LastExists ==
    ASSUME NEW S \in SUBSET Proofs, S # {}
    PROVE  \E p \in S : \A q \in S : q.id <= p.id
  <1> DEFINE HasLast(T) == \E p \in T : \A q \in T : q.id <= p.id
             Bad == {n \in Nat : \E T \in SUBSET Proofs :
                        T # {} /\ Cardinality(T) = n /\ ~HasLast(T)}
  <1>1. \A T \in SUBSET Proofs : IsFiniteSet(T) /\ Cardinality(T) \in Nat
    BY ProofsAssumption, FS_Subset, FS_CardinalityType
  <1>2. \A p \in Proofs : p.id \in Nat
    BY ProofsAssumption
  <1>3. Bad = {}
    <2>1. SUFFICES ASSUME Bad # {} PROVE FALSE
      OBVIOUS
    <2>2. PICK n \in Bad : \A m \in Bad : n <= m
      BY <2>1, LeastNatural, Zenon
    <2>3. PICK T \in SUBSET Proofs : T # {} /\ Cardinality(T) = n /\ ~HasLast(T)
      BY <2>2
    <2>4. PICK x \in T : TRUE
      BY <2>3
    <2> DEFINE U == T \ {x}
    <2>5. U \in SUBSET Proofs /\ Cardinality(U) = n - 1 /\ n \in Nat
      BY <1>1, <2>3, <2>4, FS_RemoveElement, Zenon
    <2>6. Cardinality(U) \in Nat /\ Cardinality(U) \notin Bad
      <3>1. Cardinality(U) \in Nat
        BY <1>1, <2>5, Zenon
      <3> HIDE DEF U, Bad
      <3> QED
        BY <2>2, <2>5, <3>1
    <2>7. U = {} \/ HasLast(U)
      BY <2>5, <2>6, Zenon
    <2>8. CASE U = {}
      <3>1. \A q \in T : q = x
        BY <2>8
      <3> QED
        BY <1>2, <2>3, <2>4, <3>1
    <2>9. CASE HasLast(U)
      <3>1. PICK p \in U : \A q \in U : q.id <= p.id
        BY <2>9
      <3>2. p.id \in Nat /\ x.id \in Nat /\ \A q \in T : q.id \in Nat /\ (q = x \/ q \in U)
        BY <1>2, <2>4, <2>5
      <3> QED
        BY <2>3, <2>4, <3>1, <3>2
    <2> QED
      BY <2>7, <2>8, <2>9
  <1>4. Cardinality(S) \in Nat
    BY <1>1
  <1> QED
    BY <1>3, <1>4

(* The last proof is one of them and comes after every other. *)
LEMMA LastFacts ==
    ASSUME NEW S \in SUBSET Proofs, S # {}
    PROVE  LastById(S) \in S /\ \A q \in S \ {LastById(S)} : q.id < LastById(S).id
  <1>1. LastById(S) \in S /\ \A q \in S : q.id <= LastById(S).id
    BY LastExists, Zenon DEF LastById
  <1>2. ASSUME NEW q \in S \ {LastById(S)}
        PROVE  q.id < LastById(S).id
    <2> DEFINE l == LastById(S)
    <2>1. q.id \in Nat /\ l.id \in Nat /\ q.id # l.id /\ q.id <= l.id
      BY <1>1, ProofsAssumption
    <2> HIDE DEF l
    <2> QED
      BY <2>1 DEF l
  <1> QED
    BY <1>1, <1>2

(* What the walks of the proofs of S report, and what the loop has found    *)
(* after them if nothing ended it early.                                    *)
Told(S, c, roots, s, a, D) ==
    UNION {CutAt(p, D) : p \in {q \in S :
        /\ Walked(q, S, c, roots, s, a, D)
        /\ ~Supports(q, s, a, D)
        /\ NamesDelegate(q, s)}}
Full(S, c, roots, s, a, D) ==
    [support |-> Support(S, c, roots, s, a, D), undefined |-> Told(S, c, roots, s, a, D)]

(* The proofs of S that come before the quorum is complete. *)
Heeded(S, c, roots, t, s, a, D) ==
    {p \in S : ~(Cardinality(Support({q \in S : q.id < p.id}, c, roots, s, a, D)) >= t)}

(* One turn of the loop: proof p, acc being what was found before. *)
Heed(acc, p, c, roots, t, s, a, D) ==
    IF \/ Cardinality(acc.support) >= t
       \/ p.root \notin roots
       \/ p.root \in acc.support
       \/ p.resource # c
    THEN acc
    ELSE [support |-> acc.support \cup
             (IF VisitPrefixes(p, s, a, D).found THEN {p.root} ELSE {}),
          undefined |-> acc.undefined \cup
             (IF NamesDelegate(p, s) THEN VisitPrefixes(p, s, a, D).cut ELSE {})]

(* More proofs complete a quorum that fewer completed. *)
LEMMA QuorumGrows ==
    ASSUME NEW R, NEW S, R \subseteq S, NEW c, NEW roots, IsFiniteSet(roots),
           NEW t \in Nat, NEW s, NEW a, NEW D,
           Cardinality(Support(R, c, roots, s, a, D)) >= t
    PROVE  Cardinality(Support(S, c, roots, s, a, D)) >= t
  <1> DEFINE X == Support(R, c, roots, s, a, D)
             Y == Support(S, c, roots, s, a, D)
  <1>1. X \subseteq Y
    BY SupportKept, Zenon
  <1>2. Y \subseteq roots
    BY Zenon DEF Support
  <1>3. IsFiniteSet(Y)
    BY <1>2, FS_Subset, Zenon
  <1>4. IsFiniteSet(X) /\ Cardinality(X) <= Cardinality(Y)
    BY <1>1, <1>3, FS_Subset, Zenon
  <1>5. Cardinality(X) \in Nat /\ Cardinality(Y) \in Nat
    BY <1>3, <1>4, FS_CardinalityType, Zenon
  <1> HIDE DEF X, Y
  <1>6. Cardinality(X) >= t
    BY Zenon DEF X
  <1>7. Cardinality(Y) >= t
    BY <1>4, <1>5, <1>6
  <1> QED
    BY <1>7, Zenon DEF Y

(* What proof p adds to those of R: nothing, or its root's share, or the    *)
(* definition its walk lacks.                                               *)
Later(R, p) == \A q \in R : q.id < p.id
AddsNothing(R, p, c, roots, s, a, D) ==
    Full(R \cup {p}, c, roots, s, a, D) = Full(R, c, roots, s, a, D)
AddsItsWalk(R, p, c, roots, s, a, D) ==
    /\ Support(R \cup {p}, c, roots, s, a, D)
         = Support(R, c, roots, s, a, D) \cup (IF Supports(p, s, a, D) THEN {p.root} ELSE {})
    /\ Told(R \cup {p}, c, roots, s, a, D)
         = Told(R, c, roots, s, a, D) \cup
              (IF NamesDelegate(p, s) /\ ~Supports(p, s, a, D) THEN CutAt(p, D) ELSE {})

(* A proof whose root's share has arrived, or that bears on something else, *)
(* adds nothing.                                                            *)
LEMMA IdleProof ==
    ASSUME NEW R \in SUBSET Proofs, NEW p \in Proofs, Later(R, p),
           NEW c, NEW roots, NEW s, NEW a, NEW D,
           \/ p \notin Bearing({p}, c, roots)
           \/ p.root \in Support(R, c, roots, s, a, D)
    PROVE  AddsNothing(R, p, c, roots, s, a, D)
  <1>l. \A q \in R : q.id < p.id
    BY DEF Later
  <1> DEFINE S == R \cup {p}
             W(q, T) == Walked(q, T, c, roots, s, a, D)
  <1>1. Support(S, c, roots, s, a, D) = Support(R, c, roots, s, a, D)
    <2>1. CASE p \notin Bearing({p}, c, roots)
      <3>1. Bearing(S, c, roots) = Bearing(R, c, roots)
        BY <2>1, Zenon DEF Bearing
      <3> QED
        BY <3>1, Zenon DEF Support
    <2>2. CASE p.root \in Support(R, c, roots, s, a, D)
      <3>1. Bearing(S, c, roots) \subseteq Bearing(R, c, roots) \cup {p}
        BY Zenon DEF Bearing
      <3>2. Bearing(R, c, roots) \subseteq Bearing(S, c, roots)
        BY Zenon DEF Bearing
      <3> QED
        BY <2>2, <3>1, <3>2, Zenon DEF Support
    <2> QED
      BY <2>1, <2>2, Zenon
  <1>2. ~W(p, S)
    <2>1. CASE p \notin Bearing({p}, c, roots)
      BY <2>1, Zenon DEF Walked, Bearing
    <2>2. CASE p.root \in Support(R, c, roots, s, a, D)
      <3>1. p.root = s \/ \E q \in Bearing(R, c, roots) : q.root = p.root /\ Supports(q, s, a, D)
        BY <2>2, Zenon DEF Support
      <3>2. Bearing(R, c, roots) \subseteq Bearing(S, c, roots) \cap R
        BY Zenon DEF Bearing
      <3> QED
        BY <1>l, <3>1, <3>2, Zenon DEF Walked
    <2> QED
      BY <2>1, <2>2, Zenon
  <1>3. ASSUME NEW q \in R
        PROVE  W(q, S) <=> W(q, R)
    <2>1. ~(p.id < q.id)
      BY <1>l, ProofsAssumption
    <2>2. Bearing(R, c, roots) = Bearing(S, c, roots) \cap R
      BY Zenon DEF Bearing
    <2>3. \A x \in Bearing(S, c, roots) : x.id < q.id => x \in R
      BY <2>1, Zenon DEF Bearing
    <2> QED
      BY <2>2, <2>3, Zenon DEF Walked
  <1>4. {q \in S : W(q, S) /\ ~Supports(q, s, a, D) /\ NamesDelegate(q, s)}
          = {q \in R : W(q, R) /\ ~Supports(q, s, a, D) /\ NamesDelegate(q, s)}
    BY <1>2, <1>3, Zenon
  <1>5. Told(S, c, roots, s, a, D) = Told(R, c, roots, s, a, D)
    BY <1>4, Zenon DEF Told
  <1> QED
    BY <1>1, <1>5, Zenon DEF Full, AddsNothing

(* A proof that bears on the policy and whose root's share has not arrived  *)
(* brings the share or reports the definition that its walk lacks.          *)
LEMMA WalkedProof ==
    ASSUME NEW R \in SUBSET Proofs, NEW p \in Proofs, Later(R, p),
           NEW c, NEW roots, NEW s, NEW a, NEW D,
           p.root \in roots, p.resource = c,
           p.root \notin Support(R, c, roots, s, a, D)
    PROVE  AddsItsWalk(R, p, c, roots, s, a, D)
  <1>l. \A q \in R : q.id < p.id
    BY DEF Later
  <1> DEFINE S == R \cup {p}
             W(q, T) == Walked(q, T, c, roots, s, a, D)
             Tells(q) == ~Supports(q, s, a, D) /\ NamesDelegate(q, s)
  <1>1. Bearing(S, c, roots) = Bearing(R, c, roots) \cup {p}
    BY Zenon DEF Bearing
  <1>2. Support(S, c, roots, s, a, D)
          = Support(R, c, roots, s, a, D) \cup (IF Supports(p, s, a, D) THEN {p.root} ELSE {})
    <2>1. CASE Supports(p, s, a, D)
      BY <1>1, <2>1, Zenon DEF Support
    <2>2. CASE ~Supports(p, s, a, D)
      BY <1>1, <2>2, Zenon DEF Support
    <2> QED
      BY <2>1, <2>2, Zenon
  <1>3. ~(p.id < p.id)
    BY ProofsAssumption
  <1>4. W(p, S)
    <2>1. p.root # s /\ ~\E q \in Bearing(R, c, roots) : q.root = p.root /\ Supports(q, s, a, D)
      BY Zenon DEF Support
    <2> QED
      BY <1>1, <1>3, <2>1, Zenon DEF Walked
  <1>5. ASSUME NEW q \in R
        PROVE  W(q, S) <=> W(q, R)
    <2>1. ~(p.id < q.id) /\ q # p
      BY <1>l, ProofsAssumption
    <2> QED
      BY <1>1, <2>1, Zenon DEF Walked
  <1>6. {q \in S : W(q, S) /\ Tells(q)}
          = {q \in R : W(q, R) /\ Tells(q)} \cup (IF Tells(p) THEN {p} ELSE {})
    <2>1. CASE Tells(p)
      BY <1>4, <1>5, <2>1, Zenon
    <2>2. CASE ~Tells(p)
      BY <1>5, <2>2, Zenon
    <2> QED
      BY <2>1, <2>2, Zenon
  <1>7. Told(S, c, roots, s, a, D)
          = Told(R, c, roots, s, a, D) \cup (IF Tells(p) THEN CutAt(p, D) ELSE {})
    <2>1. /\ Told(S, c, roots, s, a, D) = UNION {CutAt(x, D) : x \in {q \in S : W(q, S) /\ Tells(q)}}
          /\ Told(R, c, roots, s, a, D) = UNION {CutAt(x, D) : x \in {q \in R : W(q, R) /\ Tells(q)}}
      BY Zenon DEF Told
    <2> HIDE DEF W, Tells, S
    <2>2. CASE Tells(p)
      BY <1>6, <2>1, <2>2
    <2>3. CASE ~Tells(p)
      BY <1>6, <2>1, <2>3
    <2> QED
      BY <2>2, <2>3, Zenon
  <1> QED
    BY <1>2, <1>7, Zenon DEF AddsItsWalk

(* As long as the quorum is not complete every proof is heeded, and the     *)
(* proofs that are heeded complete it if all do.                            *)
LEMMA HeededFacts ==
    ASSUME NEW S \in SUBSET Proofs, NEW c, NEW roots, IsFiniteSet(roots),
           NEW t \in Nat, NEW s, NEW a, NEW D
    PROVE  LET H == Heeded(S, c, roots, t, s, a, D)
               Met(T) == Cardinality(Support(T, c, roots, s, a, D)) >= t
           IN  H \subseteq S /\ (~Met(S) => H = S) /\ (Met(S) <=> Met(H))
  <1> DEFINE H == Heeded(S, c, roots, t, s, a, D)
             Met(T) == Cardinality(Support(T, c, roots, s, a, D)) >= t
             Before(p) == {q \in S : q.id < p.id}
  <1>1. ASSUME NEW T, NEW U, T \subseteq U, Met(T)
        PROVE  Met(U)
    BY <1>1, QuorumGrows, Zenon
  <1>2. H = {p \in S : ~Met(Before(p))}
    BY Zenon DEF Heeded
  <1> HIDE DEF H, Met
  <1>3. H \subseteq S
    BY <1>2, Zenon
  <1>4. ~Met(S) => H = S
    <2>1. \A p \in S : Before(p) \subseteq S
      OBVIOUS
    <2> QED
      BY <1>1, <1>2, <2>1, Zenon
  <1>5. ASSUME Met(S), ~Met(H) PROVE FALSE
    <2> DEFINE M == {p.id : p \in S \ H}
    <2>1. S \ H # {}
      <3>1. ASSUME S \ H = {} PROVE H = S
        BY <1>3, <3>1
      <3> QED
        BY <1>5, <3>1, Zenon
    <2>2. M # {} /\ M \in SUBSET Nat
      BY <2>1, ProofsAssumption
    <2>3. PICK m \in M : \A n \in M : m <= n
      BY <2>2, LeastNatural, Zenon
    <2>4. PICK p \in S \ H : p.id = m
      BY <2>3
    <2>5. ASSUME NEW q \in Before(p) PROVE q \in H
      <3>1. q \in S /\ q.id \in Nat /\ p.id \in Nat /\ q.id < p.id
        BY ProofsAssumption
      <3>2. CASE q \notin H
        <4>1. q.id \in M
          BY <3>1, <3>2, Zenon
        <4> QED
          BY <2>3, <2>4, <3>1, <4>1
      <3> QED
        BY <3>2, Zenon
    <2>6. ~Met(Before(p))
      BY <1>1, <1>5, <2>5, Zenon
    <2> QED
      BY <1>2, <2>4, <2>6, Zenon
  <1>6. H \subseteq S /\ (~Met(S) => H = S) /\ (Met(S) <=> Met(H))
    BY <1>1, <1>3, <1>4, <1>5, Zenon
  <1> QED
    BY <1>6, Zenon DEF H, Met

(* What the loop has found after the proofs of S: everything the heeded     *)
(* ones bring.                                                              *)
Judged(S, c, roots, t, s, a, D) == Full(Heeded(S, c, roots, t, s, a, D), c, roots, s, a, D)

JudgesFirst(c, roots, t, s, a, D) ==
    Judged({}, c, roots, t, s, a, D) = [support |-> roots \cap {s}, undefined |-> {}]
JudgesNext(S, c, roots, t, s, a, D) ==
    Judged(S, c, roots, t, s, a, D)
      = Heed(Judged(S \ {LastById(S)}, c, roots, t, s, a, D), LastById(S),
             c, roots, t, s, a, D)

(* Nothing was walked: the subject's own share counts if it is a root.      *)
LEMMA JudgedEmpty ==
    ASSUME NEW c, NEW roots, NEW t, NEW s, NEW a, NEW D
    PROVE  JudgesFirst(c, roots, t, s, a, D)
  <1>1. Heeded({}, c, roots, t, s, a, D) = {}
    BY Zenon DEF Heeded
  <1>2. Bearing({}, c, roots) = {}
    BY Zenon DEF Bearing
  <1>3. Support({}, c, roots, s, a, D) = roots \cap {s}
    BY <1>2, Zenon DEF Support
  <1>4. Told({}, c, roots, s, a, D) = {}
    BY Zenon DEF Told
  <1> QED
    BY <1>1, <1>3, <1>4, Zenon DEF Judged, Full, JudgesFirst

(* The last proof of S is one more turn of the loop. *)
LEMMA JudgedStep ==
    ASSUME NEW S \in SUBSET Proofs, S # {}, NEW c, NEW roots, IsFiniteSet(roots),
           NEW t \in Nat, NEW s, NEW a, NEW D
    PROVE  JudgesNext(S, c, roots, t, s, a, D)
  <1> DEFINE p == LastById(S)
             R == S \ {p}
             H(T) == Heeded(T, c, roots, t, s, a, D)
             Met(T) == Cardinality(Support(T, c, roots, s, a, D)) >= t
             F(T) == Full(T, c, roots, s, a, D)
             Sup(T) == Support(T, c, roots, s, a, D)
             v == VisitPrefixes(p, s, a, D)
  <1>1. p \in S /\ \A q \in R : q.id < p.id
    BY LastFacts, Zenon
  <1>2. p \in Proofs /\ R \in SUBSET Proofs /\ S = R \cup {p} /\ p \notin R
    BY <1>1, Zenon
  <1>3. /\ H(R) \subseteq R /\ (~Met(R) => H(R) = R) /\ (Met(R) <=> Met(H(R)))
    BY <1>2, HeededFacts, Zenon
  <1>4. F(H(R)).support = Sup(H(R)) /\ F(R).support = Sup(R)
        /\ F(R).undefined = Told(R, c, roots, s, a, D)
    BY Zenon DEF Full
  <1>5. ASSUME NEW q \in R
        PROVE  {x \in S : x.id < q.id} = {x \in R : x.id < q.id}
    <2>1. ~(p.id < q.id)
      BY <1>1, <1>2, ProofsAssumption
    <2> QED
      BY <1>2, <2>1, Zenon
  <1>6. {x \in S : x.id < p.id} = R
    <2>1. ~(p.id < p.id)
      BY <1>2, ProofsAssumption
    <2> QED
      BY <1>1, <1>2, <2>1, Zenon
  <1>7. CASE Met(R)
    <2>1. H(S) = H(R)
      <3>1. ~(p \in H(S))
        BY <1>6, <1>7, Zenon DEF Heeded
      <3>2. \A q \in R : q \in H(S) <=> q \in H(R)
        BY <1>2, <1>5, Zenon DEF Heeded
      <3>3. H(S) \subseteq S /\ H(R) \subseteq R
        BY Zenon DEF Heeded
      <3> HIDE DEF H, p, R
      <3> QED
        BY <1>2, <3>1, <3>2, <3>3, Zenon
    <2>2. Cardinality(F(H(R)).support) >= t
      BY <1>3, <1>4, <1>7, Zenon
    <2>3. Heed(F(H(R)), p, c, roots, t, s, a, D) = F(H(R))
      BY <2>2, Zenon DEF Heed
    <2> QED
      BY <2>1, <2>3, Zenon DEF Judged, JudgesNext
  <1>8. CASE ~Met(R)
    <2>1. H(S) = S /\ H(R) = R
      <3>1. p \in H(S)
        BY <1>1, <1>6, <1>8, Zenon DEF Heeded
      <3>2. \A q \in R : q \in H(S) <=> q \in H(R)
        BY <1>2, <1>5, Zenon DEF Heeded
      <3>3. H(S) \subseteq S
        BY Zenon DEF Heeded
      <3> HIDE DEF H, p, R
      <3> QED
        BY <1>2, <1>3, <1>8, <3>1, <3>2, <3>3, Zenon
    <2>2. ~(Cardinality(F(R).support) >= t)
      BY <1>4, <1>8, Zenon
    <2>3. F(S) = Heed(F(R), p, c, roots, t, s, a, D)
      <3>1. CASE p.root \notin roots \/ p.resource # c \/ p.root \in Sup(R)
        <4>1. p \notin Bearing({p}, c, roots) \/ p.root \in Sup(R)
          BY <3>1, Zenon DEF Bearing
        <4>2. F(S) = F(R)
          <5>1. Later(R, p)
            BY <1>1, Zenon DEF Later
          <5> HIDE DEF p, R
          <5>2. AddsNothing(R, p, c, roots, s, a, D)
            BY <1>2, <4>1, <5>1, IdleProof, Zenon
          <5> QED
            BY <1>2, <5>2, Zenon DEF AddsNothing
        <4>3. Heed(F(R), p, c, roots, t, s, a, D) = F(R)
          BY <1>4, <3>1, Zenon DEF Heed
        <4> QED
          BY <4>2, <4>3, Zenon
      <3>2. CASE p.root \in roots /\ p.resource = c /\ p.root \notin Sup(R)
        <4>1. v = [found |-> Supports(p, s, a, D),
                   cut |-> IF Supports(p, s, a, D) THEN {} ELSE CutAt(p, D)]
          BY <1>2, WalkIsExact, Zenon
        <4>2. /\ v.found = Supports(p, s, a, D)
              /\ v.cut = IF Supports(p, s, a, D) THEN {} ELSE CutAt(p, D)
          <5>1. \A x, y : [found |-> x, cut |-> y].found = x /\ [found |-> x, cut |-> y].cut = y
            OBVIOUS
          <5> HIDE DEF v
          <5> QED
            BY <4>1, <5>1, Zenon
        <4>3. /\ Sup(S) = Sup(R) \cup (IF Supports(p, s, a, D) THEN {p.root} ELSE {})
              /\ Told(S, c, roots, s, a, D) = Told(R, c, roots, s, a, D) \cup
                     (IF NamesDelegate(p, s) /\ ~Supports(p, s, a, D) THEN CutAt(p, D) ELSE {})
          <5>1. Later(R, p)
            BY <1>1, Zenon DEF Later
          <5> HIDE DEF p, R
          <5>2. AddsItsWalk(R, p, c, roots, s, a, D)
            BY <1>2, <3>2, <5>1, WalkedProof, Zenon
          <5> QED
            BY <1>2, <5>2, Zenon DEF AddsItsWalk
        <4>4. Heed(F(R), p, c, roots, t, s, a, D)
                = [support |-> F(R).support \cup (IF v.found THEN {p.root} ELSE {}),
                   undefined |-> F(R).undefined \cup
                      (IF NamesDelegate(p, s) THEN v.cut ELSE {})]
          BY <1>4, <2>2, <3>2, Zenon DEF Heed
        <4>5. Sup(S) = F(R).support \cup (IF v.found THEN {p.root} ELSE {})
          BY <1>4, <4>2, <4>3, Zenon
        <4>6. Told(S, c, roots, s, a, D)
                = F(R).undefined \cup (IF NamesDelegate(p, s) THEN v.cut ELSE {})
          <5>1. CASE Supports(p, s, a, D)
            BY <1>4, <4>2, <4>3, <5>1, Zenon
          <5>2. CASE ~Supports(p, s, a, D)
            BY <1>4, <4>2, <4>3, <5>2, Zenon
          <5> QED
            BY <5>1, <5>2, Zenon
        <4>7. F(S) = [support |-> Sup(S), undefined |-> Told(S, c, roots, s, a, D)]
          BY Zenon DEF Full
        <4> QED
          BY <4>4, <4>5, <4>6, <4>7, Zenon
      <3> QED
        BY <3>1, <3>2, Zenon
    <2> QED
      BY <2>1, <2>3, Zenon DEF Judged, JudgesNext
  <1> QED
    BY <1>7, <1>8, Zenon

(* The loop of `capability_quorum_decide_if` finds what the heeded proofs   *)
(* bring.                                                                   *)
LEMMA DecisionFinds ==
    ASSUME NEW P \in SUBSET Proofs, NEW c, NEW roots, IsFiniteSet(roots),
           NEW t \in Nat, NEW s, NEW a, NEW D, Canonical(roots, s, t)
    PROVE  LET J == Judged(P, c, roots, t, s, a, D)
           IN  QuorumDecide(P, c, roots, t, s, a, D)
                 = [met |-> Cardinality(J.support) >= t, undefined |-> J.undefined]
  <1> DEFINE J(S) == Judged(S, c, roots, t, s, a, D)
             start == [support |-> roots \cap {s}, undefined |-> {}]
             Turned(S, acc) == Heed(acc, LastById(S), c, roots, t, s, a, D)
             Body(g) == [S \in SUBSET P |->
                           IF S = {} THEN start ELSE Turned(S, g[S \ {LastById(S)}])]
             after == CHOOSE g : g = Body(g)
             judged == [S \in SUBSET P |-> J(S)]
  <1>1. QuorumDecide(P, c, roots, t, s, a, D)
          = [met |-> Cardinality(after[P].support) >= t, undefined |-> after[P].undefined]
    BY Zenon DEF QuorumDecide, Heed
  <1>2. J({}) = start
    <2>1. JudgesFirst(c, roots, t, s, a, D)
      BY JudgedEmpty, Zenon
    <2> QED
      BY <2>1, Zenon DEF JudgesFirst
  <1>3. ASSUME NEW S \in SUBSET P, S # {}
        PROVE  /\ S \ {LastById(S)} \in SUBSET P
               /\ J(S) = Turned(S, J(S \ {LastById(S)}))
    <2>1. S \in SUBSET Proofs
      OBVIOUS
    <2> QED
      <3>1. JudgesNext(S, c, roots, t, s, a, D)
        BY <1>3, <2>1, JudgedStep, Zenon
      <3>2. S \ {LastById(S)} \in SUBSET P
        OBVIOUS
      <3> QED
        BY <3>1, <3>2, Zenon DEF JudgesNext
  <1>4. judged = Body(judged)
    <2>1. ASSUME NEW S \in SUBSET P
          PROVE  J(S) = IF S = {} THEN start ELSE Turned(S, judged[S \ {LastById(S)}])
      <3>1. CASE S = {}
        BY <1>2, <3>1, Zenon
      <3>2. CASE S # {}
        <4>1. judged[S \ {LastById(S)}] = J(S \ {LastById(S)})
          BY <1>3, <3>2, Zenon
        <4> QED
          BY <1>3, <3>2, <4>1, Zenon
      <3> QED
        BY <3>1, <3>2, Zenon
    <2> HIDE DEF J, Turned, start
    <2> QED
      BY <2>1, Zenon
  <1>5. after = Body(after)
    BY <1>4, Zenon
  <1> HIDE DEF after, J, Turned, start
  <1>6. /\ {} \in SUBSET P => after[{}] = start
        /\ \A S \in SUBSET P : S # {} => after[S] = Turned(S, after[S \ {LastById(S)}])
    BY <1>5, Zenon
  <1> DEFINE Bad == {n \in Nat : \E S \in SUBSET P : Cardinality(S) = n /\ after[S] # J(S)}
  <1>7. \A S \in SUBSET P : IsFiniteSet(S) /\ Cardinality(S) \in Nat
    <2>1. \A S \in SUBSET P : S \subseteq Proofs
      OBVIOUS
    <2> QED
      BY <2>1, ProofsAssumption, FS_Subset, FS_CardinalityType, Zenon
  <1>8. Bad = {}
    <2>1. SUFFICES ASSUME Bad # {} PROVE FALSE
      OBVIOUS
    <2>2. PICK n \in Bad : \A m \in Bad : n <= m
      BY <2>1, LeastNatural, Zenon
    <2>3. PICK S \in SUBSET P : Cardinality(S) = n /\ after[S] # J(S)
      BY <2>2
    <2>4. S # {}
      BY <1>2, <1>6, <2>3, Zenon
    <2> DEFINE R == S \ {LastById(S)}
    <2>5. R \in SUBSET P /\ J(S) = Turned(S, J(R))
      BY <1>3, <2>4, Zenon
    <2>6. LastById(S) \in S
      BY <2>4, LastFacts
    <2>7. Cardinality(R) = n - 1
      BY <1>7, <2>3, <2>6, FS_RemoveElement, Zenon
    <2>8. Cardinality(R) \in Nat /\ n \in Nat
      BY <1>7, <2>2, <2>5, Zenon
    <2>9. Cardinality(R) \notin Bad
      <3> HIDE DEF R, Bad
      <3> QED
        BY <2>2, <2>7, <2>8
    <2>10. after[R] = J(R)
      BY <2>5, <2>8, <2>9, Zenon
    <2> QED
      BY <1>6, <2>3, <2>4, <2>5, <2>10, Zenon
  <1>9. after[P] = J(P)
    <2>1. P \in SUBSET P /\ Cardinality(P) \in Nat
      BY <1>7
    <2> QED
      BY <1>8, <2>1, Zenon
  <1> QED
    BY <1>1, <1>9, Zenon DEF J

DecidesWell(P, c, roots, t, s, a, D) ==
    LET answer == QuorumDecide(P, c, roots, t, s, a, D)
    IN  /\ answer.met = QuorumMet(P, c, roots, t, s, a, D)
        /\ ~answer.met => answer.undefined = QuorumUndefined(P, c, roots, t, s, a, D)
ExpandsWell(P, c, roots, t, a, D) ==
    AuthorizedSubjects(P, c, roots, t, a, D)
      = {s \in Keys : QuorumMet(P, c, roots, t, s, a, D)}

(* `capability_quorum_decide_if` meets exactly the quorums that the         *)
(* evidence meets and, where it does not, names exactly the definitions     *)
(* whose absence cut a walk short.                                          *)
LEMMA DecisionExact ==
    ASSUME NEW P \in SUBSET Proofs, NEW c, NEW roots, IsFiniteSet(roots),
           NEW t \in Nat, NEW s, NEW a, NEW D
    PROVE  DecidesWell(P, c, roots, t, s, a, D)
  <1> DEFINE answer == QuorumDecide(P, c, roots, t, s, a, D)
             J == Judged(P, c, roots, t, s, a, D)
             H == Heeded(P, c, roots, t, s, a, D)
             Met(T) == Cardinality(Support(T, c, roots, s, a, D)) >= t
  <1>0. \A x, y : /\ [met |-> x, undefined |-> y].met = x
                  /\ [met |-> x, undefined |-> y].undefined = y
    OBVIOUS
  <1>1. CASE ~Canonical(roots, s, t)
    <2>1. answer = [met |-> FALSE, undefined |-> {}]
      BY <1>1, Zenon DEF QuorumDecide
    <2>2. QuorumMet(P, c, roots, t, s, a, D) = FALSE
      BY <1>1, Zenon DEF QuorumMet
    <2>3. QuorumUndefined(P, c, roots, t, s, a, D) = {}
      BY <1>1, Zenon DEF QuorumUndefined
    <2> HIDE DEF answer
    <2>4. answer.met = FALSE /\ answer.undefined = {}
      BY <1>0, <2>1, Zenon
    <2> QED
      BY <2>2, <2>3, <2>4, Zenon DEF answer, DecidesWell
  <1>2. CASE Canonical(roots, s, t)
    <2>1. answer = [met |-> Cardinality(J.support) >= t, undefined |-> J.undefined]
      BY <1>2, DecisionFinds, Zenon
    <2>2. J.support = Support(H, c, roots, s, a, D) /\ J.undefined = Told(H, c, roots, s, a, D)
      BY Zenon DEF Judged, Full
    <2>3. H \subseteq P /\ (~Met(P) => H = P) /\ (Met(P) <=> Met(H))
      BY HeededFacts, Zenon
    <2>b. \A T : Met(T) \in BOOLEAN
      OBVIOUS
    <2>4. QuorumMet(P, c, roots, t, s, a, D) = Met(P)
      BY <1>2, <2>b, Zenon DEF QuorumMet
    <2>5. QuorumUndefined(P, c, roots, t, s, a, D) = Told(P, c, roots, s, a, D)
      BY <1>2, Zenon DEF QuorumUndefined, Told
    <2> HIDE DEF answer, J, H
    <2>6. answer.met = Met(H) /\ answer.undefined = Told(H, c, roots, s, a, D)
      BY <1>0, <2>1, <2>2, Zenon
    <2>7. answer.met = QuorumMet(P, c, roots, t, s, a, D)
      BY <2>3, <2>4, <2>6, <2>b, Zenon
    <2>8. ~answer.met => answer.undefined = QuorumUndefined(P, c, roots, t, s, a, D)
      BY <2>3, <2>5, <2>6, Zenon
    <2> QED
      BY <2>7, <2>8, Zenon DEF answer, DecidesWell
  <1> QED
    BY <1>1, <1>2, Zenon

(* The principals a policy is expanded to are those whose quorum is met:    *)
(* every share that reaches a subject comes from a root of its own.         *)
LEMMA AudienceExact ==
    ASSUME NEW P \in SUBSET Proofs, NEW c, NEW roots, roots \subseteq Keys, IsFiniteSet(roots),
           NEW t \in Nat \ {0}, NEW a, NEW D
    PROVE  ExpandsWell(P, c, roots, t, a, D)
  <1>e. ASSUME NEW p \in Proofs, NEW k \in DOMAIN p.edges
        PROVE  p.edges[k].delegate \in Principals
    <2>1. p.edges \in Seq([capability : Definitions, delegate : Principals, signed : BOOLEAN])
      BY ProofsAssumption, Zenon
    <2>2. \A T : \A q \in Seq(T) : \A j \in DOMAIN q : q[j] \in T
      OBVIOUS
    <2>3. p.edges[k] \in [capability : Definitions, delegate : Principals, signed : BOOLEAN]
      BY <2>1, <2>2, Zenon
    <2> QED
      BY <2>3
  <1> DEFINE walkable(p) == {k \in DOMAIN p.edges : \A i \in 1 .. k : Passes(p, i, D)}
             given(p) == {<<p.edges[k].delegate, p.root>> :
                            k \in {i \in walkable(p) : a \in Invokes[Handed(p, i)]}}
             shares == {<<r, r>> : r \in roots} \cup UNION {given(p) : p \in Bearing(P, c, roots)}
             usable == roots \subseteq Principals /\ Cardinality(roots) >= t
             Of(s) == {h \in shares : h[1] = s}
             Sup(s) == Support(P, c, roots, s, a, D)
  <1>1. AuthorizedSubjects(P, c, roots, t, a, D)
          = IF ~(roots \subseteq Principals) \/ Cardinality(roots) < t THEN {}
            ELSE {s \in Keys : Cardinality(Of(s)) >= t}
    BY Zenon DEF AuthorizedSubjects
  <1>2. Cardinality(roots) \in Nat /\ t \in Nat
    BY FS_CardinalityType
  <1>3. CASE ~usable
    <2>1. ~(roots \subseteq Principals) \/ Cardinality(roots) < t
      BY <1>2, <1>3
    <2>2. \A s : ~QuorumMet(P, c, roots, t, s, a, D)
      BY <1>3, Zenon DEF QuorumMet, Canonical
    <2> QED
      BY <1>1, <2>1, <2>2, Zenon DEF ExpandsWell
  <1>4. CASE usable
    <2>0. ~(~(roots \subseteq Principals) \/ Cardinality(roots) < t)
      BY <1>2, <1>4
    <2>1. ASSUME NEW s \in Keys
          PROVE  /\ Of(s) = {<<s, r>> : r \in Sup(s)}
                 /\ Of(s) # {} => s \in Principals
      <3>1. ASSUME NEW h \in Of(s)
            PROVE  s \in Principals /\ \E r \in Sup(s) : h = <<s, r>>
        <4>1. h \in shares /\ h[1] = s
          OBVIOUS
        <4>2. CASE h \in {<<r, r>> : r \in roots}
          <5>1. PICK r \in roots : h = <<r, r>>
            BY <4>2
          <5>2. r = s
            BY <4>1, <5>1
          <5> QED
            BY <1>4, <5>1, <5>2, Zenon DEF Support
        <4>3. CASE h \in UNION {given(p) : p \in Bearing(P, c, roots)}
          <5>1. PICK p \in Bearing(P, c, roots) : h \in given(p)
            BY <4>3, Zenon
          <5>2. PICK k \in walkable(p) :
                   a \in Invokes[Handed(p, k)] /\ h = <<p.edges[k].delegate, p.root>>
            BY <5>1, Zenon
          <5>3. p.edges[k].delegate = s
            BY <4>1, <5>2
          <5>4. p \in Proofs /\ p.root \in roots
            BY <5>1, Zenon DEF Bearing
          <5>5. k \in DOMAIN p.edges /\ \A i \in 1 .. k : Passes(p, i, D)
            BY <5>2, Zenon
          <5>6. Supports(p, s, a, D)
            BY <5>2, <5>3, <5>5, Zenon DEF Supports
          <5>7. p.root \in Sup(s)
            BY <5>1, <5>4, <5>6, Zenon DEF Support
          <5>8. s \in Principals
            BY <1>e, <5>3, <5>4, <5>5, Zenon
          <5> QED
            BY <5>2, <5>3, <5>7, <5>8, Zenon
        <4> QED
          BY <4>1, <4>2, <4>3, Zenon
      <3>2. ASSUME NEW r \in Sup(s)
            PROVE  <<s, r>> \in shares
        <4>1. r \in roots /\ (r = s \/ \E p \in Bearing(P, c, roots) :
                                           p.root = r /\ Supports(p, s, a, D))
          BY Zenon DEF Support
        <4>2. CASE r = s
          BY <4>1, <4>2, Zenon
        <4>3. CASE r # s
          <5>1. PICK p \in Bearing(P, c, roots) : p.root = r /\ Supports(p, s, a, D)
            BY <4>1, <4>3, Zenon
          <5>2. PICK k \in DOMAIN p.edges : /\ \A i \in 1 .. k : Passes(p, i, D)
                                            /\ p.edges[k].delegate = s
                                            /\ a \in Invokes[Handed(p, k)]
            BY <5>1, Zenon DEF Supports
          <5>3. k \in {i \in walkable(p) : a \in Invokes[Handed(p, i)]}
            BY <5>2, Zenon
          <5>4. <<s, r>> \in given(p)
            BY <5>1, <5>2, <5>3, Zenon
          <5> HIDE DEF given
          <5> QED
            BY <5>1, <5>4
        <4> QED
          BY <4>2, <4>3, Zenon
      <3>3. \A r : <<s, r>>[1] = s
        OBVIOUS
      <3> HIDE DEF shares, Sup
      <3>4. Of(s) \subseteq {<<s, r>> : r \in Sup(s)}
        BY <3>1, Zenon
      <3>5. {<<s, r>> : r \in Sup(s)} \subseteq Of(s)
        BY <3>2, <3>3, Zenon
      <3>6. Of(s) # {} => s \in Principals
        BY <3>1, Zenon
      <3> HIDE DEF Of
      <3> QED
        BY <3>4, <3>5, <3>6
    <2>2. ASSUME NEW s \in Keys
          PROVE  Cardinality(Of(s)) = Cardinality(Sup(s))
      <3> DEFINE f == [r \in Sup(s) |-> <<s, r>>]
      <3>1. Sup(s) \subseteq roots
        BY Zenon DEF Support
      <3>2. IsFiniteSet(Sup(s))
        BY <3>1, FS_Subset, Zenon
      <3>3. Of(s) = {<<s, r>> : r \in Sup(s)}
        BY <2>1, Zenon
      <3> HIDE DEF Sup, Of
      <3>4. f \in Bijection(Sup(s), Of(s))
        <4>1. f \in [Sup(s) -> Of(s)]
          BY <3>3
        <4>2. \A x, y \in Sup(s) : f[x] = f[y] => x = y
          OBVIOUS
        <4>3. \A h \in Of(s) : \E r \in Sup(s) : f[r] = h
          BY <3>3
        <4> HIDE DEF f
        <4> QED
          BY <4>1, <4>2, <4>3 DEF Bijection, Injection, Surjection, IsInjective
      <3> QED
        BY <3>2, <3>4, FS_Bijection, Zenon DEF ExistsBijection
    <2>3. ASSUME NEW s \in Keys
          PROVE  Cardinality(Of(s)) >= t <=> QuorumMet(P, c, roots, t, s, a, D)
      <3>1. Cardinality({}) = 0 /\ ~(0 >= t)
        BY <1>2, FS_EmptySet
      <3>2. Cardinality(Of(s)) >= t => s \in Principals
        BY <2>1, <3>1, Zenon
      <3> HIDE DEF Of
      <3> QED
        BY <1>4, <2>2, <3>2, Zenon DEF QuorumMet, Canonical
    <2> QED
      BY <1>1, <2>0, <2>3, Zenon DEF ExpandsWell
  <1> QED
    BY <1>3, <1>4, Zenon

(* The decision loop, with its early exits and its skipped proofs, counts   *)
(* each root once and stops where the declarative walk stops; and the       *)
(* audience is whom it admits (`capability_quorum_decide_if`,               *)
(* `capability_quorum_authorized_subjects_if`), for all proofs, chains and  *)
(* policies.                                                                *)
THEOREM DecisionsExact == EvidenceSpec => []DecisionIsExact
  <1>1. ASSUME ProofsAreProofs PROVE DecisionIsExact
    <2>0. proofs \in SUBSET Proofs
      BY <1>1 DEF ProofsAreProofs
    <2>1. ASSUME NEW q \in Quorums
          PROVE  /\ q[1] \in Collections /\ q[2].roots \subseteq Keys /\ IsFiniteSet(q[2].roots)
                 /\ q[2].threshold \in Nat \ {0}
      BY PoliciesAssumption DEF Quorums
    <2>2. ASSUME NEW q \in Quorums, NEW s \in Keys
          PROVE  DecidesWell(proofs, q[1], q[2].roots, q[2].threshold, s, WRITE, blobs)
      <3>1. q[2].threshold \in Nat
        BY <2>1
      <3> QED
        BY <2>0, <2>1, <3>1, DecisionExact, Zenon
    <2>3. ASSUME NEW q \in Quorums
          PROVE  ExpandsWell(proofs, q[1], q[2].roots, q[2].threshold, WRITE, blobs)
      BY <2>0, <2>1, AudienceExact, Zenon
    <2>4. DecisionIsQuorum
      BY <2>2, Zenon DEF DecisionIsQuorum, DecidesWell
    <2>5. AudienceIsTheAdmitted
      BY <2>2, <2>3, Zenon DEF AudienceIsTheAdmitted, DecidesWell, ExpandsWell
    <2> QED
      BY <2>4, <2>5 DEF DecisionIsExact
  <1> QED
    BY <1>1, ProofsArrive, PTL

=============================================================================
