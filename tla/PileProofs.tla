----------------------------- MODULE PileProofs -----------------------------
(***************************************************************************)
(* What is proved about a pile, for every number of handles, every set of  *)
(* records of any size and every schedule of appends, replays,             *)
(* amputations, crashes and power failures.  Here: the replay and the      *)
(* handles.  IndInv says that every handle stands at an offset that a      *)
(* replay of the whole file visits, and that its index is what that replay *)
(* has found there; from it the index, the durability of a clean handle    *)
(* and the permanence of applied bytes.  What is known of the records in   *)
(* the file is in module PileRecordProofs.                                 *)
(*                                                                         *)
(* A replay is recursive (`Starts`).  The proofs reason about the set of   *)
(* offsets it visits, the least one closed under reading a record, and     *)
(* `StartsAreFound` shows that this is what the recursion computes.        *)
(***************************************************************************)
EXTENDS Pile, WellFoundedInduction, TLAPS

CellSet == [rec : PileRecords, part : Nat \ {0}]
Files == Seq(CellSet)

(* A set of naturals that is not empty has a least element.  This is how an *)
(* induction is done here: on the least counterexample.                     *)
LEMMA LeastElement ==
  ASSUME NEW T \in SUBSET Nat, T # {}
  PROVE  \E x \in T : \A y \in T : x <= y
  <1> DEFINE R == OpToRel(<, Nat)
  <1>1. \A x, y \in Nat : x < y => <<x, y>> \in R
    BY DEF OpToRel
  <1>2. IsWellFoundedOn(R, Nat)
    BY NatLessThanWellFounded, Zenon
  <1> HIDE DEF R
  <1>3. PICK x \in T : \A y \in T : ~(<<y, x>> \in R)
    BY <1>2, WFMin, Zenon
  <1>4. \A y \in T : ~(y < x)
    BY <1>1, <1>3, Zenon
  <1>5. \A y \in T : x <= y
    BY <1>4
  <1> QED
    BY <1>5

-----------------------------------------------------------------------------
(* Decoding *)

Offsets(f) == 1 .. Len(f) + 1
Beyond(f, x) == x + Size[f[x].rec]

(* What a replay that starts at o visits: every set that holds o and, with a *)
(* record, the offset after it.                                              *)
Closed(f, C) == \A x \in C : Decodes(f, x) => Beyond(f, x) \in C
Visited(f, o) ==
  {x \in Offsets(f) : \A C \in SUBSET Offsets(f) : o \in C /\ Closed(f, C) => x \in C}
Found(f, o) == {x \in Visited(f, o) : Decodes(f, x)}

(* An offset of a file, and the record that decodes there. *)
LEMMA FileFacts ==
  ASSUME NEW f \in Files, NEW x \in Offsets(f)
  PROVE  /\ Len(f) \in Nat /\ x \in Nat \ {0}
         /\ Decodes(f, x) => /\ x \in 1 .. Len(f) /\ f[x] \in CellSet /\ f[x].rec \in PileRecords
                             /\ Size[f[x].rec] \in Nat \ {0, 1}
                             /\ Beyond(f, x) \in Offsets(f) /\ Beyond(f, x) > x + 1
  <1>1. Len(f) \in Nat
    BY DEF Files
  <1>2. ASSUME Decodes(f, x)
        PROVE  /\ x \in 1 .. Len(f) /\ f[x] \in CellSet /\ f[x].rec \in PileRecords
               /\ Size[f[x].rec] \in Nat \ {0, 1}
               /\ x + Size[f[x].rec] - 1 <= Len(f)
    <2>1. x \in 1 .. Len(f) /\ x + Size[f[x].rec] - 1 <= Len(f)
      BY <1>1, <1>2 DEF Decodes, Offsets
    <2>2. f[x] \in CellSet
      BY <2>1 DEF Files
    <2>3. f[x].rec \in PileRecords
      BY <2>2 DEF CellSet
    <2>4. Size[f[x].rec] \in Nat \ {0, 1}
      BY <2>3, RecordsAssumption
    <2> QED
      BY <2>1, <2>2, <2>3, <2>4
  <1> QED
    BY <1>1, <1>2 DEF Offsets, Beyond

(* One step of a replay. *)
LEMMA FoundUnfolds ==
  ASSUME NEW f \in Files, NEW x \in Offsets(f)
  PROVE  Found(f, x) = IF Decodes(f, x) THEN {x} \cup Found(f, Beyond(f, x)) ELSE {}
  <1>1. CASE ~Decodes(f, x)
    <2>1. {x} \in SUBSET Offsets(f) /\ Closed(f, {x})
      BY <1>1 DEF Closed
    <2>2. \A y \in Visited(f, x) : y = x
      BY <2>1 DEF Visited
    <2> QED
      BY <1>1, <2>2 DEF Found
  <1>2. CASE Decodes(f, x)
    <2> DEFINE n == Beyond(f, x)
    <2>1. n \in Offsets(f)
      BY <1>2, FileFacts
    <2> HIDE DEF n
    <2>2. x \in Found(f, x)
      BY <1>2 DEF Found, Visited
    <2>3. Visited(f, n) \subseteq Visited(f, x)
      BY <1>2 DEF Visited, Closed, n
    <2>4. ASSUME NEW y \in Visited(f, x), y # x
          PROVE  y \in Visited(f, n)
      <3>1. SUFFICES ASSUME NEW C \in SUBSET Offsets(f), n \in C, Closed(f, C)
                     PROVE  y \in C
        BY DEF Visited
      <3>2. C \cup {x} \in SUBSET Offsets(f) /\ Closed(f, C \cup {x})
        BY <3>1 DEF Closed, n
      <3>3. y \in C \cup {x}
        BY <3>2 DEF Visited
      <3> QED
        BY <2>4, <3>3
    <2> QED
      BY <1>2, <2>2, <2>3, <2>4 DEF Found, n
  <1> QED
    BY <1>1, <1>2

(* A replay applies the records it visits. *)
LEMMA StartsAreFound ==
  ASSUME NEW f \in Files, NEW o \in Offsets(f)
  PROVE  Starts(f, o) = Found(f, o)
  <1> DEFINE Body(g) == [i \in Offsets(f) |->
                           IF Decodes(f, i) THEN {i} \cup g[Beyond(f, i)] ELSE {}]
             from == CHOOSE g : g = Body(g)
             found == [i \in Offsets(f) |-> Found(f, i)]
  <1>1. Starts(f, o) = from[o]
    BY DEF Starts, Offsets, Beyond
  <1>2. found = Body(found)
    <2>1. ASSUME NEW i \in Offsets(f)
          PROVE  Found(f, i) = IF Decodes(f, i) THEN {i} \cup found[Beyond(f, i)] ELSE {}
      BY FileFacts, FoundUnfolds
    <2> QED
      BY <2>1
  <1>3. from = Body(from)
    BY <1>2, Zenon
  <1> HIDE DEF from
  <1>4. ASSUME NEW i \in Offsets(f)
        PROVE  from[i] = IF Decodes(f, i) THEN {i} \cup from[Beyond(f, i)] ELSE {}
    BY <1>3
  <1> DEFINE T == {k \in 0 .. Len(f) : from[Len(f) + 1 - k] # Found(f, Len(f) + 1 - k)}
  <1>5. T = {}
    <2>1. SUFFICES ASSUME T # {} PROVE FALSE
      OBVIOUS
    <2>2. T \in SUBSET Nat
      BY FileFacts
    <2>3. PICK k \in T : \A l \in T : k <= l
      BY <2>1, <2>2, LeastElement, Zenon
    <2> DEFINE i == Len(f) + 1 - k
    <2>4. /\ k \in 0 .. Len(f) /\ Len(f) \in Nat /\ i \in Offsets(f)
          /\ from[i] # Found(f, i)
      BY <2>3, FileFacts DEF Offsets
    <2>5. Decodes(f, i)
      BY <1>4, <2>4, FoundUnfolds, Zenon
    <2> DEFINE n == Beyond(f, i)
    <2>6. n \in Offsets(f) /\ n > i /\ n \in Nat
      <3> HIDE DEF i
      <3>1. n \in Offsets(f) /\ n > i + 1 /\ i \in Nat
        BY <2>4, <2>5, FileFacts
      <3> HIDE DEF n
      <3> QED
        BY <2>4, <3>1 DEF Offsets
    <2> DEFINE l == Len(f) + 1 - n
    <2>7. l \in 0 .. Len(f) /\ l < k /\ Len(f) + 1 - l = n
      BY <2>4, <2>6 DEF Offsets
    <2>8. l \notin T
      BY <2>3, <2>7
    <2> HIDE DEF l, n, i
    <2>9. from[n] = Found(f, n)
      BY <2>7, <2>8
    <2> QED
      BY <1>4, <2>4, <2>5, <2>9, FoundUnfolds, Zenon DEF n
  <1>6. Len(f) + 1 - o \in 0 .. Len(f) /\ Len(f) + 1 - (Len(f) + 1 - o) = o
    BY FileFacts DEF Offsets
  <1>7. from[o] = Found(f, o)
    <2>1. Len(f) + 1 - o \notin T
      BY <1>5
    <2> QED
      BY <1>6, <2>1
  <1> QED
    BY <1>1, <1>7

(* A replay visits where it starts and, with a record, the offset after it; *)
(* it never goes back.                                                      *)
LEMMA VisitedFacts ==
  ASSUME NEW f \in Files, NEW o \in Offsets(f)
  PROVE  /\ o \in Visited(f, o) /\ Visited(f, o) \subseteq Offsets(f)
         /\ \A x \in Visited(f, o) : o <= x /\ (Decodes(f, x) => Beyond(f, x) \in Visited(f, o))
  <1>1. o \in Visited(f, o) /\ Visited(f, o) \subseteq Offsets(f)
    BY DEF Visited
  <1>2. ASSUME NEW x \in Visited(f, o), Decodes(f, x)
        PROVE  Beyond(f, x) \in Visited(f, o)
    <2>1. x \in Offsets(f) /\ Beyond(f, x) \in Offsets(f)
      BY <1>1, <1>2, FileFacts
    <2> QED
      BY <1>2, <2>1 DEF Visited, Closed
  <1> DEFINE C == {y \in Offsets(f) : o <= y}
  <1>3. C \in SUBSET Offsets(f) /\ o \in C
    BY FileFacts DEF Offsets
  <1>4. Closed(f, C)
    <2>1. ASSUME NEW y \in C, Decodes(f, y)
          PROVE  Beyond(f, y) \in C
      <3>1. Beyond(f, y) \in Offsets(f) /\ Beyond(f, y) > y + 1 /\ y \in Nat /\ o \in Nat
        BY <2>1, FileFacts
      <3>2. Beyond(f, y) \in Nat
        BY <3>1, FileFacts, Zenon
      <3> QED
        BY <2>1, <3>1, <3>2
    <2> QED
      BY <2>1 DEF Closed
  <1> HIDE DEF C
  <1>5. Visited(f, o) \subseteq C
    BY <1>3, <1>4 DEF Visited
  <1> QED
    BY <1>1, <1>2, <1>5 DEF C

(* A replay goes from each record to the next. *)
LEMMA ChainFacts ==
  ASSUME NEW f \in Files, NEW o \in Offsets(f)
  PROVE  \A x, y \in Visited(f, o) : x < y => Decodes(f, x) /\ Beyond(f, x) <= y
  <1> DEFINE V == Visited(f, o)
             Past(y) == \A x \in V : x < y => Decodes(f, x) /\ Beyond(f, x) <= y
             C == {y \in V : Past(y)}
  <1>1. /\ o \in V /\ V \subseteq Offsets(f)
        /\ \A x \in V : o <= x /\ (Decodes(f, x) => Beyond(f, x) \in V)
    BY VisitedFacts
  <1>2. \A x \in V : x \in Nat /\ (Decodes(f, x) => Beyond(f, x) \in Nat /\ Beyond(f, x) > x)
    <2>1. ASSUME NEW x \in V
          PROVE  x \in Nat /\ (Decodes(f, x) => Beyond(f, x) \in Nat /\ Beyond(f, x) > x)
      <3>1. x \in Offsets(f) /\ x \in Nat
        BY <1>1, FileFacts
      <3>2. CASE Decodes(f, x)
        <4>1. Beyond(f, x) \in Offsets(f) /\ Beyond(f, x) > x + 1
          BY <3>1, <3>2, FileFacts
        <4>2. Beyond(f, x) \in Nat
          BY <4>1, FileFacts
        <4> QED
          BY <3>1, <4>1, <4>2
      <3> QED
        BY <3>1, <3>2
    <2> QED
      BY <2>1
  <1>0. ASSUME NEW D \in SUBSET V, o \in D, Closed(f, D)
        PROVE  V = D
    BY <1>0, <1>1 DEF Visited
  <1> HIDE DEF V
  <1>3. o \in C
    BY <1>1, <1>2
  <1>4. ASSUME NEW y \in C, Decodes(f, y)
        PROVE  Beyond(f, y) \in C
    <2> DEFINE n == Beyond(f, y)
               D == {x \in V : x <= y \/ n <= x}
    <2>1. y \in V /\ n \in V /\ y \in Nat /\ n \in Nat /\ y < n
      BY <1>1, <1>2, <1>4
    <2>2. o \in D /\ D \in SUBSET V
      BY <1>1, <2>1
    <2>3. ASSUME NEW x \in D, Decodes(f, x)
          PROVE  Beyond(f, x) \in D
      <3>1. x \in V /\ Beyond(f, x) \in V /\ x \in Nat /\ Beyond(f, x) \in Nat /\ x < Beyond(f, x)
        BY <1>1, <1>2, <2>3
      <3>2. CASE x < y
        BY <1>4, <3>1, <3>2
      <3>3. CASE x = y
        BY <2>1, <3>1, <3>3
      <3>4. CASE n <= x
        BY <2>1, <3>1, <3>4
      <3> QED
        BY <2>1, <2>3, <3>1, <3>2, <3>3, <3>4
    <2>4. V = D
      BY <1>0, <2>2, <2>3, Zenon DEF Closed
    <2>5. ASSUME NEW x \in V, x < n
          PROVE  Decodes(f, x) /\ Beyond(f, x) <= n
      <3>1. x <= y /\ x \in Nat
        BY <1>2, <2>1, <2>4, <2>5
      <3>2. CASE x = y
        BY <1>4, <2>1, <3>2
      <3>3. CASE x < y
        BY <1>2, <1>4, <2>1, <3>3
      <3> QED
        BY <2>1, <3>1, <3>2, <3>3
    <2> QED
      BY <2>1, <2>5
  <1>5. V = C
    BY <1>0, <1>3, <1>4, Zenon DEF Closed
  <1> QED
    BY <1>5 DEF V

(* A replay that is resumed goes on as if it had not stopped. *)
LEMMA ResumeFacts ==
  ASSUME NEW f \in Files, NEW o \in Offsets(f), NEW a \in Visited(f, o)
  PROVE  a \in Offsets(f) /\ Visited(f, a) = {x \in Visited(f, o) : a <= x}
  <1>1. a \in Offsets(f)
    BY DEF Visited
  <1>2. Visited(f, a) \subseteq Visited(f, o)
    BY DEF Visited
  <1>3. \A x \in Visited(f, a) : a <= x
    BY <1>1, VisitedFacts
  <1>4. ASSUME NEW x \in Visited(f, o), a <= x
        PROVE  x \in Visited(f, a)
    <2>1. SUFFICES ASSUME NEW C \in SUBSET Offsets(f), a \in C, Closed(f, C)
                   PROVE  x \in C
      BY DEF Visited
    <2> DEFINE B == {y \in Visited(f, o) : y < a}
               D == C \cup B
    <2>2. /\ o \in Visited(f, o) /\ Visited(f, o) \subseteq Offsets(f)
          /\ \A y \in Visited(f, o) : o <= y /\ (Decodes(f, y) => Beyond(f, y) \in Visited(f, o))
      BY VisitedFacts
    <2>3. o \in Nat /\ a \in Nat /\ x \in Nat /\ \A y \in Visited(f, o) : y \in Nat
      BY <1>1, <2>2, FileFacts, Zenon
    <2>4. o \in D /\ D \in SUBSET Offsets(f)
      <3>1. o = a \/ o < a
        BY <2>2, <2>3
      <3> QED
        BY <2>1, <2>2, <3>1, Zenon
    <2>5. ASSUME NEW y \in B, Decodes(f, y)
          PROVE  Beyond(f, y) \in D
      <3>1. Beyond(f, y) \in Visited(f, o) /\ Beyond(f, y) <= a
        BY <2>2, <2>5, ChainFacts
      <3> DEFINE n == Beyond(f, y)
      <3>2. n \in Nat
        BY <2>3, <3>1, Zenon
      <3> HIDE DEF n
      <3>3. n = a \/ n < a
        <4>1. n <= a
          BY <3>1 DEF n
        <4> QED
          BY <2>3, <3>2, <4>1
      <3> QED
        BY <2>1, <3>1, <3>3, Zenon DEF n
    <2>6. Closed(f, D)
      BY <2>1, <2>5 DEF Closed
    <2>7. x \in D
      BY <2>4, <2>6 DEF Visited
    <2> QED
      BY <1>4, <2>3, <2>7
  <1> QED
    BY <1>1, <1>2, <1>3, <1>4

(* The cells of f are the first ones of g. *)
Begins(f, g) == Len(f) <= Len(g) /\ \A i \in 1 .. Len(f) : f[i] = g[i]

(* What is decoded before the end of a file does not depend on what follows. *)
LEMMA PrefixFacts ==
  ASSUME NEW f \in Files, NEW g \in Files, Begins(f, g), NEW o \in Offsets(f)
  PROVE  /\ Offsets(f) \subseteq Offsets(g)
         /\ \A x \in Offsets(f) :
              /\ x \in Visited(f, o) <=> x \in Visited(g, o)
              /\ Decodes(f, x) => Decodes(g, x) /\ Beyond(f, x) = Beyond(g, x)
              /\ Decodes(g, x) /\ Beyond(g, x) \in Offsets(f) => Decodes(f, x)
  <1>1. Len(f) \in Nat /\ Len(g) \in Nat
    BY DEF Files
  <1>2. Offsets(f) \subseteq Offsets(g) /\ o \in Offsets(g)
    BY <1>1 DEF Begins, Offsets
  <1>3. ASSUME NEW x \in Offsets(f), Decodes(f, x)
        PROVE  Decodes(g, x) /\ Beyond(f, x) = Beyond(g, x)
    <2>1. x \in 1 .. Len(f) /\ Size[f[x].rec] \in Nat /\ x \in Nat
      BY <1>3, FileFacts
    <2>2. f[x] = g[x]
      BY <2>1 DEF Begins
    <2> QED
      BY <1>1, <1>3, <2>1, <2>2 DEF Decodes, Begins, Beyond
  <1>4. ASSUME NEW x \in Offsets(f), Decodes(g, x), Beyond(g, x) \in Offsets(f)
        PROVE  Decodes(f, x)
    <2>1. x \in Nat \ {0} /\ Size[g[x].rec] \in Nat \ {0, 1}
      BY <1>2, <1>4, FileFacts
    <2>2. x + Size[g[x].rec] <= Len(f) + 1
      BY <1>4 DEF Beyond, Offsets
    <2>3. x \in 1 .. Len(f)
      BY <1>1, <2>1, <2>2
    <2>4. f[x] = g[x]
      BY <2>3 DEF Begins
    <2> QED
      BY <1>1, <1>4, <2>1, <2>2, <2>3, <2>4 DEF Decodes
  <1>5. ASSUME NEW x \in Visited(f, o)
        PROVE  x \in Visited(g, o)
    <2>1. x \in Offsets(f)
      BY <1>5 DEF Visited
    <2>2. SUFFICES ASSUME NEW C \in SUBSET Offsets(g), o \in C, Closed(g, C)
                   PROVE  x \in C
      BY <1>2, <2>1 DEF Visited
    <2> DEFINE D == C \cap Offsets(f)
    <2>3. D \in SUBSET Offsets(f) /\ o \in D
      BY <2>2
    <2>4. ASSUME NEW y \in D, Decodes(f, y)
          PROVE  Beyond(f, y) \in D
      <3>1. Beyond(f, y) \in Offsets(f)
        BY <2>4, FileFacts
      <3>2. Decodes(g, y) /\ Beyond(f, y) = Beyond(g, y)
        BY <1>3, <2>4
      <3> QED
        BY <2>2, <2>4, <3>1, <3>2 DEF Closed
    <2>5. Closed(f, D)
      BY <2>4 DEF Closed
    <2> HIDE DEF D
    <2>6. x \in D
      BY <1>5, <2>3, <2>5 DEF Visited
    <2> QED
      BY <2>6 DEF D
  <1>6. ASSUME NEW x \in Visited(g, o), x \in Offsets(f)
        PROVE  x \in Visited(f, o)
    <2>1. SUFFICES ASSUME NEW C \in SUBSET Offsets(f), o \in C, Closed(f, C)
                   PROVE  x \in C
      BY <1>6 DEF Visited
    <2> DEFINE B == Offsets(g) \ Offsets(f)
               D == C \cup B
    <2>2. D \in SUBSET Offsets(g) /\ o \in D
      BY <1>2, <2>1
    <2>3. ASSUME NEW y \in D, Decodes(g, y)
          PROVE  Beyond(g, y) \in D
      <3>0. y \in Offsets(g) /\ Beyond(g, y) \in Offsets(g)
        BY <2>2, <2>3, FileFacts
      <3>1. CASE Beyond(g, y) \notin Offsets(f)
        BY <3>0, <3>1
      <3>2. CASE Beyond(g, y) \in Offsets(f)
        <4>1. y \in Offsets(f)
          <5>1. y \in Nat \ {0} /\ Beyond(g, y) > y + 1 /\ Beyond(g, y) \in Nat
            BY <2>3, <3>0, FileFacts
          <5>2. Beyond(g, y) <= Len(f) + 1
            BY <3>2 DEF Offsets
          <5> HIDE DEF D
          <5> QED
            BY <1>1, <5>1, <5>2 DEF Offsets
        <4>2. y \in C
          BY <2>3, <4>1
        <4>3. Decodes(f, y)
          BY <1>4, <2>3, <3>2, <4>1
        <4>4. Beyond(f, y) = Beyond(g, y)
          BY <1>3, <4>1, <4>3
        <4> QED
          BY <2>1, <4>2, <4>3, <4>4 DEF Closed
      <3> QED
        BY <3>1, <3>2
    <2>4. Closed(g, D)
      BY <2>3 DEF Closed
    <2> HIDE DEF D
    <2>5. x \in D
      BY <1>6, <2>2, <2>4 DEF Visited
    <2> QED
      BY <1>6, <2>5 DEF D
  <1> QED
    BY <1>2, <1>3, <1>4, <1>5, <1>6

-----------------------------------------------------------------------------
(* Where a replay ends *)

(* The greatest element of a bounded set of offsets, as `After` and a *)
(* readback use it.                                                   *)
LEMMA MaxFacts ==
  ASSUME NEW N \in Nat, NEW S \in SUBSET (0 .. N), S # {}
  PROVE  Max(S) \in S /\ \A y \in S : y <= Max(S)
  <1> DEFINE T == {n \in Nat : n <= N /\ N - n \in S}
  <1>1. T \in SUBSET Nat /\ T # {}
    <2>1. PICK y \in S : TRUE
      BY Zenon
    <2>2. N - y \in T
      OBVIOUS
    <2> QED
      BY <2>2
  <1>2. PICK k \in T : \A l \in T : k <= l
    BY <1>1, LeastElement, Zenon
  <1>3. ASSUME NEW y \in S
        PROVE  y <= N - k
    <2>1. N - y \in T /\ y \in Nat
      OBVIOUS
    <2> QED
      BY <1>2, <2>1
  <1>4. N - k \in S /\ \A y \in S : N - k >= y
    BY <1>2, <1>3
  <1> HIDE DEF T
  <1>5. Max(S) \in S /\ \A y \in S : Max(S) >= y
    BY <1>4, Zenon DEF Max
  <1> QED
    BY <1>5

(* The part of a replay before an offset it visits ends at that offset. *)
LEMMA SegmentEnds ==
  ASSUME NEW f \in Files, NEW o \in Offsets(f), NEW a \in Visited(f, o)
  PROVE  After(f, {x \in Found(f, o) : x < a}, o) = a
  <1> DEFINE S == {x \in Found(f, o) : x < a}
  <1>1. /\ o \in Visited(f, o) /\ Visited(f, o) \subseteq Offsets(f)
        /\ \A x \in Visited(f, o) : o <= x /\ (Decodes(f, x) => Beyond(f, x) \in Visited(f, o))
    BY VisitedFacts
  <1>2. o \in Nat /\ a \in Nat /\ o <= a /\ Len(f) \in Nat
    <2>1. a \in Offsets(f)
      BY <1>1
    <2> QED
      BY <1>1, <2>1, FileFacts
  <1>3. ASSUME NEW x \in Visited(f, o), x < a
        PROVE  x \in S /\ Decodes(f, x) /\ Beyond(f, x) <= a
    BY <1>3, ChainFacts DEF Found
  <1>4. CASE S = {}
    BY <1>1, <1>2, <1>3, <1>4 DEF After
  <1>5. CASE S # {}
    <2> DEFINE m == Max(S)
               n == Beyond(f, m)
    <2>1. S \in SUBSET (0 .. Len(f) + 1) /\ Len(f) + 1 \in Nat
      BY <1>1, <1>2 DEF Found, Offsets
    <2>2. m \in S /\ \A y \in S : y <= m
      <3> HIDE DEF S
      <3> QED
        BY <1>5, <2>1, MaxFacts, Zenon
    <2> HIDE DEF m
    <2>3. m \in Visited(f, o) /\ Decodes(f, m) /\ m < a /\ m \in Offsets(f)
      BY <1>1, <2>2 DEF Found
    <2>4. n \in Visited(f, o) /\ n <= a /\ n \in Offsets(f)
      BY <1>1, <1>3, <2>3
    <2>5. m \in Nat /\ n \in Nat /\ n > m
      <3>1. m \in Nat /\ n > m + 1
        BY <2>3, FileFacts
      <3>2. n \in Nat
        BY <2>4, FileFacts, Zenon
      <3> QED
        BY <3>1, <3>2
    <2> HIDE DEF n
    <2>6. ~(n < a)
      BY <1>3, <2>2, <2>4, <2>5
    <2>7. n = a
      BY <1>2, <2>4, <2>5, <2>6
    <2> QED
      BY <1>5, <2>7 DEF After, Beyond, m, n
  <1> QED
    BY <1>4, <1>5

Stop(f, o) == After(f, Starts(f, o), o)

(* A replay ends where nothing decodes, past everything it has visited. *)
LEMMA StopFacts ==
  ASSUME NEW f \in Files, NEW o \in Offsets(f)
  PROVE  /\ Stop(f, o) \in Visited(f, o) /\ ~Decodes(f, Stop(f, o))
         /\ \A x \in Visited(f, o) : x <= Stop(f, o)
         /\ Starts(f, o) = {x \in Found(f, o) : x < Stop(f, o)}
  <1> DEFINE V == Visited(f, o)
             m == Max(V)
  <1>1. /\ o \in V /\ V \subseteq Offsets(f)
        /\ \A x \in V : o <= x /\ (Decodes(f, x) => Beyond(f, x) \in V)
    BY VisitedFacts
  <1>2. Len(f) + 1 \in Nat /\ V \in SUBSET (0 .. Len(f) + 1) /\ V # {}
    <2>1. Len(f) \in Nat
      BY FileFacts
    <2> HIDE DEF V
    <2> QED
      BY <1>1, <2>1 DEF Offsets
  <1> HIDE DEF V
  <1>3. m \in V /\ \A x \in V : x <= m
    BY <1>2, MaxFacts, Zenon
  <1> HIDE DEF m
  <1>4. ~Decodes(f, m)
    <2>1. SUFFICES ASSUME Decodes(f, m) PROVE FALSE
      OBVIOUS
    <2>2. m \in Offsets(f) /\ Beyond(f, m) \in V
      BY <1>1, <1>3, <2>1
    <2>3. m \in Nat /\ Beyond(f, m) > m + 1 /\ Beyond(f, m) \in Offsets(f)
      BY <2>1, <2>2, FileFacts
    <2>4. Beyond(f, m) \in Nat
      BY <2>3, FileFacts, Zenon
    <2>5. Beyond(f, m) <= m
      BY <1>3, <2>2
    <2> QED
      BY <2>3, <2>4, <2>5
  <1>5. Found(f, o) = {x \in Found(f, o) : x < m}
    <2>1. ASSUME NEW x \in Found(f, o)
          PROVE  x < m
      <3>1. x \in V /\ Decodes(f, x)
        BY DEF Found, V
      <3>2. x <= m /\ x # m /\ x \in Nat /\ m \in Nat
        BY <1>1, <1>3, <1>4, <3>1, FileFacts
      <3> QED
        BY <3>2
    <2> QED
      BY <2>1
  <1>6. After(f, Found(f, o), o) = m
    <2>1. After(f, {x \in Found(f, o) : x < m}, o) = m
      BY <1>3, SegmentEnds DEF V
    <2> QED
      BY <1>5, <2>1, Zenon
  <1>7. Stop(f, o) = m /\ Starts(f, o) = Found(f, o)
    BY <1>6, StartsAreFound DEF Stop
  <1> QED
    BY <1>3, <1>4, <1>5, <1>7, Zenon DEF V

(* The records of a replay from the start that are before n, and what an   *)
(* index holds of them.                                                    *)
Upto(f, n) == {x \in Found(f, 1) : x < n}
Entries(f, S) == {<<f[x].rec, x>> : x \in S}

(* A replay from the start can be done in two parts. *)
LEMMA ReadOn ==
  ASSUME NEW f \in Files, NEW o \in Visited(f, 1), NEW b \in Visited(f, o)
  PROVE  LET S == {x \in Found(f, o) : x < b}
         IN  /\ o \in Offsets(f) /\ b \in Visited(f, 1) /\ o <= b
             /\ Upto(f, b) = Upto(f, o) \cup S
             /\ After(f, S, o) = b
  <1> DEFINE S == {x \in Found(f, o) : x < b}
  <1>0. 1 \in Offsets(f)
    BY DEF Offsets, Files
  <1>1. o \in Offsets(f) /\ Visited(f, o) = {x \in Visited(f, 1) : o <= x}
    BY <1>0, ResumeFacts
  <1>2. b \in Visited(f, 1) /\ o <= b
    BY <1>1
  <1>3. \A x \in Visited(f, 1) : x \in Nat
    BY <1>0, VisitedFacts, FileFacts
  <1>4. o \in Nat /\ b \in Nat
    BY <1>2, <1>3
  <1>5. Found(f, o) = {x \in Found(f, 1) : o <= x}
    BY <1>1 DEF Found
  <1>6. Upto(f, b) = Upto(f, o) \cup S
    <2>1. ASSUME NEW x \in Found(f, 1)
          PROVE  x < b <=> x < o \/ (o <= x /\ x < b)
      <3>1. x \in Nat
        BY <1>3 DEF Found
      <3> QED
        BY <1>2, <1>4, <3>1
    <2> QED
      BY <1>5, <2>1, Zenon DEF Upto
  <1>7. After(f, S, o) = b
    BY <1>1, SegmentEnds
  <1> QED
    BY <1>1, <1>2, <1>6, <1>7

(* One record more. *)
LEMMA UpToOne ==
  ASSUME NEW f \in Files, NEW o \in Offsets(f), NEW m \in Found(f, o)
  PROVE  /\ Beyond(f, m) \in Visited(f, o) /\ m < Beyond(f, m) /\ m \in Nat
         /\ {x \in Found(f, o) : x <= m} = {x \in Found(f, o) : x < Beyond(f, m)}
  <1>1. m \in Visited(f, o) /\ Decodes(f, m)
    BY DEF Found
  <1>2. Beyond(f, m) \in Visited(f, o) /\ m \in Offsets(f)
    BY <1>1, VisitedFacts
  <1>3. m \in Nat /\ m + 1 < Beyond(f, m) /\ Beyond(f, m) \in Offsets(f)
    BY <1>1, <1>2, FileFacts
  <1>4. Beyond(f, m) \in Nat
    BY <1>3, FileFacts, Zenon
  <1>5. ASSUME NEW x \in Found(f, o)
        PROVE  x <= m <=> x < Beyond(f, m)
    <2>1. x \in Visited(f, o)
      BY DEF Found
    <2>2. x \in Nat
      BY <2>1, VisitedFacts, FileFacts
    <2>3. m < x => Beyond(f, m) <= x
      BY <1>1, <2>1, ChainFacts
    <2> QED
      BY <1>3, <1>4, <2>2, <2>3
  <1>6. m < Beyond(f, m)
    BY <1>3, <1>4
  <1>7. {x \in Found(f, o) : x <= m} = {x \in Found(f, o) : x < Beyond(f, m)}
    BY <1>5, Zenon
  <1> QED
    BY <1>2, <1>3, <1>6, <1>7, Zenon

-----------------------------------------------------------------------------
(* The handles and the file *)

LockSet == {"none", "shared", "exclusive"}
StepSet == {"idle", "lock", "refresh", "append", "readback"}
OpSet == {"none", "refresh", "put", "insert", "amputate", "amputate_at", "cut"}
HandleSet ==
  [open : BOOLEAN, lock : LockSet, pc : StepSet, op : OpSet,
   rec : PileRecords \cup {"none"}, part : Nat, applied : Nat,
   index : SUBSET (PileRecords \X Nat), dirty : BOOLEAN, wrote : SUBSET Nat]

(* The handle is somewhere on the way of a replay from the start, and its  *)
(* index is what that replay has found.                                    *)
Tracks(f, s) ==
  /\ s.applied + 1 \in Visited(f, 1)
  /\ s.index = Entries(f, Upto(f, s.applied + 1))

(* What it has stored it has read back, and synced unless it is dirty. *)
WroteWell(f, n, s) ==
  \A o \in s.wrote : o \in Upto(f, s.applied + 1) /\ (s.dirty \/ Beyond(f, o) - 1 <= n)

(* What the step an operation is at says of its lock and its record. *)
Stages(s) ==
  /\ s.lock = "none" <=> s.pc \in {"idle", "lock"}
  /\ s.op = "put" => s.rec \in PileBlobs
  /\ s.op = "insert" => s.rec \in Fixed
  /\ s.pc \in {"append", "readback"} => s.op \in {"put", "insert"} /\ s.dirty
  /\ Exclusive(s.op, s.rec) => s.pc # "lock" /\ s.lock # "shared"
  /\ s.pc \in {"idle", "lock", "refresh"} => s.part = 0
  /\ s.pc = "append" => s.part < Size[s.rec]
  /\ s.pc = "readback" => s.part = Size[s.rec]

HandleOK(f, n, s) == s \in HandleSet /\ Stages(s) /\ Tracks(f, s) /\ WroteWell(f, n, s)

Globals ==
  /\ job \in PileUses /\ file \in Files /\ synced \in 0 .. Len(file)
  /\ acked \subseteq PileRecords
  /\ tears \in 0 .. job.tears /\ powers \in 0 .. job.powers

Locks(H) == \A g, h \in Handles : g # h /\ H[g].lock = "exclusive" => H[h].lock = "none"

IndInv ==
  /\ Globals /\ hs \in [Handles -> HandleSet] /\ Locks(hs)
  /\ \A h \in Handles : HandleOK(file, synced, hs[h])

(* A handle on a file is one on every file that begins with what it has    *)
(* applied.                                                                *)
LEMMA TracksPrefix ==
  ASSUME NEW f \in Files, NEW g \in Files, Begins(f, g), NEW n \in Offsets(f)
  PROVE  /\ Upto(f, n) = Upto(g, n) \/ n \notin Visited(f, 1)
         /\ n \in Visited(f, 1) <=> n \in Visited(g, 1)
         /\ n \in Visited(f, 1) => Entries(f, Upto(f, n)) = Entries(g, Upto(g, n))
         /\ \A x \in Upto(f, n) : f[x] = g[x] /\ Beyond(f, x) = Beyond(g, x)
         /\ Found(f, 1) \subseteq Found(g, 1)
  <1>0. 1 \in Offsets(f) /\ 1 \in Offsets(g) /\ Len(f) \in Nat /\ Len(g) \in Nat
    BY DEF Offsets, Files
  <1>1. /\ Offsets(f) \subseteq Offsets(g)
        /\ \A x \in Offsets(f) :
              /\ x \in Visited(f, 1) <=> x \in Visited(g, 1)
              /\ Decodes(f, x) => Decodes(g, x) /\ Beyond(f, x) = Beyond(g, x)
              /\ Decodes(g, x) /\ Beyond(g, x) \in Offsets(f) => Decodes(f, x)
    BY <1>0, PrefixFacts
  <1>2. \A x \in Found(f, 1) : x \in Offsets(f) /\ x \in Visited(f, 1) /\ Decodes(f, x)
    BY DEF Found, Visited
  <1>3. Found(f, 1) \subseteq Found(g, 1)
    BY <1>1, <1>2 DEF Found
  <1>4. ASSUME NEW x \in Found(f, 1)
        PROVE  f[x] = g[x] /\ Beyond(f, x) = Beyond(g, x)
    <2>1. x \in 1 .. Len(f)
      BY <1>2, FileFacts
    <2> QED
      BY <1>1, <1>2, <2>1 DEF Begins
  <1>5. ASSUME n \in Visited(f, 1)
        PROVE  Upto(f, n) = Upto(g, n)
    <2>1. ASSUME NEW x \in Found(g, 1), x < n
          PROVE  x \in Found(f, 1)
      <3>1. x \in Visited(g, 1) /\ Decodes(g, x) /\ x \in Offsets(g) /\ n \in Visited(g, 1)
        BY <1>1, <1>5 DEF Found, Visited
      <3>2. Beyond(g, x) <= n
        BY <1>0, <2>1, <3>1, ChainFacts
      <3>3. /\ x \in Nat \ {0} /\ Beyond(g, x) > x + 1 /\ Beyond(g, x) \in Offsets(g)
            /\ n \in Nat
        BY <3>1, FileFacts
      <3>4. Beyond(g, x) \in Nat
        BY <3>3, FileFacts, Zenon
      <3>5. n <= Len(f) + 1
        BY DEF Offsets
      <3>6. x \in Offsets(f) /\ Beyond(g, x) \in Offsets(f)
        BY <1>0, <3>2, <3>3, <3>4, <3>5 DEF Offsets
      <3> QED
        BY <1>1, <3>1, <3>6 DEF Found
    <2> QED
      BY <1>3, <2>1 DEF Upto
  <1>6. ASSUME n \in Visited(f, 1)
        PROVE  Entries(f, Upto(f, n)) = Entries(g, Upto(g, n))
    <2>1. \A x \in Upto(f, n) : f[x] = g[x]
      BY <1>4 DEF Upto
    <2> QED
      BY <1>5, <1>6, <2>1 DEF Entries
  <1>7. \A x \in Upto(f, n) : f[x] = g[x] /\ Beyond(f, x) = Beyond(g, x)
    BY <1>4 DEF Upto
  <1> QED
    BY <1>1, <1>3, <1>5, <1>6, <1>7

(* Both files are replayed alike before n. *)
SameBefore(f, g, n) == Upto(f, n) = Upto(g, n) /\ \A x \in Upto(f, n) : f[x] = g[x]

(* What a replay finds before an offset that it visits stays as it is. *)
LEMMA BeforeStays ==
  ASSUME NEW f \in Files, NEW g \in Files, Begins(f, g), NEW n \in Offsets(f),
         n \in Visited(f, 1) \/ n \in Visited(g, 1)
  PROVE  SameBefore(f, g, n)
  <1>1. /\ Upto(f, n) = Upto(g, n) \/ n \notin Visited(f, 1)
        /\ n \in Visited(f, 1) <=> n \in Visited(g, 1)
        /\ \A x \in Upto(f, n) : f[x] = g[x] /\ Beyond(f, x) = Beyond(g, x)
    BY TracksPrefix
  <1> QED
    BY <1>1, Zenon DEF SameBefore

(* The facts about one handle that the proofs use all the time. *)
LEMMA HandleFacts ==
  ASSUME IndInv, NEW h \in Handles
  PROVE  /\ file \in Files /\ hs[h] \in HandleSet /\ Stages(hs[h])
         /\ Tracks(file, hs[h]) /\ WroteWell(file, synced, hs[h])
         /\ hs[h].applied \in Nat /\ hs[h].applied + 1 \in Offsets(file)
         /\ Len(file) \in Nat /\ hs[h].applied <= Len(file)
         /\ 1 \in Offsets(file)
  <1>1. /\ file \in Files /\ hs[h] \in HandleSet /\ Stages(hs[h])
        /\ Tracks(file, hs[h]) /\ WroteWell(file, synced, hs[h])
    BY DEF IndInv, Globals, HandleOK
  <1>2. hs[h].applied \in Nat
    BY <1>1 DEF HandleSet
  <1>3. hs[h].applied + 1 \in Offsets(file)
    BY <1>1 DEF Tracks, Visited
  <1>4. Len(file) \in Nat
    BY <1>1 DEF Files
  <1> QED
    BY <1>1, <1>2, <1>3, <1>4 DEF Offsets

-----------------------------------------------------------------------------
(* Reading on *)

Same(s, t) ==
  /\ t.open = s.open /\ t.lock = s.lock /\ t.pc = s.pc /\ t.op = s.op
  /\ t.rec = s.rec /\ t.part = s.part /\ t.dirty = s.dirty /\ t.wrote = s.wrote

(* t is s after it has read on. *)
Advances(s, t) ==
  /\ t \in HandleSet /\ Same(s, t) /\ Tracks(file, t)
  /\ s.applied \in Nat /\ t.applied \in Nat /\ s.applied <= t.applied

(* Applying the records up to an offset that the replay visits. *)
LEMMA AppliedFacts ==
  ASSUME file \in Files, NEW s \in HandleSet, Tracks(file, s),
         NEW b \in Visited(file, s.applied + 1),
         NEW S, S = {x \in Found(file, s.applied + 1) : x < b}
  PROVE  Advances(s, Applied(s, S)) /\ Applied(s, S).applied = b - 1
  <1> DEFINE o == s.applied + 1
             t == Applied(s, S)
  <1>1. o \in Visited(file, 1) /\ s.index = Entries(file, Upto(file, o)) /\ s.applied \in Nat
    BY DEF Tracks, HandleSet
  <1>2. /\ o \in Offsets(file) /\ b \in Visited(file, 1) /\ o <= b
        /\ Upto(file, b) = Upto(file, o) \cup S
        /\ After(file, S, o) = b
    <2> DEFINE T == {x \in Found(file, o) : x < b}
    <2>1. b \in Visited(file, o) /\ T = S
      OBVIOUS
    <2> HIDE DEF o
    <2>2. /\ o \in Offsets(file) /\ b \in Visited(file, 1) /\ o <= b
          /\ Upto(file, b) = Upto(file, o) \cup T
          /\ After(file, T, o) = b
      BY <1>1, <2>1, ReadOn
    <2> QED
      BY <2>1, <2>2
  <1>3. b \in Nat
    <2>1. b \in Offsets(file)
      BY DEF Visited
    <2> QED
      BY <2>1, FileFacts
  <1>4. /\ t = [s EXCEPT !.index = @ \cup Entries(file, S), !.applied = b - 1]
    BY <1>2, Zenon DEF Applied, Entries
  <1>5. b - 1 \in Nat /\ s.applied <= b - 1 /\ (b - 1) + 1 = b
    BY <1>1, <1>2, <1>3
  <1>6. s.index \cup Entries(file, S) = Entries(file, Upto(file, b))
    BY <1>1, <1>2 DEF Entries
  <1>7. Entries(file, S) \in SUBSET (PileRecords \X Nat)
    <2>1. ASSUME NEW x \in S
          PROVE  file[x].rec \in PileRecords /\ x \in Nat
      <3>1. x \in Offsets(file) /\ Decodes(file, x)
        BY DEF Found, Visited
      <3> QED
        BY <3>1, FileFacts
    <2> QED
      BY <2>1 DEF Entries
  <1>8. t \in HandleSet /\ Same(s, t) /\ t.applied = b - 1 /\ t.index = s.index \cup Entries(file, S)
    <2> HIDE DEF t
    <2> QED
      BY <1>4, <1>5, <1>7, Zenon DEF HandleSet, Same
  <1> HIDE DEF t
  <1>9. Tracks(file, t)
    BY <1>2, <1>5, <1>6, <1>8 DEF Tracks
  <1> QED
    BY <1>1, <1>5, <1>8, <1>9 DEF Advances, t

(* A handle that has read on is as good as it was: what it stored is still *)
(* among what it has applied.                                              *)
LEMMA AdvancesFacts ==
  ASSUME file \in Files, NEW s \in HandleSet, NEW t, Advances(s, t), NEW n,
         HandleOK(file, n, s)
  PROVE  HandleOK(file, n, t)
  <1>1. Stages(t)
    BY DEF HandleOK, Stages, Advances, Same, Exclusive
  <1>2. ASSUME NEW o \in s.wrote
        PROVE  o \in Upto(file, t.applied + 1)
    <2>1. o \in Found(file, 1) /\ o < s.applied + 1
      BY DEF HandleOK, WroteWell, Upto
    <2>2. o \in Nat /\ s.applied \in Nat /\ t.applied \in Nat /\ s.applied <= t.applied
      <3>1. o \in Offsets(file)
        BY <2>1 DEF Found, Visited
      <3> QED
        BY <3>1, FileFacts DEF Advances
    <2> QED
      BY <2>1, <2>2 DEF Upto
  <1>3. WroteWell(file, n, t)
    BY <1>2 DEF HandleOK, WroteWell, Advances, Same
  <1> QED
    BY <1>1, <1>3 DEF HandleOK, Advances

(* What a replay by a handle does. *)
LEMMA ReplayFacts ==
  ASSUME IndInv, NEW h \in Handles
  PROVE  LET t == Applied(hs[h], Replayed(h))
         IN  /\ Advances(hs[h], t) /\ HandleOK(file, synced, t)
             /\ t.applied = PileStop(h) - 1
             /\ PileStop(h) \in Visited(file, 1) /\ PileStop(h) \in Nat \ {0}
             /\ ~Decodes(file, PileStop(h))
             /\ \A x \in Visited(file, 1) : x <= PileStop(h)
  <1> DEFINE o == hs[h].applied + 1
             t == Applied(hs[h], Replayed(h))
             b == Stop(file, o)
  <1>1. /\ file \in Files /\ hs[h] \in HandleSet /\ Tracks(file, hs[h])
        /\ o \in Offsets(file) /\ o \in Visited(file, 1) /\ 1 \in Offsets(file)
    BY HandleFacts DEF Tracks
  <1>2. /\ b \in Visited(file, o) /\ ~Decodes(file, b)
        /\ Starts(file, o) = {x \in Found(file, o) : x < b}
    BY <1>1, StopFacts
  <1>3. PileStop(h) = b /\ Replayed(h) = Starts(file, o)
    BY DEF PileStop, Replayed, Stop
  <1> HIDE DEF b
  <1>4. Advances(hs[h], t) /\ t.applied = b - 1
    BY <1>1, <1>2, <1>3, AppliedFacts
  <1>5. HandleOK(file, synced, t)
    <2>1. HandleOK(file, synced, hs[h])
      BY DEF IndInv
    <2> QED
      BY <1>1, <1>4, <2>1, AdvancesFacts
  <1>6. b \in Visited(file, 1)
    BY <1>1, <1>2, ReadOn
  <1>7. b \in Offsets(file) /\ b \in Nat \ {0}
    BY <1>1, <1>6, FileFacts DEF Visited
  <1>8. ASSUME NEW x \in Visited(file, 1)
        PROVE  x <= b
    <2>1. ~(b < x)
      BY <1>1, <1>2, <1>6, ChainFacts
    <2>2. x \in Offsets(file)
      BY DEF Visited
    <2>3. x \in Nat
      BY <1>1, <2>2, FileFacts
    <2> QED
      BY <1>7, <2>1, <2>3
  <1> QED
    BY <1>2, <1>3, <1>4, <1>5, <1>6, <1>7, <1>8

(* The least element of a set of offsets: where `put` finds the first *)
(* occurrence of its hash.                                            *)
LEMMA MinFacts ==
  ASSUME NEW S \in SUBSET Nat, S # {}
  PROVE  Min(S) \in S /\ \A y \in S : Min(S) <= y
  <1>1. \E x \in S : \A y \in S : x <= y
    BY LeastElement, Zenon
  <1> QED
    BY <1>1, Zenon DEF Min

(* What a readback does.  It ends with a record the handle was looking for  *)
(* if there is one, and for a collection record that is the next one.       *)
LEMMA ReadToFacts ==
  ASSUME IndInv, NEW h \in Handles
  PROVE  LET S == ReadTo(h)
             t == Applied(hs[h], S)
         IN  /\ Advances(hs[h], t) /\ HandleOK(file, synced, t)
             /\ S # {} => Max(S) \in Upto(file, t.applied + 1)
             /\ S \subseteq Found(file, hs[h].applied + 1)
  <1> DEFINE o == hs[h].applied + 1
             F == Found(file, o)
             own == {x \in F : file[x].rec = hs[h].rec}
             S == ReadTo(h)
             t == Applied(hs[h], S)
  <1>1. /\ file \in Files /\ hs[h] \in HandleSet /\ Tracks(file, hs[h])
        /\ o \in Offsets(file) /\ o \in Visited(file, 1) /\ 1 \in Offsets(file)
        /\ hs[h].applied \in Nat /\ Len(file) \in Nat
    BY HandleFacts DEF Tracks
  <1>2. S = IF hs[h].op = "insert" THEN {x \in F : x = o}
            ELSE IF own = {} THEN F ELSE {x \in F : x <= Min(own)}
    <2>1. Replayed(h) = F
      BY <1>1, StartsAreFound DEF Replayed
    <2> QED
      BY <2>1, Zenon DEF ReadTo
  <1>3. \A x \in F : x \in Visited(file, o) /\ x \in Nat /\ o <= x
    BY <1>1, VisitedFacts, FileFacts DEF Found
  <1>4. ASSUME NEW m \in F
        PROVE  \E b \in Visited(file, o) : {x \in F : x <= m} = {x \in F : x < b}
    BY <1>1, UpToOne
  <1>5. PICK b \in Visited(file, o) : S = {x \in F : x < b}
    <2>1. CASE hs[h].op = "insert" /\ o \in F
      <3>1. {x \in F : x = o} = {x \in F : x <= o}
        BY <1>1, <1>3
      <3> HIDE DEF F, S
      <3> QED
        BY <1>2, <1>4, <2>1, <3>1, Zenon
    <2>2. CASE hs[h].op = "insert" /\ o \notin F
      <3>1. {x \in F : x = o} = {x \in F : x < o}
        <4>1. \A x \in F : x # o /\ ~(x < o)
          BY <1>1, <1>3, <2>2
        <4> QED
          BY <4>1, Zenon
      <3>2. o \in Visited(file, o)
        BY <1>1, VisitedFacts
      <3> HIDE DEF F, S
      <3> QED
        BY <1>2, <2>2, <3>1, <3>2, Zenon
    <2>3. CASE hs[h].op # "insert" /\ own = {}
      <3>1. F = {x \in F : x < Stop(file, o)} /\ Stop(file, o) \in Visited(file, o)
        BY <1>1, StopFacts, StartsAreFound
      <3> HIDE DEF F, S
      <3> QED
        BY <1>2, <2>3, <3>1, Zenon
    <2>4. CASE hs[h].op # "insert" /\ own # {}
      <3>1. Min(own) \in own
        <4>1. own \in SUBSET Nat
          BY <1>3
        <4> HIDE DEF own
        <4> QED
          BY <2>4, <4>1, MinFacts, Zenon
      <3>2. Min(own) \in F
        BY <3>1
      <3> HIDE DEF F, S, own
      <3> QED
        BY <1>2, <1>4, <2>4, <3>2, Zenon
    <2> HIDE DEF F, S, own
    <2> QED
      BY <2>1, <2>2, <2>3, <2>4, Zenon
  <1> HIDE DEF S, own
  <1>6. Advances(hs[h], t) /\ t.applied = b - 1
    BY <1>1, <1>5, AppliedFacts
  <1>7. HandleOK(file, synced, t)
    <2>1. HandleOK(file, synced, hs[h])
      BY DEF IndInv
    <2> QED
      BY <1>1, <1>6, <2>1, AdvancesFacts
  <1>8. ASSUME S # {}
        PROVE  Max(S) \in Upto(file, t.applied + 1)
    <2>1. S \in SUBSET (0 .. Len(file) + 1) /\ Len(file) + 1 \in Nat
      <3>1. \A x \in F : x \in Offsets(file)
        BY DEF Found, Visited
      <3> QED
        BY <1>1, <1>5, <3>1 DEF Offsets
    <2>2. Max(S) \in S
      BY <1>8, <2>1, MaxFacts, Zenon
    <2>3. Upto(file, b) = Upto(file, o) \cup S /\ b \in Offsets(file)
      BY <1>1, <1>5, ReadOn, ZenonT(30) DEF Visited
    <2>4. t.applied + 1 = b
      <3>1. b \in Nat
        BY <1>1, <2>3, FileFacts, Zenon
      <3> HIDE DEF t
      <3> QED
        BY <1>6, <3>1
    <2> QED
      BY <2>2, <2>3, <2>4
  <1> QED
    BY <1>5, <1>6, <1>7, <1>8 DEF S

-----------------------------------------------------------------------------
(* The steps of the handles *)

(* What the other handles know of the file survives. *)
Spared(h) == \A g \in Handles \ {h} : HandleOK(file', synced', hs[g])

(* A step of one handle keeps the invariant if what it makes of the handle  *)
(* and the file fits, it spares the other handles, and it takes a lock only *)
(* when the lock is free.                                                   *)
LEMMA StepKeeps ==
  ASSUME IndInv, NEW h \in Handles, NEW t,
         hs' = [hs EXCEPT ![h] = t], Globals', HandleOK(file', synced', t), Spared(h),
         \/ t.lock = "none" \/ t.lock = hs[h].lock
         \/ t.lock = "shared" /\ Shareable(h)
         \/ t.lock = "exclusive" /\ Excludable(h)
  PROVE  IndInv'
  <1>1. hs \in [Handles -> HandleSet] /\ Locks(hs)
    BY DEF IndInv
  <1>2. t \in HandleSet
    BY DEF HandleOK
  <1>3. /\ hs' \in [Handles -> HandleSet] /\ hs'[h] = t
        /\ \A g \in Handles \ {h} : hs'[g] = hs[g]
    BY <1>1, <1>2
  <1>4. \A g \in Handles : HandleOK(file', synced', hs'[g])
    BY <1>3, Zenon DEF Spared
  <1>5. Locks(hs')
    BY <1>1, <1>3 DEF Locks, Shareable, Excludable
  <1> QED
    BY <1>3, <1>4, <1>5, Zenon DEF IndInv

(* A step that leaves the file alone, and syncs it or not. *)
LEMMA QuietStep ==
  ASSUME IndInv, NEW h \in Handles, NEW t,
         hs' = [hs EXCEPT ![h] = t], HandleOK(file, synced, t) \/ HandleOK(file', synced', t),
         file' = file, synced' \in {synced, Len(file)}, job' = job,
         acked' \subseteq PileRecords, tears' \in 0 .. job.tears, powers' = powers,
         \/ t.lock = "none" \/ t.lock = hs[h].lock
         \/ t.lock = "shared" /\ Shareable(h)
         \/ t.lock = "exclusive" /\ Excludable(h)
  PROVE  IndInv'
  <1>1. Globals /\ file \in Files /\ synced \in 0 .. Len(file) /\ Len(file) \in Nat
    BY DEF IndInv, Globals, Files
  <1>2. synced' \in 0 .. Len(file) /\ synced <= synced'
    BY <1>1
  <1>3. Globals'
    BY <1>1, <1>2 DEF Globals
  <1>4. ASSUME NEW s, HandleOK(file, synced, s)
        PROVE  HandleOK(file', synced', s)
    <2>1. ASSUME NEW o \in s.wrote
          PROVE  o \in Upto(file, s.applied + 1) /\ (s.dirty \/ Beyond(file, o) - 1 <= synced')
      <3>1. o \in Upto(file, s.applied + 1) /\ (s.dirty \/ Beyond(file, o) - 1 <= synced)
        BY <1>4 DEF HandleOK, WroteWell
      <3>2. o \in Offsets(file) /\ Decodes(file, o)
        BY <3>1 DEF Upto, Found, Visited
      <3>3. Beyond(file, o) \in Offsets(file)
        BY <1>1, <3>2, FileFacts
      <3>4. Beyond(file, o) \in Nat
        BY <1>1, <3>3, FileFacts, Zenon
      <3> QED
        BY <1>1, <1>2, <3>1, <3>4
    <2> QED
      BY <1>4, <2>1 DEF HandleOK, WroteWell
  <1>5. Spared(h) /\ HandleOK(file', synced', t)
    BY <1>4 DEF Spared, IndInv
  <1> QED
    BY <1>3, <1>5, StepKeeps, Zenon

(* A handle that is open and has read nothing, or is closed. *)
LEMMA FreshFacts ==
  ASSUME NEW f \in Files, NEW n, NEW t \in HandleSet,
         t.lock = "none", t.pc = "idle", t.op = "none", t.part = 0, t.applied = 0,
         t.index = {}, t.wrote = {}
  PROVE  HandleOK(f, n, t)
  <1>1. 1 \in Offsets(f)
    BY DEF Offsets, Files
  <1>2. 1 \in Visited(f, 1) /\ Visited(f, 1) \subseteq Offsets(f)
    BY <1>1, VisitedFacts
  <1>3. Upto(f, 1) = {}
    <2>1. ASSUME NEW x \in Found(f, 1) PROVE ~(x < 1)
      <3>1. x \in Visited(f, 1)
        BY DEF Found
      <3>2. 1 <= x /\ x \in Offsets(f)
        BY <1>1, <3>1, VisitedFacts, Zenon
      <3>3. x \in Nat
        BY <3>2, FileFacts, Zenon
      <3> QED
        BY <3>2, <3>3
    <2> QED
      BY <2>1 DEF Upto
  <1>4. Tracks(f, t)
    BY <1>2, <1>3 DEF Tracks, Entries
  <1>5. Stages(t) /\ WroteWell(f, n, t)
    BY DEF Stages, WroteWell, Exclusive
  <1> QED
    BY <1>4, <1>5 DEF HandleOK

(* A closed handle, and one that `open` has just returned, fit every file. *)
LEMMA NoHandleFacts ==
  /\ NoHandle \in HandleSet
  /\ \A f \in Files : \A n : HandleOK(f, n, NoHandle)
  /\ \A f \in Files : \A n : HandleOK(f, n, [NoHandle EXCEPT !.open = TRUE])
  /\ NoHandle.lock = "none" /\ NoHandle.pc = "idle" /\ ~NoHandle.open
  /\ [NoHandle EXCEPT !.open = TRUE].lock = "none"
  /\ [NoHandle EXCEPT !.open = TRUE].pc = "idle"
  <1>1. NoHandle \in HandleSet /\ [NoHandle EXCEPT !.open = TRUE] \in HandleSet
    BY Zenon DEF NoHandle, HandleSet, LockSet, StepSet, OpSet
  <1> DEFINE z == [NoHandle EXCEPT !.open = TRUE]
  <1>2. /\ NoHandle.lock = "none" /\ NoHandle.pc = "idle" /\ NoHandle.op = "none"
        /\ NoHandle.part = 0 /\ NoHandle.applied = 0 /\ NoHandle.index = {}
        /\ NoHandle.wrote = {} /\ ~NoHandle.open
    BY DEF NoHandle
  <1>3. /\ z.lock = "none" /\ z.pc = "idle" /\ z.op = "none"
        /\ z.part = 0 /\ z.applied = 0 /\ z.index = {} /\ z.wrote = {}
    BY DEF NoHandle
  <1> HIDE DEF z
  <1>4. \A f \in Files : \A n : HandleOK(f, n, NoHandle) /\ HandleOK(f, n, z)
    BY <1>1, <1>2, <1>3, FreshFacts, Zenon DEF z
  <1> QED
    BY <1>1, <1>2, <1>3, <1>4, Zenon DEF z

(* The end of an operation. *)
LEMMA DoneFacts ==
  ASSUME NEW f, NEW n, NEW s \in HandleSet, HandleOK(f, n, s)
  PROVE  /\ HandleOK(f, n, Done(s)) /\ Done(s).lock = "none" /\ Done(s).pc = "idle"
         /\ Done(s).wrote = s.wrote /\ Done(s).dirty = s.dirty /\ Done(s).open = s.open
         /\ Done(s).applied = s.applied /\ Done(s).index = s.index
  <1> DEFINE t == Done(s)
  <1>1. /\ t \in HandleSet /\ t.lock = "none" /\ t.pc = "idle" /\ t.op = "none" /\ t.part = 0
        /\ t.wrote = s.wrote /\ t.dirty = s.dirty /\ t.open = s.open
        /\ t.applied = s.applied /\ t.index = s.index
    BY Zenon DEF Done, HandleSet, LockSet, StepSet, OpSet
  <1> HIDE DEF t
  <1>2. Stages(t) /\ Tracks(f, t) /\ WroteWell(f, n, t)
    BY <1>1 DEF HandleOK, Stages, Tracks, WroteWell, Exclusive
  <1> QED
    BY <1>1, <1>2 DEF HandleOK, t

(* A change of what is neither read nor written. *)
LEMMA MovedFacts ==
  ASSUME NEW f, NEW n, NEW s \in HandleSet, HandleOK(f, n, s), NEW t \in HandleSet,
         t.applied = s.applied, t.index = s.index, t.wrote = s.wrote,
         s.dirty => t.dirty, Stages(t)
  PROVE  HandleOK(f, n, t)
  <1>1. Tracks(f, t) /\ WroteWell(f, n, t)
    BY DEF HandleOK, Tracks, WroteWell
  <1> QED
    BY <1>1 DEF HandleOK

(* `open` applies nothing yet. *)
LEMMA OpenKeeps ==
  ASSUME IndInv, NEW h \in Handles, PileOpen(h)
  PROVE  IndInv'
  <1> DEFINE t == [NoHandle EXCEPT !.open = TRUE]
  <1>1. /\ hs' = [hs EXCEPT ![h] = t] /\ job' = job /\ file' = file /\ synced' = synced
        /\ acked' = acked /\ tears' = tears /\ powers' = powers
    BY DEF PileOpen
  <1>2. HandleOK(file, synced, t) /\ t.lock = "none"
    BY NoHandleFacts, Zenon DEF IndInv, Globals
  <1> HIDE DEF t
  <1>3. acked \subseteq PileRecords /\ tears \in 0 .. job.tears
    BY DEF IndInv, Globals
  <1> QED
    BY <1>1, <1>2, <1>3, QuietStep, Zenon

(* The prefix that a reader is opened on. *)
LEMMA CutFacts ==
  ASSUME NEW f \in Files, NEW p \in 0 .. Len(f)
  PROVE  /\ SubSeq(f, 1, p) \in Files /\ Len(SubSeq(f, 1, p)) = p
         /\ Begins(SubSeq(f, 1, p), f)
  <1>1. Len(f) \in Nat /\ p \in Nat /\ p <= Len(f)
    BY DEF Files
  <1>2. SubSeq(f, 1, p) = [i \in 1 .. p |-> f[i]]
    BY <1>1 DEF Files
  <1>3. \A i \in 1 .. p : f[i] \in CellSet
    BY <1>1 DEF Files
  <1>4. SubSeq(f, 1, p) \in Seq(CellSet) /\ Len(SubSeq(f, 1, p)) = p
    BY <1>1, <1>2, <1>3
  <1> QED
    BY <1>1, <1>2, <1>4 DEF Begins, Files

(* `open_prefix` keeps the invariant: what a replay of a prefix finds is *)
(* what a replay of the file finds up to there.                          *)
LEMMA OpenPrefixKeeps ==
  ASSUME IndInv, NEW h \in Handles, NEW p \in 1 .. Len(file), OpenPrefix(h, p)
  PROVE  IndInv'
  <1> DEFINE f == SubSeq(file, 1, p)
             S == Starts(f, 1)
             s == Applied(NoHandle, S)
             t == [s EXCEPT !.open = TRUE]
  <1>1. /\ hs' = [hs EXCEPT ![h] = t] /\ job' = job /\ file' = file /\ synced' = synced
        /\ acked' = acked /\ tears' = tears /\ powers' = powers
        /\ After(f, S, 1) = p + 1
    BY DEF OpenPrefix
  <1>2. /\ file \in Files /\ acked \subseteq PileRecords /\ tears \in 0 .. job.tears
        /\ Len(file) \in Nat /\ p \in 0 .. Len(file) /\ p \in Nat
    BY DEF IndInv, Globals, Files
  <1>3. f \in Files /\ Len(f) = p /\ Begins(f, file)
    BY <1>2, CutFacts
  <1> HIDE DEF f
  <1>4. 1 \in Offsets(f) /\ p + 1 \in Offsets(f)
    BY <1>2, <1>3 DEF Offsets
  <1>5. p + 1 \in Visited(f, 1) /\ S = Upto(f, p + 1)
    BY <1>1, <1>3, <1>4, StopFacts, ZenonT(30) DEF Stop, Upto
  <1>6. p + 1 \in Visited(file, 1) /\ Upto(f, p + 1) = Upto(file, p + 1)
    BY <1>2, <1>3, <1>4, <1>5, TracksPrefix
  <1>7. NoHandle \in HandleSet /\ HandleOK(file, synced, NoHandle) /\ NoHandle.applied + 1 = 1
    <2>1. NoHandle.applied + 1 = 1
      BY DEF NoHandle
    <2> QED
      BY <1>2, <2>1, NoHandleFacts, Zenon
  <1>8. Advances(NoHandle, s)
    <2>1. S = {x \in Found(file, NoHandle.applied + 1) : x < p + 1}
      BY <1>5, <1>6, <1>7 DEF Upto
    <2>2. p + 1 \in Visited(file, NoHandle.applied + 1) /\ Tracks(file, NoHandle)
      BY <1>6, <1>7 DEF HandleOK
    <2> HIDE DEF S
    <2> QED
      BY <1>2, <1>7, <2>1, <2>2, AppliedFacts, Zenon
  <1>9. HandleOK(file, synced, s) /\ s \in HandleSet /\ s.lock = "none"
    <2>1. HandleOK(file, synced, s)
      BY <1>2, <1>7, <1>8, AdvancesFacts, Zenon
    <2>2. NoHandle.lock = "none"
      BY DEF NoHandle
    <2> QED
      BY <1>8, <2>1, <2>2, Zenon DEF Advances, Same
  <1> HIDE DEF s
  <1>10. /\ t \in HandleSet /\ t.applied = s.applied /\ t.index = s.index /\ t.wrote = s.wrote
         /\ t.dirty = s.dirty /\ t.lock = "none" /\ t.pc = s.pc /\ t.op = s.op /\ t.rec = s.rec
         /\ t.part = s.part
    BY <1>9, Zenon DEF HandleSet
  <1> HIDE DEF t
  <1>11. Stages(t)
    BY <1>9, <1>10 DEF HandleOK, Stages, Exclusive
  <1>12. HandleOK(file, synced, t)
    BY <1>9, <1>10, <1>11, MovedFacts, Zenon
  <1> QED
    BY <1>1, <1>2, <1>10, <1>12, QuietStep, Zenon

(* The start of an operation keeps the invariant: its lock is granted only *)
(* when it is free.                                                        *)
LEMMA StartKeeps ==
  ASSUME IndInv, NEW h \in Handles, NEW op, NEW r, Start(h, op, r),
         \/ op \in {"refresh", "amputate"} /\ r = "none"
         \/ op = "put" /\ r \in PileBlobs
         \/ op = "insert" /\ r \in Fixed
  PROVE  IndInv'
  <1> DEFINE s == hs[h]
             l == IF Exclusive(op, r) THEN "exclusive" ELSE "shared"
             t == [s EXCEPT !.lock = l, !.pc = "refresh", !.op = op, !.rec = r]
  <1>1. /\ hs' = [hs EXCEPT ![h] = t] /\ job' = job /\ file' = file /\ synced' = synced
        /\ acked' = acked /\ tears' = tears /\ powers' = powers
        /\ s.pc = "idle" /\ IF Exclusive(op, r) THEN Excludable(h) ELSE Shareable(h)
    BY DEF Start
  <1>2. s \in HandleSet /\ Stages(s) /\ HandleOK(file, synced, s)
    BY HandleFacts DEF IndInv
  <1>3. acked \subseteq PileRecords /\ tears \in 0 .. job.tears
    BY DEF IndInv, Globals
  <1>4. /\ (l = "exclusive" /\ Excludable(h)) \/ (l = "shared" /\ Shareable(h))
        /\ l = "shared" => ~Exclusive(op, r)
    BY <1>1
  <1> HIDE DEF s, l
  <1>5. /\ op \in OpSet /\ r \in PileRecords \cup {"none"} /\ l \in LockSet
        /\ "refresh" \in StepSet
    BY <1>4 DEF PileRecords, OpSet, LockSet, StepSet
  <1>6. /\ t \in HandleSet /\ t.applied = s.applied /\ t.index = s.index /\ t.wrote = s.wrote
        /\ t.dirty = s.dirty /\ t.lock = l /\ t.pc = "refresh" /\ t.op = op /\ t.rec = r
        /\ t.part = s.part
    BY <1>2, <1>5, Zenon DEF HandleSet
  <1> HIDE DEF t
  <1>7. Stages(t)
    BY <1>1, <1>2, <1>4, <1>6 DEF Stages, Exclusive
  <1>8. HandleOK(file, synced, t)
    BY <1>2, <1>6, <1>7, MovedFacts, Zenon
  <1>9. (t.lock = "shared" /\ Shareable(h)) \/ (t.lock = "exclusive" /\ Excludable(h))
    BY <1>4, <1>6
  <1> QED
    BY <1>1, <1>3, <1>8, <1>9, QuietStep, Zenon

(* `amputate_at` starts without a lock. *)
LEMMA StartAmputateAtKeeps ==
  ASSUME IndInv, NEW h \in Handles, StartAmputateAt(h)
  PROVE  IndInv'
  <1> DEFINE s == hs[h]
             t == [s EXCEPT !.pc = "lock", !.op = "amputate_at"]
  <1>1. /\ hs' = [hs EXCEPT ![h] = t] /\ job' = job /\ file' = file /\ synced' = synced
        /\ acked' = acked /\ tears' = tears /\ powers' = powers /\ s.pc = "idle"
    BY DEF StartAmputateAt
  <1>2. s \in HandleSet /\ Stages(s) /\ HandleOK(file, synced, s)
    BY HandleFacts DEF IndInv
  <1>3. acked \subseteq PileRecords /\ tears \in 0 .. job.tears
    BY DEF IndInv, Globals
  <1>4. "lock" \in StepSet /\ "amputate_at" \in OpSet
    BY DEF StepSet, OpSet
  <1> HIDE DEF s
  <1>5. /\ t \in HandleSet /\ t.applied = s.applied /\ t.index = s.index /\ t.wrote = s.wrote
        /\ t.dirty = s.dirty /\ t.lock = s.lock /\ t.pc = "lock" /\ t.op = "amputate_at"
        /\ t.part = s.part
    BY <1>2, <1>4, Zenon DEF HandleSet
  <1> HIDE DEF t
  <1>6. Stages(t) /\ t.lock = "none"
    BY <1>1, <1>2, <1>5 DEF Stages, Exclusive
  <1>7. HandleOK(file, synced, t)
    BY <1>2, <1>5, <1>6, MovedFacts, Zenon
  <1> QED
    BY <1>1, <1>3, <1>6, <1>7, QuietStep, Zenon

(* The exclusive lock is granted to a handle that waits only when nobody *)
(* has one.                                                              *)
LEMMA LockExclusiveKeeps ==
  ASSUME IndInv, NEW h \in Handles, LockExclusive(h)
  PROVE  IndInv'
  <1> DEFINE s == hs[h]
             t == [s EXCEPT !.lock = "exclusive", !.pc = "refresh"]
  <1>1. /\ hs' = [hs EXCEPT ![h] = t] /\ job' = job /\ file' = file /\ synced' = synced
        /\ acked' = acked /\ tears' = tears /\ powers' = powers /\ s.pc = "lock" /\ Excludable(h)
    BY DEF LockExclusive
  <1>2. s \in HandleSet /\ Stages(s) /\ HandleOK(file, synced, s)
    BY HandleFacts DEF IndInv
  <1>3. acked \subseteq PileRecords /\ tears \in 0 .. job.tears
    BY DEF IndInv, Globals
  <1>4. "refresh" \in StepSet /\ "exclusive" \in LockSet
    BY DEF StepSet, LockSet
  <1> HIDE DEF s
  <1>5. /\ t \in HandleSet /\ t.applied = s.applied /\ t.index = s.index /\ t.wrote = s.wrote
        /\ t.dirty = s.dirty /\ t.lock = "exclusive" /\ t.pc = "refresh" /\ t.op = s.op
        /\ t.rec = s.rec /\ t.part = s.part
    BY <1>2, <1>4, Zenon DEF HandleSet
  <1> HIDE DEF t
  <1>6. Stages(t)
    BY <1>1, <1>2, <1>5 DEF Stages
  <1>7. HandleOK(file, synced, t)
    BY <1>2, <1>5, <1>6, MovedFacts, Zenon
  <1> QED
    BY <1>1, <1>3, <1>5, <1>7, QuietStep, Zenon

(* A handle that goes to its append, is dirty from then on. *)
ToAppend(s) == [s EXCEPT !.pc = "append", !.dirty = TRUE]

(* What going to an append changes of a handle: the step and the dirty *)
(* flag, nothing else.                                                 *)
LEMMA ToAppendFacts ==
  ASSUME NEW n, NEW s \in HandleSet, HandleOK(file, n, s),
         s.pc = "refresh", s.op \in {"put", "insert"}
  PROVE  /\ HandleOK(file, n, ToAppend(s)) /\ ToAppend(s).lock = s.lock
         /\ ToAppend(s).pc = "append" /\ ToAppend(s).part = 0 /\ ToAppend(s).rec = s.rec
         /\ ToAppend(s).applied = s.applied /\ ToAppend(s).op = s.op
         /\ ToAppend(s).open = s.open
  <1> DEFINE t == ToAppend(s)
  <1>1. "append" \in StepSet /\ TRUE \in BOOLEAN
    BY DEF StepSet
  <1>2. /\ t \in HandleSet /\ t.applied = s.applied /\ t.index = s.index /\ t.wrote = s.wrote
        /\ t.dirty = TRUE /\ t.lock = s.lock /\ t.pc = "append" /\ t.op = s.op
        /\ t.rec = s.rec /\ t.part = s.part /\ t.open = s.open
    BY <1>1, Zenon DEF HandleSet, ToAppend
  <1> HIDE DEF t
  <1>3. s.rec \in PileRecords /\ s.part = 0 /\ Stages(s)
    BY DEF HandleOK, Stages, PileRecords
  <1>4. 0 < Size[s.rec]
    BY <1>3, RecordsAssumption
  <1>5. Stages(t)
    BY <1>2, <1>3, <1>4 DEF Stages, Exclusive
  <1>6. HandleOK(file, n, t)
    BY <1>2, <1>5, MovedFacts, Zenon
  <1> QED
    BY <1>2, <1>3, <1>6 DEF t

(* What a RefreshOk comes to. *)
RefreshedTo(h, s, t) ==
  /\ hs' = [hs EXCEPT ![h] = t]
  /\ \/ t = Done(s) /\ acked' = acked
     \/ t = Done(s) /\ s.op \in {"put", "insert"} /\ PileStored(s, s.rec)
                    /\ acked' = acked \cup {s.rec}
     \/ t = ToAppend(s) /\ s.op \in {"put", "insert"} /\ ~PileStored(s, s.rec) /\ acked' = acked

(* A replay that reaches the end ends the operation, or leads to the append *)
(* of a record that is not stored.                                          *)
LEMMA RefreshOkFacts ==
  ASSUME IndInv, NEW h \in Handles, RefreshOk(h)
  PROVE  \E t : /\ RefreshedTo(h, Applied(hs[h], Replayed(h)), t)
                /\ hs[h].pc = "refresh" /\ ReplayEnds(h)
                /\ job' = job /\ file' = file /\ synced' = synced /\ tears' = tears /\ powers' = powers
  <1> DEFINE s == Applied(hs[h], Replayed(h))
             stored == s.op \in {"put", "insert"} /\ PileStored(s, s.rec)
  <1>1. /\ hs[h].pc = "refresh" /\ ReplayEnds(h)
        /\ job' = job /\ file' = file /\ synced' = synced /\ tears' = tears /\ powers' = powers
        /\ hs' = [hs EXCEPT ![h] =
                    IF s.op \in {"put", "insert"} /\ ~stored
                    THEN [s EXCEPT !.pc = "append", !.dirty = TRUE] ELSE Done(s)]
        /\ acked' = IF stored THEN acked \cup {s.rec} ELSE acked
    BY Zenon DEF RefreshOk
  <1> HIDE DEF s
  <1>2. CASE stored
    <2>1. hs' = [hs EXCEPT ![h] = Done(s)] /\ acked' = acked \cup {s.rec}
      BY <1>1, <1>2, Zenon
    <2>2. RefreshedTo(h, s, Done(s))
      BY <1>2, <2>1, Zenon DEF RefreshedTo
    <2> QED
      BY <1>1, <2>2, Zenon DEF s
  <1>3. CASE ~stored /\ s.op \in {"put", "insert"}
    <2>1. hs' = [hs EXCEPT ![h] = ToAppend(s)] /\ acked' = acked
      BY <1>1, <1>3, Zenon DEF ToAppend
    <2>2. RefreshedTo(h, s, ToAppend(s))
      BY <1>3, <2>1, Zenon DEF RefreshedTo
    <2> QED
      BY <1>1, <2>2, Zenon DEF s
  <1>4. CASE s.op \notin {"put", "insert"}
    <2>1. hs' = [hs EXCEPT ![h] = Done(s)] /\ acked' = acked
      BY <1>1, <1>4, Zenon
    <2>2. RefreshedTo(h, s, Done(s))
      BY <2>1, Zenon DEF RefreshedTo
    <2> QED
      BY <1>1, <2>2, Zenon DEF s
  <1> QED
    BY <1>2, <1>3, <1>4, Zenon

(* A replay that reaches the end of the file keeps the invariant. *)
LEMMA RefreshOkKeeps ==
  ASSUME IndInv, NEW h \in Handles, RefreshOk(h)
  PROVE  IndInv'
  <1> DEFINE s == Applied(hs[h], Replayed(h))
  <1>1. PICK t : /\ RefreshedTo(h, s, t) /\ hs[h].pc = "refresh" /\ ReplayEnds(h)
                 /\ job' = job /\ file' = file /\ synced' = synced
                 /\ tears' = tears /\ powers' = powers
    BY RefreshOkFacts, Zenon
  <1>2. Advances(hs[h], s) /\ HandleOK(file, synced, s)
    BY ReplayFacts
  <1> HIDE DEF s
  <1>3. s \in HandleSet /\ s.lock = hs[h].lock /\ s.pc = "refresh" /\ Stages(s)
    BY <1>1, <1>2 DEF Advances, Same, HandleOK
  <1>4. acked \subseteq PileRecords /\ tears \in 0 .. job.tears
    BY DEF IndInv, Globals
  <1>5. HandleOK(file, synced, t) /\ (t.lock = "none" \/ t.lock = hs[h].lock)
    <2>1. CASE t = Done(s)
      BY <1>2, <1>3, <2>1, DoneFacts, Zenon
    <2>2. CASE t = ToAppend(s) /\ s.op \in {"put", "insert"}
      BY <1>2, <1>3, <2>2, ToAppendFacts, Zenon
    <2> QED
      BY <1>1, <2>1, <2>2, Zenon DEF RefreshedTo
  <1>6. acked' \subseteq PileRecords
    <2>1. s.op \in {"put", "insert"} => s.rec \in PileRecords
      BY <1>3 DEF Stages, PileRecords
    <2> QED
      BY <1>1, <1>4, <2>1 DEF RefreshedTo
  <1>7. hs' = [hs EXCEPT ![h] = t]
    BY <1>1, Zenon DEF RefreshedTo
  <1> QED
    BY <1>1, <1>4, <1>5, <1>6, <1>7, QuietStep, Zenon

(* A handle that gives its lock back to wait for the exclusive one. *)
Waits(s, op) == [s EXCEPT !.lock = "none", !.pc = "lock", !.op = op]

(* What giving the lock back changes of a handle that goes on waiting. *)
LEMMA WaitsFacts ==
  ASSUME NEW n, NEW s \in HandleSet, HandleOK(file, n, s), s.pc = "refresh",
         NEW op \in OpSet, op = "cut" \/ (op = s.op /\ s.lock = "shared")
  PROVE  /\ HandleOK(file, n, Waits(s, op)) /\ Waits(s, op).lock = "none"
         /\ Waits(s, op).pc = "lock"
  <1> DEFINE t == Waits(s, op)
  <1>1. "none" \in LockSet /\ "lock" \in StepSet
    BY DEF LockSet, StepSet
  <1>2. /\ t \in HandleSet /\ t.applied = s.applied /\ t.index = s.index /\ t.wrote = s.wrote
        /\ t.dirty = s.dirty /\ t.lock = "none" /\ t.pc = "lock" /\ t.op = op
        /\ t.rec = s.rec /\ t.part = s.part
    BY <1>1, Zenon DEF HandleSet, Waits
  <1> HIDE DEF t
  <1>3. Stages(s)
    BY DEF HandleOK
  <1>4. Stages(t)
    BY <1>2, <1>3 DEF Stages, Exclusive
  <1>5. HandleOK(file, n, t)
    BY <1>2, <1>4, MovedFacts, Zenon
  <1> QED
    BY <1>2, <1>5 DEF t

(* A failed replay under the shared lock keeps what it has applied. *)
LEMMA RecheckKeeps ==
  ASSUME IndInv, NEW h \in Handles, Recheck(h)
  PROVE  IndInv'
  <1> DEFINE s == Applied(hs[h], Replayed(h))
             t == Waits(s, s.op)
  <1>1. Advances(hs[h], s) /\ HandleOK(file, synced, s)
    BY ReplayFacts
  <1>2. /\ hs' = [hs EXCEPT ![h] = [s EXCEPT !.lock = "none", !.pc = "lock"]]
        /\ job' = job /\ file' = file /\ synced' = synced /\ acked' = acked
        /\ tears' = tears /\ powers' = powers /\ hs[h].pc = "refresh" /\ hs[h].lock = "shared"
    BY DEF Recheck
  <1> HIDE DEF s
  <1>3. /\ s \in HandleSet /\ s.pc = "refresh" /\ s.lock = "shared" /\ s.op \in OpSet
    BY <1>1, <1>2 DEF Advances, Same, HandleSet
  <1>4. hs' = [hs EXCEPT ![h] = t]
    <2>1. t = [s EXCEPT !.lock = "none", !.pc = "lock"]
      BY <1>3, Zenon DEF HandleSet, Waits
    <2> QED
      BY <1>2, <2>1, Zenon
  <1>5. HandleOK(file, synced, t) /\ t.lock = "none"
    BY <1>1, <1>3, WaitsFacts, Zenon
  <1>6. acked \subseteq PileRecords /\ tears \in 0 .. job.tears
    BY DEF IndInv, Globals
  <1> HIDE DEF t
  <1> QED
    BY <1>2, <1>4, <1>5, <1>6, QuietStep, Zenon

(* A failed replay under the exclusive lock keeps what it has applied. *)
LEMMA RefreshFailsKeeps ==
  ASSUME IndInv, NEW h \in Handles, RefreshFails(h)
  PROVE  IndInv'
  <1> DEFINE s == Applied(hs[h], Replayed(h))
             u == Waits(s, "cut")
  <1>1. Advances(hs[h], s) /\ HandleOK(file, synced, s)
    BY ReplayFacts
  <1>2. /\ hs' = [hs EXCEPT ![h] = u] \/ hs' = [hs EXCEPT ![h] = Done(s)]
        /\ job' = job /\ file' = file /\ synced' = synced /\ acked' = acked
        /\ tears' = tears /\ powers' = powers /\ hs[h].pc = "refresh"
    BY Zenon DEF RefreshFails, Waits
  <1> HIDE DEF s
  <1>3. /\ s \in HandleSet /\ s.pc = "refresh" /\ "cut" \in OpSet
    BY <1>1, <1>2 DEF Advances, Same, OpSet
  <1>4. HandleOK(file, synced, u) /\ u.lock = "none"
    BY <1>1, <1>3, WaitsFacts, Zenon
  <1>5. HandleOK(file, synced, Done(s)) /\ Done(s).lock = "none"
    BY <1>1, <1>3, DoneFacts, Zenon
  <1> HIDE DEF u
  <1>6. PICK t : /\ hs' = [hs EXCEPT ![h] = t] /\ HandleOK(file, synced, t) /\ t.lock = "none"
    BY <1>2, <1>4, <1>5, Zenon
  <1>7. acked \subseteq PileRecords /\ tears \in 0 .. job.tears
    BY DEF IndInv, Globals
  <1> QED
    BY <1>2, <1>6, <1>7, QuietStep, Zenon

(* An append that stops short leaves the index of its handle alone. *)
LEMMA ShortWriteKeeps ==
  ASSUME IndInv, NEW h \in Handles, ShortWrite(h)
  PROVE  IndInv'
  <1>1. /\ hs' = [hs EXCEPT ![h] = Done(hs[h])]
        /\ job' = job /\ file' = file /\ synced' = synced /\ acked' = acked /\ powers' = powers
        /\ hs[h].part > 0 => tears < job.tears
        /\ tears' = IF hs[h].part > 0 THEN tears + 1 ELSE tears
    BY DEF ShortWrite
  <1>2. hs[h] \in HandleSet /\ HandleOK(file, synced, hs[h])
    BY HandleFacts DEF IndInv
  <1>3. HandleOK(file, synced, Done(hs[h])) /\ Done(hs[h]).lock = "none"
    BY <1>2, DoneFacts, Zenon
  <1>4. acked \subseteq PileRecords /\ tears \in 0 .. job.tears /\ job.tears \in Nat
    BY PileUsesAssumption DEF IndInv, Globals
  <1>5. tears' \in 0 .. job.tears
    BY <1>1, <1>4
  <1> QED
    BY <1>1, <1>3, <1>4, <1>5, QuietStep, Zenon

(* The record that was read back is noted. *)
Noted(s, o) == [s EXCEPT !.wrote = @ \cup {o}]

(* Noting a record that was read back keeps a dirty handle consistent. *)
LEMMA NotedFacts ==
  ASSUME NEW n, NEW s \in HandleSet, HandleOK(file, n, s), s.dirty, file \in Files,
         NEW o \in Upto(file, s.applied + 1)
  PROVE  HandleOK(file, n, Noted(s, o)) /\ Noted(s, o).lock = s.lock /\ Noted(s, o).pc = s.pc
  <1> DEFINE t == Noted(s, o)
  <1>1. o \in Nat
    <2>1. o \in Offsets(file)
      BY DEF Upto, Found, Visited
    <2> QED
      BY <2>1, FileFacts
  <1>2. s.wrote \cup {o} \in SUBSET Nat
    BY <1>1 DEF HandleSet
  <1>3. /\ t \in HandleSet /\ t.applied = s.applied /\ t.index = s.index
        /\ t.wrote = s.wrote \cup {o} /\ t.dirty = s.dirty /\ t.lock = s.lock /\ t.pc = s.pc
        /\ t.op = s.op /\ t.rec = s.rec /\ t.part = s.part
    BY <1>2, Zenon DEF HandleSet, Noted
  <1> HIDE DEF t
  <1>4. Stages(t) /\ Tracks(file, t)
    BY <1>3 DEF HandleOK, Stages, Tracks, Exclusive
  <1>5. WroteWell(file, n, t)
    BY <1>3 DEF HandleOK, WroteWell
  <1> QED
    BY <1>3, <1>4, <1>5 DEF HandleOK, t

(* A readback keeps the invariant: what it notes is among what it has *)
(* applied.                                                           *)
LEMMA ReadbackKeeps ==
  ASSUME IndInv, NEW h \in Handles, Readback(h)
  PROVE  IndInv'
  <1> DEFINE S == ReadTo(h)
             a == Applied(hs[h], S)
             s == Done(a)
             ok == S # {} /\ file[Max(S)].rec = hs[h].rec
  <1>1. /\ hs[h].pc = "readback"
        /\ job' = job /\ file' = file /\ synced' = synced /\ tears' = tears /\ powers' = powers
        /\ hs' = [hs EXCEPT ![h] = IF ok THEN Noted(s, Max(S)) ELSE s]
        /\ acked' = IF ok THEN acked \cup {hs[h].rec} ELSE acked
    BY Zenon DEF Readback, Noted
  <1>2. /\ Advances(hs[h], a) /\ HandleOK(file, synced, a)
        /\ S # {} => Max(S) \in Upto(file, a.applied + 1)
    BY ReadToFacts, SMTT(30)
  <1> HIDE DEF S, a
  <1>3. file \in Files /\ a \in HandleSet /\ a.dirty /\ hs[h].rec \in PileRecords
    <2>1. Stages(hs[h]) /\ file \in Files
      BY HandleFacts
    <2> QED
      BY <1>1, <1>2, <2>1 DEF Advances, Same, Stages, PileRecords
  <1>4. /\ HandleOK(file, synced, s) /\ s.lock = "none" /\ s.dirty /\ s.applied = a.applied
        /\ s \in HandleSet
    BY <1>2, <1>3, DoneFacts DEF HandleOK
  <1> HIDE DEF s
  <1>5. ok => HandleOK(file, synced, Noted(s, Max(S))) /\ Noted(s, Max(S)).lock = "none"
    BY <1>2, <1>3, <1>4, NotedFacts, Zenon
  <1>6. PICK t : hs' = [hs EXCEPT ![h] = t] /\ HandleOK(file, synced, t) /\ t.lock = "none"
    BY <1>1, <1>4, <1>5, ZenonT(30)
  <1>7. acked' \subseteq PileRecords /\ tears \in 0 .. job.tears
    BY <1>1, <1>3 DEF IndInv, Globals
  <1> QED
    BY <1>1, <1>6, <1>7, QuietStep, Zenon

(* A handle whose whole file is synced. *)
LEMMA SyncedFacts ==
  ASSUME NEW f \in Files, NEW n, NEW s \in HandleSet, HandleOK(f, n, s), s.pc = "idle",
         NEW t \in HandleSet, t.applied = s.applied, t.index = s.index, t.wrote = s.wrote,
         Stages(t)
  PROVE  HandleOK(f, Len(f), t)
  <1>1. ASSUME NEW o \in s.wrote
        PROVE  o \in Upto(f, s.applied + 1) /\ Beyond(f, o) - 1 <= Len(f)
    <2>1. o \in Upto(f, s.applied + 1)
      BY DEF HandleOK, WroteWell
    <2>2. o \in Offsets(f) /\ Decodes(f, o)
      BY <2>1 DEF Upto, Found, Visited
    <2>3. Beyond(f, o) \in Offsets(f) /\ Len(f) \in Nat
      BY <2>2, FileFacts
    <2> QED
      BY <2>1, <2>3 DEF Offsets
  <1>2. WroteWell(f, Len(f), t)
    BY <1>1 DEF WroteWell
  <1>3. Tracks(f, t)
    BY DEF HandleOK, Tracks
  <1> QED
    BY <1>2, <1>3 DEF HandleOK

(* `flush` syncs the whole file, so the handle has nothing left to flush. *)
LEMMA FlushKeeps ==
  ASSUME IndInv, NEW h \in Handles, PileFlush(h)
  PROVE  IndInv'
  <1> DEFINE s == hs[h]
             t == [s EXCEPT !.dirty = FALSE]
  <1>1. /\ hs' = [hs EXCEPT ![h] = t] /\ job' = job /\ file' = file /\ synced' = Len(file)
        /\ acked' = acked /\ tears' = tears /\ powers' = powers /\ s.pc = "idle"
    BY DEF PileFlush
  <1>2. s \in HandleSet /\ Stages(s) /\ HandleOK(file, synced, s) /\ file \in Files
    BY HandleFacts DEF IndInv
  <1>3. acked \subseteq PileRecords /\ tears \in 0 .. job.tears
    BY DEF IndInv, Globals
  <1> HIDE DEF s
  <1>4. /\ t \in HandleSet /\ t.applied = s.applied /\ t.index = s.index /\ t.wrote = s.wrote
        /\ t.lock = s.lock /\ t.pc = s.pc /\ t.op = s.op /\ t.rec = s.rec /\ t.part = s.part
    BY <1>2, Zenon DEF HandleSet
  <1> HIDE DEF t
  <1>5. Stages(t) /\ t.lock = "none"
    BY <1>1, <1>2, <1>4 DEF Stages, Exclusive
  <1>6. HandleOK(file', synced', t)
    BY <1>1, <1>2, <1>4, <1>5, SyncedFacts, Zenon
  <1> QED
    BY <1>1, <1>3, <1>5, <1>6, QuietStep, Zenon

(* `close` and the death of the process leave no handle. *)
LEMMA CloseKeeps ==
  ASSUME IndInv, NEW h \in Handles, PileClose(h) \/ PileCrash(h)
  PROVE  IndInv'
  <1>1. /\ hs' = [hs EXCEPT ![h] = NoHandle]
        /\ job' = job /\ file' = file /\ acked' = acked /\ powers' = powers
        /\ synced' \in {synced, Len(file)}
        /\ \/ tears' = tears
           \/ tears < job.tears /\ tears' = tears + 1
    BY DEF PileClose, PileCrash
  <1>2. HandleOK(file, synced, NoHandle) /\ NoHandle.lock = "none"
    BY NoHandleFacts, Zenon DEF IndInv, Globals
  <1>3. acked \subseteq PileRecords /\ tears \in 0 .. job.tears /\ job.tears \in Nat
    BY PileUsesAssumption DEF IndInv, Globals
  <1>4. tears' \in 0 .. job.tears
    BY <1>1, <1>3
  <1> QED
    BY <1>1, <1>2, <1>3, <1>4, QuietStep, Zenon

-----------------------------------------------------------------------------
(* The steps that change the file *)

(* A handle on a file that grows. *)
LEMMA GrownFacts ==
  ASSUME NEW f \in Files, NEW g \in Files, Begins(f, g), NEW n, NEW s, HandleOK(f, n, s)
  PROVE  HandleOK(g, n, s)
  <1> DEFINE a == s.applied + 1
  <1>1. a \in Visited(f, 1) /\ a \in Offsets(f)
    BY DEF HandleOK, Tracks, Visited
  <1> HIDE DEF a
  <1>2. /\ a \in Visited(g, 1) /\ Upto(f, a) = Upto(g, a)
        /\ Entries(f, Upto(f, a)) = Entries(g, Upto(g, a))
        /\ \A x \in Upto(f, a) : Beyond(f, x) = Beyond(g, x)
    BY <1>1, TracksPrefix
  <1>3. Tracks(g, s)
    BY <1>2 DEF HandleOK, Tracks, a
  <1>4. WroteWell(g, n, s)
    BY <1>2 DEF HandleOK, WroteWell, a
  <1> QED
    BY <1>3, <1>4 DEF HandleOK

(* A handle on a file of which nothing is cut that it has applied; all of   *)
(* what is left is synced.                                                  *)
LEMMA CutHandleFacts ==
  ASSUME NEW f \in Files, NEW g \in Files, Begins(g, f), NEW n, NEW s, HandleOK(f, n, s),
         s.applied + 1 \in Offsets(g)
  PROVE  HandleOK(g, Len(g), s)
  <1> DEFINE a == s.applied + 1
  <1>1. a \in Visited(f, 1) /\ a \in Offsets(g)
    BY DEF HandleOK, Tracks
  <1> HIDE DEF a
  <1>2. /\ a \in Visited(g, 1) /\ Upto(f, a) = Upto(g, a)
        /\ Entries(f, Upto(f, a)) = Entries(g, Upto(g, a))
        /\ \A x \in Upto(g, a) : Beyond(g, x) = Beyond(f, x)
    BY <1>1, TracksPrefix
  <1>3. Tracks(g, s)
    BY <1>2 DEF HandleOK, Tracks, a
  <1>4. ASSUME NEW o \in s.wrote
        PROVE  o \in Upto(g, a) /\ Beyond(g, o) - 1 <= Len(g)
    <2>1. o \in Upto(g, a)
      BY <1>2 DEF HandleOK, WroteWell, a
    <2>2. o \in Offsets(g) /\ Decodes(g, o)
      BY <2>1 DEF Upto, Found, Visited
    <2>3. Beyond(g, o) \in Offsets(g) /\ Len(g) \in Nat
      BY <2>2, FileFacts
    <2> QED
      BY <2>1, <2>3 DEF Offsets
  <1>5. WroteWell(g, Len(g), s)
    BY <1>4 DEF WroteWell, a
  <1> QED
    BY <1>3, <1>5 DEF HandleOK

(* What is left of the file when it is cut where the replay of a handle     *)
(* ended: all that any handle has applied.                                  *)
LEMMA TruncateFacts ==
  ASSUME IndInv, NEW h \in Handles, Truncate(h)
  PROVE  /\ file \in Files /\ file' \in Files /\ Begins(file', file)
         /\ Len(file') = PileStop(h) - 1 /\ Len(file') \in Nat
         /\ synced' = Len(file') /\ PileStop(h) \in Visited(file, 1)
         /\ \A x \in Visited(file, 1) : x \in Offsets(file')
         /\ hs[h].pc = "refresh" /\ hs[h].lock = "exclusive"
         /\ job' = job /\ acked' = acked /\ tears' = tears /\ powers' = powers
  <1> DEFINE b == PileStop(h)
  <1>1. /\ file' = SubSeq(file, 1, b - 1) /\ synced' = b - 1
        /\ hs[h].pc = "refresh" /\ hs[h].lock = "exclusive"
        /\ job' = job /\ acked' = acked /\ tears' = tears /\ powers' = powers
    BY DEF Truncate
  <1>2. /\ b \in Visited(file, 1) /\ b \in Nat \ {0}
        /\ \A x \in Visited(file, 1) : x <= b
    BY ReplayFacts
  <1> HIDE DEF b
  <1>3. file \in Files /\ Len(file) \in Nat
    BY HandleFacts
  <1>4. b - 1 \in 0 .. Len(file)
    <2>1. b \in Offsets(file)
      BY <1>2 DEF Visited
    <2> QED
      BY <1>2, <1>3, <2>1 DEF Offsets
  <1>5. file' \in Files /\ Begins(file', file) /\ Len(file') = b - 1
    BY <1>1, <1>3, <1>4, CutFacts
  <1>6. ASSUME NEW x \in Visited(file, 1)
        PROVE  x \in Offsets(file')
    <2>1. x \in Offsets(file) /\ x <= b
      BY <1>2 DEF Visited
    <2>2. x \in Nat \ {0}
      BY <1>3, <2>1, FileFacts
    <2> QED
      BY <1>2, <1>5, <2>1, <2>2 DEF Offsets
  <1> QED
    BY <1>1, <1>2, <1>3, <1>4, <1>5, <1>6 DEF b

(* An amputation keeps the invariant: no handle has applied anything behind *)
(* the cut, and everything before it is synced.                             *)
LEMMA TruncateKeeps ==
  ASSUME IndInv, NEW h \in Handles, Truncate(h)
  PROVE  IndInv'
  <1> DEFINE s == Done(Applied(hs[h], Replayed(h)))
             t == [s EXCEPT !.dirty = FALSE]
  <1>1. hs' = [hs EXCEPT ![h] = t]
    BY DEF Truncate
  <1>2. HandleOK(file, synced, s) /\ s \in HandleSet /\ s.pc = "idle" /\ s.lock = "none"
    <2>1. /\ HandleOK(file, synced, Applied(hs[h], Replayed(h)))
          /\ Applied(hs[h], Replayed(h)) \in HandleSet
      BY ReplayFacts DEF Advances
    <2> QED
      BY <2>1, DoneFacts DEF HandleOK
  <1> HIDE DEF s
  <1>3. /\ file \in Files /\ file' \in Files /\ Begins(file', file)
        /\ Len(file') \in Nat /\ synced' = Len(file')
        /\ \A x \in Visited(file, 1) : x \in Offsets(file')
        /\ job' = job /\ acked' = acked /\ tears' = tears /\ powers' = powers
    BY TruncateFacts, Zenon
  <1>4. ASSUME NEW u, HandleOK(file, synced, u)
        PROVE  HandleOK(file', synced', u)
    <2>1. u.applied + 1 \in Offsets(file')
      BY <1>3, <1>4 DEF HandleOK, Tracks
    <2> QED
      BY <1>3, <1>4, <2>1, CutHandleFacts
  <1>5. Spared(h)
    BY <1>4 DEF Spared, IndInv
  <1>6. /\ t \in HandleSet /\ t.applied = s.applied /\ t.index = s.index /\ t.wrote = s.wrote
        /\ t.lock = s.lock /\ t.pc = s.pc /\ t.op = s.op /\ t.rec = s.rec /\ t.part = s.part
    BY <1>2, Zenon DEF HandleSet
  <1> HIDE DEF t
  <1>7. Stages(t)
    BY <1>2, <1>6 DEF HandleOK, Stages, Exclusive
  <1>8. HandleOK(file', synced', t)
    <2>1. HandleOK(file', synced', s)
      BY <1>2, <1>4
    <2> QED
      BY <1>2, <1>3, <1>6, <1>7, <2>1, SyncedFacts
  <1>9. Globals'
    BY <1>3 DEF IndInv, Globals
  <1> QED
    BY <1>1, <1>2, <1>5, <1>6, <1>8, <1>9, StepKeeps, Zenon

(* Appending one cell to a file. *)
LEMMA AppendFacts ==
  ASSUME NEW f \in Files, NEW c \in CellSet
  PROVE  /\ Append(f, c) \in Files /\ Begins(f, Append(f, c))
         /\ Len(Append(f, c)) = Len(f) + 1 /\ Append(f, c)[Len(f) + 1] = c
  BY DEF Files, Begins

(* A handle after one more cell of its record. *)
Written(s) ==
  [s EXCEPT !.part = s.part + 1,
            !.pc = IF s.part + 1 = Size[s.rec] THEN "readback" ELSE "append"]

(* What the append of one cell does to the file, and how far the record has *)
(* come.                                                                    *)
LEMMA WriteFacts ==
  ASSUME IndInv, NEW h \in Handles, WriteCell(h)
  PROVE  /\ hs' = [hs EXCEPT ![h] = Written(hs[h])] /\ hs[h].pc = "append"
         /\ file \in Files /\ file' \in Files /\ Begins(file, file')
         /\ Len(file) \in Nat /\ Len(file') = Len(file) + 1
         /\ file'[Len(file) + 1] = Cell(hs[h].rec, hs[h].part + 1)
         /\ hs[h].rec \in PileRecords /\ hs[h].part \in Nat /\ Size[hs[h].rec] \in Nat \ {0, 1}
         /\ hs[h].part + 1 <= Size[hs[h].rec]
         /\ job' = job /\ synced' = synced /\ acked' = acked /\ tears' = tears /\ powers' = powers
  <1> DEFINE s == hs[h]
  <1>1. /\ s.pc = "append" /\ file' = Append(file, Cell(s.rec, s.part + 1))
        /\ hs' = [hs EXCEPT ![h] = Written(s)]
        /\ job' = job /\ synced' = synced /\ acked' = acked /\ tears' = tears /\ powers' = powers
    BY DEF WriteCell, Written
  <1>2. file \in Files /\ s \in HandleSet /\ Stages(s) /\ Len(file) \in Nat
    BY HandleFacts
  <1>3. s.rec \in PileRecords /\ s.part \in Nat /\ s.part < Size[s.rec]
    BY <1>1, <1>2 DEF Stages, HandleSet, PileRecords
  <1>4. Size[s.rec] \in Nat \ {0, 1}
    BY <1>3, RecordsAssumption
  <1>5. Cell(s.rec, s.part + 1) \in CellSet
    BY <1>3 DEF Cell, CellSet
  <1>6. /\ file' \in Files /\ Begins(file, file') /\ Len(file') = Len(file) + 1
        /\ file'[Len(file) + 1] = Cell(s.rec, s.part + 1)
    BY <1>1, <1>2, <1>5, AppendFacts
  <1> QED
    BY <1>1, <1>2, <1>3, <1>4, <1>6

(* What the append of one cell changes of its handle. *)
LEMMA WrittenFacts ==
  ASSUME NEW s \in HandleSet, Stages(s), s.pc = "append", s.part + 1 <= Size[s.rec],
         Size[s.rec] \in Nat
  PROVE  LET t == Written(s)
         IN  /\ t \in HandleSet /\ t.applied = s.applied /\ t.index = s.index
             /\ t.wrote = s.wrote /\ t.dirty = s.dirty /\ t.lock = s.lock /\ t.op = s.op
             /\ t.rec = s.rec /\ t.part = s.part + 1 /\ t.open = s.open /\ Stages(t)
             /\ IF t.part = Size[s.rec] THEN t.pc = "readback" ELSE t.pc = "append"
  <1> DEFINE t == Written(s)
             p == IF s.part + 1 = Size[s.rec] THEN "readback" ELSE "append"
  <1>1. p \in StepSet /\ s.part + 1 \in Nat /\ s.part \in Nat
    BY DEF StepSet, HandleSet
  <1>2. IF s.part + 1 = Size[s.rec] THEN p = "readback" ELSE p = "append"
    OBVIOUS
  <1>3. t = [s EXCEPT !.part = s.part + 1, !.pc = p]
    BY DEF Written
  <1> HIDE DEF p, t
  <1>4. /\ t \in HandleSet /\ t.applied = s.applied /\ t.index = s.index
        /\ t.wrote = s.wrote /\ t.dirty = s.dirty /\ t.lock = s.lock /\ t.op = s.op
        /\ t.rec = s.rec /\ t.part = s.part + 1 /\ t.pc = p /\ t.open = s.open
    BY <1>1, <1>3, Zenon DEF HandleSet
  <1>5. Stages(t)
    BY <1>1, <1>2, <1>4 DEF Stages, Exclusive
  <1> QED
    BY <1>2, <1>4, <1>5 DEF t

(* The append of a cell keeps the invariant: what every handle has applied *)
(* is before it.                                                           *)
LEMMA WriteCellKeeps ==
  ASSUME IndInv, NEW h \in Handles, WriteCell(h)
  PROVE  IndInv'
  <1> DEFINE s == hs[h]
             t == Written(s)
  <1>1. /\ hs' = [hs EXCEPT ![h] = t] /\ s.pc = "append"
        /\ file \in Files /\ file' \in Files /\ Begins(file, file')
        /\ Len(file) \in Nat /\ Len(file') = Len(file) + 1
        /\ Size[s.rec] \in Nat /\ s.part + 1 <= Size[s.rec]
        /\ job' = job /\ synced' = synced /\ acked' = acked /\ tears' = tears /\ powers' = powers
    BY WriteFacts, ZenonT(30)
  <1>2. s \in HandleSet /\ Stages(s) /\ HandleOK(file, synced, s)
    BY HandleFacts DEF IndInv
  <1> HIDE DEF s
  <1>3. /\ t \in HandleSet /\ t.applied = s.applied /\ t.index = s.index
        /\ t.wrote = s.wrote /\ t.dirty = s.dirty /\ t.lock = s.lock /\ Stages(t)
    BY <1>1, <1>2, WrittenFacts
  <1> HIDE DEF t
  <1>4. HandleOK(file, synced, t)
    BY <1>2, <1>3, MovedFacts, Zenon
  <1>5. \A u : HandleOK(file, synced, u) => HandleOK(file', synced', u)
    BY <1>1, GrownFacts
  <1>6. Spared(h) /\ HandleOK(file', synced', t)
    BY <1>4, <1>5 DEF Spared, IndInv
  <1>7. Globals'
    BY <1>1 DEF IndInv, Globals
  <1> QED
    BY <1>1, <1>3, <1>6, <1>7, StepKeeps, Zenon DEF s

(* A power failure closes every handle and takes back at most what was not *)
(* synced.                                                                 *)
LEMMA PowerFailFacts ==
  ASSUME IndInv, PilePowerFail
  PROVE  /\ hs' = [h \in Handles |-> NoHandle] /\ file \in Files /\ file' \in Files
         /\ Begins(file', file) /\ synced <= Len(file') /\ synced' = synced /\ synced \in Nat
         /\ acked' = {r \in acked : Durable(r)} /\ job' = job /\ tears' = tears
         /\ powers' = powers + 1 /\ powers < job.powers /\ Len(file') \in Nat
  <1>1. /\ hs' = [h \in Handles |-> NoHandle] /\ synced' = synced
        /\ acked' = {r \in acked : Durable(r)} /\ job' = job /\ tears' = tears
        /\ powers' = powers + 1 /\ powers < job.powers
    BY DEF PilePowerFail
  <1>2. PICK n \in synced .. Len(file) : file' = SubSeq(file, 1, n)
    BY DEF PilePowerFail
  <1>3. file \in Files /\ synced \in 0 .. Len(file) /\ Len(file) \in Nat
    BY DEF IndInv, Globals, Files
  <1>4. n \in 0 .. Len(file) /\ synced <= n /\ synced \in Nat /\ n \in Nat
    BY <1>3
  <1> QED
    BY <1>1, <1>2, <1>3, <1>4, CutFacts

(* A power failure takes back no synced cell and closes every handle. *)
LEMMA PowerFailKeeps ==
  ASSUME IndInv, PilePowerFail
  PROVE  IndInv'
  <1>1. /\ hs' = [h \in Handles |-> NoHandle] /\ file' \in Files
        /\ synced <= Len(file') /\ synced' = synced /\ synced \in Nat
        /\ acked' \subseteq acked /\ job' = job /\ tears' = tears
        /\ powers' = powers + 1 /\ powers < job.powers /\ Len(file') \in Nat
    BY PowerFailFacts
  <1>2. /\ job \in PileUses /\ acked \subseteq PileRecords
        /\ tears \in 0 .. job.tears /\ powers \in 0 .. job.powers /\ job.powers \in Nat
    BY PileUsesAssumption DEF IndInv, Globals
  <1>3. Globals'
    <2>1. synced' \in 0 .. Len(file') /\ powers' \in 0 .. job.powers
      BY <1>1, <1>2
    <2> QED
      BY <1>1, <1>2, <2>1 DEF Globals
  <1>4. hs' \in [Handles -> HandleSet] /\ Locks(hs')
    BY <1>1, NoHandleFacts DEF Locks
  <1>5. \A h \in Handles : HandleOK(file', synced', hs'[h])
    BY <1>1, NoHandleFacts
  <1> QED
    BY <1>3, <1>4, <1>5 DEF IndInv

(* Stuttering. *)
LEMMA StutterKeeps ==
  ASSUME IndInv, UNCHANGED pileVars
  PROVE  IndInv'
  <1>1. /\ job' = job /\ file' = file /\ synced' = synced /\ hs' = hs
        /\ acked' = acked /\ tears' = tears /\ powers' = powers
    BY DEF pileVars
  <1> QED
    BY <1>1 DEF IndInv, Globals

(* A pile that nothing has been done to. *)
LEMMA InitHolds ==
  ASSUME PileInit
  PROVE  IndInv
  <1>1. /\ job \in PileUses /\ file = <<>> /\ synced = 0 /\ hs = [h \in Handles |-> NoHandle]
        /\ acked = {} /\ tears = 0 /\ powers = 0
    BY DEF PileInit
  <1>2. job.tears \in Nat /\ job.powers \in Nat
    BY <1>1, PileUsesAssumption
  <1>3. file \in Files /\ Len(file) = 0
    BY <1>1 DEF Files
  <1>4. Globals
    BY <1>1, <1>2, <1>3 DEF Globals
  <1>5. hs \in [Handles -> HandleSet] /\ Locks(hs)
    BY <1>1, NoHandleFacts DEF Locks
  <1>6. \A h \in Handles : HandleOK(file, synced, hs[h])
    BY <1>1, <1>3, NoHandleFacts
  <1> QED
    BY <1>4, <1>5, <1>6 DEF IndInv

(* The operations of a pile: every step of it is one of them. *)
Operation(h) ==
  \/ PileOpen(h) \/ \E p \in 1 .. Len(file) : OpenPrefix(h, p)
  \/ Refresh(h) \/ Amputate(h) \/ StartAmputateAt(h)
  \/ \E b \in PileBlobs : PilePut(h, b)
  \/ \E r \in Fixed : PileInsert(h, r)
  \/ LockExclusive(h) \/ RefreshOk(h) \/ Recheck(h) \/ RefreshFails(h) \/ Truncate(h)
  \/ WriteCell(h) \/ Readback(h) \/ ShortWrite(h) \/ PileFlush(h) \/ PileClose(h) \/ PileCrash(h)

(* Every step of a pile is an operation of a handle or a power failure. *)
LEMMA NextFacts ==
  PileNext => PilePowerFail \/ \E h \in Handles : Operation(h)
  BY Zenon DEF PileNext, PileStep, Operation

(* Every step of a pile leaves the handles and the file consistent. *)
LEMMA NextKeeps ==
  ASSUME IndInv, PileNext
  PROVE  IndInv'
  <1>1. CASE PilePowerFail
    BY <1>1, PowerFailKeeps
  <1>2. ASSUME NEW h \in Handles, Operation(h)
        PROVE  IndInv'
    <2>1. CASE Refresh(h) \/ Amputate(h)
      BY <2>1, StartKeeps DEF Refresh, Amputate
    <2>2. ASSUME NEW b \in PileBlobs, PilePut(h, b)
          PROVE  IndInv'
      BY <2>2, StartKeeps DEF PilePut
    <2>3. ASSUME NEW r \in Fixed, PileInsert(h, r)
          PROVE  IndInv'
      BY <2>3, StartKeeps DEF PileInsert
    <2>4. CASE \/ PileOpen(h) \/ \E p \in 1 .. Len(file) : OpenPrefix(h, p)
               \/ StartAmputateAt(h) \/ LockExclusive(h)
      BY <2>4, OpenKeeps, OpenPrefixKeeps, StartAmputateAtKeeps, LockExclusiveKeeps, Zenon
    <2>5. CASE RefreshOk(h) \/ Recheck(h) \/ RefreshFails(h) \/ Truncate(h)
      BY <2>5, RefreshOkKeeps, RecheckKeeps, RefreshFailsKeeps, TruncateKeeps, Zenon
    <2>6. CASE \/ WriteCell(h) \/ Readback(h) \/ ShortWrite(h) \/ PileFlush(h)
               \/ PileClose(h) \/ PileCrash(h)
      BY <2>6, WriteCellKeeps, ReadbackKeeps, ShortWriteKeeps, FlushKeeps, CloseKeeps, Zenon
    <2> QED
      BY <1>2, <2>1, <2>2, <2>3, <2>4, <2>5, <2>6, Zenon DEF Operation
  <1> QED
    BY <1>1, <1>2, NextFacts, Zenon

(* The inductive invariant of a pile: every handle stands at an offset that *)
(* a replay of the whole file visits, its index is what that replay finds   *)
(* before it, an exclusive lock is alone, and a record that a handle stored *)
(* and read back is among them, synced unless the handle is dirty.          *)
THEOREM PileInvariant == PileSpec => []IndInv
  <1>1. PileInit => IndInv
    BY InitHolds
  <1>2. IndInv /\ [PileNext]_pileVars => IndInv'
    BY NextKeeps, StutterKeeps
  <1> QED
    BY <1>1, <1>2, PTL DEF PileSpec

-----------------------------------------------------------------------------
(* What follows from it *)

(* What has been read back is before the applied length. *)
LEMMA WroteFacts ==
  ASSUME IndInv, NEW h \in Handles, NEW o \in hs[h].wrote
  PROVE  /\ o \in 1 .. hs[h].applied
         /\ ~hs[h].dirty => o + Size[file[o].rec] - 1 <= synced
  <1>1. /\ file \in Files /\ hs[h].applied \in Nat
        /\ WroteWell(file, synced, hs[h])
    BY HandleFacts
  <1>2. o \in Upto(file, hs[h].applied + 1) /\ (hs[h].dirty \/ Beyond(file, o) - 1 <= synced)
    BY <1>1 DEF WroteWell
  <1>3. o \in Offsets(file) /\ o < hs[h].applied + 1
    BY <1>2 DEF Upto, Found, Visited
  <1>4. o \in Nat \ {0}
    BY <1>1, <1>3, FileFacts, Zenon
  <1>5. o \in 1 .. hs[h].applied
    BY <1>1, <1>3, <1>4
  <1>6. Decodes(file, o)
    BY <1>2 DEF Upto, Found
  <1>7. Size[file[o].rec] \in Nat
    BY <1>1, <1>3, <1>6, FileFacts
  <1>8. ~hs[h].dirty => o + Size[file[o].rec] - 1 <= synced
    BY <1>2, <1>4, <1>7 DEF Beyond
  <1> QED
    BY <1>5, <1>8, Zenon

(* An exclusive lock is held by one handle at a time and exactly during an  *)
(* operation, and what a handle stored is within what it has applied.       *)
THEOREM PileTypes == PileSpec => []PileTypeOK
  <1>1. ASSUME IndInv PROVE PileTypeOK
    <2>1. ASSUME NEW h \in Handles
          PROVE  /\ hs[h].lock \in LockSet /\ hs[h].pc \in StepSet
                 /\ hs[h].lock = "none" <=> hs[h].pc \in {"idle", "lock"}
                 /\ hs[h].lock = "exclusive" => Excludable(h)
                 /\ hs[h].wrote \subseteq 1 .. hs[h].applied
      <3>1. hs[h] \in HandleSet /\ Stages(hs[h]) /\ Locks(hs)
        BY <1>1, HandleFacts DEF IndInv
      <3>2. hs[h].wrote \subseteq 1 .. hs[h].applied
        BY <1>1, WroteFacts
      <3>3. hs[h].lock \in LockSet /\ hs[h].pc \in StepSet
        BY <3>1 DEF HandleSet
      <3>4. hs[h].lock = "none" <=> hs[h].pc \in {"idle", "lock"}
        BY <3>1 DEF Stages
      <3>5. hs[h].lock = "exclusive" => Excludable(h)
        BY <3>1 DEF Locks, Excludable
      <3> QED
        BY <3>2, <3>3, <3>4, <3>5
    <2>2. Globals
      BY <1>1 DEF IndInv
    <2> QED
      BY <2>1, <2>2, Zenon DEF PileTypeOK, Globals, Files, CellSet, LockSet, StepSet
  <1> QED
    BY <1>1, PileInvariant, PTL

(* Whatever mixture of replays, failed replays and readbacks brought a      *)
(* handle of a pile of any records to its applied length, its index is what *)
(* one replay from the start of the file finds up to there.                 *)
THEOREM IndexReplayed == PileSpec => []IndexIsReplay
  <1>1. ASSUME IndInv, NEW h \in Handles
        PROVE  LET S == {o \in Starts(file, 1) : o <= hs[h].applied}
               IN  /\ hs[h].index = {<<file[o].rec, o>> : o \in S}
                   /\ hs[h].applied = After(file, S, 1) - 1
    <2> DEFINE S == {o \in Starts(file, 1) : o <= hs[h].applied}
               a == hs[h].applied + 1
    <2>1. /\ file \in Files /\ hs[h].applied \in Nat /\ 1 \in Offsets(file)
          /\ a \in Visited(file, 1) /\ hs[h].index = Entries(file, Upto(file, a))
      BY <1>1, HandleFacts DEF Tracks
    <2>2. S = Upto(file, a)
      <3>1. \A x \in Found(file, 1) : x \in Nat
        BY <2>1, FileFacts DEF Found, Visited
      <3>2. \A x \in Found(file, 1) : x <= hs[h].applied <=> x < a
        BY <2>1, <3>1
      <3> QED
        BY <2>1, <3>2, StartsAreFound DEF Upto
    <2>3. After(file, S, 1) = a
      BY <2>1, <2>2, SegmentEnds DEF Upto
    <2> HIDE DEF S
    <2>4. hs[h].applied = After(file, S, 1) - 1
      BY <2>1, <2>3
    <2> QED
      BY <2>1, <2>2, <2>4, Zenon DEF Entries, S
  <1>2. IndInv => IndexIsReplay
    BY <1>1, Zenon DEF IndexIsReplay
  <1> QED
    BY <1>2, PileInvariant, PTL

(* A handle that is not dirty has nothing left to flush: every record that  *)
(* it stored and read back is where no power failure reaches.               *)
THEOREM CleanDurable == PileSpec => []CleanIsDurable
  <1>1. IndInv => CleanIsDurable
    BY WroteFacts DEF CleanIsDurable
  <1> QED
    BY <1>1, PileInvariant, PTL

(* The steps that touch the file. *)
LEMMA FileSteps ==
  ASSUME PileNext
  PROVE  \/ file' = file
         \/ PilePowerFail
         \/ \E h \in Handles : WriteCell(h) \/ Truncate(h)
  <1>1. ASSUME NEW h \in Handles, Operation(h), ~WriteCell(h), ~Truncate(h)
        PROVE  file' = file
    BY <1>1, Zenon
            DEF Operation, PileOpen, OpenPrefix, Refresh, Amputate, StartAmputateAt, PilePut,
                PileInsert, Start, LockExclusive, RefreshOk, Recheck, RefreshFails, Readback,
                ShortWrite, PileFlush, PileClose, PileCrash
  <1> QED
    BY <1>1, NextFacts, Zenon

(* What two files share is a prefix of both. *)
LEMMA SharedFacts ==
  ASSUME NEW f \in Files, NEW g \in Files, NEW n \in Nat, n <= Len(f), n <= Len(g),
         Begins(f, g) \/ Begins(g, f)
  PROVE  SubSeq(f, 1, n) = SubSeq(g, 1, n)
  <1>1. SubSeq(f, 1, n) = [i \in 1 .. n |-> f[i]] /\ SubSeq(g, 1, n) = [i \in 1 .. n |-> g[i]]
    BY DEF Files
  <1>2. \A i \in 1 .. n : f[i] = g[i]
    <2>1. Len(f) \in Nat /\ Len(g) \in Nat
      BY DEF Files
    <2> QED
      BY <2>1 DEF Begins
  <1> QED
    BY <1>1, <1>2

(* No step of a pile, an amputation by another handle included, cuts off or *)
(* changes a byte that an open handle has applied.                          *)
THEOREM BytesArePermanent == PileSpec => AppliedBytesArePermanent
  <1> DEFINE Kept(h) == /\ Len(file') >= hs[h].applied
                        /\ SubSeq(file', 1, hs[h].applied) = SubSeq(file, 1, hs[h].applied)
  <1>1. ASSUME IndInv, IndInv', PileNext, NEW h \in Handles, hs'[h].open
        PROVE  Kept(h)
    <2>1. /\ file \in Files /\ file' \in Files /\ Len(file) \in Nat /\ Len(file') \in Nat
          /\ hs[h].applied \in Nat /\ hs[h].applied <= Len(file)
          /\ hs[h].applied + 1 \in Visited(file, 1)
      BY <1>1, HandleFacts DEF IndInv, Globals, Files, Tracks
    <2>2. CASE file' = file
      BY <2>1, <2>2
    <2>3. CASE PilePowerFail
      BY <1>1, <2>3, PowerFailFacts, NoHandleFacts
    <2>4. ASSUME NEW g \in Handles, WriteCell(g)
          PROVE  Kept(h)
      <3>1. Begins(file, file') /\ Len(file') = Len(file) + 1
        BY <1>1, <2>4, WriteFacts
      <3>2. hs[h].applied <= Len(file')
        BY <2>1, <3>1
      <3> QED
        BY <2>1, <3>1, <3>2, SharedFacts
    <2>5. ASSUME NEW g \in Handles, Truncate(g)
          PROVE  Kept(h)
      <3>1. Begins(file', file) /\ hs[h].applied + 1 \in Offsets(file')
        BY <1>1, <2>1, <2>5, TruncateFacts
      <3>2. hs[h].applied <= Len(file')
        BY <2>1, <3>1 DEF Offsets
      <3> QED
        BY <2>1, <3>1, <3>2, SharedFacts
    <2> HIDE DEF Kept
    <2> QED
      BY <1>1, <2>2, <2>3, <2>4, <2>5, FileSteps, Zenon
  <1>2. ASSUME IndInv, IndInv', [PileNext]_pileVars
        PROVE  [\A h \in Handles : hs[h].open /\ hs'[h].open => Kept(h)]_pileVars
    <2>1. CASE UNCHANGED pileVars
      BY <2>1
    <2>2. CASE PileNext
      <3> HIDE DEF Kept
      <3> QED
        BY <1>1, <1>2, <2>2, Zenon
    <2> QED
      BY <1>2, <2>1, <2>2, Zenon
  <1> QED
    BY <1>2, PileInvariant, PTL DEF PileSpec, AppliedBytesArePermanent

=============================================================================
