----------------------------- MODULE YardProofs -----------------------------
(***************************************************************************)
(* Proofs about a yard of any number of tiers, any budgets, any graph of   *)
(* references and any failures: what was owned when everything was synced  *)
(* is in a synced file at every later moment, a close syncs what this      *)
(* process appended, and the yard implements the flat store.               *)
(*                                                                         *)
(* The safe blobs are kept by safe records and wants alone, so no          *)
(* collection hides them, whatever else comes and goes.  Each of them is   *)
(* live in a tier whose file has it synced, except between the move of a   *)
(* tier and the sync of its target; so recycling a tier finds a second     *)
(* copy of whatever it drops.                                              *)
(***************************************************************************)
EXTENDS Yard, WellFoundedInduction, TLAPS

Files(f) == UNION {f[l] : l \in Levels}

TaskOK ==
    /\ task \in [op : {"none", "compact", "reclaim"},
                 pc : {"idle", "scan", "copy", "sync", "anchor", "recycle", "finish"},
                 level : Nat, copy : SUBSET Blobs, recycle : SUBSET Levels,
                 roots : Roots \cup {NoRoots}]
    /\ task.pc \in {"scan", "copy", "sync"} => task.level \in Levels
    /\ task.pc \in {"copy", "sync"} => task.level < Generations
    /\ task.pc = "idle" => task = Idle
    /\ task.op = "compact" => task.roots \in Roots

Tables ==
    /\ items \in [Levels -> SUBSET Items] /\ durable \in [Levels -> SUBSET Items]
    /\ dirty \in [Levels -> BOOLEAN] /\ wrote \in [Levels -> SUBSET Items]
    /\ live \in [Levels -> SUBSET Blobs] /\ open \in BOOLEAN

Shape == Tables /\ TypeOK /\ TaskOK

(* A tier that has been copied is in the next file. *)
CopiesArrive ==
    task.pc = "copy" => live[task.level] \ task.copy \subseteq items[task.level + 1]

(* Every want in memory is in a file, and in the young one before another  *)
(* file that may hold it is recycled.                                      *)
WantsAnchored ==
    /\ wants \subseteq Files(items)
    /\ task.pc = "recycle" /\ Young \notin task.recycle => wants \subseteq durable[Young]

(* Safe items are kept by safe records and wants. *)
SafeIsSupported == safe \cap Blobs \subseteq Keep(safe \cap Blobs, safe \ Blobs, NoRoots)

(* While the yard is open, safe wants are in memory and safe blobs live in *)
(* a tier whose file has them synced, or in one about to be synced.        *)
SafeIsLive ==
    open => /\ safe \cap Wants \subseteq wants
            /\ \A b \in safe \cap Blobs :
                  \/ \E l \in Levels : b \in live[l] \cap durable[l]
                  \/ task.pc = "sync" /\ b \in live[task.level + 1]

(* A handle that is not dirty has nothing unsynced, unless it was reopened. *)
CleanIsSynced ==
    \A l \in Levels : /\ wrote[l] \subseteq items[l]
                      /\ ~dirty[l] /\ l \notin reopened => wrote[l] = {}

IndInv ==
    /\ Shape /\ CopiesArrive /\ WantsAnchored
    /\ FlushedIsKept /\ SafeIsSupported /\ SafeIsLive /\ CleanIsSynced

-----------------------------------------------------------------------------
(* What is kept *)

(* Reachability grows with its roots and with what is resident. *)
LEMMA ReachGrows ==
    ASSUME NEW S, NEW S1, S \subseteq S1, NEW P, NEW P1, P \subseteq P1
    PROVE  Reach(S, P) \subseteq Reach(S1, P1)
  <1> SUFFICES ASSUME NEW b \in Reach(S, P),
                      NEW T \in SUBSET P1, S1 \cap P1 \subseteq T,
                      \A x \in T : Refs[x] \cap P1 \subseteq T
               PROVE  b \in P1 /\ b \in T
    BY DEF Reach
  <1>1. T \cap P \in SUBSET P /\ S \cap P \subseteq T \cap P
    OBVIOUS
  <1>2. \A x \in T \cap P : Refs[x] \cap P \subseteq T \cap P
    OBVIOUS
  <1> QED
    BY <1>1, <1>2, Zenon DEF Reach

(* What is reachable is closed under references to resident blobs. *)
LEMMA ReachCloses ==
    ASSUME NEW S, NEW P
    PROVE  /\ Reach(S, P) \subseteq P
           /\ S \cap P \subseteq Reach(S, P)
           /\ \A x \in Reach(S, P) : Refs[x] \cap P \subseteq Reach(S, P)
  BY DEF Reach

(* What is reachable is reachable through reachable blobs alone. *)
LEMMA ReachKeepsItself ==
    ASSUME NEW S, NEW P
    PROVE  Reach(S, P) \subseteq Reach(S, Reach(S, P))
  <1> DEFINE R == Reach(S, P)
  <1>0. /\ R \subseteq P /\ S \cap P \subseteq R
        /\ \A x \in R : Refs[x] \cap P \subseteq R
    BY ReachCloses
  <1>1. ASSUME NEW b \in R, NEW T \in SUBSET R, S \cap R \subseteq T,
               \A x \in T : Refs[x] \cap R \subseteq T
        PROVE  b \in T
    <2>1. T \in SUBSET P /\ S \cap P \subseteq T
      BY <1>0, <1>1
    <2>2. \A x \in T : Refs[x] \cap P \subseteq T
      BY <1>0, <1>1
    <2> QED
      BY <1>1, <2>1, <2>2 DEF Reach
  <1>2. ASSUME NEW b \in R
        PROVE  b \in Reach(S, R)
    <2> HIDE DEF R
    <2> QED
      BY <1>1, <1>2 DEF Reach
  <1> QED
    BY <1>2

(* The roots a keep set is expanded from. *)
Named(owners) == UNION {Refs[o] : o \in owners}

(* With no roots of the caller's. *)
LEMMA KeepWithoutRoots ==
    ASSUME NEW P, NEW O
    PROVE  Keep(P, O, NoRoots) =
              IF Reach(Named(O), P) = {} THEN {} ELSE Reach(Named(O) \cup {BlobKind}, P)
  <1>1. Reach(Named(O), P) \cap P = Reach(Named(O), P)
    BY ReachCloses
  <1>2. NoRoots.direct = {} /\ NoRoots.recursive = {}
    BY DEF NoRoots
  <1>3. NoRoots.recursive \cup UNION {Refs[o] : o \in O} = Named(O)
    BY <1>2 DEF Named
  <1> QED
    BY <1>1, <1>2, <1>3, Zenon DEF Keep

(* More owners, more blobs and roots of the caller's keep what was kept: a *)
(* collection never hides what a part of the store keeps by itself.        *)
LEMMA KeepGrows ==
    ASSUME NEW P, NEW P1, P \subseteq P1, NEW O, NEW O1, O \subseteq O1, NEW roots
    PROVE  Keep(P, O, NoRoots) \subseteq Keep(P1, O1, roots)
  <1> DEFINE rec == roots.recursive \cup Named(O1)
             kept == roots.direct \cup Reach(rec, P1)
  <1>0. Keep(P1, O1, roots) =
           IF kept \cap P1 = {} THEN kept ELSE roots.direct \cup Reach(rec \cup {BlobKind}, P1)
    BY DEF Keep, Named
  <1>1. Named(O) \subseteq rec
    BY DEF Named
  <1>2. Reach(Named(O), P) \subseteq Reach(rec, P1)
    BY <1>1, ReachGrows
  <1>3. Reach(Named(O) \cup {BlobKind}, P) \subseteq Reach(rec \cup {BlobKind}, P1)
    BY <1>1, ReachGrows
  <1>4. Reach(rec, P1) \subseteq P1
    BY ReachCloses
  <1> HIDE DEF rec
  <1> QED
    BY <1>0, <1>2, <1>3, <1>4, KeepWithoutRoots, SMTT(20)

(* What is kept keeps itself. *)
LEMMA KeepSupportsItself ==
    ASSUME NEW P, NEW O
    PROVE  /\ Keep(P, O, NoRoots) \subseteq P
           /\ Keep(P, O, NoRoots) \subseteq Keep(Keep(P, O, NoRoots), O, NoRoots)
  <1> DEFINE N == Named(O)
             R == Reach(N, P)
             K == Reach(N \cup {BlobKind}, P)
  <1>1. R \subseteq P /\ K \subseteq P /\ R \subseteq K
    BY ReachCloses, ReachGrows
  <1>2. R \subseteq Reach(N, R) /\ K \subseteq Reach(N \cup {BlobKind}, K)
    BY ReachKeepsItself
  <1>3. Reach(N, R) \subseteq Reach(N, K)
    BY <1>1, ReachGrows
  <1>4. Keep(P, O, NoRoots) = IF R = {} THEN {} ELSE K
    BY KeepWithoutRoots
  <1>5. Keep(K, O, NoRoots) = IF Reach(N, K) = {} THEN {} ELSE Reach(N \cup {BlobKind}, K)
    BY KeepWithoutRoots
  <1> HIDE DEF N, R, K
  <1> QED
    BY <1>1, <1>2, <1>3, <1>4, <1>5

-----------------------------------------------------------------------------
(* The inductive invariant *)

(* There is a young tier, and below every tier but the last another one. *)
LEMMA LevelFacts ==
    /\ Young \in Levels
    /\ \A l \in Levels : l < Generations => l + 1 \in Levels /\ l + 1 # l
  BY GenerationsAssumption DEF Levels, Young

(* Recycling goes from the young tier down: the first of the tiers to be   *)
(* recycled is the young one if that is among them.                        *)
LEMMA LeastLevel ==
    ASSUME NEW S \in SUBSET Levels, S # {}
    PROVE  /\ Min(S) \in S
           /\ Young \in S => Min(S) = Young
  <1> DEFINE R == {ss \in Nat \X Nat : ss[1] < ss[2]}
  <1>0. IsWellFoundedOn(R, Nat)
    BY NatLessThanWellFounded DEF OpToRel
  <1>1. S \in SUBSET Nat
    BY DEF Levels
  <1> HIDE DEF R
  <1>2. PICK n \in S : \A m \in S : ~(<<m, n>> \in R)
    BY <1>0, <1>1, WFMin, Zenon
  <1>3. \A m \in S : ~(m < n)
    BY <1>1, <1>2, Zenon DEF R
  <1>4. \A m \in S : n <= m
    BY <1>1, <1>3
  <1>5. PICK l \in S : l = Min(S) /\ \A m \in S : l <= m
    BY <1>4 DEF Min
  <1>6. Young \in S => l = Young
    BY <1>5, LevelFacts DEF Levels, Young
  <1> QED
    BY <1>5, <1>6

(* A write leaves what it appended for a sync of its file's dirty handle. *)
LEMMA WriteMarks ==
    ASSUME Tables, CleanIsSynced, NEW t \in Levels, NEW x \in Items,
           Write(t, {x}), UNCHANGED reopened
    PROVE  CleanIsSynced'
  <1> SUFFICES ASSUME NEW l \in Levels
               PROVE  /\ wrote'[l] \subseteq items'[l]
                      /\ ~dirty'[l] /\ l \notin reopened => wrote'[l] = {}
    BY DEF CleanIsSynced
  <1>1. CASE l = t
    <2>1. dirty'[l] = (dirty[l] \/ ~({x} \subseteq items[l]))
      BY <1>1 DEF Write, Tables
    <2>2. /\ items'[l] = items[l] \cup {x}
          /\ wrote'[l] = wrote[l] \cup ({x} \ items[l])
      BY <1>1 DEF Write, Tables
    <2> QED
      BY <2>1, <2>2, Zenon DEF CleanIsSynced
  <1>2. CASE l # t
    BY <1>2 DEF Write, Tables, CleanIsSynced
  <1> QED
    BY <1>1, <1>2

(* What an open yard's safe items are to it: its own owners, and blobs it  *)
(* lists.                                                                  *)
LEMMA SafeIsInUse ==
    ASSUME IndInv, open
    PROVE  /\ safe \cap Blobs \subseteq Visible
           /\ safe \ Blobs \subseteq Stored \cup wants
  <1> USE LevelFacts DEF IndInv, Shape
  <1>1. ASSUME NEW b \in safe \cap Blobs
        PROVE  \E l \in Levels : b \in live[l]
    BY <1>1 DEF SafeIsLive, TaskOK
  <1>2. ASSUME NEW r \in safe, r \in Records
        PROVE  r \in Stored
    BY <1>2 DEF FlushedIsKept, TypeOK, Stored
  <1>3. safe \cap Wants \subseteq wants
    BY DEF SafeIsLive
  <1>4. safe \subseteq Blobs \cup Records \cup Wants
    BY DEF TypeOK, Items
  <1> QED
    BY <1>1, <1>2, <1>3, <1>4 DEF Visible

(* No collection hides a safe blob, whatever roots it is given (`collect`). *)
LEMMA CollectKeepsSafe ==
    ASSUME IndInv, open, NEW roots
    PROVE  safe \cap Blobs \subseteq Keep(Visible, Stored \cup wants, roots)
  <1>1. Keep(safe \cap Blobs, safe \ Blobs, NoRoots) \subseteq Keep(Visible, Stored \cup wants, roots)
    BY SafeIsInUse, KeepGrows
  <1> QED
    BY <1>1 DEF IndInv, SafeIsSupported

(* A collection takes blobs out of live sets, and leaves every safe one    *)
(* where it is.                                                            *)
LEMMA CollectedFacts ==
    ASSUME IndInv, open, NEW roots
    PROVE  /\ Collected(roots) \in [Levels -> SUBSET Blobs]
           /\ \A l \in Levels : /\ Collected(roots)[l] \subseteq live[l]
                                /\ safe \cap live[l] \subseteq Collected(roots)[l]
  <1>1. safe \cap Blobs \subseteq Keep(Visible, Stored \cup wants, roots)
    BY CollectKeepsSafe
  <1>2. live \in [Levels -> SUBSET Blobs]
    BY DEF IndInv, Shape, Tables
  <1> QED
    BY <1>1, <1>2 DEF Collected

(* What is safe once everything is synced (`flush`, `close`): it is kept   *)
(* by its own records and wants, and in some file.                         *)
LEMMA OwnedFacts ==
    ASSUME IndInv, open, NEW S, S = safe \cup Owned
    PROVE  /\ S \subseteq Items
           /\ S \cap Blobs \subseteq Visible
           /\ S \cap Wants \subseteq wants
           /\ S \subseteq Files(items)
           /\ S \cap Blobs \subseteq Keep(S \cap Blobs, S \ Blobs, NoRoots)
  <1> DEFINE O == Stored \cup wants
             K == Keep(Visible, O, NoRoots)
  <1>1. Owned = O \cup (K \cap Visible)
    BY DEF Owned
  <1>2. K \subseteq Visible /\ K \subseteq Keep(K, O, NoRoots)
    BY KeepSupportsItself
  <1>3. safe \cap Blobs \subseteq K
    BY CollectKeepsSafe
  <1>4. safe \ Blobs \subseteq O
    BY SafeIsInUse
  <1>5. Visible \subseteq Blobs /\ Visible \subseteq Files(items)
    BY DEF IndInv, Shape, TypeOK, Visible, Files
  <1>6. /\ Stored \subseteq Records /\ Stored \subseteq Files(items)
        /\ wants \subseteq Wants /\ wants \subseteq Files(items)
        /\ safe \subseteq Blobs \cup Records \cup Wants
    BY DEF IndInv, Shape, TypeOK, WantsAnchored, Stored, Files, Items
  <1> HIDE DEF O, K
  <1>7. S \cap Blobs = K /\ S \ Blobs = O
    <2>1. O \subseteq Records \cup Wants
      BY <1>6 DEF O
    <2> QED
      BY <1>1, <1>2, <1>3, <1>4, <1>5, <2>1, ItemsAssumption
  <1> QED
    BY <1>2, <1>5, <1>6, <1>7, ItemsAssumption, Zenon DEF O, Items

(* What is left of a set of items once some of it is withdrawn is kept by  *)
(* what is left of it.                                                     *)
LEMMA SupportedFacts ==
    ASSUME NEW D
    PROVE  /\ Supported(D) \subseteq D
           /\ Supported(D) \cap Blobs
                 \subseteq Keep(Supported(D) \cap Blobs, Supported(D) \ Blobs, NoRoots)
  <1> DEFINE K == Keep(D \cap Blobs, D \ Blobs, NoRoots)
  <1>1. K \subseteq D \cap Blobs /\ K \subseteq Keep(K, D \ Blobs, NoRoots)
    BY KeepSupportsItself
  <1>2. Supported(D) = (D \ Blobs) \cup (K \cap D)
    BY DEF Supported
  <1> HIDE DEF K
  <1>3. Supported(D) \cap Blobs = K /\ Supported(D) \ Blobs = D \ Blobs
    BY <1>1, <1>2
  <1> QED
    BY <1>1, <1>2, <1>3

(* What a step leaves alone. *)
LEMMA Frame ==
    /\ TaskOK /\ UNCHANGED task => TaskOK'
    /\ Tables /\ UNCHANGED <<files, live, open>> => Tables'
    /\ TypeOK /\ open /\ UNCHANGED <<use, files, live, wants, open, safe>> => TypeOK'
    /\ CopiesArrive /\ UNCHANGED <<items, live, task>> => CopiesArrive'
    /\ WantsAnchored /\ UNCHANGED <<files, wants, task>> => WantsAnchored'
    /\ FlushedIsKept /\ UNCHANGED <<durable, safe>> => FlushedIsKept'
    /\ SafeIsSupported /\ UNCHANGED safe => SafeIsSupported'
    /\ SafeIsLive /\ UNCHANGED <<durable, live, wants, open, task, safe>> => SafeIsLive'
    /\ CleanIsSynced /\ UNCHANGED files => CleanIsSynced'
  <1>1. TaskOK /\ UNCHANGED task => TaskOK'
    BY DEF TaskOK
  <1>2. Tables /\ UNCHANGED <<files, live, open>> => Tables'
    BY DEF Tables, files
  <1>3. WantsAnchored /\ UNCHANGED <<files, wants, task>> => WantsAnchored'
    BY DEF WantsAnchored, Files, files
  <1>4. FlushedIsKept /\ UNCHANGED <<durable, safe>> => FlushedIsKept'
    BY DEF FlushedIsKept
  <1>5. SafeIsSupported /\ UNCHANGED safe => SafeIsSupported'
    BY DEF SafeIsSupported
  <1>6. SafeIsLive /\ UNCHANGED <<durable, live, wants, open, task, safe>> => SafeIsLive'
    BY DEF SafeIsLive
  <1>7. CleanIsSynced /\ UNCHANGED files => CleanIsSynced'
    BY DEF CleanIsSynced, files
  <1>8. CopiesArrive /\ UNCHANGED <<items, live, task>> => CopiesArrive'
    BY DEF CopiesArrive
  <1>9. TypeOK /\ open /\ UNCHANGED <<use, files, live, wants, open, safe>> => TypeOK'
    BY DEF TypeOK, files
  <1> QED
    BY <1>1, <1>2, <1>3, <1>4, <1>5, <1>6, <1>7, <1>8, <1>9

(* What an operation leaves alone that only goes on to its next step, or   *)
(* to its end: the files, and what is safe once nothing waits for a sync.  *)
LEMMA TaskFrame ==
    ASSUME IndInv, open, UNCHANGED <<use, files, live, wants, open, safe>>
    PROVE  /\ Tables' /\ TypeOK' /\ FlushedIsKept' /\ SafeIsSupported' /\ CleanIsSynced'
           /\ task.pc # "sync" => SafeIsLive'
           /\ (task'.pc # "recycle" \/ Young \in task'.recycle) => WantsAnchored'
  <1>1. Tables' /\ TypeOK' /\ FlushedIsKept' /\ SafeIsSupported' /\ CleanIsSynced'
    BY Frame DEF IndInv, Shape, files
  <1>2. ASSUME task.pc # "sync" PROVE SafeIsLive'
    BY <1>2 DEF IndInv, SafeIsLive, files
  <1>3. ASSUME task'.pc # "recycle" \/ Young \in task'.recycle PROVE WantsAnchored'
    BY <1>3 DEF IndInv, WantsAnchored, Files, files
  <1> QED
    BY <1>1, <1>2, <1>3

(* An operation under way is one of an open yard. *)
LEMMA BusyIsOpen == IndInv /\ task.pc # "idle" => open
  BY DEF IndInv, Shape, TypeOK, Idle

(* Once nothing is under way, no tier is being copied or recycled. *)
LEMMA IdleIsOK == task' = Idle => TaskOK' /\ CopiesArrive'
  BY DEF TaskOK, CopiesArrive, Idle

-----------------------------------------------------------------------------
(* `open` lists every safe blob: it is in a synced file. *)
LEMMA OpenKeeps ==
    ASSUME IndInv, Open
    PROVE  IndInv'
  <1> USE DEF IndInv, Shape
  <1>1. TaskOK' /\ FlushedIsKept' /\ SafeIsSupported' /\ CleanIsSynced'
    BY Frame DEF Open, files
  <1>2. /\ live' = [l \in Levels |-> items[l] \cap Blobs]
        /\ wants' = Files(items) \cap Wants /\ open' = TRUE
        /\ task = Idle /\ UNCHANGED <<use, files, task, safe>>
    BY DEF Open, Files, TypeOK
  <1>3. Tables'
    BY <1>2 DEF Tables, files
  <1>4. TypeOK'
    BY <1>2 DEF Tables, TypeOK, files
  <1>5. CopiesArrive' /\ WantsAnchored'
    BY <1>2, IdleIsOK DEF WantsAnchored, Files, files, Idle
  <1>6. SafeIsLive'
    <2>1. ASSUME NEW b \in safe \cap Blobs
          PROVE  \E l \in Levels : b \in live'[l] \cap durable[l]
      <3>1. PICK l \in Levels : b \in durable[l]
        BY DEF FlushedIsKept
      <3> QED
        BY <1>2, <3>1 DEF TypeOK
    <2>2. safe \cap Wants \subseteq wants'
      BY <1>2 DEF FlushedIsKept, Files, TypeOK
    <2> QED
      BY <1>2, <2>1, <2>2 DEF SafeIsLive, files
  <1> QED
    BY <1>1, <1>3, <1>4, <1>5, <1>6

(* A blob is written to the young file and is live there. *)
LEMMA PutKeeps ==
    ASSUME IndInv, NEW b \in Blobs, Put(b)
    PROVE  IndInv'
  <1> USE DEF IndInv, Shape
  <1>1. TaskOK' /\ FlushedIsKept' /\ SafeIsSupported'
    BY Frame DEF Put
  <1>2. CleanIsSynced'
    BY WriteMarks, LevelFacts DEF Put, Items
  <1>3. Tables'
    BY LevelFacts DEF Tables, Put, Write, Items
  <1>4. TypeOK'
    BY LevelFacts DEF Tables, TypeOK, Put, Write, Ready, Items
  <1>5. CopiesArrive' /\ WantsAnchored'
    BY LevelFacts DEF Tables, CopiesArrive, WantsAnchored, Files, Put, Write, Ready
  <1>6. SafeIsLive'
    BY LevelFacts DEF Tables, SafeIsLive, Put, Ready
  <1> QED
    BY <1>1, <1>2, <1>3, <1>4, <1>5, <1>6

(* A record is written to the young file. *)
LEMMA InsertKeeps ==
    ASSUME IndInv, NEW r \in Records, Insert(r)
    PROVE  IndInv'
  <1> USE DEF IndInv, Shape
  <1>1. TaskOK' /\ FlushedIsKept' /\ SafeIsSupported' /\ SafeIsLive'
    BY Frame DEF Insert
  <1>2. CleanIsSynced'
    BY WriteMarks, LevelFacts DEF Insert, Items
  <1>3. Tables'
    BY LevelFacts DEF Tables, Insert, Write, Items
  <1>4. TypeOK'
    BY LevelFacts DEF Tables, TypeOK, Insert, Write, Ready, Items
  <1>5. CopiesArrive' /\ WantsAnchored'
    BY LevelFacts DEF Tables, CopiesArrive, WantsAnchored, Files, Insert, Write, Ready
  <1> QED
    BY <1>1, <1>2, <1>3, <1>4, <1>5

(* A want is written to the young file and remembered. *)
LEMMA WantKeeps ==
    ASSUME IndInv, NEW w \in Wants, Want(w)
    PROVE  IndInv'
  <1> USE DEF IndInv, Shape
  <1>1. TaskOK' /\ FlushedIsKept' /\ SafeIsSupported'
    BY Frame DEF Want
  <1>2. CleanIsSynced'
    BY WriteMarks, LevelFacts DEF Want, Items
  <1>3. Tables'
    BY LevelFacts DEF Tables, Want, Write, Items
  <1>4. TypeOK'
    BY LevelFacts DEF Tables, TypeOK, Want, Write, Ready, Items
  <1>5. CopiesArrive' /\ WantsAnchored'
    BY LevelFacts DEF Tables, CopiesArrive, WantsAnchored, Files, Want, Write, Ready
  <1>6. SafeIsLive'
    BY DEF SafeIsLive, Want, Ready
  <1> QED
    BY <1>1, <1>2, <1>3, <1>4, <1>5, <1>6

-----------------------------------------------------------------------------
(* A compaction looks at the next tier, or begins to copy one. *)
LEMMA ScanKeeps ==
    ASSUME IndInv, Scan
    PROVE  IndInv'
  <1> USE DEF IndInv, Shape
  <1>0. task.pc = "scan" /\ open /\ UNCHANGED <<use, files, live, wants, open, safe>>
    BY BusyIsOpen DEF Scan
  <1>1. /\ task.level \in Levels /\ task.level + 1 \in Levels /\ task.level + 1 \in Nat
        /\ task.level < Generations /\ live[task.level] \subseteq Blobs
    BY <1>0, LevelFacts DEF Scan, TaskOK, Tables, Levels
  <1>2. CASE task' = [task EXCEPT !.level = @ + 1]
    <2>1. TaskOK' /\ task'.pc = "scan"
      BY <1>0, <1>1, <1>2 DEF TaskOK
    <2> QED
      BY <1>0, <2>1, TaskFrame DEF CopiesArrive
  <1>3. CASE task' = [task EXCEPT !.pc = "copy", !.copy = live[task.level]]
    <2>1. TaskOK' /\ task'.pc = "copy"
      BY <1>0, <1>1, <1>3, Zenon DEF TaskOK
    <2>2. CopiesArrive'
      BY <1>0, <1>3 DEF CopiesArrive, TaskOK
    <2> QED
      BY <1>0, <2>1, <2>2, TaskFrame
  <1> QED
    BY <1>2, <1>3 DEF Scan

(* A blob is copied; the original stays live where it is synced. *)
LEMMA CopyBlobKeeps ==
    ASSUME IndInv, NEW b \in Blobs, CopyBlob(b)
    PROVE  IndInv'
  <1> USE DEF IndInv, Shape
  <1>0. /\ task.pc = "copy" /\ open /\ task.level \in Levels /\ task.level + 1 \in Levels
        /\ task' = [task EXCEPT !.copy = @ \ {b}]
        /\ items' = [items EXCEPT ![task.level + 1] = @ \cup {b}]
        /\ UNCHANGED <<use, durable, reopened, live, wants, open, safe>>
    BY BusyIsOpen, LevelFacts DEF CopyBlob, Write, TaskOK
  <1>1. TaskOK' /\ task'.pc = "copy" /\ task'.level = task.level /\ task'.copy = task.copy \ {b}
    BY <1>0 DEF TaskOK
  <1>2. FlushedIsKept' /\ SafeIsSupported'
    BY <1>0, Frame
  <1>3. CleanIsSynced'
    BY <1>0, WriteMarks DEF CopyBlob, Items
  <1>4. Tables'
    BY <1>0 DEF Tables, CopyBlob, Write, Items
  <1>5. TypeOK'
    BY <1>0 DEF Tables, TypeOK, CopyBlob, Write, Items
  <1>6. CopiesArrive'
    BY <1>0, <1>1 DEF Tables, CopiesArrive
  <1>7. WantsAnchored'
    BY <1>0, <1>1 DEF Tables, WantsAnchored, Files
  <1>8. SafeIsLive'
    BY <1>0, <1>1 DEF SafeIsLive
  <1> QED
    BY <1>1, <1>2, <1>3, <1>4, <1>5, <1>6, <1>7, <1>8

(* A copied tier is live in the next one: what was live and synced is live *)
(* where it is about to be synced.                                         *)
LEMMA MoveKeeps ==
    ASSUME IndInv, Move
    PROVE  IndInv'
  <1> USE DEF IndInv, Shape
  <1> DEFINE t == task.level
  <1>0. /\ task.pc = "copy" /\ task.copy = {} /\ open
        /\ t \in Levels /\ t + 1 \in Levels /\ t + 1 # t
        /\ live' = [live EXCEPT ![t] = {}, ![t + 1] = @ \cup live[t]]
        /\ task' = [task EXCEPT !.pc = "sync"]
        /\ UNCHANGED <<use, files, wants, open, safe>>
    BY BusyIsOpen, LevelFacts DEF Move, TaskOK
  <1>1. TaskOK' /\ task'.pc = "sync" /\ task'.level = t
    BY <1>0 DEF TaskOK
  <1>2. FlushedIsKept' /\ SafeIsSupported' /\ CleanIsSynced'
    BY <1>0, Frame DEF files
  <1>3. \A l \in Levels : live'[l] = IF l = t THEN {} ELSE IF l = t + 1 THEN live[l] \cup live[t]
                                     ELSE live[l]
    BY <1>0, Zenon DEF Tables
  <1> HIDE DEF t
  <1>4. Tables'
    BY <1>0, <1>3 DEF Tables, files
  <1>5. live[t] \subseteq items[t + 1]
    BY <1>0 DEF CopiesArrive, t
  <1>6. TypeOK'
    BY <1>0, <1>3, <1>5 DEF Tables, TypeOK, files
  <1>7. CopiesArrive' /\ WantsAnchored'
    BY <1>0, <1>1 DEF CopiesArrive, WantsAnchored, Files, files
  <1>8. SafeIsLive'
    <2>1. ASSUME NEW b \in safe \cap Blobs
          PROVE  (\E l \in Levels : b \in live'[l] \cap durable[l]) \/ b \in live'[t + 1]
      <3>1. PICK l \in Levels : b \in live[l] \cap durable[l]
        BY <1>0 DEF SafeIsLive
      <3>2. CASE l = t
        <4>1. live'[t + 1] = live[t + 1] \cup live[t]
          BY <1>0, <1>3, Zenon
        <4> QED
          BY <3>1, <3>2, <4>1
      <3>3. CASE l # t
        <4>1. live[l] \subseteq live'[l]
          BY <1>3, <3>3, Zenon
        <4> QED
          BY <3>1, <4>1
      <3> QED
        BY <3>2, <3>3
    <2>2. task'.level + 1 = t + 1 /\ UNCHANGED <<durable, wants, open, safe>>
      BY <1>0, <1>1 DEF files
    <2> QED
      BY <1>0, <1>1, <2>1, <2>2, Zenon DEF SafeIsLive
  <1> QED
    BY <1>1, <1>2, <1>4, <1>6, <1>7, <1>8

(* The target is synced, and the tier that moved may be recycled. *)
LEMMA SyncMovedKeeps ==
    ASSUME IndInv, SyncMoved
    PROVE  IndInv'
  <1> USE DEF IndInv, Shape
  <1> DEFINE t == task.level
  <1>0. /\ task.pc = "sync" /\ open /\ t \in Levels /\ t + 1 \in Levels /\ t + 1 \in Nat
        /\ durable' = [durable EXCEPT ![t + 1] = items[t + 1]]
        /\ dirty' = [dirty EXCEPT ![t + 1] = FALSE] /\ wrote' = [wrote EXCEPT ![t + 1] = {}]
        /\ reopened' = reopened \ {t + 1}
        /\ task' = [task EXCEPT !.pc = "scan", !.level = t + 1, !.recycle = @ \cup {t}]
        /\ UNCHANGED <<use, items, live, wants, open, safe>>
    BY BusyIsOpen, LevelFacts DEF SyncMoved, Sync, TaskOK, Levels
  <1>1. TaskOK' /\ task'.pc = "scan"
    BY <1>0, Zenon DEF TaskOK
  <1> HIDE DEF t
  <1>2. SafeIsSupported'
    BY <1>0, Frame
  <1>3. Tables'
    BY <1>0 DEF Tables
  <1>4. TypeOK'
    BY <1>0 DEF Tables, TypeOK
  <1>5. CopiesArrive' /\ WantsAnchored'
    BY <1>0, <1>1 DEF CopiesArrive, WantsAnchored, Files
  <1>6. FlushedIsKept'
    BY <1>0 DEF Tables, TypeOK, FlushedIsKept
  <1>7. SafeIsLive'
    <2>1. ASSUME NEW b \in safe \cap Blobs
          PROVE  \E l \in Levels : b \in live[l] \cap durable'[l]
      BY <1>0 DEF Tables, TypeOK, SafeIsLive, t
    <2> QED
      BY <1>0, <2>1 DEF SafeIsLive
  <1>8. CleanIsSynced'
    BY <1>0 DEF Tables, CleanIsSynced
  <1> QED
    BY <1>1, <1>2, <1>3, <1>4, <1>5, <1>6, <1>7, <1>8

(* A compaction has looked at every tier. *)
LEMMA ScannedKeeps ==
    ASSUME IndInv, Scanned
    PROVE  IndInv'
  <1> USE DEF IndInv, Shape
  <1>0. task.pc = "scan" /\ open /\ UNCHANGED <<use, files, live, wants, open, safe>>
    BY BusyIsOpen DEF Scanned
  <1>1. PICK next \in {"finish", "recycle", "anchor"} :
           /\ task' = [task EXCEPT !.pc = next]
           /\ next = "recycle" => Young \in task.recycle
    BY DEF Scanned
  <1>2. TaskOK' /\ CopiesArrive' /\ (task'.pc = "recycle" => Young \in task'.recycle)
    BY <1>1 DEF TaskOK, CopiesArrive
  <1> QED
    BY <1>0, <1>2, TaskFrame

(* The wants are anchored in the young file, and synced. *)
LEMMA AnchorKeeps ==
    ASSUME IndInv, Anchor
    PROVE  IndInv'
  <1> USE DEF IndInv, Shape
  <1>0. /\ task.pc = "anchor" /\ open /\ Young \in Levels
        /\ task' = [task EXCEPT !.pc = "recycle"] /\ UNCHANGED <<use, live, wants, open, safe>>
    BY BusyIsOpen, LevelFacts DEF Anchor
  <1>1. TaskOK' /\ CopiesArrive' /\ task'.pc = "recycle"
    BY <1>0 DEF TaskOK, CopiesArrive
  <1>2. SafeIsSupported'
    BY <1>0, Frame
  <1>3. Tables'
    BY <1>0 DEF Tables, TypeOK, Anchor, Items
  <1>4. TypeOK'
    BY <1>0 DEF Tables, TypeOK, Anchor, Items
  <1>5. WantsAnchored'
    BY <1>0 DEF Tables, WantsAnchored, Files, Anchor
  <1>6. FlushedIsKept'
    BY <1>0 DEF Tables, TypeOK, FlushedIsKept, Anchor
  <1>7. SafeIsLive'
    BY <1>0, <1>1 DEF Tables, TypeOK, SafeIsLive, Anchor
  <1>8. CleanIsSynced'
    BY <1>0 DEF Tables, CleanIsSynced, Anchor
  <1> QED
    BY <1>1, <1>2, <1>3, <1>4, <1>5, <1>6, <1>7, <1>8

(* A rewrite of every tier begins, with the young one. *)
LEMMA ReclaimKeeps ==
    ASSUME IndInv, Reclaim
    PROVE  IndInv'
  <1> USE DEF IndInv, Shape
  <1>0. /\ task.pc = "idle" /\ open /\ UNCHANGED <<use, files, live, wants, open, safe>>
        /\ task' = [op |-> "reclaim", pc |-> "recycle", level |-> 0, copy |-> {},
                    recycle |-> Levels, roots |-> NoRoots]
    BY Zenon DEF Reclaim, Ready, Idle
  <1>1. TaskOK' /\ CopiesArrive' /\ Young \in task'.recycle
    BY <1>0, LevelFacts DEF TaskOK, CopiesArrive
  <1> QED
    BY <1>0, <1>1, TaskFrame

(* A file is replaced: the blobs it drops are not safe or synced where     *)
(* they are live, and the wants it drops are in the young file.            *)
LEMMA RecycleKeeps ==
    ASSUME IndInv, Recycle
    PROVE  IndInv'
  <1> USE DEF IndInv, Shape
  <1>0. PICK l \in task.recycle :
           /\ l = Min(task.recycle)
           /\ Young \in task.recycle => l = Young
    BY LeastLevel DEF Recycle, TaskOK
  <1>1. /\ task.pc = "recycle" /\ open /\ l \in Levels /\ Young \in Levels
        /\ items' = [items EXCEPT ![l] = Rewritten(l)]
        /\ durable' = [durable EXCEPT ![l] = Rewritten(l)]
        /\ dirty' = [dirty EXCEPT ![l] = FALSE] /\ wrote' = [wrote EXCEPT ![l] = {}]
        /\ reopened' = reopened \ {l} /\ task' = [task EXCEPT !.recycle = @ \ {l}]
        /\ UNCHANGED <<use, live, wants, open, safe>>
    BY <1>0, BusyIsOpen, LevelFacts DEF Recycle, TaskOK
  <1>2. TaskOK' /\ CopiesArrive' /\ task'.pc = "recycle" /\ task'.recycle = task.recycle \ {l}
    BY <1>1 DEF TaskOK, CopiesArrive
  <1>3. /\ live[l] \subseteq Rewritten(l) /\ items[l] \cap Records \subseteq Rewritten(l)
        /\ l = Young => wants \subseteq Rewritten(l)
        /\ Rewritten(l) \subseteq Items
    BY <1>1 DEF Rewritten, Tables, TypeOK, Items
  <1>4. SafeIsSupported'
    BY <1>1, Frame
  <1>5. Tables'
    BY <1>1, <1>3 DEF Tables
  <1>6. TypeOK'
    BY <1>1, <1>3 DEF Tables, TypeOK
  <1>7. Young \notin task'.recycle => wants \subseteq durable'[Young]
    <2>1. CASE l = Young
      BY <1>1, <1>3, <2>1 DEF Tables
    <2>2. CASE l # Young
      BY <1>0, <1>1, <1>2, <2>2 DEF Tables, WantsAnchored
    <2> QED
      BY <2>1, <2>2
  <1>8. wants \subseteq durable'[Young] \cup Files(items')
    <2>1. CASE l = Young
      BY <1>1, <1>3, <2>1 DEF Tables
    <2>2. CASE l # Young
      BY <1>0, <1>1, <2>2 DEF Tables, WantsAnchored
    <2> QED
      BY <2>1, <2>2
  <1>9. WantsAnchored'
    <2>1. durable'[Young] \subseteq Files(items')
      BY <1>1, <1>6 DEF TypeOK, Files
    <2> QED
      BY <1>1, <1>7, <1>8, <2>1 DEF WantsAnchored, Files
  <1>10. FlushedIsKept'
    <2>1. ASSUME NEW x \in safe
          PROVE  \E k \in Levels : x \in durable'[k]
      <3>1. PICK k \in Levels : x \in durable[k]
        BY DEF FlushedIsKept
      <3>2. CASE x \in Blobs
        <4>1. PICK m \in Levels : x \in live[m] \cap durable[m]
          BY <1>1, <3>2 DEF SafeIsLive
        <4> QED
          BY <1>1, <1>3, <4>1 DEF Tables
      <3>3. CASE x \in Records
        BY <1>1, <1>3, <3>1, <3>3 DEF Tables, TypeOK
      <3>4. CASE x \in Wants
        <4>1. x \in wants
          BY <1>1, <3>4 DEF SafeIsLive
        <4>2. CASE l = Young
          BY <1>1, <1>3, <4>1, <4>2 DEF Tables
        <4>3. CASE l # Young
          BY <1>0, <1>1, <4>1, <4>3 DEF Tables, WantsAnchored
        <4> QED
          BY <4>2, <4>3
      <3> QED
        BY <3>2, <3>3, <3>4 DEF TypeOK, Items
    <2> QED
      BY <1>1, <2>1 DEF FlushedIsKept
  <1>11. SafeIsLive'
    BY <1>1, <1>2, <1>3 DEF Tables, SafeIsLive
  <1>12. CleanIsSynced'
    BY <1>1 DEF Tables, CleanIsSynced
  <1> QED
    BY <1>2, <1>4, <1>5, <1>6, <1>9, <1>10, <1>11, <1>12

-----------------------------------------------------------------------------
(* A failed copy ends the operation. *)
LEMMA FailCopyKeeps ==
    ASSUME IndInv, FailCopy
    PROVE  IndInv'
  <1>1. /\ task.pc = "copy" /\ open /\ task' = Idle /\ task'.pc = "idle"
        /\ UNCHANGED <<use, files, live, wants, open, safe>>
    BY BusyIsOpen DEF FailCopy, Idle
  <1> QED
    BY <1>1, TaskFrame, IdleIsOK DEF IndInv, Shape

(* A failed rewrite leaves its file as it was, behind a fresh handle. *)
LEMMA FailRewriteKeeps ==
    ASSUME IndInv, FailRewrite
    PROVE  IndInv'
  <1> USE DEF IndInv, Shape
  <1>0. PICK l \in Levels :
           /\ dirty' = [dirty EXCEPT ![l] = FALSE] /\ reopened' = reopened \cup {l}
    BY LeastLevel, Zenon DEF FailRewrite, TaskOK
  <1>1. /\ task.pc = "recycle" /\ open /\ task' = Idle /\ task'.pc = "idle"
        /\ UNCHANGED <<use, items, durable, wrote, live, wants, open, safe>>
    BY BusyIsOpen DEF FailRewrite, Idle
  <1>2. TaskOK' /\ CopiesArrive' /\ FlushedIsKept' /\ SafeIsSupported'
    BY <1>1, IdleIsOK, Frame
  <1>3. Tables'
    BY <1>0, <1>1 DEF Tables
  <1>4. TypeOK'
    BY <1>0, <1>1 DEF TypeOK
  <1>5. WantsAnchored' /\ SafeIsLive'
    BY <1>1 DEF WantsAnchored, Files, SafeIsLive
  <1>6. CleanIsSynced'
    BY <1>0, <1>1 DEF Tables, CleanIsSynced
  <1> QED
    BY <1>2, <1>3, <1>4, <1>5, <1>6

(* After a failed sync, what is left of the safe items keeps itself. *)
LEMMA FailSyncKeeps ==
    ASSUME IndInv, FailSync
    PROVE  IndInv'
  <1> USE DEF IndInv, Shape
  <1> DEFINE t == task.level + 1
             D == safe \ (items[t] \ durable[t])
  <1>0. /\ task.pc \in {"sync", "anchor"} /\ open /\ task' = Idle /\ task'.pc = "idle"
        /\ safe' = IF task.pc = "anchor" THEN safe ELSE Supported(D)
        /\ UNCHANGED <<use, files, live, wants, open>>
    BY BusyIsOpen DEF FailSync, Idle
  <1>1. task.pc = "sync" => t \in Levels
    BY LevelFacts DEF TaskOK
  <1> HIDE DEF t, D
  <1>2. /\ safe' \subseteq safe /\ SafeIsSupported'
        /\ task.pc = "sync" => safe' \subseteq D
    <2>1. CASE task.pc = "anchor"
      BY <1>0, <2>1, Frame
    <2>2. CASE task.pc = "sync"
      <3>1. safe' = Supported(D)
        BY <1>0, <2>2
      <3>2. safe' \subseteq D /\ SafeIsSupported'
        BY <3>1, SupportedFacts DEF SafeIsSupported
      <3> QED
        BY <2>2, <3>2 DEF D
    <2> QED
      BY <1>0, <2>1, <2>2
  <1>3. Tables' /\ TaskOK' /\ CopiesArrive' /\ CleanIsSynced'
    BY <1>0, IdleIsOK, Frame
  <1>4. TypeOK'
    BY <1>0, <1>2 DEF TypeOK, files
  <1>5. WantsAnchored'
    BY <1>0 DEF WantsAnchored, Files, files
  <1>6. FlushedIsKept'
    BY <1>0, <1>2 DEF FlushedIsKept, files
  <1>7. SafeIsLive'
    <2>1. ASSUME NEW b \in safe' \cap Blobs
          PROVE  \E l \in Levels : b \in live[l] \cap durable[l]
      <3>1. CASE task.pc = "sync" /\ b \in live[t]
        BY <1>1, <1>2, <2>1, <3>1 DEF TypeOK, D
      <3> QED
        BY <1>0, <1>2, <2>1, <3>1 DEF SafeIsLive, t
    <2> QED
      BY <1>0, <1>2, <2>1 DEF SafeIsLive, files
  <1> QED
    BY <1>2, <1>3, <1>4, <1>5, <1>6, <1>7

(* A crash takes nothing from a file. *)
LEMMA CrashKeeps ==
    ASSUME IndInv, Crash
    PROVE  IndInv'
  <1> USE DEF IndInv, Shape
  <1>1. TaskOK' /\ CopiesArrive' /\ FlushedIsKept' /\ SafeIsSupported'
    BY IdleIsOK, Frame DEF Crash, Gone
  <1>2. Tables'
    BY Zenon DEF Tables, Crash, Gone
  <1>3. TypeOK'
    BY DEF Tables, TypeOK, Visible, Crash, Gone
  <1>4. WantsAnchored' /\ SafeIsLive' /\ CleanIsSynced'
    BY DEF WantsAnchored, SafeIsLive, CleanIsSynced, Crash, Gone, Idle
  <1> QED
    BY <1>1, <1>2, <1>3, <1>4

(* A power failure takes nothing that is synced. *)
LEMMA PowerFailKeeps ==
    ASSUME IndInv, PowerFail
    PROVE  IndInv'
  <1> USE DEF IndInv, Shape
  <1>0. PICK lost \in SUBSET {u \in Levels \X Items : u[2] \in items[u[1]] \ durable[u[1]]} :
           items' = [l \in Levels |-> {i \in items[l] : <<l, i>> \notin lost}]
    BY DEF PowerFail
  <1>1. /\ items' \in [Levels -> SUBSET Items]
        /\ \A l \in Levels : durable[l] \subseteq items'[l]
    BY <1>0, SMTT(20) DEF Tables, TypeOK
  <1>2. TaskOK' /\ CopiesArrive' /\ FlushedIsKept' /\ SafeIsSupported'
    BY IdleIsOK, Frame DEF PowerFail, Gone
  <1>3. Tables'
    BY <1>1, Zenon DEF Tables, PowerFail, Gone
  <1>4. TypeOK'
    BY <1>1 DEF TypeOK, Visible, PowerFail, Gone
  <1>5. WantsAnchored' /\ SafeIsLive' /\ CleanIsSynced'
    BY DEF WantsAnchored, SafeIsLive, CleanIsSynced, PowerFail, Gone, Idle
  <1> QED
    BY <1>2, <1>3, <1>4, <1>5

-----------------------------------------------------------------------------
(* A step that only takes blobs out of live sets, and no safe one. *)
LEMMA Collecting ==
    ASSUME IndInv, open, task.pc # "sync", TaskOK', task'.pc \in {"idle", "scan"},
           live' = live \/ (\E roots : live' = Collected(roots)),
           UNCHANGED <<use, files, wants, open, safe>>
    PROVE  IndInv'
  <1> USE DEF IndInv, Shape
  <1>1. /\ live' \in [Levels -> SUBSET Blobs]
        /\ \A l \in Levels : live'[l] \subseteq live[l] /\ safe \cap live[l] \subseteq live'[l]
    <2>1. CASE live' = live
      BY <2>1 DEF Tables
    <2>2. ASSUME NEW roots, live' = Collected(roots)
          PROVE  <1>1
      BY <2>2, CollectedFacts
    <2> QED
      BY <2>1, <2>2
  <1>2. FlushedIsKept' /\ SafeIsSupported' /\ CleanIsSynced'
    BY Frame DEF files
  <1>3. Tables'
    BY <1>1 DEF Tables, files
  <1>4. TypeOK'
    BY <1>1 DEF TypeOK, files
  <1>5. CopiesArrive' /\ WantsAnchored'
    BY DEF CopiesArrive, WantsAnchored, Files, files
  <1>6. SafeIsLive'
    BY <1>1 DEF SafeIsLive, files
  <1> QED
    BY <1>2, <1>3, <1>4, <1>5, <1>6

(* `collect` keeps what is safe. *)
LEMMA CollectKeeps ==
    ASSUME IndInv, NEW roots \in Roots, Collect(roots)
    PROVE  IndInv'
  <1>1. TaskOK' /\ open /\ task.pc = "idle" /\ task'.pc = "idle"
    BY Frame DEF Collect, Ready, IndInv, Shape
  <1> QED
    BY <1>1, Collecting DEF Collect

(* So does the collection a compaction begins with. *)
LEMMA CompactKeeps ==
    ASSUME IndInv, NEW roots \in Roots, Compact(roots)
    PROVE  IndInv'
  <1>1. task' = [op |-> "compact", pc |-> "scan", level |-> Young, copy |-> {},
                 recycle |-> {}, roots |-> roots]
    BY Zenon DEF Compact, Idle
  <1>2. TaskOK'
    BY <1>1, LevelFacts DEF TaskOK, Levels
  <1>3. open /\ task.pc = "idle" /\ task'.pc = "scan"
    BY <1>1 DEF Compact, Ready
  <1> QED
    BY <1>2, <1>3, Collecting DEF Compact

(* And the one it ends with. *)
LEMMA FinishKeeps ==
    ASSUME IndInv, Finish
    PROVE  IndInv'
  <1>1. open /\ TaskOK' /\ task.pc # "sync" /\ task'.pc = "idle"
    BY BusyIsOpen, IdleIsOK DEF Finish, Idle
  <1> QED
    BY <1>1, Collecting DEF Finish

(* `flush` makes safe what the yard's records and wants own. *)
LEMMA FlushKeeps ==
    ASSUME IndInv, Flush
    PROVE  IndInv'
  <1> USE DEF IndInv, Shape
  <1>0. /\ open /\ safe' = safe \cup Owned /\ durable' = items
        /\ dirty' = [l \in Levels |-> FALSE] /\ wrote' = [l \in Levels |-> {}]
        /\ UNCHANGED <<use, items, live, wants, open, task>>
    BY DEF Flush, Ready
  <1>1. /\ safe' \subseteq Items /\ safe' \cap Blobs \subseteq Visible
        /\ safe' \cap Wants \subseteq wants /\ safe' \subseteq Files(items)
        /\ safe' \cap Blobs \subseteq Keep(safe' \cap Blobs, safe' \ Blobs, NoRoots)
    BY <1>0, OwnedFacts, Zenon
  <1>2. TaskOK' /\ CopiesArrive'
    BY <1>0, Frame
  <1>3. Tables'
    BY <1>0 DEF Tables
  <1>4. TypeOK'
    BY <1>0, <1>1 DEF Tables, TypeOK, Flush
  <1>5. WantsAnchored'
    BY <1>0 DEF WantsAnchored, Files, Flush, Ready
  <1>6. FlushedIsKept'
    BY <1>0, <1>1 DEF FlushedIsKept, Files
  <1>7. SafeIsSupported'
    BY <1>1 DEF SafeIsSupported
  <1>8. SafeIsLive'
    <2>1. ASSUME NEW b \in safe' \cap Blobs
          PROVE  \E l \in Levels : b \in live[l] \cap items[l]
      BY <1>1 DEF Visible, TypeOK
    <2> QED
      BY <1>0, <1>1, <2>1, SMTT(20) DEF SafeIsLive
  <1>9. CleanIsSynced'
    BY <1>0 DEF CleanIsSynced
  <1> QED
    BY <1>2, <1>3, <1>4, <1>5, <1>6, <1>7, <1>8, <1>9

(* So does `close`, when it syncs all that is unsynced. *)
LEMMA CloseKeeps ==
    ASSUME IndInv, Close
    PROVE  IndInv'
  <1> USE DEF IndInv, Shape
  <1>0. /\ open /\ open' = FALSE /\ task' = Idle /\ wants' = {}
        /\ live' = [l \in Levels |-> {}] /\ dirty' = [l \in Levels |-> FALSE]
        /\ wrote' = [l \in Levels |-> {}] /\ reopened' = {}
        /\ durable' = [l \in Levels |-> IF dirty[l] THEN items[l] ELSE durable[l]]
        /\ UNCHANGED <<use, items>>
    BY DEF Close, Ready, Gone
  <1>1. \/ safe' = safe
        \/ /\ AllSynced /\ safe' \subseteq Files(items) /\ safe' \subseteq Items
           /\ safe' \cap Blobs \subseteq Keep(safe' \cap Blobs, safe' \ Blobs, NoRoots)
    BY <1>0, OwnedFacts, Zenon DEF Close
  <1>2. TaskOK' /\ CopiesArrive'
    BY <1>0, IdleIsOK
  <1>3. Tables'
    BY <1>0, Zenon DEF Tables
  <1>4. \A l \in Levels : durable[l] \subseteq durable'[l] /\ durable'[l] \subseteq items[l]
    BY <1>0 DEF TypeOK
  <1>5. TypeOK'
    BY <1>0, <1>1, <1>3, <1>4 DEF Tables, TypeOK, Visible
  <1>6. WantsAnchored' /\ SafeIsLive' /\ CleanIsSynced'
    BY <1>0 DEF WantsAnchored, SafeIsLive, CleanIsSynced, Idle
  <1>7. FlushedIsKept'
    <2>1. CASE safe' = safe
      BY <1>4, <2>1 DEF FlushedIsKept
    <2>2. CASE AllSynced /\ safe' \subseteq Files(items)
      BY <2>2 DEF AllSynced, FlushedIsKept, Files
    <2> QED
      BY <1>1, <2>1, <2>2
  <1>8. SafeIsSupported'
    BY <1>1, SMTT(20) DEF SafeIsSupported
  <1> QED
    BY <1>2, <1>3, <1>5, <1>6, <1>7, <1>8

(* Every step of a yard keeps the inductive invariant. *)
LEMMA StepKeeps ==
    ASSUME IndInv, Next
    PROVE  IndInv'
  BY SMTT(20), OpenKeeps, PutKeeps, InsertKeeps, WantKeeps, ScanKeeps, CopyBlobKeeps, MoveKeeps,
     SyncMovedKeeps, ScannedKeeps, AnchorKeeps, ReclaimKeeps, RecycleKeeps,
     FailCopyKeeps, FailRewriteKeeps, FailSyncKeeps, CrashKeeps, PowerFailKeeps,
     CollectKeeps, CompactKeeps, FinishKeeps, FlushKeeps, CloseKeeps
     DEF Next

(* A yard begins with its inductive invariant. *)
LEMMA InitHolds == Init => IndInv
  <1> SUFFICES ASSUME Init PROVE IndInv
    OBVIOUS
  <1> USE LevelFacts, ItemsAssumption, UsesAssumption DEF Init
  <1>1. Tables
    <2>1. items \in [Levels -> SUBSET Items] /\ durable \in [Levels -> SUBSET Items]
      OBVIOUS
    <2>2. dirty \in [Levels -> BOOLEAN] /\ open \in BOOLEAN
      BY Zenon
    <2>3. wrote \in [Levels -> SUBSET Items] /\ live \in [Levels -> SUBSET Blobs]
      OBVIOUS
    <2> QED
      BY <2>1, <2>2, <2>3 DEF Tables
  <1>2. TypeOK
    BY SMTT(20) DEF TypeOK, Visible, Items
  <1>3. TaskOK
    BY DEF TaskOK, Idle
  <1>4. CopiesArrive /\ WantsAnchored
    BY DEF CopiesArrive, WantsAnchored, Idle
  <1>5. FlushedIsKept
    BY DEF FlushedIsKept
  <1>6. SafeIsSupported /\ SafeIsLive
    BY DEF SafeIsSupported, SafeIsLive
  <1>7. CleanIsSynced
    BY DEF CleanIsSynced
  <1> QED
    BY <1>1, <1>2, <1>3, <1>4, <1>5, <1>6, <1>7 DEF IndInv, Shape

(* The inductive invariant holds throughout: of any yard, through any      *)
(* sequence of writes, collections, compactions, rewrites and failures.    *)
THEOREM YardInvariant == Spec => []IndInv
  <1>1. ASSUME IndInv, UNCHANGED vars
        PROVE  IndInv'
    <2> USE <1>1 DEF vars, files, IndInv, Shape
    <2>1. Tables'
      BY DEF Tables
    <2>2. TypeOK'
      BY DEF TypeOK, Visible
    <2>3. TaskOK'
      BY DEF TaskOK
    <2>4. CopiesArrive' /\ WantsAnchored'
      BY DEF CopiesArrive, WantsAnchored, Files
    <2>5. FlushedIsKept'
      BY DEF FlushedIsKept
    <2>6. SafeIsSupported'
      BY DEF SafeIsSupported
    <2>7. SafeIsLive'
      BY DEF SafeIsLive
    <2>8. CleanIsSynced'
      BY DEF CleanIsSynced
    <2> QED
      BY <2>1, <2>2, <2>3, <2>4, <2>5, <2>6, <2>7, <2>8
  <1> QED
    BY InitHolds, StepKeeps, <1>1, PTL DEF Spec

(* What was owned when everything was synced is in a synced file at every  *)
(* later moment (`compact` and `reclaim` sync what they move before they   *)
(* recycle the file it came from).                                         *)
THEOREM FlushedKept == Spec => []FlushedIsKept
  <1>1. IndInv => FlushedIsKept
    BY DEF IndInv
  <1> QED
    BY YardInvariant, <1>1, PTL

(* `close` syncs whatever this process appended to any file, unless a      *)
(* failed rewrite has given that file a handle that knows of no append.    *)
THEOREM ClosedDurable == Spec => ClosedIsDurable
  <1>1. ASSUME IndInv, Close, NEW l \in Levels \ reopened
        PROVE  wrote[l] \subseteq durable'[l]
    <2>1. CASE dirty[l]
      BY <1>1, <2>1 DEF IndInv, CleanIsSynced, Close
    <2>2. CASE ~dirty[l]
      BY <1>1, <2>2 DEF IndInv, CleanIsSynced
    <2> QED
      BY <2>1, <2>2
  <1>2. IndInv => [Close => \A l \in Levels \ reopened : wrote[l] \subseteq durable'[l]]_vars
    BY <1>1
  <1> QED
    BY YardInvariant, <1>2, PTL DEF ClosedIsDurable

-----------------------------------------------------------------------------
(* The yard is a flat store *)

(* The flat store keeps what the yard keeps. *)
LEMMA FlatKeep ==
    /\ \A P, O, R : Flat!Keep(P, O, R) = Keep(P, O, R)
    /\ Flat!NoRoots = NoRoots /\ Flat!Items = Items
  BY DEF Flat!Keep, Keep, Flat!Reach, Reach, Flat!NoRoots, NoRoots, Flat!Items, Items

(* What is owned in the flat store of an open yard is what the yard owns. *)
LEMMA FlatOwned == open => Flat!Owned = Owned
  BY FlatKeep DEF Flat!Owned, Flat!Owners, Owned

(* A step that leaves the records of every file and the union of the live  *)
(* sets as they are shows a reader nothing.                                *)
LEMMA SeenSame ==
    ASSUME \A l \in Levels : items'[l] \cap Records = items[l] \cap Records,
           Visible' = Visible \/ live' = live, UNCHANGED <<wants, open, safe>>
    PROVE  UNCHANGED Flat!vars
  <1>1. Stored' = Stored
    BY DEF Stored
  <1>2. Visible' = Visible
    BY DEF Visible
  <1> QED
    BY <1>1, <1>2 DEF Flat!vars

(* A collection of the yard is one of the flat store, or hides nothing. *)
LEMMA CollectIsFlat ==
    ASSUME open, UNCHANGED <<items, wants, open, safe>>,
           NEW roots \in Roots, live' = Collected(roots)
    PROVE  [Flat!Next]_(Flat!vars)
  <1> DEFINE K == Keep(Visible, Stored \cup wants, roots)
  <1>1. Visible' = Visible \cap K
    <2>1. live' = [l \in Levels |-> live[l] \cap K]
      BY DEF Collected
    <2> HIDE DEF K
    <2>2. Visible' = UNION {live[l] \cap K : l \in Levels}
      BY <2>1 DEF Visible
    <2> QED
      BY <2>2 DEF Visible
  <1>2. Stored' = Stored
    BY DEF Stored
  <1>3. CASE Visible' = Visible
    BY <1>2, <1>3 DEF Flat!vars
  <1>4. CASE Visible' # Visible
    <2>1. Flat!Keep(Visible, Flat!Owners, roots) = K
      BY FlatKeep DEF Flat!Owners
    <2> HIDE DEF K
    <2>2. Flat!Collect(roots)
      BY <1>1, <1>2, <1>4, <2>1 DEF Flat!Collect
    <2> QED
      BY <2>2 DEF Flat!Next
  <1> QED
    BY <1>3, <1>4

(* Opening shows everything that is safe (`open`). *)
LEMMA OpenIsFlat ==
    ASSUME IndInv, Open
    PROVE  Flat!Reopen
  <1>1. Visible' = Files(items) \cap Blobs
    <2>1. Visible' = UNION {items[l] \cap Blobs : l \in Levels}
      BY DEF Open, Visible
    <2> QED
      BY <2>1 DEF Files
  <1>2. Stored' = Files(items) \cap Records
    BY DEF Open, files, Stored, Files
  <1>3. wants' = Files(items) \cap Wants
    BY DEF Open, Files
  <1>4. safe \subseteq Files(items)
    <2>1. \A l \in Levels : durable[l] \subseteq items[l]
      BY DEF IndInv, Shape, TypeOK
    <2> QED
      BY <2>1 DEF IndInv, FlushedIsKept, Files
  <1>5. safe \subseteq Blobs \cup Records \cup Wants
    BY DEF IndInv, Shape, TypeOK, Items
  <1>6. ~open /\ open' /\ UNCHANGED safe
    BY DEF Open
  <1> HIDE DEF Open
  <1> QED
    BY <1>1, <1>2, <1>3, <1>4, <1>5, <1>6 DEF Flat!Reopen

(* A write is seen as the write it is (`put`, `insert`, `want`). *)
LEMMA WritesAreFlat ==
    ASSUME IndInv
    PROVE  /\ \A b \in Blobs : Put(b) => Flat!Put(b)
           /\ \A r \in Records : Insert(r) => Flat!Insert(r)
           /\ \A w \in Wants : Want(w) => Flat!Want(w)
  <1>0. /\ items \in [Levels -> SUBSET Items] /\ live \in [Levels -> SUBSET Blobs]
        /\ Young \in Levels
    BY LevelFacts DEF IndInv, Shape, Tables
  <1>1. ASSUME NEW b \in Blobs, Put(b)
        PROVE  Flat!Put(b)
    <2>1. Visible' = Visible \cup {b}
      BY <1>0, <1>1 DEF Put, Visible
    <2>2. items' = [items EXCEPT ![Young] = @ \cup {b}]
      BY <1>1 DEF Put, Write
    <2>3. Stored' = Stored
      BY <1>0, <2>2, ItemsAssumption DEF Stored
    <2>4. open /\ UNCHANGED <<open, wants, safe>>
      BY <1>1 DEF Put, Ready
    <2> QED
      BY <2>1, <2>3, <2>4 DEF Flat!Put
  <1>2. ASSUME NEW r \in Records, Insert(r)
        PROVE  Flat!Insert(r)
    <2>1. items' = [items EXCEPT ![Young] = @ \cup {r}] /\ live' = live
      BY <1>2 DEF Insert, Write
    <2>2. Stored' = Stored \cup {r}
      BY <1>0, <2>1 DEF Stored
    <2>3. Visible' = Visible
      BY <2>1 DEF Visible
    <2>4. open /\ UNCHANGED <<open, wants, safe>>
      BY <1>2 DEF Insert, Ready
    <2> QED
      BY <2>2, <2>3, <2>4 DEF Flat!Insert
  <1>3. ASSUME NEW w \in Wants, Want(w)
        PROVE  Flat!Want(w)
    <2>1. items' = [items EXCEPT ![Young] = @ \cup {w}] /\ live' = live
      BY <1>3 DEF Want, Write
    <2>2. Stored' = Stored
      BY <1>0, <2>1, ItemsAssumption DEF Stored
    <2>3. Visible' = Visible
      BY <2>1 DEF Visible
    <2>4. open /\ wants' = wants \cup {w} /\ UNCHANGED <<open, safe>>
      BY <1>3 DEF Want, Ready
    <2> QED
      BY <2>2, <2>3, <2>4 DEF Flat!Want
  <1> QED
    BY <1>1, <1>2, <1>3

(* The steps of a compaction and of a rewrite show a reader nothing.       *)
LEMMA TiersAreFlat ==
    ASSUME IndInv, \/ Scan \/ SyncMoved \/ Scanned \/ Reclaim \/ FailCopy \/ FailRewrite
                   \/ Move \/ Anchor \/ Recycle \/ \E b \in Blobs : CopyBlob(b)
    PROVE  UNCHANGED Flat!vars
  <1>0. /\ items \in [Levels -> SUBSET Items] /\ live \in [Levels -> SUBSET Blobs]
        /\ wants \subseteq Wants /\ task.recycle \subseteq Levels
        /\ task.pc = "copy" => task.level \in Levels /\ task.level + 1 \in Levels
    BY LevelFacts DEF IndInv, Shape, Tables, TypeOK, TaskOK
  <1>1. CASE Scan \/ SyncMoved \/ Scanned \/ Reclaim \/ FailCopy \/ FailRewrite
    <2>1. UNCHANGED <<items, live, wants, open, safe>>
      BY <1>1 DEF Scan, SyncMoved, Scanned, Reclaim, FailCopy, FailRewrite, files
    <2> QED
      BY <2>1, SeenSame
  <1>2. CASE Move
    <2>1. live' = [live EXCEPT ![task.level] = {}, ![task.level + 1] = @ \cup live[task.level]]
      BY <1>2 DEF Move
    <2>2. Visible' = Visible
      BY <1>0, <1>2, <2>1, LevelFacts DEF Move, Visible
    <2>3. UNCHANGED <<items, wants, open, safe>>
      BY <1>2 DEF Move, files
    <2> QED
      BY <2>2, <2>3, SeenSame
  <1>3. CASE Anchor
    <2>1. items' = [items EXCEPT ![Young] = @ \cup wants] /\ UNCHANGED <<live, wants, open, safe>>
      BY <1>3 DEF Anchor
    <2>2. \A l \in Levels : items'[l] \cap Records = items[l] \cap Records
      BY <1>0, <2>1, ItemsAssumption
    <2> QED
      BY <2>1, <2>2, SeenSame
  <1>4. CASE Recycle
    <2>1. PICK l \in task.recycle : l = Min(task.recycle)
      BY <1>0, <1>4, LeastLevel DEF Recycle
    <2>2. items' = [items EXCEPT ![l] = Rewritten(l)] /\ UNCHANGED <<live, wants, open, safe>>
      BY <1>4, <2>1 DEF Recycle
    <2>3. Rewritten(l) \cap Records = items[l] \cap Records
      BY <1>0, <2>1, ItemsAssumption DEF Rewritten
    <2>4. \A k \in Levels : items'[k] \cap Records = items[k] \cap Records
      BY <1>0, <2>2, <2>3
    <2> QED
      BY <2>2, <2>4, SeenSame
  <1>5. ASSUME NEW b \in Blobs, CopyBlob(b)
        PROVE  UNCHANGED Flat!vars
    <2>1. /\ items' = [items EXCEPT ![task.level + 1] = @ \cup {b}]
          /\ UNCHANGED <<live, wants, open, safe>>
      BY <1>5 DEF CopyBlob, Write
    <2>2. \A l \in Levels : items'[l] \cap Records = items[l] \cap Records
      BY <1>0, <2>1, ItemsAssumption
    <2> QED
      BY <2>1, <2>2, SeenSame
  <1> QED
    BY <1>1, <1>2, <1>3, <1>4, <1>5

(* Every step of a yard is a step of the flat store, or none. *)
LEMMA StepIsFlat ==
    ASSUME IndInv, [Next]_vars
    PROVE  [Flat!Next]_(Flat!vars)
  <1>0. /\ open \in BOOLEAN
        /\ task.pc # "idle" => open
        /\ task.op = "compact" => task.roots \in Roots
        /\ ~open => Visible = {} /\ wants = {}
    BY DEF IndInv, Shape, Tables, TypeOK, TaskOK, Idle
  <1>1. ASSUME Open \/ (\E b \in Blobs : Put(b)) \/ (\E r \in Records : Insert(r))
                    \/ (\E w \in Wants : Want(w))
        PROVE  Flat!Next
    BY <1>1, OpenIsFlat, WritesAreFlat DEF Flat!Next
  <1>2. ASSUME NEW roots \in Roots, Collect(roots) \/ Compact(roots)
        PROVE  [Flat!Next]_(Flat!vars)
    <2>1. open /\ live' = Collected(roots) /\ UNCHANGED <<items, wants, open, safe>>
      BY <1>2 DEF Collect, Compact, Ready, files
    <2> QED
      BY <2>1, CollectIsFlat
  <1>3. ASSUME Finish
        PROVE  [Flat!Next]_(Flat!vars)
    <2>1. /\ open /\ UNCHANGED <<items, wants, open, safe>>
          /\ live' = live \/ (task.op = "compact" /\ live' = Collected(task.roots))
      BY <1>0, <1>3 DEF Finish, files
    <2> QED
      BY <1>0, <2>1, CollectIsFlat, SeenSame
  <1>4. ASSUME Flush
        PROVE  [Flat!Next]_(Flat!vars)
    <2>1. open /\ UNCHANGED <<items, live, open, wants>> /\ safe' = safe \cup Owned
      BY <1>4 DEF Flush, Ready
    <2>2. Visible' = Visible /\ Stored' = Stored
      BY <2>1 DEF Visible, Stored
    <2>3. CASE safe' = safe
      BY <2>1, <2>2, <2>3 DEF Flat!vars
    <2>4. CASE safe' # safe
      BY <2>1, <2>2, <2>4, FlatOwned DEF Flat!Next, Flat!Flush
    <2> QED
      BY <2>3, <2>4
  <1>5. ASSUME Close \/ Crash \/ PowerFail
        PROVE  [Flat!Next]_(Flat!vars)
    <2>1. /\ open' = FALSE /\ wants' = {} /\ live' = [l \in Levels |-> {}]
          /\ safe' = safe \/ (open /\ safe' = safe \cup Owned)
          /\ open \/ safe' = safe
      BY <1>5 DEF Close, Crash, PowerFail, Gone, Ready
    <2>2. Visible' = {}
      BY <2>1 DEF Visible
    <2>3. CASE open
      BY <2>1, <2>2, <2>3, FlatOwned DEF Flat!Next, Flat!Stop
    <2>4. CASE ~open
      <3>1. open' = open /\ safe' = safe
        BY <1>0, <2>1, <2>4, Zenon
      <3>2. Visible' = Visible /\ wants' = wants
        BY <1>0, <2>1, <2>2, <2>4, Zenon
      <3> QED
        BY <2>4, <3>1, <3>2 DEF Flat!vars
    <2> QED
      BY <2>3, <2>4
  <1>6. ASSUME FailSync
        PROVE  Flat!Next
    <2>1. /\ open /\ UNCHANGED <<items, live, wants, open>>
          /\ safe' = safe \/ \E D \in SUBSET safe : safe' = Supported(D)
      BY <1>0, <1>6 DEF FailSync, files
    <2>2. Visible' = Visible /\ Stored' = Stored
      BY <2>1 DEF Visible, Stored
    <2>3. safe' \subseteq safe
      <3>1. ASSUME NEW D \in SUBSET safe
            PROVE  Supported(D) \subseteq safe
        BY DEF Supported
      <3> QED
        BY <2>1, <3>1
    <2> QED
      BY <2>1, <2>2, <2>3 DEF Flat!Next, Flat!Withdraw
  <1>7. CASE UNCHANGED vars
    BY <1>7, SeenSame DEF vars, files
  <1> QED
    BY <1>1, <1>2, <1>3, <1>4, <1>5, <1>6, <1>7, TiersAreFlat, SMTT(20) DEF Next

(* A reader of the yard sees the flat store that RetentionStore describes: *)
(* only collections hide blobs, only unowned ones, and what is safe is     *)
(* there again after every crash, power failure and restart.               *)
THEOREM YardIsFlat == Spec => FlatSpec
  <1>1. Init => Flat!Init
    BY UsesAssumption, FlatKeep DEF Init, Flat!Init, Visible, Items
  <1> QED
    BY <1>1, YardInvariant, StepIsFlat, PTL DEF Spec, FlatSpec, Flat!Spec

=============================================================================
