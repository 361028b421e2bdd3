-------------------------- MODULE PileRecordProofs --------------------------
(***************************************************************************)
(* What is proved about the records in a pile, on top of PileProofs:       *)
(*                                                                         *)
(*   - InsertInv: the cells of a collection record lie together, once;     *)
(*     from it that inserts stay;                                          *)
(*   - WholeInv: as long as no append stops short, the file is whole but   *)
(*     for the append under way; from it that appends can be read back and *)
(*     that no failure is reported without cause.                          *)
(***************************************************************************)
EXTENDS PileProofs

-----------------------------------------------------------------------------
(* The records that are inserted *)

Busy(s) == s.pc \in {"append", "readback"}

(* A handle that appends under the exclusive lock has the end of the file   *)
(* to itself: there is nothing after what it has applied but its own cells. *)
OwnCells(f, s) ==
  Busy(s) /\ s.lock = "exclusive" =>
    /\ Len(f) = s.applied + s.part
    /\ \A k \in 1 .. s.part : f[s.applied + k] = Cell(s.rec, k)

(* A collection record that is torn is the one an append is about to        *)
(* complete: nobody appends behind it.                                      *)
TornFixed(f, s) ==
  s.pc = "append" =>
    \A o \in Visited(f, 1) :
       o <= Len(f) /\ f[o].rec \in Fixed /\ ~Decodes(f, o)
          => s.lock = "exclusive" /\ o = s.applied + 1

(* What is being inserted is not there yet. *)
NotYet(f, s) ==
  Busy(s) /\ s.op = "insert" => \A o \in Upto(f, s.applied + 1) : f[o].rec # s.rec

Inserting(f, s) == OwnCells(f, s) /\ TornFixed(f, s) /\ NotYet(f, s)

(* The cells of a collection record are together, where a replay finds its *)
(* start.                                                                  *)
LaidOut(f, o, r) == \A j \in 1 .. Size[r] : o + j - 1 <= Len(f) => f[o + j - 1] = Cell(r, j)
FixedCells(f) ==
  \A i \in 1 .. Len(f) : f[i].rec \in Fixed =>
     \E o \in Visited(f, 1) :
        /\ i = o + f[i].part - 1 /\ f[i].part <= Size[f[i].rec]
        /\ LaidOut(f, o, f[i].rec)

Once(f) == \A x, y \in Found(f, 1) : f[x].rec \in Fixed /\ f[x].rec = f[y].rec => x = y
Holds(f, r) == \E o \in Found(f, 1) : f[o].rec = r

InsertInv ==
  /\ FixedCells(file) /\ Once(file)
  /\ \A h \in Handles : Inserting(file, hs[h])
  /\ \A r \in acked \cap Fixed : Holds(file, r)

(* The predicates above say nothing of a handle that does not append. *)
LEMMA IdleInserts ==
  ASSUME NEW f, NEW s, ~Busy(s)
  PROVE  Inserting(f, s)
  BY DEF Inserting, OwnCells, TornFixed, NotYet, Busy

(* What is known of a file holds for a file that begins with it. *)
LEMMA SeenFacts ==
  ASSUME NEW f \in Files, NEW g \in Files, Begins(f, g)
  PROVE  /\ 1 \in Offsets(f) /\ 1 \in Offsets(g) /\ Len(f) \in Nat /\ Len(g) \in Nat
         /\ Len(f) <= Len(g) /\ Found(f, 1) \subseteq Found(g, 1)
         /\ \A x \in Offsets(f) : x \in Visited(f, 1) <=> x \in Visited(g, 1)
         /\ \A x \in Offsets(f) : Decodes(f, x) => Decodes(g, x)
         /\ \A x \in 1 .. Len(f) : f[x] = g[x]
         /\ \A x \in Found(f, 1) : f[x] = g[x]
  <1>1. 1 \in Offsets(f) /\ 1 \in Offsets(g) /\ Len(f) \in Nat /\ Len(g) \in Nat
    BY DEF Offsets, Files
  <1>2. Len(f) <= Len(g) /\ \A x \in 1 .. Len(f) : f[x] = g[x]
    BY DEF Begins
  <1>3. /\ \A x \in Offsets(f) : x \in Visited(f, 1) <=> x \in Visited(g, 1)
        /\ \A x \in Offsets(f) : Decodes(f, x) => Decodes(g, x)
    BY <1>1, PrefixFacts
  <1>4. Found(f, 1) \subseteq Found(g, 1)
    BY <1>1, TracksPrefix
  <1>5. \A x \in Found(f, 1) : x \in 1 .. Len(f)
    BY FileFacts DEF Found, Visited
  <1> QED
    BY <1>1, <1>2, <1>3, <1>4, <1>5

(* The cells of a file. *)
LEMMA CellFacts ==
  ASSUME NEW f \in Files, NEW i \in 1 .. Len(f)
  PROVE  /\ f[i].rec \in PileRecords /\ f[i].part \in Nat \ {0}
         /\ Size[f[i].rec] \in Nat \ {0, 1}
  <1>1. f[i] \in CellSet
    BY DEF Files
  <1>2. f[i].rec \in PileRecords /\ f[i].part \in Nat \ {0}
    BY <1>1 DEF CellSet
  <1> QED
    BY <1>2, RecordsAssumption

(* Cutting a file leaves the cells of a record together. *)
LEMMA CutFixed ==
  ASSUME NEW f \in Files, NEW g \in Files, Begins(g, f), FixedCells(f), Once(f)
  PROVE  FixedCells(g) /\ Once(g)
  <1>1. /\ Len(g) \in Nat /\ Len(f) \in Nat /\ Len(g) <= Len(f)
        /\ Found(g, 1) \subseteq Found(f, 1)
        /\ \A x \in Offsets(g) : x \in Visited(g, 1) <=> x \in Visited(f, 1)
        /\ \A x \in 1 .. Len(g) : g[x] = f[x]
        /\ \A x \in Found(g, 1) : g[x] = f[x]
    BY SeenFacts
  <1>2. Once(g)
    BY <1>1, Zenon DEF Once
  <1>3. ASSUME NEW i \in 1 .. Len(g), g[i].rec \in Fixed
        PROVE  \E o \in Visited(g, 1) :
                 /\ i = o + g[i].part - 1 /\ g[i].part <= Size[g[i].rec]
                 /\ LaidOut(g, o, g[i].rec)
    <2>1. g[i] = f[i] /\ i \in 1 .. Len(f) /\ i \in Nat
      BY <1>1
    <2>2. PICK o \in Visited(f, 1) : /\ i = o + f[i].part - 1 /\ f[i].part <= Size[f[i].rec]
                                     /\ LaidOut(f, o, f[i].rec)
      BY <1>3, <2>1 DEF FixedCells
    <2>3. f[i].part \in Nat \ {0} /\ f[i].rec \in PileRecords
      BY <2>1, CellFacts
    <2>4. o \in Nat \ {0}
      BY FileFacts DEF Visited
    <2>5. o <= i
      BY <2>2, <2>3, <2>4
    <2>6. o \in Visited(g, 1)
      <3>1. o \in Offsets(g)
        BY <1>1, <2>1, <2>4, <2>5 DEF Offsets
      <3> QED
        BY <1>1, <3>1
    <2>7. LaidOut(g, o, g[i].rec)
      <3>1. ASSUME NEW j \in 1 .. Size[f[i].rec], o + j - 1 <= Len(g)
            PROVE  g[o + j - 1] = Cell(f[i].rec, j)
        <4>1. Size[f[i].rec] \in Nat
          BY <2>3, RecordsAssumption
        <4>2. o + j - 1 \in 1 .. Len(g) /\ o + j - 1 <= Len(f)
          BY <1>1, <2>4, <3>1, <4>1
        <4> QED
          BY <1>1, <2>2, <4>2 DEF LaidOut
      <3> QED
        BY <2>1, <3>1 DEF LaidOut
    <2> QED
      BY <2>1, <2>2, <2>6, <2>7
  <1> QED
    BY <1>2, <1>3 DEF FixedCells

(* A replay ends where nothing decodes. *)
LEMMA TornIsLast ==
  ASSUME NEW f \in Files, NEW x \in Visited(f, 1), ~Decodes(f, x)
  PROVE  \A y \in Visited(f, 1) : y <= x
  <1>1. 1 \in Offsets(f)
    BY DEF Offsets, Files
  <1>2. \A y \in Visited(f, 1) : y \in Nat
    BY FileFacts DEF Visited
  <1>3. \A y \in Visited(f, 1) : ~(x < y)
    BY <1>1, ChainFacts
  <1> QED
    BY <1>2, <1>3

(* The record that one more cell completes is where the replay used to end. *)
LEMMA NewlyFound ==
  ASSUME NEW f \in Files, NEW g \in Files, Begins(f, g), Len(g) = Len(f) + 1,
         NEW x \in Found(g, 1), x \notin Found(f, 1)
  PROVE  /\ x \in Visited(f, 1) /\ x \in Nat \ {0} /\ x <= Len(f) /\ ~Decodes(f, x)
         /\ f[x] = g[x]
  <1>1. x \in Visited(g, 1) /\ Decodes(g, x) /\ x \in Offsets(g)
    BY DEF Found, Visited
  <1>2. /\ x \in Nat \ {0} /\ Beyond(g, x) > x + 1 /\ Beyond(g, x) \in Offsets(g)
    BY <1>1, FileFacts
  <1>3. /\ Len(f) \in Nat /\ Len(g) \in Nat
        /\ \A y \in Offsets(f) : y \in Visited(f, 1) <=> y \in Visited(g, 1)
        /\ \A y \in 1 .. Len(f) : f[y] = g[y]
    BY SeenFacts
  <1>4. x <= Len(f)
    <2>1. Beyond(g, x) \in Nat /\ Beyond(g, x) <= Len(g) + 1
      BY <1>2, <1>3 DEF Offsets
    <2> QED
      BY <1>2, <1>3, <2>1
  <1>5. x \in Offsets(f) /\ x \in 1 .. Len(f)
    BY <1>2, <1>3, <1>4 DEF Offsets
  <1>6. x \in Visited(f, 1) /\ f[x] = g[x]
    BY <1>1, <1>3, <1>5
  <1>7. ~Decodes(f, x)
    BY <1>6 DEF Found
  <1> QED
    BY <1>2, <1>4, <1>6, <1>7

(* Who appends, holds a lock: alone, if what it appends is a collection     *)
(* record or a large blob.                                                  *)
LEMMA WriterFacts ==
  ASSUME IndInv, NEW h \in Handles, Busy(hs[h])
  PROVE  /\ hs[h].rec \in PileRecords
         /\ hs[h].rec \in Fixed => hs[h].lock = "exclusive" /\ hs[h].op = "insert"
         /\ hs[h].rec \in Large => hs[h].lock = "exclusive"
         /\ hs[h].op = "insert" => hs[h].lock = "exclusive"
         /\ \A g \in Handles \ {h} : /\ hs[g].lock # "exclusive"
                                     /\ hs[h].lock = "exclusive" => ~Busy(hs[g])
  <1>1. Stages(hs[h]) /\ hs[h].lock \in LockSet
    BY HandleFacts DEF HandleSet
  <1>2. /\ hs[h].op \in {"put", "insert"} /\ hs[h].lock # "none"
        /\ hs[h].rec \in Fixed => hs[h].op = "insert"
        /\ hs[h].rec \in PileRecords
        /\ hs[h].rec \in Large => hs[h].op = "put"
    BY <1>1, RecordsAssumption DEF Stages, Busy, PileRecords
  <1>3. /\ hs[h].op = "insert" => hs[h].lock = "exclusive"
        /\ hs[h].rec \in Large /\ hs[h].op = "put" => hs[h].lock = "exclusive"
    BY <1>1, <1>2 DEF Stages, Exclusive, LockSet
  <1>4. ASSUME NEW g \in Handles \ {h}
        PROVE  hs[g].lock # "exclusive" /\ (hs[h].lock = "exclusive" => ~Busy(hs[g]))
    <2>1. Locks(hs) /\ Stages(hs[g])
      BY HandleFacts DEF IndInv
    <2> QED
      BY <1>2, <2>1 DEF Locks, Stages, Busy
  <1> QED
    BY <1>2, <1>3, <1>4, SMTT(30)

(* One more cell of a record: what is torn is still the record of the       *)
(* writer.                                                                  *)
LEMMA WriteOwnCells ==
  ASSUME IndInv, NEW h \in Handles, WriteCell(h), OwnCells(file, hs[h])
  PROVE  OwnCells(file', Written(hs[h]))
  <1> DEFINE s == hs[h]
             t == Written(s)
  <1>1. /\ s.pc = "append" /\ Len(file) \in Nat /\ Len(file') = Len(file) + 1
        /\ file \in Files /\ file' \in Files /\ Begins(file, file')
        /\ file'[Len(file) + 1] = Cell(s.rec, s.part + 1) /\ s.part \in Nat
        /\ s.part + 1 <= Size[s.rec] /\ Size[s.rec] \in Nat
    BY WriteFacts
  <1>2. s \in HandleSet /\ Stages(s) /\ s.applied \in Nat
    BY HandleFacts, SMTT(30)
  <1>3. t.applied = s.applied /\ t.lock = s.lock /\ t.rec = s.rec /\ t.part = s.part + 1
    BY <1>1, <1>2, WrittenFacts, SMTT(30)
  <1>4. SUFFICES ASSUME s.lock = "exclusive"
                 PROVE  /\ Len(file') = s.applied + (s.part + 1)
                        /\ \A k \in 1 .. s.part + 1 : file'[s.applied + k] = Cell(s.rec, k)
    BY <1>3 DEF OwnCells
  <1>5. Busy(s)
    BY <1>1 DEF Busy
  <1>6. Len(file) = s.applied + s.part /\ \A k \in 1 .. s.part : file[s.applied + k] = Cell(s.rec, k)
    BY <1>4, <1>5 DEF OwnCells
  <1>7. \A x \in 1 .. Len(file) : file[x] = file'[x]
    BY <1>1, SeenFacts
  <1> HIDE DEF s, t
  <1>8. Len(file') = s.applied + (s.part + 1)
    BY <1>1, <1>2, <1>6
  <1>9. ASSUME NEW k \in 1 .. s.part + 1
        PROVE  file'[s.applied + k] = Cell(s.rec, k)
    <2>1. CASE k = s.part + 1
      <3>1. s.applied + k = Len(file) + 1
        BY <1>1, <1>2, <1>6, <2>1
      <3> QED
        BY <1>1, <2>1, <3>1
    <2>2. CASE k # s.part + 1
      <3>1. k \in 1 .. s.part /\ s.applied + k \in 1 .. Len(file)
        BY <1>1, <1>2, <1>6, <2>2, SMTT(30)
      <3> QED
        BY <1>6, <1>7, <3>1
    <2> QED
      BY <2>1, <2>2
  <1> QED
    BY <1>8, <1>9

(* A torn collection record in front of the cell being written is the one   *)
(* being written.                                                           *)
LEMMA TornIsOwn ==
  ASSUME IndInv, InsertInv, NEW h \in Handles, hs[h].pc = "append",
         NEW o \in Visited(file, 1), o <= Len(file), file[o].rec \in Fixed, ~Decodes(file, o)
  PROVE  /\ hs[h].lock = "exclusive" /\ o = hs[h].applied + 1 /\ hs[h].part > 0
         /\ file[o] = Cell(hs[h].rec, 1) /\ file[o].rec = hs[h].rec
         /\ Len(file) = hs[h].applied + hs[h].part
  <1>1. hs[h].lock = "exclusive" /\ o = hs[h].applied + 1
    BY DEF InsertInv, Inserting, TornFixed
  <1>2. /\ Len(file) = hs[h].applied + hs[h].part
        /\ \A k \in 1 .. hs[h].part : file[hs[h].applied + k] = Cell(hs[h].rec, k)
    BY <1>1, SMTT(30) DEF InsertInv, Inserting, OwnCells, Busy
  <1>3. hs[h].applied \in Nat /\ hs[h].part \in Nat
    BY HandleFacts DEF HandleSet
  <1>4. hs[h].part > 0 /\ 1 \in 1 .. hs[h].part
    BY <1>1, <1>2, <1>3
  <1>5. file[o] = Cell(hs[h].rec, 1)
    BY <1>1, <1>2, <1>4
  <1>6. file[o].rec = hs[h].rec
    BY <1>5 DEF Cell
  <1> QED
    BY <1>1, <1>2, <1>4, <1>5, <1>6, SMTT(30)

(* An append leaves the cells of the collection records together. *)
LEMMA WriteFixedCells ==
  ASSUME IndInv, InsertInv, NEW h \in Handles, WriteCell(h)
  PROVE  FixedCells(file')
  <1> DEFINE s == hs[h]
             n == Len(file) + 1
  <1>1. /\ s.pc = "append" /\ Len(file) \in Nat /\ Len(file') = n
        /\ file \in Files /\ file' \in Files /\ Begins(file, file')
        /\ file'[n] = Cell(s.rec, s.part + 1) /\ s.part \in Nat
        /\ s.part + 1 <= Size[s.rec] /\ Size[s.rec] \in Nat
    BY WriteFacts
  <1>0. /\ Len(file) \in Nat /\ Len(file') = n /\ n = Len(file) + 1 /\ s.part \in Nat
        /\ s.part + 1 <= Size[s.rec] /\ Size[s.rec] \in Nat
    BY <1>1
  <1>2. /\ Offsets(file) \subseteq Offsets(file')
        /\ \A x \in Offsets(file) : x \in Visited(file, 1) <=> x \in Visited(file', 1)
        /\ \A x \in 1 .. Len(file) : file[x] = file'[x]
    BY <1>1, SeenFacts, SMTT(30) DEF Offsets
  <1>3. s.applied \in Nat /\ s.applied + 1 \in Visited(file, 1) /\ s.applied + 1 \in Offsets(file)
    BY HandleFacts DEF Tracks
  <1>4. Busy(s)
    BY <1>1 DEF Busy
  <1>5. OwnCells(file, s)
    BY DEF InsertInv, Inserting
  <1>6. ASSUME NEW o \in Visited(file, 1), NEW r \in Fixed, LaidOut(file, o, r),
               o <= Len(file)
        PROVE  LaidOut(file', o, r)
    <2>1. SUFFICES ASSUME NEW j \in 1 .. Size[r], o + j - 1 <= Len(file')
                   PROVE  file'[o + j - 1] = Cell(r, j)
      BY SMTT(30) DEF LaidOut
    <2>2. o \in Nat \ {0} /\ Size[r] \in Nat \ {0, 1}
      BY <1>1, FileFacts, RecordsAssumption DEF Visited, PileRecords
    <2>3. CASE o + j - 1 <= Len(file)
      <3>1. o + j - 1 \in 1 .. Len(file)
        BY <1>0, <2>2, <2>3
      <3> QED
        BY <1>2, <1>6, <2>3, <3>1 DEF LaidOut
    <2>4. CASE ~(o + j - 1 <= Len(file))
      <3>1. o + j - 1 = n /\ j \in Nat
        BY <1>0, <2>1, <2>2, <2>4
      <3>2. file[o] = Cell(r, 1)
        <4>1. 1 \in 1 .. Size[r] /\ o + 1 - 1 = o
          BY <2>2
        <4> QED
          BY <1>6, <4>1 DEF LaidOut
      <3>3. file[o].rec = r
        BY <3>2 DEF Cell
      <3>4. ~Decodes(file, o)
        BY <1>0, <2>2, <3>1, <3>3, SMTT(30) DEF Decodes
      <3>5. o = s.applied + 1 /\ s.rec = r /\ Len(file) = s.applied + s.part
        BY <1>1, <1>6, <3>3, <3>4, TornIsOwn, SMTT(30)
      <3>6. j = s.part + 1
        <4>1. s.applied \in Nat
          BY <1>3
        <4> HIDE DEF s, n
        <4> QED
          BY <1>0, <3>1, <3>5, <4>1
      <3> QED
        BY <1>1, <3>1, <3>5, <3>6
    <2> QED
      BY <2>3, <2>4
  <1>7. ASSUME NEW i \in 1 .. Len(file'), file'[i].rec \in Fixed
        PROVE  \E o \in Visited(file', 1) :
                 /\ i = o + file'[i].part - 1 /\ file'[i].part <= Size[file'[i].rec]
                 /\ LaidOut(file', o, file'[i].rec)
    <2>1. CASE i = n
      <3>1. file'[i].rec = s.rec /\ file'[i].part = s.part + 1
        BY <1>1, <2>1 DEF Cell
      <3>2. s.lock = "exclusive"
        BY <1>4, <1>7, <3>1, WriterFacts
      <3>3. Len(file) = s.applied + s.part
        BY <1>4, <1>5, <3>2, SMTT(30) DEF OwnCells
      <3>4. \A k \in 1 .. s.part + 1 : file'[s.applied + k] = Cell(s.rec, k)
        <4>1. OwnCells(file', Written(s))
          BY <1>5, WriteOwnCells
        <4>2. s \in HandleSet /\ Stages(s)
          BY HandleFacts, SMTT(30)
        <4>3. /\ Busy(Written(s)) /\ Written(s).lock = s.lock /\ Written(s).part = s.part + 1
              /\ Written(s).applied = s.applied /\ Written(s).rec = s.rec
          BY <1>1, <4>2, WrittenFacts DEF Busy
        <4> QED
          BY <3>2, <4>1, <4>3 DEF OwnCells
      <3>5. LaidOut(file', s.applied + 1, s.rec)
        <4>1. SUFFICES ASSUME NEW j \in 1 .. Size[s.rec], (s.applied + 1) + j - 1 <= Len(file')
                       PROVE  file'[(s.applied + 1) + j - 1] = Cell(s.rec, j)
          BY DEF LaidOut
        <4>2. j \in 1 .. s.part + 1 /\ (s.applied + 1) + j - 1 = s.applied + j
          <5>1. s.applied \in Nat
            BY <1>3
          <5> HIDE DEF s, n
          <5> QED
            BY <1>0, <3>3, <4>1, <5>1
        <4> QED
          BY <3>4, <4>2
      <3>6. i = (s.applied + 1) + (s.part + 1) - 1
        <4>1. s.applied \in Nat /\ s.part \in Nat
          BY <1>0, <1>3
        <4>2. (s.applied + 1) + (s.part + 1) - 1 = s.applied + s.part + 1
          BY <4>1
        <4>3. i = s.applied + s.part + 1
          BY <2>1, <3>3
        <4> QED
          BY <4>2, <4>3
      <3>7. s.applied + 1 \in Visited(file', 1)
        BY <1>2, <1>3
      <3> QED
        BY <1>1, <3>1, <3>5, <3>6, <3>7
    <2>2. CASE i # n
      <3>1. i \in 1 .. Len(file) /\ file'[i] = file[i] /\ i \in Nat
        <4>1. i \in 1 .. Len(file)
          BY <1>1, <2>2, SMTT(30)
        <4> QED
          BY <1>2, <4>1
      <3>2. PICK o \in Visited(file, 1) : /\ i = o + file[i].part - 1
                                          /\ file[i].part <= Size[file[i].rec]
                                          /\ LaidOut(file, o, file[i].rec)
        BY <1>7, <3>1 DEF InsertInv, FixedCells
      <3>3. o \in Offsets(file) /\ o \in Nat \ {0} /\ file[i].part \in Nat \ {0}
        <4>1. o \in Offsets(file)
          BY DEF Visited
        <4> QED
          BY <1>1, <3>1, <4>1, FileFacts, CellFacts, Zenon
      <3>4. o <= Len(file)
        BY <1>0, <3>1, <3>2, <3>3, SMTT(30)
      <3>5. LaidOut(file', o, file[i].rec) /\ o \in Visited(file', 1)
        BY <1>2, <1>6, <1>7, <3>1, <3>2, <3>3, <3>4, SMTT(30)
      <3> QED
        BY <3>1, <3>2, <3>5
    <2> QED
      BY <2>1, <2>2, SMTT(30)
  <1> QED
    BY <1>7 DEF FixedCells

(* An append leaves no torn collection record behind but the one it is      *)
(* writing.                                                                 *)
LEMMA WriteTornFixed ==
  ASSUME IndInv, InsertInv, NEW h \in Handles, WriteCell(h), NEW g \in Handles,
         NEW t, t.pc = "append" => hs[g].pc = "append",
         t.lock = hs[g].lock, t.applied = hs[g].applied
  PROVE  TornFixed(file', t)
  <1> DEFINE s == hs[h]
             n == Len(file) + 1
  <1>1. /\ s.pc = "append" /\ file \in Files /\ file' \in Files /\ Begins(file, file')
        /\ file'[n] = Cell(s.rec, s.part + 1)
    BY WriteFacts
  <1>2. /\ Len(file) \in Nat /\ Len(file') = n /\ n = Len(file) + 1 /\ s.part \in Nat
        /\ s.part + 1 <= Size[s.rec] /\ Size[s.rec] \in Nat
    BY WriteFacts
  <1>3. /\ Offsets(file) \subseteq Offsets(file') /\ 1 \in Offsets(file')
        /\ \A x \in Offsets(file) : x \in Visited(file, 1) <=> x \in Visited(file', 1)
        /\ \A x \in Offsets(file) : Decodes(file, x) => Decodes(file', x)
        /\ \A x \in 1 .. Len(file) : file[x] = file'[x]
    BY <1>1, SeenFacts DEF Offsets
  <1>4. SUFFICES ASSUME t.pc = "append", NEW o \in Visited(file', 1), o <= Len(file'),
                        file'[o].rec \in Fixed, ~Decodes(file', o)
                 PROVE  hs[g].lock = "exclusive" /\ o = hs[g].applied + 1
    BY SMTT(30) DEF TornFixed
  <1>5. o \in Nat \ {0} /\ hs[g].pc = "append"
    BY <1>1, <1>4, FileFacts, SMTT(30) DEF Visited
  <1>6. CASE o <= Len(file)
    <2>1. o \in Offsets(file) /\ o \in 1 .. Len(file)
      BY <1>2, <1>5, <1>6 DEF Offsets
    <2>2. o \in Visited(file, 1) /\ ~Decodes(file, o) /\ file[o].rec \in Fixed
      BY <1>3, <1>4, <2>1
    <2> QED
      BY <1>5, <1>6, <2>2, TornIsOwn
  <1>7. CASE ~(o <= Len(file))
    <2>1. o = n
      BY <1>2, <1>4, <1>5, <1>7, SMTT(30)
    <2>2. s.rec \in Fixed /\ Busy(s) /\ Busy(hs[g])
      BY <1>1, <1>4, <1>5, <2>1, SMTT(30) DEF Cell, Busy
    <2>3. s.lock = "exclusive" /\ g = h
      BY <2>2, WriterFacts, SMTT(30)
    <2>4. /\ Len(file) = s.applied + s.part
          /\ \A k \in 1 .. s.part : file[s.applied + k] = Cell(s.rec, k)
      BY <2>2, <2>3, ZenonT(30) DEF InsertInv, Inserting, OwnCells
    <2>5. s.applied \in Nat /\ s.applied + 1 \in Visited(file', 1)
      <3>1. s.applied \in Nat /\ s.applied + 1 \in Visited(file, 1) /\ s.applied + 1 \in Offsets(file)
        BY HandleFacts, SMTT(30) DEF Tracks
      <3> QED
        BY <1>3, <3>1, SMTT(30)
    <2>6. s.part = 0
      <3>1. SUFFICES ASSUME s.part # 0 PROVE FALSE
        OBVIOUS
      <3>2. 1 \in 1 .. s.part /\ s.applied + 1 \in 1 .. Len(file) /\ s.applied + 1 < n
        <4> HIDE DEF s, n
        <4> QED
          BY <1>2, <2>4, <2>5, <3>1, SMTT(30)
      <3>3. file'[s.applied + 1] = Cell(s.rec, 1)
        BY <1>3, <2>4, <3>2, SMTT(30)
      <3>4. Beyond(file', s.applied + 1) <= n
        BY <1>1, <1>3, <1>4, <2>1, <2>5, <3>2, ChainFacts, SMTT(30)
      <3>5. (s.applied + 1) + Size[s.rec] <= n
        BY <3>3, <3>4 DEF Beyond, Cell
      <3> HIDE DEF s, n
      <3> QED
        BY <1>2, <2>4, <2>5, <3>5
    <2>7. o = s.applied + 1
      <3> HIDE DEF s, n
      <3> QED
        BY <1>2, <2>1, <2>4, <2>5, <2>6
    <2> QED
      BY <2>3, <2>7
  <1> QED
    BY <1>6, <1>7

(* An append completes a collection record that was not there before. *)
LEMMA WriteOnce ==
  ASSUME IndInv, InsertInv, NEW h \in Handles, WriteCell(h)
  PROVE  Once(file')
  <1> DEFINE s == hs[h]
  <1>1. /\ s.pc = "append" /\ file \in Files /\ file' \in Files /\ Begins(file, file')
        /\ Len(file') = Len(file) + 1
    BY WriteFacts
  <1>2. Found(file, 1) \subseteq Found(file', 1) /\ \A x \in Found(file, 1) : file[x] = file'[x]
    BY <1>1, SeenFacts, SMTT(30)
  <1>3. ASSUME NEW x \in Found(file', 1), x \notin Found(file, 1), file'[x].rec \in Fixed
        PROVE  /\ x = s.applied + 1 /\ file'[x].rec = s.rec /\ s.lock = "exclusive"
               /\ x \in Visited(file, 1) /\ ~Decodes(file, x)
    <2>1. x \in Visited(file, 1) /\ x <= Len(file) /\ ~Decodes(file, x) /\ file[x] = file'[x]
      BY <1>1, <1>3, NewlyFound
    <2> QED
      BY <1>1, <1>3, <2>1, TornIsOwn, SMTT(30)
  <1>4. ASSUME NEW x \in Found(file', 1), x \notin Found(file, 1), file'[x].rec \in Fixed,
               NEW y \in Found(file, 1)
        PROVE  file'[y].rec # file'[x].rec
    <2>1. /\ x = s.applied + 1 /\ file'[x].rec = s.rec /\ s.lock = "exclusive"
          /\ x \in Visited(file, 1) /\ ~Decodes(file, x)
      BY <1>3, <1>4
    <2>2. y \in Visited(file, 1) /\ Decodes(file, y)
      BY DEF Found
    <2>3. y <= x /\ y # x
      BY <1>1, <2>1, <2>2, TornIsLast, SMTT(30)
    <2>4. x \in Nat /\ y \in Nat
      BY <1>1, <2>1, <2>2, FileFacts DEF Visited
    <2>5. y < x
      BY <2>3, <2>4
    <2>6. y \in Upto(file, s.applied + 1)
      BY <2>1, <2>5 DEF Upto
    <2>7. Busy(s)
      BY <1>1 DEF Busy
    <2>8. s.op = "insert"
      BY <1>4, <2>1, <2>7, WriterFacts
    <2>9. NotYet(file, s)
      BY DEF InsertInv, Inserting
    <2> QED
      BY <1>2, <2>1, <2>6, <2>7, <2>8, <2>9, Zenon DEF NotYet
  <1>5. ASSUME NEW x \in Found(file', 1), NEW y \in Found(file', 1),
               file'[x].rec \in Fixed, file'[x].rec = file'[y].rec
        PROVE  x = y
    <2>1. CASE x \in Found(file, 1) /\ y \in Found(file, 1)
      BY <1>2, <1>5, <2>1 DEF InsertInv, Once
    <2>2. CASE x \notin Found(file, 1) /\ y \notin Found(file, 1)
      BY <1>3, <1>5, <2>2
    <2> QED
      BY <1>4, <1>5, <2>1, <2>2, Zenon
  <1> QED
    BY <1>5 DEF Once

(* The append of a cell keeps what is inserted, whoever appends. *)
LEMMA WriteInserts ==
  ASSUME IndInv, InsertInv, NEW h \in Handles, WriteCell(h)
  PROVE  InsertInv'
  <1> DEFINE s == hs[h]
             t == Written(s)
  <1>1. /\ s.pc = "append" /\ file \in Files /\ file' \in Files /\ Begins(file, file')
        /\ hs' = [hs EXCEPT ![h] = t] /\ acked' = acked /\ hs \in [Handles -> HandleSet]
        /\ Size[s.rec] \in Nat /\ s.part + 1 <= Size[s.rec]
    BY WriteFacts, Zenon DEF IndInv
  <1>2. s \in HandleSet /\ Stages(s)
    BY HandleFacts, SMTT(30)
  <1>3. /\ t.applied = s.applied /\ t.lock = s.lock /\ t.op = s.op /\ t.rec = s.rec /\ Busy(t)
    BY <1>1, <1>2, WrittenFacts, SMTT(30) DEF Busy
  <1>4. Found(file, 1) \subseteq Found(file', 1) /\ \A x \in Found(file, 1) : file[x] = file'[x]
    BY <1>1, SeenFacts, SMTT(30)
  <1>5. Busy(s)
    BY <1>1 DEF Busy
  <1>6. ASSUME NEW g \in Handles, NEW u, u.applied = hs[g].applied, u.rec = hs[g].rec,
               u.op = hs[g].op, Busy(u) => Busy(hs[g])
        PROVE  NotYet(file', u)
    <2>1. hs[g].applied + 1 \in Visited(file, 1) /\ hs[g].applied + 1 \in Offsets(file)
      BY HandleFacts, SMTT(30) DEF Tracks
    <2>2. /\ Upto(file, hs[g].applied + 1) = Upto(file', hs[g].applied + 1)
          /\ \A x \in Upto(file, hs[g].applied + 1) : file[x] = file'[x]
      <3>1. SameBefore(file, file', hs[g].applied + 1)
        BY <1>1, <2>1, BeforeStays, Zenon
      <3> QED
        BY <3>1, Zenon DEF SameBefore
    <2>3. NotYet(file, hs[g])
      BY DEF InsertInv, Inserting
    <2> QED
      BY <1>6, <2>2, <2>3, SMTT(30) DEF NotYet
  <1>7. ASSUME NEW g \in Handles
        PROVE  Inserting(file', hs'[g])
    <2>1. CASE g = h
      <3>1. hs'[g] = t
        BY <1>1, <2>1
      <3>2. OwnCells(file', t)
        BY WriteOwnCells, SMTT(30) DEF InsertInv, Inserting
      <3>3. TornFixed(file', t)
        BY <1>1, <1>3, WriteTornFixed
      <3>4. NotYet(file', t)
        BY <1>3, <1>5, <1>6
      <3> QED
        BY <3>1, <3>2, <3>3, <3>4 DEF Inserting
    <2>2. CASE g # h
      <3>1. hs'[g] = hs[g]
        BY <1>1, <2>2, SMTT(30)
      <3>2. OwnCells(file', hs[g])
        BY <1>5, <2>2, WriterFacts, SMTT(30) DEF OwnCells
      <3>3. TornFixed(file', hs[g])
        BY WriteTornFixed
      <3>4. NotYet(file', hs[g])
        BY <1>6
      <3> QED
        BY <3>1, <3>2, <3>3, <3>4, SMTT(30) DEF Inserting
    <2> QED
      BY <2>1, <2>2
  <1>8. \A r \in acked' \cap Fixed : Holds(file', r)
    BY <1>1, <1>4, Zenon DEF InsertInv, Holds
  <1> QED
    BY <1>7, <1>8, WriteFixedCells, WriteOnce, ZenonT(30) DEF InsertInv

-----------------------------------------------------------------------------
(* The steps that neither append nor report anything stored *)

Underway(s) == s.pc = "append" /\ s.part > 0

(* The handle goes on to a step that is no append; an append that this ends *)
(* has stopped short, and is counted.                                       *)
RestsIn(h, t) ==
  /\ hs' = [hs EXCEPT ![h] = t] /\ ~Busy(t)
  /\ t.pc = "idle" \/ t.open \/ (t.open = hs[h].open /\ hs[h].pc # "idle")
Rests(h) ==
  /\ \E t : RestsIn(h, t)
  /\ file' = file /\ acked' = acked /\ powers' = powers /\ tears <= tears'
  /\ Underway(hs[h]) => ~hs[h].open \/ tears' > tears

(* Opening a handle is a step that rests. *)
LEMMA OpeningRests ==
  ASSUME IndInv, NEW h \in Handles,
         PileOpen(h) \/ \E p \in 1 .. Len(file) : OpenPrefix(h, p)
  PROVE  Rests(h)
  <1>1. /\ file' = file /\ acked' = acked /\ powers' = powers /\ tears' = tears /\ ~hs[h].open
        /\ tears \in Nat
    BY DEF PileOpen, OpenPrefix, IndInv, Globals
  <1>2. CASE PileOpen(h)
    <2>1. RestsIn(h, [NoHandle EXCEPT !.open = TRUE])
      BY <1>2 DEF PileOpen, RestsIn, NoHandle, Busy
    <2> QED
      BY <1>1, <2>1 DEF Rests
  <1>3. ASSUME NEW p \in 1 .. Len(file), OpenPrefix(h, p)
        PROVE  Rests(h)
    <2> DEFINE s == Applied(NoHandle, Starts(SubSeq(file, 1, p), 1))
               t == [s EXCEPT !.open = TRUE]
    <2>1. hs' = [hs EXCEPT ![h] = t]
      BY <1>3 DEF OpenPrefix
    <2>2. t.pc = "idle"
      <3>1. s.pc = "idle" /\ t.pc = s.pc
        BY DEF Applied, NoHandle
      <3> QED
        BY <3>1
    <2> HIDE DEF t
    <2>3. RestsIn(h, t)
      BY <2>1, <2>2 DEF RestsIn, Busy
    <2> QED
      BY <1>1, <2>3 DEF Rests
  <1> QED
    BY <1>2, <1>3

(* Starting an operation is a step that rests. *)
LEMMA StartingRests ==
  ASSUME IndInv, NEW h \in Handles, NEW op, NEW r, Start(h, op, r)
  PROVE  Rests(h)
  <1> DEFINE s == hs[h]
             t == [s EXCEPT !.lock = IF Exclusive(op, r) THEN "exclusive" ELSE "shared",
                            !.pc = "refresh", !.op = op, !.rec = r]
  <1>1. /\ hs' = [hs EXCEPT ![h] = t] /\ file' = file /\ acked' = acked /\ powers' = powers
        /\ tears' = tears /\ s.open /\ s.pc = "idle"
    BY DEF Start
  <1>2. s \in HandleSet /\ tears \in Nat
    BY HandleFacts DEF IndInv, Globals
  <1> HIDE DEF s
  <1>3. t.pc = "refresh" /\ t.open = s.open
    BY <1>2, Zenon DEF HandleSet
  <1> HIDE DEF t
  <1>4. RestsIn(h, t)
    BY <1>1, <1>3 DEF RestsIn, Busy
  <1> QED
    BY <1>1, <1>2, <1>4 DEF Rests, Underway, s

(* Waiting for the exclusive lock, getting it, and flushing are steps that *)
(* rest.                                                                   *)
LEMMA WaitingRests ==
  ASSUME IndInv, NEW h \in Handles, StartAmputateAt(h) \/ LockExclusive(h) \/ PileFlush(h)
  PROVE  Rests(h)
  <1> DEFINE s == hs[h]
             t == [s EXCEPT !.pc = "lock", !.op = "amputate_at"]
             u == [s EXCEPT !.lock = "exclusive", !.pc = "refresh"]
             v == [s EXCEPT !.dirty = FALSE]
  <1>1. /\ file' = file /\ acked' = acked /\ powers' = powers /\ tears' = tears
        /\ s.pc \in {"idle", "lock"}
        /\ \/ hs' = [hs EXCEPT ![h] = t] /\ s.open
           \/ hs' = [hs EXCEPT ![h] = u] /\ s.pc = "lock"
           \/ hs' = [hs EXCEPT ![h] = v] /\ s.pc = "idle"
    BY DEF StartAmputateAt, LockExclusive, PileFlush
  <1>2. s \in HandleSet /\ tears \in Nat
    BY HandleFacts DEF IndInv, Globals
  <1> HIDE DEF s
  <1>3. /\ t.pc = "lock" /\ t.open = s.open /\ u.pc = "refresh" /\ u.open = s.open
        /\ v.pc = s.pc
    BY <1>2, Zenon DEF HandleSet
  <1> HIDE DEF t, u, v
  <1>4. \E w : RestsIn(h, w)
    <2>1. CASE hs' = [hs EXCEPT ![h] = t] /\ s.open
      <3>1. RestsIn(h, t)
        BY <1>3, <2>1 DEF RestsIn, Busy, s
      <3> QED
        BY <3>1
    <2>2. CASE hs' = [hs EXCEPT ![h] = u] /\ s.pc = "lock"
      <3>1. RestsIn(h, u)
        BY <1>3, <2>2 DEF RestsIn, Busy, s
      <3> QED
        BY <3>1
    <2>3. CASE hs' = [hs EXCEPT ![h] = v] /\ s.pc = "idle"
      <3>1. RestsIn(h, v)
        BY <1>3, <2>3, SMTT(30) DEF RestsIn, Busy, s
      <3> QED
        BY <3>1
    <2> QED
      BY <1>1, <2>1, <2>2, <2>3
  <1> QED
    BY <1>1, <1>2, <1>4 DEF Rests, Underway, s

(* A failed replay is a step that rests. *)
LEMMA FailingRests ==
  ASSUME IndInv, NEW h \in Handles, Recheck(h) \/ RefreshFails(h)
  PROVE  Rests(h)
  <1> DEFINE s == Applied(hs[h], Replayed(h))
             t == [s EXCEPT !.lock = "none", !.pc = "lock"]
             u == Waits(s, "cut")
  <1>1. Advances(hs[h], s) /\ HandleOK(file, synced, s)
    BY ReplayFacts
  <1>2. /\ file' = file /\ acked' = acked /\ powers' = powers /\ tears' = tears
        /\ hs[h].pc = "refresh"
        /\ \/ hs' = [hs EXCEPT ![h] = t] \/ hs' = [hs EXCEPT ![h] = u]
           \/ hs' = [hs EXCEPT ![h] = Done(s)]
    BY Zenon DEF Recheck, RefreshFails, Waits
  <1> HIDE DEF s
  <1>3. s \in HandleSet /\ s.open = hs[h].open /\ tears \in Nat
    BY <1>1 DEF Advances, Same, IndInv, Globals
  <1>4. t.pc = "lock" /\ t.open = s.open /\ u.pc = "lock" /\ u.open = s.open
    BY <1>3, Zenon DEF HandleSet, Waits
  <1>5. Done(s).pc = "idle"
    BY <1>1, <1>3, DoneFacts
  <1> HIDE DEF t, u
  <1>6. \E w : RestsIn(h, w)
    <2>1. \A w : /\ hs' = [hs EXCEPT ![h] = w]
                 /\ w.pc = "idle" \/ (w.pc = "lock" /\ w.open = hs[h].open)
                 => RestsIn(h, w)
      BY <1>2 DEF RestsIn, Busy
    <2> QED
      BY <1>2, <1>3, <1>4, <1>5, <2>1, Zenon
  <1> QED
    BY <1>2, <1>3, <1>6 DEF Rests, Underway

(* Stopping short, closing and dying are steps that rest; an append that *)
(* they end is counted.                                                  *)
LEMMA StoppingRests ==
  ASSUME IndInv, NEW h \in Handles, ShortWrite(h) \/ PileClose(h) \/ PileCrash(h)
  PROVE  Rests(h)
  <1>1. /\ file' = file /\ acked' = acked /\ powers' = powers /\ tears \in Nat
        /\ tears' \in {tears, tears + 1} /\ (Underway(hs[h]) => tears' = tears + 1)
        /\ hs' = [hs EXCEPT ![h] = Done(hs[h])] \/ hs' = [hs EXCEPT ![h] = NoHandle]
    BY DEF ShortWrite, PileClose, PileCrash, Underway, IndInv, Globals
  <1>2. Done(hs[h]).pc = "idle" /\ NoHandle.pc = "idle"
    <2>1. hs[h] \in HandleSet /\ HandleOK(file, synced, hs[h])
      BY DEF IndInv
    <2> QED
      BY <2>1, DoneFacts, NoHandleFacts, SMTT(30)
  <1>3. \E w : RestsIn(h, w)
    <2>1. \A w : hs' = [hs EXCEPT ![h] = w] /\ w.pc = "idle" => RestsIn(h, w)
      BY DEF RestsIn, Busy
    <2> QED
      BY <1>1, <1>2, <2>1, Zenon
  <1> QED
    BY <1>1, <1>3 DEF Rests

(* Every step of a pile rests, reads, appends, cuts or is a power failure. *)
LEMMA StepKinds ==
  ASSUME IndInv, PileNext
  PROVE  \/ PilePowerFail
         \/ \E h \in Handles :
              Rests(h) \/ RefreshOk(h) \/ Truncate(h) \/ WriteCell(h) \/ Readback(h)
  <1>1. ASSUME NEW h \in Handles, Operation(h)
        PROVE  Rests(h) \/ RefreshOk(h) \/ Truncate(h) \/ WriteCell(h) \/ Readback(h)
    <2>1. CASE PileOpen(h) \/ \E p \in 1 .. Len(file) : OpenPrefix(h, p)
      BY <2>1, OpeningRests
    <2>2. CASE \/ Refresh(h) \/ Amputate(h) \/ \E b \in PileBlobs : PilePut(h, b)
               \/ \E r \in Fixed : PileInsert(h, r)
      BY <2>2, StartingRests, Zenon DEF Refresh, Amputate, PilePut, PileInsert
    <2>3. CASE StartAmputateAt(h) \/ LockExclusive(h) \/ PileFlush(h)
      BY <2>3, WaitingRests
    <2>4. CASE Recheck(h) \/ RefreshFails(h)
      BY <2>4, FailingRests
    <2>5. CASE ShortWrite(h) \/ PileClose(h) \/ PileCrash(h)
      BY <2>5, StoppingRests
    <2> QED
      BY <1>1, <2>1, <2>2, <2>3, <2>4, <2>5, Zenon DEF Operation
  <1> QED
    BY <1>1, NextFacts, Zenon

-----------------------------------------------------------------------------
(* Every step keeps what is inserted *)

(* A step that leaves the file alone. *)
LEMMA QuietInserts ==
  ASSUME IndInv, InsertInv, NEW h \in Handles, NEW t, hs' = [hs EXCEPT ![h] = t],
         Inserting(file, t), file' = file, \A r \in acked' \cap Fixed : Holds(file, r)
  PROVE  InsertInv'
  <1>1. hs \in [Handles -> HandleSet]
    BY DEF IndInv
  <1>2. \A g \in Handles : hs'[g] = IF g = h THEN t ELSE hs[g]
    BY <1>1
  <1>3. \A g \in Handles : Inserting(file', hs'[g])
    BY <1>2 DEF InsertInv
  <1> QED
    BY <1>3 DEF InsertInv

(* A step that rests keeps what is inserted. *)
LEMMA RestInserts ==
  ASSUME IndInv, InsertInv, NEW h \in Handles, Rests(h)
  PROVE  InsertInv'
  <1>1. PICK t : RestsIn(h, t)
    BY DEF Rests
  <1>2. hs' = [hs EXCEPT ![h] = t] /\ Inserting(file, t)
    BY <1>1, IdleInserts DEF RestsIn
  <1>3. file' = file /\ acked' = acked
    BY DEF Rests
  <1>4. \A r \in acked' \cap Fixed : Holds(file, r)
    BY <1>3 DEF InsertInv
  <1> QED
    BY <1>2, <1>3, <1>4, QuietInserts, Zenon

(* What is in the index is in the file. *)
LEMMA IndexedIsHeld ==
  ASSUME NEW s, Tracks(file, s), NEW r, PileStored(s, r)
  PROVE  \E o \in Upto(file, s.applied + 1) : file[o].rec = r
  <1>1. PICK e \in s.index : e[1] = r
    BY DEF PileStored
  <1>2. e \in Entries(file, Upto(file, s.applied + 1))
    BY DEF Tracks
  <1> QED
    BY <1>1, <1>2 DEF Entries

(* A collection record that is not in the index is not where it has been    *)
(* read.                                                                    *)
LEMMA UnindexedIsNew ==
  ASSUME NEW s, Tracks(file, s), s.rec \in Fixed, ~PileStored(s, s.rec)
  PROVE  \A o \in Upto(file, s.applied + 1) : file[o].rec # s.rec
  <1>1. s.rec \notin PileBlobs
    BY RecordsAssumption
  <1>2. \A e \in s.index : e[1] # s.rec
    BY <1>1, Zenon DEF PileStored
  <1>3. ASSUME NEW o \in Upto(file, s.applied + 1)
        PROVE  <<file[o].rec, o>> \in s.index
    BY SMTT(30) DEF Tracks, Entries
  <1> QED
    BY <1>2, <1>3, Zenon

(* A writer that goes to its append has read the whole file. *)
LEMMA ToAppendInserts ==
  ASSUME IndInv, NEW h \in Handles, hs[h].pc = "refresh", ReplayEnds(h),
         NEW s, s = Applied(hs[h], Replayed(h)),
         s.op \in {"put", "insert"}, ~PileStored(s, s.rec)
  PROVE  Inserting(file, ToAppend(s))
  <1> DEFINE t == ToAppend(s)
  <1>1. /\ Advances(hs[h], s) /\ HandleOK(file, synced, s) /\ s.applied = PileStop(h) - 1
        /\ PileStop(h) \in Nat /\ PileStop(h) \in Visited(file, 1) /\ ~Decodes(file, PileStop(h))
    BY ReplayFacts, ZenonT(30)
  <1>2. PileStop(h) = Len(file) + 1 /\ Len(file) \in Nat /\ file \in Files
    BY HandleFacts, ZenonT(30) DEF ReplayEnds
  <1>3. s \in HandleSet /\ s.pc = "refresh" /\ Stages(s) /\ Tracks(file, s)
    BY <1>1, ZenonT(30) DEF Advances, Same, HandleOK
  <1>4. s.applied = Len(file)
    BY <1>1, <1>2
  <1>5. /\ t.pc = "append" /\ t.part = 0 /\ t.rec = s.rec /\ t.applied = s.applied /\ t.op = s.op
    BY <1>1, <1>3, ToAppendFacts, Zenon
  <1> HIDE DEF t
  <1>6. OwnCells(file, t)
    BY <1>2, <1>4, <1>5 DEF OwnCells
  <1>7. TornFixed(file, t)
    <2>1. SUFFICES ASSUME NEW o \in Visited(file, 1), o <= Len(file), ~Decodes(file, o)
                   PROVE  FALSE
      BY SMTT(30) DEF TornFixed
    <2>2. o \in Nat /\ PileStop(h) <= o
      BY <1>1, <1>2, <2>1, TornIsLast, FileFacts, ZenonT(30) DEF Visited
    <2> QED
      BY <1>2, <2>1, <2>2
  <1>8. NotYet(file, t)
    <2>1. s.op = "insert" => s.rec \in Fixed
      BY <1>3 DEF Stages
    <2> QED
      BY <1>3, <1>5, <2>1, UnindexedIsNew, ZenonT(30) DEF NotYet
  <1> QED
    BY <1>6, <1>7, <1>8, SMTT(30) DEF Inserting, t

(* A replay that reaches the end keeps what is inserted: what it reports *)
(* stored is in the file, and an insert that goes on to its append has   *)
(* found no such record.                                                 *)
LEMMA RefreshOkInserts ==
  ASSUME IndInv, InsertInv, NEW h \in Handles, RefreshOk(h)
  PROVE  InsertInv'
  <1> DEFINE s == Applied(hs[h], Replayed(h))
  <1>1. PICK t : RefreshedTo(h, s, t) /\ hs[h].pc = "refresh" /\ ReplayEnds(h) /\ file' = file
    BY RefreshOkFacts, Zenon
  <1>2. Advances(hs[h], s) /\ HandleOK(file, synced, s)
    BY ReplayFacts, SMTT(30)
  <1>3. s \in HandleSet /\ Tracks(file, s)
    BY <1>2, Zenon DEF Advances
  <1>4. Inserting(file, t)
    <2>1. CASE t = Done(s)
      <3>1. Done(s).pc = "idle"
        BY <1>2, <1>3, DoneFacts
      <3>2. ~Busy(t)
        BY <2>1, <3>1, SMTT(30) DEF Busy
      <3> QED
        BY <3>2, IdleInserts
    <2>2. CASE t = ToAppend(s) /\ s.op \in {"put", "insert"} /\ ~PileStored(s, s.rec)
      BY <1>1, <2>2, ToAppendInserts
    <2> QED
      BY <1>1, <2>1, <2>2, Zenon DEF RefreshedTo
  <1> HIDE DEF s
  <1>5. PileStored(s, s.rec) => Holds(file, s.rec)
    <2>1. ASSUME PileStored(s, s.rec) PROVE Holds(file, s.rec)
      <3>1. PICK o \in Upto(file, s.applied + 1) : file[o].rec = s.rec
        BY <1>3, <2>1, IndexedIsHeld
      <3> QED
        BY <3>1 DEF Holds, Upto
    <2> QED
      BY <2>1
  <1>6. \A r \in acked' \cap Fixed : Holds(file, r)
    BY <1>1, <1>5 DEF InsertInv, RefreshedTo
  <1>7. hs' = [hs EXCEPT ![h] = t]
    BY <1>1 DEF RefreshedTo
  <1> QED
    BY <1>1, <1>4, <1>6, <1>7, QuietInserts, Zenon

(* A readback keeps what is inserted: what it reports stored is in the *)
(* file.                                                               *)
LEMMA ReadbackInserts ==
  ASSUME IndInv, InsertInv, NEW h \in Handles, Readback(h)
  PROVE  InsertInv'
  <1> DEFINE S == ReadTo(h)
             a == Applied(hs[h], S)
             s == Done(a)
             ok == S # {} /\ file[Max(S)].rec = hs[h].rec
  <1>1. /\ file' = file
        /\ hs' = [hs EXCEPT ![h] = IF ok THEN Noted(s, Max(S)) ELSE s]
        /\ acked' = IF ok THEN acked \cup {hs[h].rec} ELSE acked
    BY Zenon DEF Readback, Noted
  <1>2. /\ Advances(hs[h], a) /\ HandleOK(file, synced, a)
        /\ S # {} => Max(S) \in Upto(file, a.applied + 1)
    BY ReadToFacts, ZenonT(30)
  <1> HIDE DEF S, a
  <1>3. a \in HandleSet
    BY <1>2 DEF Advances
  <1>4. s.pc = "idle" /\ s \in HandleSet
    BY <1>2, <1>3, DoneFacts DEF HandleOK
  <1> HIDE DEF s
  <1>5. Noted(s, Max(S)).pc = "idle"
    BY <1>4, Zenon DEF Noted, HandleSet
  <1>6. PICK t : hs' = [hs EXCEPT ![h] = t] /\ t.pc = "idle"
    BY <1>1, <1>4, <1>5, Zenon
  <1>7. Inserting(file, t)
    <2>1. ~Busy(t)
      BY <1>6 DEF Busy
    <2> QED
      BY <2>1, IdleInserts
  <1>8. \A r \in acked' \cap Fixed : Holds(file, r)
    <2>1. ok => Holds(file, hs[h].rec)
      BY <1>2, SMTT(30) DEF Holds, Upto
    <2> HIDE DEF ok
    <2> QED
      BY <1>1, <2>1 DEF InsertInv
  <1> QED
    BY <1>1, <1>6, <1>7, <1>8, QuietInserts, Zenon

(* An amputation keeps what is inserted: it cuts off only what no replay *)
(* finds.                                                                *)
LEMMA TruncateInserts ==
  ASSUME IndInv, InsertInv, NEW h \in Handles, Truncate(h)
  PROVE  InsertInv'
  <1> DEFINE b == PileStop(h)
  <1>1. /\ file \in Files /\ file' \in Files /\ Begins(file', file)
        /\ b \in Visited(file, 1) /\ b \in Offsets(file')
        /\ hs[h].pc = "refresh" /\ hs[h].lock = "exclusive" /\ acked' = acked
    BY TruncateFacts
  <1>2. /\ ~Decodes(file, b) /\ b \in Nat
    BY ReplayFacts, SMTT(30)
  <1> HIDE DEF b
  <1>3. FixedCells(file') /\ Once(file')
    BY <1>1, CutFixed DEF InsertInv
  <1>4. \A x \in Found(file, 1) : x < b
    <2>1. ASSUME NEW x \in Found(file, 1) PROVE x < b
      <3>1. x \in Visited(file, 1) /\ Decodes(file, x)
        BY DEF Found
      <3>2. x <= b /\ x # b
        BY <1>1, <1>2, <3>1, TornIsLast, ZenonT(30)
      <3>3. x \in Nat
        BY <1>1, <3>1, FileFacts, SMTT(30) DEF Visited
      <3> QED
        BY <1>2, <3>2, <3>3
    <2> QED
      BY <2>1
  <1>5. Upto(file', b) = Upto(file, b) /\ \A x \in Upto(file', b) : file'[x] = file[x]
    <2>1. SameBefore(file', file, b)
      BY <1>1, BeforeStays, Zenon
    <2> QED
      BY <2>1, Zenon DEF SameBefore
  <1>6. \A r \in acked' \cap Fixed : Holds(file', r)
    <2>1. \A x \in Found(file, 1) : x \in Found(file', 1) /\ file'[x] = file[x]
      BY <1>4, <1>5 DEF Upto
    <2> QED
      BY <1>1, <2>1, Zenon DEF InsertInv, Holds
  <1>7. \A g \in Handles : ~Busy(hs'[g])
    <2>1. hs \in [Handles -> HandleSet] /\ Locks(hs)
      BY DEF IndInv
    <2>2. \A g \in Handles \ {h} : hs[g].lock = "none" /\ Stages(hs[g])
      BY <1>1, <2>1, HandleFacts, SMTT(30) DEF Locks
    <2>3. \A g \in Handles \ {h} : ~Busy(hs[g])
      BY <2>2 DEF Stages, Busy
    <2> DEFINE s == Done(Applied(hs[h], Replayed(h)))
               t == [s EXCEPT !.dirty = FALSE]
    <2>4. hs' = [hs EXCEPT ![h] = t]
      BY DEF Truncate
    <2>5. s.pc = "idle" /\ s \in HandleSet
      <3>1. /\ HandleOK(file, synced, Applied(hs[h], Replayed(h)))
            /\ Applied(hs[h], Replayed(h)) \in HandleSet
        BY ReplayFacts, Zenon DEF Advances
      <3> QED
        BY <3>1, DoneFacts, SMTT(30) DEF HandleOK
    <2> HIDE DEF s
    <2>6. t.pc = "idle"
      BY <2>5, Zenon DEF HandleSet
    <2> HIDE DEF t
    <2>7. \A g \in Handles : hs'[g] = IF g = h THEN t ELSE hs[g]
      BY <2>1, <2>4, SMTT(30)
    <2> QED
      BY <2>3, <2>6, <2>7 DEF Busy
  <1> QED
    BY <1>3, <1>6, <1>7, IdleInserts, SMTT(30) DEF InsertInv

(* A power failure keeps the inserted records that are synced; only those *)
(* still count as stored.                                                 *)
LEMMA PowerFailInserts ==
  ASSUME IndInv, InsertInv, PilePowerFail
  PROVE  InsertInv'
  <1>1. /\ hs' = [h \in Handles |-> NoHandle] /\ file \in Files /\ file' \in Files
        /\ Begins(file', file) /\ synced <= Len(file') /\ synced \in Nat
        /\ acked' = {r \in acked : Durable(r)} /\ Len(file') \in Nat
    BY PowerFailFacts
  <1>2. FixedCells(file') /\ Once(file')
    BY <1>1, CutFixed DEF InsertInv
  <1>3. \A g \in Handles : ~Busy(hs'[g])
    BY <1>1, NoHandleFacts DEF Busy
  <1>4. ASSUME NEW r \in PileRecords, Durable(r)
        PROVE  Holds(file', r)
    <2>1. 1 \in Offsets(file) /\ 1 \in Offsets(file')
      BY <1>1, SMTT(30) DEF Offsets, Files
    <2>2. PICK o \in Found(file, 1) : file[o].rec = r /\ o + Size[r] - 1 <= synced
      BY <1>1, <1>4, <2>1, StartsAreFound, SMTT(30) DEF Durable
    <2>3. /\ o \in Nat \ {0} /\ Size[r] \in Nat \ {0, 1} /\ Beyond(file, o) = o + Size[r]
          /\ o \in Visited(file, 1) /\ Decodes(file, o)
      <3>1. o \in Offsets(file) /\ o \in Visited(file, 1) /\ Decodes(file, o)
        BY DEF Found, Visited
      <3> QED
        BY <1>1, <2>2, <3>1, FileFacts DEF Beyond
    <2>4. o \in Offsets(file') /\ Beyond(file, o) \in Offsets(file') /\ o \in 1 .. Len(file')
      BY <1>1, <2>2, <2>3 DEF Offsets
    <2>5. o \in Found(file', 1)
      <3>1. (o \in Visited(file', 1) <=> o \in Visited(file, 1)) /\ Decodes(file', o)
        BY <1>1, <2>1, <2>3, <2>4, PrefixFacts
      <3> QED
        BY <2>3, <3>1 DEF Found
    <2>6. file'[o] = file[o]
      BY <1>1, <2>4 DEF Begins
    <2> QED
      BY <2>2, <2>5, <2>6 DEF Holds
  <1>5. \A r \in acked' \cap Fixed : Holds(file', r)
    BY <1>1, <1>4 DEF PileRecords
  <1> QED
    BY <1>2, <1>3, <1>5, IdleInserts DEF InsertInv

(* Every step of a pile keeps what is inserted. *)
LEMMA NextInserts ==
  ASSUME IndInv, InsertInv, [PileNext]_pileVars
  PROVE  InsertInv'
  <1>1. CASE UNCHANGED pileVars
    BY <1>1 DEF pileVars, InsertInv
  <1>2. CASE PilePowerFail
    BY <1>2, PowerFailInserts
  <1>3. ASSUME NEW h \in Handles,
               Rests(h) \/ RefreshOk(h) \/ Truncate(h) \/ WriteCell(h) \/ Readback(h)
        PROVE  InsertInv'
    BY <1>3, RestInserts, RefreshOkInserts, TruncateInserts, WriteInserts, ReadbackInserts, Zenon
  <1> QED
    BY <1>1, <1>2, <1>3, StepKinds, Zenon

(* A collection record that a replay finds is whole. *)
LEMMA FixedIsIntact ==
  ASSUME NEW f \in Files, FixedCells(f), NEW o \in Found(f, 1), f[o].rec \in Fixed
  PROVE  Intact(f, o)
  <1>1. Decodes(f, o) /\ o \in Offsets(f)
    BY DEF Found, Visited
  <1>2. /\ o \in 1 .. Len(f) /\ o \in Nat \ {0} /\ Len(f) \in Nat /\ f[o].part = 1
        /\ Size[f[o].rec] \in Nat /\ o + Size[f[o].rec] - 1 <= Len(f)
    BY <1>1, FileFacts DEF Decodes
  <1>3. PICK x \in Visited(f, 1) : o = x + f[o].part - 1 /\ LaidOut(f, x, f[o].rec)
    BY <1>2 DEF FixedCells
  <1>4. x \in Nat
    BY FileFacts DEF Visited
  <1>5. x = o
    BY <1>2, <1>3, <1>4
  <1>6. ASSUME NEW k \in 1 .. Size[f[o].rec]
        PROVE  f[o + k - 1] = Cell(f[o].rec, k)
    <2>1. o + k - 1 <= Len(f)
      BY <1>2
    <2> QED
      BY <1>3, <1>5, <2>1 DEF LaidOut
  <1> QED
    BY <1>1, <1>6 DEF Intact

(* The inductive invariant of the inserts: the cells of a collection record *)
(* lie together where a replay finds them, once; while an insert is under   *)
(* way the end of the file is its own; and what was reported inserted is    *)
(* there.                                                                   *)
THEOREM InsertInvariant == PileSpec => []InsertInv
  <1>1. PileInit => InsertInv
    <2>1. ASSUME PileInit PROVE InsertInv
      <3>1. /\ file = <<>> /\ hs = [h \in Handles |-> NoHandle] /\ acked = {}
        BY <2>1 DEF PileInit
      <3>2. file \in Files /\ Len(file) = 0
        BY <3>1 DEF Files
      <3>3. FixedCells(file)
        BY <3>2 DEF FixedCells
      <3>4. Found(file, 1) = {}
        BY <3>2, FileFacts DEF Found, Visited
      <3>5. \A h \in Handles : ~Busy(hs[h])
        BY <3>1, NoHandleFacts DEF Busy
      <3> QED
        BY <3>1, <3>3, <3>4, <3>5, IdleInserts DEF InsertInv, Once
    <2> QED
      BY <2>1
  <1>2. IndInv /\ InsertInv /\ [PileNext]_pileVars => InsertInv'
    BY NextInserts
  <1> QED
    BY <1>1, <1>2, PileInvariant, PTL DEF PileSpec

-----------------------------------------------------------------------------
(* As long as every append is complete *)

(* The file ends in the cells that an append has written so far. *)
EndsIn(f, s) ==
  \E b \in Visited(f, 1) :
     b + s.part = Len(f) + 1 /\ \A k \in 1 .. s.part : f[b + k - 1] = Cell(s.rec, k)

(* The record that a writer reads back is where it will be found. *)
Ahead(f, s) == \E o \in Found(f, s.applied + 1) : f[o].rec = s.rec

(* Every record is whole, but for the one at the end that an append is      *)
(* writing; there is at most one of those.  What a writer reads back is     *)
(* ahead of it, and what was reported stored is there.                      *)
Whole ==
  /\ \A o \in Found(file, 1) : Intact(file, o)
  /\ \A g \in Handles : Underway(hs[g]) => EndsIn(file, hs[g])
  /\ \A g, h \in Handles : Underway(hs[g]) /\ Underway(hs[h]) => g = h
  /\ (\A g \in Handles : ~Underway(hs[g])) => Len(file) + 1 \in Visited(file, 1)
  /\ \A g \in Handles : hs[g].pc = "readback" => Ahead(file, hs[g])
  /\ \A r \in acked : Holds(file, r)

(* A handle that is closed does nothing. *)
Opened == \A h \in Handles : hs[h].pc # "idle" => hs[h].open

WholeInv == Opened /\ (tears + powers = 0 => Whole)

(* A step that leaves the file alone and begins or ends no append. *)
LEMMA QuietWhole ==
  ASSUME IndInv, Whole, NEW h \in Handles, NEW t, hs' = [hs EXCEPT ![h] = t],
         file' = file, ~Underway(hs[h]), ~Underway(t), t.pc # "readback",
         \A r \in acked' : Holds(file, r)
  PROVE  Whole'
  <1>1. hs \in [Handles -> HandleSet]
    BY DEF IndInv
  <1>2. hs'[h] = t /\ \A g \in Handles \ {h} : hs'[g] = hs[g]
    BY <1>1
  <1>3. \A g \in Handles : Underway(hs'[g]) <=> Underway(hs[g])
    BY <1>2, Zenon
  <1>4. \A g \in Handles : Underway(hs'[g]) => hs'[g] = hs[g]
    BY <1>2, Zenon
  <1>5. \A g \in Handles : hs'[g].pc = "readback" => hs'[g] = hs[g]
    BY <1>2, Zenon
  <1>6. /\ \A o \in Found(file', 1) : Intact(file', o)
        /\ \A r \in acked' : Holds(file', r)
    BY Zenon DEF Whole
  <1>7. \A g \in Handles : Underway(hs'[g]) => EndsIn(file', hs'[g])
    BY <1>3, <1>4, Zenon DEF Whole
  <1>8. /\ \A g, k \in Handles : Underway(hs'[g]) /\ Underway(hs'[k]) => g = k
        /\ (\A g \in Handles : ~Underway(hs'[g])) => Len(file') + 1 \in Visited(file', 1)
    BY <1>3, Zenon DEF Whole
  <1>9. \A g \in Handles : hs'[g].pc = "readback" => Ahead(file', hs'[g])
    BY <1>5, Zenon DEF Whole
  <1> QED
    BY <1>6, <1>7, <1>8, <1>9, Zenon DEF Whole

(* Under the exclusive lock a replay reaches the end of the file. *)
LEMMA WholeReplays ==
  ASSUME IndInv, Whole, NEW h \in Handles, hs[h].pc = "refresh", hs[h].lock = "exclusive"
  PROVE  ReplayEnds(h)
  <1>1. ASSUME NEW g \in Handles PROVE ~Underway(hs[g])
    <2>1. Locks(hs) /\ Stages(hs[g])
      BY HandleFacts, SMTT(30) DEF IndInv
    <2> QED
      BY <2>1 DEF Locks, Stages, Underway
  <1>2. Len(file) + 1 \in Visited(file, 1)
    BY <1>1, SMTT(30) DEF Whole
  <1>3. /\ PileStop(h) \in Visited(file, 1) /\ Len(file) + 1 <= PileStop(h)
        /\ PileStop(h) \in Nat
    BY <1>2, ReplayFacts, SMTT(30)
  <1>4. PileStop(h) <= Len(file) + 1 /\ Len(file) \in Nat
    BY <1>3, HandleFacts, SMTT(30) DEF Visited, Offsets
  <1> QED
    BY <1>3, <1>4 DEF ReplayEnds

(* What is intact stays so when the file grows. *)
LEMMA IntactGrows ==
  ASSUME NEW f \in Files, NEW g \in Files, Begins(f, g), NEW o \in Found(f, 1), Intact(f, o)
  PROVE  Intact(g, o)
  <1>1. o \in Offsets(f) /\ Decodes(f, o)
    BY SMTT(30) DEF Found, Visited
  <1>2. /\ o \in Nat \ {0} /\ Len(f) \in Nat /\ Size[f[o].rec] \in Nat
        /\ o + Size[f[o].rec] - 1 <= Len(f)
    BY <1>1, FileFacts DEF Decodes
  <1>3. /\ Decodes(g, o) /\ f[o] = g[o] /\ \A x \in 1 .. Len(f) : f[x] = g[x]
    BY <1>1, SeenFacts
  <1>4. ASSUME NEW k \in 1 .. Size[f[o].rec]
        PROVE  g[o + k - 1] = Cell(f[o].rec, k)
    <2>1. o + k - 1 \in 1 .. Len(f)
      BY <1>2
    <2>2. f[o + k - 1] = Cell(f[o].rec, k)
      BY DEF Intact
    <2> QED
      BY <1>3, <2>1, <2>2
  <1> QED
    BY <1>3, <1>4 DEF Intact

(* Nobody else has an append under way when a cell is written. *)
LEMMA WriterIsAlone ==
  ASSUME IndInv, NEW h \in Handles, WriteCell(h)
  PROVE  \A g \in Handles \ {h} : ~Underway(hs[g])
  <1>1. SUFFICES ASSUME NEW g \in Handles \ {h}, Underway(hs[g])
                 PROVE  FALSE
    OBVIOUS
  <1>2. hs[g].rec \in Large
    BY <1>1 DEF WriteCell, Writing, Underway
  <1>3. Busy(hs[g]) /\ Busy(hs[h])
    BY <1>1 DEF WriteCell, Underway, Busy
  <1>4. hs[g].lock = "exclusive"
    BY <1>2, <1>3, WriterFacts, SMTT(30)
  <1> QED
    BY <1>3, <1>4, WriterFacts

(* Where the record that is being written starts. *)
LEMMA WriteTail ==
  ASSUME IndInv, Whole, NEW h \in Handles, WriteCell(h)
  PROVE  \E b \in Visited(file, 1) :
           /\ b \in Visited(file', 1) /\ b \in Nat \ {0} /\ b + hs[h].part = Len(file) + 1
           /\ ~Decodes(file, b)
           /\ \A k \in 1 .. hs[h].part + 1 : file'[b + k - 1] = Cell(hs[h].rec, k)
  <1> DEFINE s == hs[h]
             n == Len(file) + 1
  <1>1. /\ s.pc = "append" /\ file \in Files /\ file' \in Files /\ Begins(file, file')
        /\ file'[n] = Cell(s.rec, s.part + 1)
    BY WriteFacts, SMTT(30)
  <1>2. /\ Len(file) \in Nat /\ n = Len(file) + 1 /\ s.part \in Nat
        /\ s.part + 1 <= Size[s.rec] /\ Size[s.rec] \in Nat
    BY WriteFacts, SMTT(30)
  <1>3. /\ \A x \in Offsets(file) : x \in Visited(file, 1) <=> x \in Visited(file', 1)
        /\ \A x \in 1 .. Len(file) : file[x] = file'[x]
    BY <1>1, SeenFacts, SMTT(30)
  <1>4. PICK b \in Visited(file, 1) :
          b + s.part = n /\ \A k \in 1 .. s.part : file[b + k - 1] = Cell(s.rec, k)
    <2>1. CASE s.part = 0
      <3>1. ~Underway(s)
        BY <2>1 DEF Underway
      <3>2. \A g \in Handles : ~Underway(hs[g])
        BY <3>1, WriterIsAlone, SMTT(30)
      <3>3. n \in Visited(file, 1)
        BY <3>2 DEF Whole
      <3>4. n + s.part = n /\ \A k \in 1 .. s.part : FALSE
        <4> HIDE DEF s, n
        <4> QED
          BY <1>2, <2>1
      <3> QED
        BY <3>3, <3>4
    <2>2. CASE s.part # 0
      <3>1. Underway(s)
        BY <1>1, <1>2, <2>2, SMTT(30) DEF Underway
      <3>2. EndsIn(file, s)
        BY <3>1 DEF Whole
      <3> QED
        BY <3>2 DEF EndsIn
    <2> QED
      BY <2>1, <2>2, SMTT(30)
  <1>5. b \in Nat \ {0} /\ b \in Visited(file', 1)
    <2>1. b \in Offsets(file)
      BY DEF Visited
    <2> QED
      BY <1>1, <1>3, <2>1, FileFacts, Zenon
  <1> HIDE DEF s, n
  <1>6. ASSUME NEW k \in 1 .. s.part + 1
        PROVE  file'[b + k - 1] = Cell(s.rec, k)
    <2>1. CASE k = s.part + 1
      <3>1. b + k - 1 = n
        BY <1>2, <1>4, <1>5, <2>1
      <3> QED
        BY <1>1, <2>1, <3>1
    <2>2. CASE k # s.part + 1
      <3>1. k \in 1 .. s.part /\ b + k - 1 \in 1 .. Len(file)
        BY <1>2, <1>4, <1>5, <2>2
      <3> QED
        BY <1>3, <1>4, <3>1
    <2> QED
      BY <2>1, <2>2
  <1>7. ~Decodes(file, b)
    <2>1. CASE s.part = 0
      BY <1>2, <1>4, <1>5, <2>1 DEF Decodes
    <2>2. CASE s.part # 0
      <3>1. 1 \in 1 .. s.part /\ b + 1 - 1 = b
        BY <1>2, <1>5, <2>2
      <3>2. file[b] = Cell(s.rec, 1)
        BY <1>4, <3>1
      <3>3. file[b].rec = s.rec
        BY <3>2 DEF Cell
      <3>4. ~(b + Size[s.rec] - 1 <= Len(file))
        BY <1>2, <1>4, <1>5
      <3> QED
        BY <3>3, <3>4 DEF Decodes
    <2> QED
      BY <2>1, <2>2
  <1> QED
    BY <1>4, <1>5, <1>6, <1>7, SMTT(30) DEF s, n

(* An append by one handle: the record at the end is the one it writes. *)
LEMMA WriteWhole ==
  ASSUME IndInv, Whole, NEW h \in Handles, WriteCell(h)
  PROVE  Whole'
  <1> DEFINE s == hs[h]
             t == Written(s)
  <1>1. /\ s.pc = "append" /\ file \in Files /\ file' \in Files /\ Begins(file, file')
        /\ hs' = [hs EXCEPT ![h] = t] /\ acked' = acked /\ hs \in [Handles -> HandleSet]
    BY WriteFacts, ZenonT(30) DEF IndInv
  <1>2. /\ Len(file) \in Nat /\ Len(file') = Len(file) + 1 /\ s.part \in Nat
        /\ s.part + 1 <= Size[s.rec] /\ Size[s.rec] \in Nat \ {0, 1}
    BY WriteFacts, SMTT(30)
  <1>3. /\ t.applied = s.applied /\ t.rec = s.rec /\ t.part = s.part + 1
        /\ IF t.part = Size[s.rec] THEN t.pc = "readback" ELSE t.pc = "append"
    <2>1. s \in HandleSet /\ Stages(s)
      BY HandleFacts
    <2> QED
      BY <1>1, <1>2, <2>1, WrittenFacts, Zenon
  <1>4. hs'[h] = t /\ \A g \in Handles \ {h} : hs'[g] = hs[g] /\ ~Underway(hs[g])
    BY <1>1, WriterIsAlone, SMTT(30)
  <1>5. PICK b \in Visited(file, 1) :
          /\ b \in Visited(file', 1) /\ b \in Nat \ {0} /\ b + s.part = Len(file) + 1
          /\ ~Decodes(file, b)
          /\ \A k \in 1 .. s.part + 1 : file'[b + k - 1] = Cell(s.rec, k)
    BY WriteTail
  <1>0. b \in Nat \ {0} /\ b + s.part = Len(file) + 1
    BY <1>5
  <1>6. /\ Found(file, 1) \subseteq Found(file', 1) /\ 1 \in Offsets(file')
        /\ \A x \in Found(file, 1) : file[x] = file'[x]
    BY <1>1, SeenFacts, SMTT(30)
  <1>7. s.applied \in Nat /\ s.applied + 1 \in Visited(file, 1)
    BY HandleFacts, ZenonT(30) DEF Tracks
  <1> HIDE DEF s, t
  <1>8. file'[b].rec = s.rec /\ file'[b].part = 1
    <2>1. 1 \in 1 .. s.part + 1 /\ b + 1 - 1 = b
      BY <1>2, <1>5
    <2>2. file'[b] = Cell(s.rec, 1)
      BY <1>5, <2>1
    <2> QED
      BY <2>2, SMTT(30) DEF Cell
  <1>9. \A o \in Found(file', 1) : Intact(file', o)
    <2>1. ASSUME NEW o \in Found(file', 1), o \notin Found(file, 1)
          PROVE  Intact(file', o)
      <3>1. o \in Visited(file, 1) /\ o \in Nat \ {0} /\ ~Decodes(file, o)
        BY <1>1, <1>2, <2>1, NewlyFound, SMTT(30)
      <3>2. o = b
        <4>1. o <= b /\ b <= o
          BY <1>1, <1>5, <3>1, TornIsLast
        <4> QED
          BY <1>5, <3>1, <4>1
      <3>3. Decodes(file', b)
        BY <3>2 DEF Found
      <3>4. s.part + 1 = Size[s.rec]
        <4>1. b + Size[s.rec] - 1 <= Len(file')
          BY <1>8, <3>3 DEF Decodes
        <4> QED
          BY <1>0, <1>2, <4>1
      <3> QED
        BY <1>5, <1>8, <3>2, <3>3, <3>4, SMTT(30) DEF Intact
    <2>2. ASSUME NEW o \in Found(file, 1)
          PROVE  Intact(file', o)
      BY <1>1, IntactGrows, SMTT(30) DEF Whole
    <2> QED
      BY <2>1, <2>2, SMTT(30)
  <1>10. Underway(t) => EndsIn(file', t)
    <2>1. t.part = s.part + 1
      BY <1>3, SMTT(30)
    <2>2. b + t.part = Len(file') + 1
      BY <1>0, <1>2, <2>1, SMTT(30)
    <2> QED
      BY <1>3, <1>5, <2>2, SMTT(30) DEF EndsIn
  <1>11. ASSUME ~Underway(t)
         PROVE  t.pc = "readback" /\ b \in Found(file', 1) /\ Len(file') + 1 \in Visited(file', 1)
    <2>1. t.part > 0
      BY <1>2, <1>3
    <2>2. t.pc = "readback" /\ t.part = Size[s.rec]
      BY <1>3, <1>11, <2>1 DEF Underway
    <2>3. b + Size[s.rec] = Len(file') + 1
      <3>1. s.part + 1 = Size[s.rec]
        BY <1>3, <2>2
      <3> QED
        BY <1>0, <1>2, <3>1, SMTT(30)
    <2>4. Decodes(file', b)
      <3>1. b <= Len(file') /\ b + Size[s.rec] - 1 <= Len(file')
        BY <1>0, <1>2, <2>3, SMTT(30)
      <3> QED
        BY <1>8, <3>1 DEF Decodes
    <2>5. Beyond(file', b) \in Visited(file', 1)
      BY <1>1, <1>5, <1>6, <2>4, VisitedFacts, SMTT(30)
    <2> QED
      BY <1>5, <1>8, <2>2, <2>3, <2>4, <2>5, Zenon DEF Found, Beyond
  <1>12. s.applied + 1 <= b
    BY <1>1, <1>5, <1>7, TornIsLast, SMTT(30)
  <1>13. t.pc = "readback" => Ahead(file', t)
    <2>1. ASSUME t.pc = "readback" PROVE b \in Found(file', s.applied + 1)
      <3>1. ~Underway(t)
        BY <2>1 DEF Underway
      <3>2. b \in Visited(file', 1) /\ Decodes(file', b)
        BY <1>11, <3>1 DEF Found
      <3>3. s.applied + 1 \in Visited(file', 1)
        <4>1. s.applied + 1 \in Offsets(file)
          BY <1>7 DEF Visited
        <4> QED
          BY <1>1, <1>7, <4>1, SeenFacts
      <3>4. b \in Visited(file', s.applied + 1)
        BY <1>1, <1>6, <1>12, <3>2, <3>3, ResumeFacts
      <3> QED
        BY <3>2, <3>4 DEF Found
    <2> QED
      BY <1>3, <1>8, <2>1 DEF Ahead
  <1>14. ASSUME NEW g \in Handles, g # h, hs[g].pc = "readback"
         PROVE  Ahead(file', hs[g])
    <2>1. PICK o \in Found(file, hs[g].applied + 1) : file[o].rec = hs[g].rec
      BY <1>14, SMTT(30) DEF Whole, Ahead
    <2>2. hs[g].applied + 1 \in Offsets(file)
      BY HandleFacts, ZenonT(30)
    <2>3. o \in Visited(file, hs[g].applied + 1) /\ Decodes(file, o) /\ o \in Offsets(file)
      BY DEF Found, Visited
    <2>4. o \in Visited(file', hs[g].applied + 1) /\ Decodes(file', o)
      BY <1>1, <2>2, <2>3, PrefixFacts, SMTT(30)
    <2>5. o \in 1 .. Len(file)
      BY <1>1, <2>3, FileFacts, Zenon
    <2>6. file'[o] = file[o]
      BY <1>1, <2>5 DEF Begins
    <2> QED
      BY <2>1, <2>4, <2>6, SMTT(30) DEF Ahead, Found
  <1>15. \A g \in Handles : /\ Underway(hs'[g]) => EndsIn(file', hs'[g]) /\ g = h
                            /\ hs'[g].pc = "readback" => Ahead(file', hs'[g])
    BY <1>4, <1>10, <1>13, <1>14, Zenon
  <1>16. (\A g \in Handles : ~Underway(hs'[g])) => Len(file') + 1 \in Visited(file', 1)
    BY <1>4, <1>11, Zenon
  <1>17. \A r \in acked' : Holds(file', r)
    <2>1. ASSUME NEW r \in acked PROVE Holds(file', r)
      <3>1. PICK o \in Found(file, 1) : file[o].rec = r
        BY DEF Whole, Holds
      <3> QED
        BY <1>6, <3>1, SMTT(30) DEF Holds
    <2> QED
      BY <1>1, <2>1
  <1> QED
    BY <1>9, <1>15, <1>16, <1>17, ZenonT(30) DEF Whole

-----------------------------------------------------------------------------
(* Every step keeps what is complete *)

(* A handle goes on. *)
LEMMA StepOpened ==
  ASSUME IndInv, Opened, NEW h \in Handles, NEW t, hs' = [hs EXCEPT ![h] = t],
         t.pc = "idle" \/ t.open
  PROVE  Opened'
  <1>1. hs \in [Handles -> HandleSet]
    BY DEF IndInv
  <1>2. hs'[h] = t /\ \A g \in Handles \ {h} : hs'[g] = hs[g]
    BY <1>1
  <1> QED
    BY <1>2, Zenon DEF Opened

(* A replay that reaches the end of the file: what it finds stored is in    *)
(* the file, and an append that follows has written nothing yet.            *)
LEMMA RefreshOkWhole ==
  ASSUME IndInv, Opened, NEW h \in Handles, RefreshOk(h)
  PROVE  /\ Opened' /\ (Whole => Whole')
         /\ tears' = tears /\ powers' = powers
  <1> DEFINE s == Applied(hs[h], Replayed(h))
  <1>1. PICK t : /\ RefreshedTo(h, s, t) /\ hs[h].pc = "refresh" /\ file' = file
                 /\ tears' = tears /\ powers' = powers
    BY RefreshOkFacts, ZenonT(30)
  <1>2. Advances(hs[h], s) /\ HandleOK(file, synced, s)
    BY ReplayFacts
  <1> HIDE DEF s
  <1>3. s \in HandleSet /\ Tracks(file, s) /\ s.pc = "refresh" /\ s.open = hs[h].open
    BY <1>1, <1>2 DEF Advances, Same
  <1>4. hs[h].open
    BY <1>1 DEF Opened
  <1>5. t.pc = "idle" \/ (t.pc = "append" /\ t.part = 0 /\ t.open)
    <2>1. CASE t = Done(s)
      BY <1>2, <1>3, <2>1, DoneFacts
    <2>2. CASE t = ToAppend(s) /\ s.op \in {"put", "insert"}
      BY <1>2, <1>3, <1>4, <2>2, ToAppendFacts, Zenon
    <2> QED
      BY <1>1, <2>1, <2>2, ZenonT(30) DEF RefreshedTo
  <1>6. hs' = [hs EXCEPT ![h] = t]
    BY <1>1, Zenon DEF RefreshedTo
  <1>7. Opened'
    BY <1>5, <1>6, StepOpened, Zenon
  <1>8. PileStored(s, s.rec) => Holds(file, s.rec)
    <2>1. ASSUME PileStored(s, s.rec) PROVE Holds(file, s.rec)
      <3>1. PICK o \in Upto(file, s.applied + 1) : file[o].rec = s.rec
        BY <1>3, <2>1, IndexedIsHeld
      <3> QED
        BY <3>1 DEF Holds, Upto
    <2> QED
      BY <2>1
  <1>9. ASSUME Whole PROVE \A r \in acked' : Holds(file, r)
    <2>1. \A r \in acked : Holds(file, r)
      BY <1>9, Zenon DEF Whole
    <2> QED
      BY <1>1, <1>8, <2>1, SMTT(30) DEF RefreshedTo
  <1>10. ~Underway(hs[h]) /\ ~Underway(t) /\ t.pc # "readback"
    BY <1>1, <1>5 DEF Underway
  <1>11. ASSUME Whole PROVE Whole'
    BY <1>1, <1>6, <1>9, <1>10, <1>11, QuietWhole, Zenon
  <1> QED
    BY <1>1, <1>7, <1>11

(* A readback: what it reports stored is in the file. *)
LEMMA ReadbackWhole ==
  ASSUME IndInv, Opened, NEW h \in Handles, Readback(h)
  PROVE  /\ Opened' /\ (Whole => Whole')
         /\ tears' = tears /\ powers' = powers
  <1> DEFINE S == ReadTo(h)
             a == Applied(hs[h], S)
             s == Done(a)
             ok == S # {} /\ file[Max(S)].rec = hs[h].rec
  <1>1. /\ hs[h].pc = "readback" /\ file' = file /\ tears' = tears /\ powers' = powers
        /\ hs' = [hs EXCEPT ![h] = IF ok THEN Noted(s, Max(S)) ELSE s]
        /\ acked' = IF ok THEN acked \cup {hs[h].rec} ELSE acked
    BY Zenon DEF Readback, Noted
  <1>2. /\ Advances(hs[h], a) /\ HandleOK(file, synced, a)
        /\ S # {} => Max(S) \in Upto(file, a.applied + 1)
    BY ReadToFacts, Zenon
  <1> HIDE DEF S, a
  <1>3. a \in HandleSet
    BY <1>2 DEF Advances
  <1>4. s.pc = "idle" /\ s \in HandleSet
    BY <1>2, <1>3, DoneFacts DEF HandleOK
  <1> HIDE DEF s
  <1>5. Noted(s, Max(S)).pc = "idle"
    BY <1>4, Zenon DEF Noted, HandleSet
  <1>6. PICK t : hs' = [hs EXCEPT ![h] = t] /\ t.pc = "idle"
    BY <1>1, <1>4, <1>5, Zenon
  <1>7. Opened'
    BY <1>6, StepOpened, Zenon
  <1>8. ASSUME Whole PROVE \A r \in acked' : Holds(file, r)
    <2>1. ok => Holds(file, hs[h].rec)
      BY <1>2 DEF Holds, Upto
    <2>2. \A r \in acked : Holds(file, r)
      BY <1>8, Zenon DEF Whole
    <2> HIDE DEF ok
    <2> QED
      BY <1>1, <2>1, <2>2, SMTT(30)
  <1>9. ~Underway(hs[h]) /\ ~Underway(t) /\ t.pc # "readback"
    BY <1>1, <1>6, Zenon DEF Underway
  <1>10. ASSUME Whole PROVE Whole'
    BY <1>1, <1>6, <1>8, <1>9, <1>10, QuietWhole, Zenon
  <1> QED
    BY <1>1, <1>7, <1>10


(* The counts of stopped appends and of power failures. *)
LEMMA NoneYet ==
  \A a, b \in Nat : a + b = 0 <=> a = 0 /\ b = 0
  OBVIOUS

(* A step that rests ends an append only by stopping it short. *)
LEMMA RestWhole ==
  ASSUME IndInv, IndInv', WholeInv, NEW h \in Handles, Rests(h)
  PROVE  WholeInv'
  <1>1. PICK t : RestsIn(h, t)
    BY DEF Rests
  <1>2. /\ hs' = [hs EXCEPT ![h] = t] /\ file' = file /\ acked' = acked /\ powers' = powers
        /\ tears <= tears' /\ (Underway(hs[h]) => ~hs[h].open \/ tears' > tears)
    BY <1>1, Zenon DEF Rests, RestsIn
  <1>3. tears \in Nat /\ tears' \in Nat /\ powers \in Nat /\ Opened
    BY DEF IndInv, Globals, WholeInv
  <1>4. t.pc = "idle" \/ t.open
    BY <1>1, <1>3 DEF RestsIn, Opened
  <1>5. Opened'
    BY <1>2, <1>3, <1>4, StepOpened, Zenon
  <1>6. ASSUME tears' + powers' = 0
        PROVE  Whole'
    <2>0. /\ tears \in Nat /\ tears' \in Nat /\ powers \in Nat /\ powers' = powers
          /\ tears <= tears' /\ tears' + powers' = 0
      BY <1>2, <1>3, <1>6, Zenon
    <2>1. tears + powers = 0 /\ ~(tears' > tears)
      <3>1. tears' = 0 /\ powers = 0
        BY ONLY <2>0, NoneYet, Zenon
      <3>2. tears = 0
        BY ONLY <2>0, <3>1
      <3> QED
        BY ONLY <3>1, <3>2
    <2>2. Whole
      BY <2>1 DEF WholeInv
    <2>3. ~Underway(hs[h])
      <3>1. Underway(hs[h]) => hs[h].open
        BY <1>3 DEF Underway, Opened
      <3> QED
        BY <1>2, <2>1, <3>1, Zenon
    <2>4. ~Underway(t) /\ t.pc # "readback"
      BY <1>1 DEF RestsIn, Busy, Underway
    <2>5. \A r \in acked' : Holds(file, r)
      BY <1>2, <2>2, Zenon DEF Whole
    <2> QED
      BY <1>2, <2>2, <2>3, <2>4, <2>5, QuietWhole, Zenon
  <1> QED
    BY <1>5, <1>6 DEF WholeInv

(* An append keeps its handle open. *)
LEMMA WriteOpened ==
  ASSUME IndInv, Opened, NEW h \in Handles, WriteCell(h)
  PROVE  Opened' /\ tears' = tears /\ powers' = powers
  <1> DEFINE s == hs[h]
             t == Written(s)
  <1>1. s.pc = "append" /\ hs' = [hs EXCEPT ![h] = t] /\ tears' = tears /\ powers' = powers
    BY WriteFacts, ZenonT(30) DEF WriteCell
  <1>2. s \in HandleSet /\ Stages(s) /\ s.part + 1 <= Size[s.rec] /\ Size[s.rec] \in Nat
    BY HandleFacts, WriteFacts, ZenonT(30)
  <1>3. t.open = s.open
    BY <1>1, <1>2, WrittenFacts, Zenon
  <1>4. t.open
    BY <1>1, <1>3 DEF Opened
  <1> HIDE DEF t
  <1> QED
    BY <1>1, <1>4, StepOpened, Zenon

(* An amputation leaves its handle idle, and finds nothing to cut unless    *)
(* some append has stopped short.                                           *)
LEMMA TruncateWhole ==
  ASSUME IndInv, Opened, NEW h \in Handles, Truncate(h)
  PROVE  Opened' /\ tears' = tears /\ powers' = powers /\ ~Whole
  <1> DEFINE s == Done(Applied(hs[h], Replayed(h)))
             t == [s EXCEPT !.dirty = FALSE]
  <1>1. /\ hs[h].pc = "refresh" /\ ~ReplayEnds(h) /\ hs[h].lock = "exclusive"
        /\ hs' = [hs EXCEPT ![h] = t] /\ tears' = tears /\ powers' = powers
    BY DEF Truncate
  <1>2. s \in HandleSet /\ s.pc = "idle"
    <2>1. LET a == Applied(hs[h], Replayed(h)) IN HandleOK(file, synced, a) /\ a \in HandleSet
      BY ReplayFacts DEF HandleOK
    <2> QED
      BY <2>1, DoneFacts DEF HandleOK
  <1> HIDE DEF s
  <1>3. t.pc = "idle"
    BY <1>2, Zenon DEF HandleSet
  <1> HIDE DEF t
  <1>4. Opened'
    BY <1>1, <1>3, StepOpened, Zenon
  <1>5. ~Whole
    BY <1>1, WholeReplays, Zenon
  <1> QED
    BY <1>1, <1>4, <1>5

(* Every step of a pile keeps a file whole until an append stops short or   *)
(* the power fails.                                                         *)
LEMMA NextWhole ==
  ASSUME IndInv, IndInv', WholeInv, [PileNext]_pileVars
  PROVE  WholeInv'
  <1>0. Opened /\ (tears + powers = 0 => Whole)
    BY SMTT(30) DEF WholeInv
  <1>1. CASE UNCHANGED pileVars
    BY <1>1, Zenon DEF pileVars, WholeInv, Opened, Whole
  <1>2. CASE PilePowerFail
    <2>1. powers' = powers + 1 /\ hs' = [h \in Handles |-> NoHandle]
      BY <1>2 DEF PilePowerFail
    <2>2. tears' \in Nat /\ powers \in Nat /\ powers' = powers + 1
      BY <2>1 DEF IndInv, Globals
    <2>3. tears' + powers' # 0
      <3>1. powers' \in Nat /\ powers' # 0
        BY ONLY <2>2
      <3> QED
        BY ONLY <2>2, <3>1, NoneYet, ZenonT(30)
    <2>4. Opened'
      BY <2>1, NoHandleFacts DEF Opened
    <2> QED
      BY <2>3, <2>4 DEF WholeInv
  <1>3. ASSUME NEW h \in Handles, RefreshOk(h) \/ WriteCell(h) \/ Readback(h) \/ Truncate(h)
        PROVE  WholeInv'
    <2>1. Opened' /\ tears' = tears /\ powers' = powers /\ (Whole => Whole')
      BY <1>0, <1>3, RefreshOkWhole, WriteOpened, WriteWhole, ReadbackWhole, TruncateWhole, Zenon
    <2> QED
      BY <1>0, <2>1 DEF WholeInv
  <1>4. ASSUME NEW h \in Handles, Rests(h)
        PROVE  WholeInv'
    BY <1>4, RestWhole
  <1> QED
    BY <1>1, <1>2, <1>3, <1>4, StepKinds, Zenon


(* The inductive invariant of complete appends: until an append stops short *)
(* or the power fails, every record that a replay finds is whole, the file  *)
(* ends where a replay ends or in the one append that is under way, what a  *)
(* writer reads back is ahead of it, and what was reported stored is there. *)
THEOREM WholeInvariant == PileSpec => []WholeInv
  <1>1. PileInit => WholeInv
    <2>1. ASSUME PileInit PROVE WholeInv
      <3>1. file = <<>> /\ acked = {} /\ hs = [h \in Handles |-> NoHandle]
        BY <2>1 DEF PileInit
      <3>2. file \in Files /\ Len(file) = 0
        BY <3>1 DEF Files
      <3>3. \A g \in Handles : hs[g].pc = "idle"
        BY <3>1, NoHandleFacts
      <3>4. Found(file, 1) = {}
        <4>1. ASSUME NEW o \in Found(file, 1) PROVE FALSE
          <5>1. o \in Offsets(file) /\ Decodes(file, o)
            BY DEF Found, Visited
          <5>2. o \in 1 .. Len(file)
            BY <3>2, <5>1, FileFacts
          <5> QED
            BY <3>2, <5>2
        <4> QED
          BY <4>1
      <3>5. Len(file) + 1 \in Visited(file, 1)
        BY <3>2 DEF Visited, Offsets
      <3>6. Whole
        BY <3>1, <3>3, <3>4, <3>5 DEF Whole, Underway
      <3> QED
        BY <3>3, <3>6 DEF WholeInv, Opened
    <2> QED
      BY <2>1
  <1>2. IndInv /\ IndInv' /\ WholeInv /\ [PileNext]_pileVars => WholeInv'
    BY NextWhole
  <1> QED
    BY <1>1, <1>2, PileInvariant, PTL DEF PileSpec

(* As long as every append is complete, what was reported stored can be     *)
(* read back, however the appends of the handles interleave.                *)
THEOREM CompleteReadable == PileSpec => []CompleteAppendsAreReadable
  <1>1. ASSUME IndInv, WholeInv PROVE CompleteAppendsAreReadable
    <2>1. SUFFICES ASSUME Whole, NEW r \in acked PROVE Readable(r)
      BY <1>1 DEF WholeInv, CompleteAppendsAreReadable, AckedIsReadable
    <2>2. file \in Files /\ 1 \in Offsets(file)
      BY <1>1 DEF IndInv, Globals, Offsets, Files
    <2>3. Starts(file, 1) = Found(file, 1)
      BY <2>2, StartsAreFound, SMTT(30)
    <2>4. PICK o \in Found(file, 1) : file[o].rec = r
      BY <2>1, SMTT(30) DEF Whole, Holds
    <2>5. Intact(file, o)
      BY <2>1 DEF Whole
    <2> QED
      BY <2>3, <2>4, <2>5 DEF Readable
  <1>2. IndInv /\ WholeInv => CompleteAppendsAreReadable
    BY <1>1
  <1> QED
    BY <1>2, PileInvariant, WholeInvariant, PTL

(* What a writer reads back last is its record. *)
LEMMA ReadsOwn ==
  ASSUME IndInv, InsertInv, Whole, NEW h \in Handles, hs[h].pc = "readback"
  PROVE  ReadTo(h) # {} /\ file[Max(ReadTo(h))].rec = hs[h].rec
  <1> DEFINE s == hs[h]
             o == s.applied + 1
             F == Found(file, o)
             own == {x \in F : file[x].rec = s.rec}
             S == ReadTo(h)
  <1>1. /\ file \in Files /\ s \in HandleSet /\ Stages(s) /\ o \in Offsets(file)
        /\ s.applied \in Nat /\ Len(file) \in Nat
    BY HandleFacts
  <1>2. S = IF s.op = "insert" THEN {x \in F : x = o}
            ELSE IF own = {} THEN F ELSE {x \in F : x <= Min(own)}
    <2>1. Replayed(h) = F
      BY <1>1, StartsAreFound DEF Replayed
    <2> QED
      BY <2>1, Zenon DEF ReadTo
  <1>3. F \in SUBSET (0 .. Len(file) + 1) /\ \A x \in F : x \in Nat
    <2>1. \A x \in F : x \in Offsets(file)
      BY SMTT(30) DEF Found, Visited
    <2> QED
      BY <1>1, <2>1 DEF Offsets
  <1>4. s.op \in {"put", "insert"} /\ s.part = Size[s.rec] /\ s.lock # "none" /\ s.lock \in LockSet
    BY <1>1 DEF Stages, HandleSet
  <1>5. CASE s.op = "insert"
    <2>1. s.lock = "exclusive" /\ s.rec \in Fixed
      BY <1>1, <1>4, <1>5 DEF Stages, Exclusive, LockSet
    <2>2. Size[s.rec] \in Nat \ {0, 1}
      BY <2>1, RecordsAssumption, SMTT(30) DEF PileRecords
    <2>3. /\ Len(file) = s.applied + s.part
          /\ \A k \in 1 .. s.part : file[s.applied + k] = Cell(s.rec, k)
      BY <2>1, ZenonT(30) DEF InsertInv, Inserting, OwnCells, Busy
    <2>4. file[o] = Cell(s.rec, 1)
      BY <1>4, <2>2, <2>3
    <2>5. file[o].rec = s.rec /\ file[o].part = 1
      BY <2>4, SMTT(30) DEF Cell
    <2>6. o <= Len(file) /\ o + Size[s.rec] - 1 <= Len(file)
      BY <1>1, <1>4, <2>2, <2>3, SMTT(30)
    <2>7. Decodes(file, o)
      BY <2>5, <2>6 DEF Decodes
    <2>8. o \in F
      BY <1>1, <2>7, VisitedFacts DEF Found
    <2> HIDE DEF F, S, o
    <2>9. S = {o}
      BY <1>2, <1>5, <2>8
    <2>10. Max(S) = o
      <3>1. S \in SUBSET (0 .. Len(file) + 1) /\ S # {} /\ Len(file) + 1 \in Nat
        BY <1>1, <1>3, <2>8, <2>9
      <3>2. Max(S) \in S
        BY <3>1, MaxFacts, Zenon
      <3> QED
        BY <2>9, <3>2, Zenon
    <2> QED
      BY <2>5, <2>9, <2>10, SMTT(30) DEF S
  <1>6. CASE s.op = "put"
    <2>1. own # {}
      BY DEF Whole, Ahead
    <2> HIDE DEF F
    <2>2. own \in SUBSET Nat
      BY <1>3
    <2> DEFINE m == Min(own)
    <2>3. m \in own
      <3> HIDE DEF own
      <3> QED
        BY <2>1, <2>2, MinFacts, Zenon
    <2> HIDE DEF m
    <2>4. m \in F /\ file[m].rec = s.rec /\ m \in Nat
      BY <2>2, <2>3
    <2>5. S = {x \in F : x <= m}
      <3> HIDE DEF own
      <3> QED
        BY <1>2, <1>6, <2>1 DEF m
    <2> HIDE DEF S
    <2>6. m \in S /\ S \in SUBSET (0 .. Len(file) + 1) /\ Len(file) + 1 \in Nat
      <3>1. m <= m /\ Len(file) + 1 \in Nat
        BY <1>1, <2>4
      <3> QED
        BY <1>3, <2>4, <2>5, <3>1, Zenon
    <2>7. Max(S) \in S /\ m <= Max(S)
      BY <2>6, MaxFacts, Zenon
    <2>8. Max(S) = m
      <3>1. Max(S) \in Nat /\ m \in Nat /\ Max(S) <= m /\ m <= Max(S)
        BY <1>3, <2>4, <2>5, <2>7, ZenonT(30)
      <3> QED
        BY ONLY <3>1
    <2> QED
      BY <2>4, <2>6, <2>8, SMTT(30) DEF S
  <1> QED
    BY <1>4, <1>5, <1>6, SMTT(30)


(* What may be the matter when a handle ends its operation in a step of its *)
(* own: nothing, as long as the file is whole.                              *)
Blames(h) == hs[h].pc \in {"refresh", "readback"} /\ hs'[h].pc = "idle" /\ hs'[h].open

(* The steps that end a replay or a readback and leave the handle open. *)
LEMMA EndingSteps ==
  ASSUME IndInv, Opened, PileNext, NEW h \in Handles, Blames(h)
  PROVE  RefreshOk(h) \/ RefreshFails(h) \/ Truncate(h) \/ Readback(h)
  <1>1. hs \in [Handles -> HandleSet] /\ hs[h].open /\ hs[h].pc # "idle"
    BY DEF IndInv, Opened, Blames
  <1>2. ~PilePowerFail
    <2>1. PilePowerFail => ~hs'[h].open
      BY NoHandleFacts DEF PilePowerFail
    <2> QED
      BY <2>1 DEF Blames
  <1>3. PICK g \in Handles : Operation(g)
    BY <1>2, NextFacts, Zenon
  <1>4. \E t : hs' = [hs EXCEPT ![g] = t]
    BY <1>3, Zenon
            DEF Operation, PileOpen, OpenPrefix, Refresh, Amputate, StartAmputateAt, PilePut,
                PileInsert, Start, LockExclusive, RefreshOk, Recheck, RefreshFails, Readback,
                Truncate, WriteCell, ShortWrite, PileFlush, PileClose, PileCrash
  <1>5. g = h
    <2>1. g # h => hs'[h] = hs[h]
      BY <1>1, <1>4
    <2> QED
      BY <1>1, <2>1 DEF Blames
  <1>6. ~PileClose(h) /\ ~PileCrash(h)
    <2>1. PileClose(h) \/ PileCrash(h) => hs'[h] = NoHandle
      BY <1>1 DEF PileClose, PileCrash
    <2> QED
      BY <2>1, NoHandleFacts DEF Blames
  <1>7. ~Recheck(h)
    <2> DEFINE s == Applied(hs[h], Replayed(h))
               t == [s EXCEPT !.lock = "none", !.pc = "lock"]
    <2>1. s \in HandleSet
      BY ReplayFacts DEF HandleOK
    <2>2. Recheck(h) => hs'[h] = t
      BY <1>1 DEF Recheck
    <2> HIDE DEF s
    <2>3. t.pc = "lock"
      BY <2>1, Zenon DEF HandleSet
    <2> HIDE DEF t
    <2> QED
      BY <2>2, <2>3 DEF Blames
  <1>8. hs[h].pc \in {"refresh", "readback"}
    BY DEF Blames
  <1> QED
    BY <1>1, <1>3, <1>5, <1>6, <1>7, <1>8, Zenon
       DEF Operation, PileOpen, OpenPrefix, Refresh, Amputate, StartAmputateAt, PilePut,
           PileInsert, Start, LockExclusive, WriteCell, ShortWrite, PileFlush

(* A replay or a readback only ever reports a failure when some append      *)
(* stopped short or the power failed: an append under way is not mistaken   *)
(* for a torn one, and what a writer reads back is its own record.          *)
THEOREM FailuresReal == PileSpec => FailuresAreReal
  <1>1. ASSUME IndInv, InsertInv, WholeInv, PileNext, NEW h \in Handles, Fails(h)
        PROVE  tears + powers > 0
    <2>1. SUFFICES ASSUME Whole PROVE FALSE
      <3>1. tears \in Nat /\ powers \in Nat
        BY <1>1 DEF IndInv, Globals
      <3>2. tears + powers # 0
        BY <1>1, <2>1 DEF WholeInv
      <3> QED
        BY <3>1, <3>2
    <2>2. /\ Opened /\ Blames(h)
          /\ \/ hs[h].pc = "refresh" /\ ~ReplayEnds(h)
             \/ hs[h].pc = "readback" /\ hs[h].rec \notin acked'
      BY <1>1, SMTT(30) DEF WholeInv, Fails, Blames
    <2>3. RefreshOk(h) \/ RefreshFails(h) \/ Truncate(h) \/ Readback(h)
      BY <1>1, <2>2, EndingSteps, Zenon
    <2>4. CASE RefreshOk(h)
      BY <2>2, <2>4 DEF RefreshOk
    <2>5. CASE RefreshFails(h) \/ Truncate(h)
      <3>1. hs[h].pc = "refresh" /\ hs[h].lock = "exclusive" /\ ~ReplayEnds(h)
        BY <2>5 DEF RefreshFails, Truncate
      <3> QED
        BY <1>1, <2>1, <3>1, WholeReplays
    <2>6. CASE Readback(h)
      <3>1. hs[h].pc = "readback" /\ hs[h].rec \notin acked'
        BY <2>2, <2>6 DEF Readback
      <3>2. ReadTo(h) # {} /\ file[Max(ReadTo(h))].rec = hs[h].rec
        BY <1>1, <2>1, <3>1, ReadsOwn
      <3>3. acked' = acked \cup {hs[h].rec}
        BY <2>6, <3>2, Zenon DEF Readback
      <3> QED
        BY <3>1, <3>3
    <2> QED
      BY <2>3, <2>4, <2>5, <2>6
  <1>2. ASSUME IndInv, InsertInv, WholeInv, [PileNext]_pileVars
        PROVE  [(\E h \in Handles : Fails(h)) => tears + powers > 0]_pileVars
    <2>1. CASE UNCHANGED pileVars
      BY <2>1
    <2>2. CASE PileNext
      BY <1>1, <1>2, <2>2, Zenon
    <2> QED
      BY <1>2, <2>1, <2>2, Zenon
  <1> QED
    BY <1>2, PileInvariant, InsertInvariant, WholeInvariant, PTL DEF PileSpec, FailuresAreReal

-----------------------------------------------------------------------------
(* Every insert, once *)

INSTANCE FiniteSetTheorems

(* A collection record, proof or want that was reported stored is found by *)
(* every later replay, whole, through torn appends of others, crashes,     *)
(* amputations and, once synced, power failures; and however often it is   *)
(* inserted, a replay finds it once.                                       *)
THEOREM InsertsAreKept == PileSpec => []InsertsStay
  <1>1. ASSUME IndInv, InsertInv, NEW r \in Fixed
        PROVE  /\ r \in acked => Readable(r)
               /\ Cardinality({o \in Starts(file, 1) : file[o].rec = r}) <= 1
    <2> DEFINE S == {o \in Starts(file, 1) : file[o].rec = r}
    <2>1. file \in Files /\ 1 \in Offsets(file)
      BY <1>1 DEF IndInv, Globals, Offsets, Files
    <2>2. Starts(file, 1) = Found(file, 1)
      BY <2>1, StartsAreFound
    <2>3. r \in acked => Readable(r)
      BY <1>1, <2>1, <2>2, FixedIsIntact DEF InsertInv, Holds, Readable
    <2>4. \A x, y \in S : x = y
      BY <1>1, <2>2 DEF InsertInv, Once
    <2> HIDE DEF S
    <2>5. Cardinality(S) <= 1
      <3>1. CASE S = {}
        BY <3>1, FS_EmptySet
      <3>2. CASE S # {}
        <4>1. PICK x : x \in S
          BY <3>2, Zenon
        <4>2. S = {x}
          BY <2>4, <4>1
        <4>3. Cardinality(S) = 1
          BY <4>2, FS_Singleton, Zenon
        <4> QED
          BY <4>3
      <3> QED
        BY <3>1, <3>2
    <2> QED
      BY <2>3, <2>5 DEF S
  <1>2. IndInv /\ InsertInv => InsertsStay
    BY <1>1, Zenon DEF InsertsStay
  <1> QED
    BY <1>2, PileInvariant, InsertInvariant, PTL

=============================================================================
