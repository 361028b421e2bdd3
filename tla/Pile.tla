-------------------------------- MODULE Pile --------------------------------
(***************************************************************************)
(* A pile: one append-only file that is both the log and the database, and *)
(* the handles that replay and append to it                                *)
(* (triblespace-core/src/repo/pile.rs).                                    *)
(*                                                                         *)
(* Handles may be in one process or in several; the file lock is between   *)
(* handles.  Small blobs are appended under the shared lock, several       *)
(* handles at a time, everything else under the exclusive one.  The kernel *)
(* serializes appends, but a reader can see the cells of an append that is *)
(* still under way, an append can stop short (a full disk, a killed        *)
(* process), and a power failure can take back what was never synced.      *)
(*                                                                         *)
(* The file is a sequence of cells.  A record occupies Size[r] of them:    *)
(* the first holds its header, which says how long the record is and, for  *)
(* a blob, what its hash is; the others hold the rest of it.               *)
(***************************************************************************)
EXTENDS Naturals, Sequences, FiniteSets, FiniteSetsExt

CONSTANTS
    Handles,    \* open files on the pile
    Bounded,    \* those opened on a prefix of it, with `open_prefix`
    PileBlobs,  \* blob contents: a blob's hash names it
    Fixed,      \* collection records, capability proofs and wants
    Large,      \* the blobs above ATOMIC_WRITE_LIMIT
    Size,       \* record -> cells
    PileUses    \* what happens to the pile: records [stores, readers, tears,
                \* powers], the records stored, the prefixes opened, and
                \* how often an append stops short and the power fails

PileRecords == PileBlobs \cup Fixed

ASSUME RecordsAssumption ==
    /\ PileBlobs \cap Fixed = {} /\ Large \subseteq PileBlobs /\ Bounded \subseteq Handles
    /\ Size \in [PileRecords -> Nat \ {0, 1}]
ASSUME PileUsesAssumption ==
    PileUses \subseteq
        [stores : SUBSET PileRecords, readers : SUBSET Bounded, tears : Nat, powers : Nat]

VARIABLES
    job,      \* which of the uses this is
    file,     \* sequence of [rec, part]
    synced,   \* cells a power failure does not take back
    hs,       \* handle -> its state, see NoHandle
    acked,    \* records an operation has reported stored
    tears, powers

pileVars == <<job, file, synced, hs, acked, tears, powers>>

-----------------------------------------------------------------------------
(* Decoding *)

Cell(r, k) == [rec |-> r, part |-> k]

(* `decode_record` at offset o: a header, and as many cells as it says.    *)
(* A blob's payload is not hashed here, so it may be someone else's cells. *)
Decodes(f, o) ==
    /\ o <= Len(f)
    /\ f[o].part = 1
    /\ o + Size[f[o].rec] - 1 <= Len(f)

(* The payload is the one the header names. *)
Intact(f, o) ==
    /\ Decodes(f, o)
    /\ \A k \in 1 .. Size[f[o].rec] : f[o + k - 1] = Cell(f[o].rec, k)

(* Where the records start that a replay from offset o applies. *)
Starts(f, o) ==
    LET from[i \in 1 .. Len(f) + 1] ==
            IF Decodes(f, i) THEN {i} \cup from[i + Size[f[i].rec]] ELSE {}
    IN  from[o]

(* The offset after the last of the records that start in S. *)
After(f, S, o) == IF S = {} THEN o ELSE Max(S) + Size[f[Max(S)].rec]

(* A replay that ends at o < Len(f) + 1 finds a torn record there, or the  *)
(* middle of one: the latter starts with no marker the decoder knows       *)
(* (`UnsupportedRecord`), and `amputate` leaves it alone.                  *)
Torn(f, o) == f[o].part = 1

-----------------------------------------------------------------------------
(* Handles *)

NoHandle == [open |-> FALSE, lock |-> "none", pc |-> "idle", op |-> "none",
           rec |-> "none", part |-> 0, applied |-> 0, index |-> {},
           dirty |-> FALSE, wrote |-> {}]

PileInit ==
    /\ job \in PileUses
    /\ file = <<>> /\ synced = 0
    /\ hs = [h \in Handles |-> NoHandle]
    /\ acked = {} /\ tears = 0 /\ powers = 0

Shareable(h) == \A g \in Handles \ {h} : hs[g].lock # "exclusive"
Excludable(h) == \A g \in Handles \ {h} : hs[g].lock = "none"

(* Mutant of Applied: only the last record read enters the index. *)
AppliedLast(s, S) ==
    [s EXCEPT !.index = @ \cup {<<file[o].rec, o>> : o \in {n \in S : n = Max(S)}},
              !.applied = After(file, S, s.applied + 1) - 1]

(* The index after applying the records that start in S: an entry is the   *)
(* record named by the header and where it is.                             *)
Applied(s, S) ==
    [s EXCEPT !.index = @ \cup {<<file[o].rec, o>> : o \in S},
              !.applied = After(file, S, s.applied + 1) - 1]

(* The end of an operation: the lock is released. *)
Done(s) == [s EXCEPT !.lock = "none", !.pc = "idle", !.op = "none",
                     !.rec = "none", !.part = 0]

(* `put` finds an occurrence whose payload hashes right, `insert` any. *)
PileStored(s, r) ==
    \E e \in s.index : e[1] = r /\ (r \in PileBlobs => Intact(file, e[2]))

(* The operations that take the exclusive lock from the start. *)
Exclusive(op, r) == op = "insert" \/ (op = "put" /\ r \in Large)

(* `open`: no record is applied yet. *)
PileOpen(h) ==
    /\ ~hs[h].open /\ h \notin Bounded
    /\ hs' = [hs EXCEPT ![h] = [NoHandle EXCEPT !.open = TRUE]]
    /\ UNCHANGED <<job, file, synced, acked, tears, powers>>

(* `open_prefix`: a reader of the first p cells for good, refused unless a *)
(* replay under the shared lock lands on p.                                *)
OpenPrefix(h, p) ==
    /\ ~hs[h].open /\ h \in job.readers /\ Shareable(h)
    /\ p \in 1 .. Len(file)
    /\ LET f == SubSeq(file, 1, p)
           S == Starts(f, 1)
       IN  /\ After(f, S, 1) = p + 1
           /\ hs' = [hs EXCEPT ![h] = [Applied(NoHandle, S) EXCEPT !.open = TRUE]]
    /\ UNCHANGED <<job, file, synced, acked, tears, powers>>

(* An operation begins: its lock is granted, and it replays first. *)
Start(h, op, r) ==
    /\ hs[h].open /\ hs[h].pc = "idle" /\ h \notin Bounded
    /\ IF Exclusive(op, r) THEN Excludable(h) ELSE Shareable(h)
    /\ hs' = [hs EXCEPT ![h] =
                [@ EXCEPT !.lock = IF Exclusive(op, r) THEN "exclusive" ELSE "shared",
                          !.pc = "refresh", !.op = op, !.rec = r]]
    /\ UNCHANGED <<job, file, synced, acked, tears, powers>>

Refresh(h) == Start(h, "refresh", "none")
PilePut(h, b) == Start(h, "put", b)
Amputate(h) == Start(h, "amputate", "none")

(* `insert`, `insert_proof` and `want`. *)
PileInsert(h, r) == Start(h, "insert", r)

(* `amputate_at`: the exclusive phase only, and only at the length that    *)
(* the caller expects, which may be right or wrong.                        *)
StartAmputateAt(h) ==
    /\ hs[h].open /\ hs[h].pc = "idle" /\ h \notin Bounded
    /\ hs' = [hs EXCEPT ![h] = [@ EXCEPT !.pc = "lock", !.op = "amputate_at"]]
    /\ UNCHANGED <<job, file, synced, acked, tears, powers>>

(* The exclusive lock is granted to a handle that waits for it. *)
LockExclusive(h) ==
    /\ hs[h].pc = "lock" /\ Excludable(h)
    /\ hs' = [hs EXCEPT ![h] = [@ EXCEPT !.lock = "exclusive", !.pc = "refresh"]]
    /\ UNCHANGED <<job, file, synced, acked, tears, powers>>

-----------------------------------------------------------------------------
(* Replay *)

Replayed(h) == Starts(file, hs[h].applied + 1)
PileStop(h) == After(file, Replayed(h), hs[h].applied + 1)
ReplayEnds(h) == PileStop(h) = Len(file) + 1

(* Mutant of RefreshOk: a handle is not dirty until its append succeeded. *)
RefreshOkClean(h) ==
    /\ hs[h].pc = "refresh" /\ ReplayEnds(h)
    /\ LET s == Applied(hs[h], Replayed(h))
           writes == s.op \in {"put", "insert"}
           stored == writes /\ PileStored(s, s.rec)
       IN  /\ hs' = [hs EXCEPT ![h] =
                       IF writes /\ ~stored THEN [s EXCEPT !.pc = "append"] ELSE Done(s)]
           /\ acked' = IF stored THEN acked \cup {s.rec} ELSE acked
    /\ UNCHANGED <<job, file, synced, tears, powers>>

(* The replay reaches the end of the file.  A writer goes on to its        *)
(* append, unless what it stores is there; the others are done.            *)
RefreshOk(h) ==
    /\ hs[h].pc = "refresh" /\ ReplayEnds(h)
    /\ LET s == Applied(hs[h], Replayed(h))
           writes == s.op \in {"put", "insert"}
           stored == writes /\ PileStored(s, s.rec)
       IN  /\ hs' = [hs EXCEPT ![h] =
                       IF writes /\ ~stored THEN [s EXCEPT !.pc = "append", !.dirty = TRUE]
                       ELSE Done(s)]
           /\ acked' = IF stored THEN acked \cup {s.rec} ELSE acked
    /\ UNCHANGED <<job, file, synced, tears, powers>>

(* Mutant of Recheck: the failure is believed at once. *)
RecheckNever(h) ==
    /\ hs[h].pc = "refresh" /\ ~ReplayEnds(h) /\ hs[h].lock = "shared"
    /\ hs' = [hs EXCEPT ![h] = Done(Applied(@, Replayed(h)))]
    /\ UNCHANGED <<job, file, synced, acked, tears, powers>>

(* The replay fails under the shared lock: an append may be under way, so  *)
(* the lock is released and the replay repeated under the exclusive one.   *)
Recheck(h) ==
    /\ hs[h].pc = "refresh" /\ ~ReplayEnds(h) /\ hs[h].lock = "shared"
    /\ hs' = [hs EXCEPT ![h] =
                [Applied(@, Replayed(h)) EXCEPT !.lock = "none", !.pc = "lock"]]
    /\ UNCHANGED <<job, file, synced, acked, tears, powers>>

(* It fails under the exclusive lock: the operation reports the failure.   *)
(* The first refresh of an `amputate` that finds a torn record is followed *)
(* by the exclusive phase.                                                 *)
RefreshFails(h) ==
    /\ hs[h].pc = "refresh" /\ ~ReplayEnds(h) /\ hs[h].lock = "exclusive"
    /\ LET s == Applied(hs[h], Replayed(h))
           torn == Torn(file, PileStop(h))
       IN  /\ ~(s.op = "cut" /\ torn)
           /\ hs' = [hs EXCEPT ![h] =
                       IF s.op = "amputate" /\ torn
                       THEN [s EXCEPT !.lock = "none", !.pc = "lock", !.op = "cut"]
                       ELSE Done(s)]
    /\ UNCHANGED <<job, file, synced, acked, tears, powers>>

(* Mutant of Truncate: the last whole record is cut as well. *)
TruncateLow(h) ==
    /\ hs[h].pc = "refresh" /\ ~ReplayEnds(h) /\ hs[h].lock = "exclusive"
    /\ Torn(file, PileStop(h))
    /\ hs[h].op \in {"cut", "amputate_at"}
    /\ LET low == IF Starts(file, 1) = {} THEN 0 ELSE Max(Starts(file, 1)) - 1
       IN  /\ file' = SubSeq(file, 1, low)
           /\ synced' = low
           /\ hs' = [hs EXCEPT ![h] = [Done(NoHandle) EXCEPT !.open = TRUE]]
    /\ UNCHANGED <<job, acked, tears, powers>>

(* The exclusive phase of an amputation confirms a torn record (where the  *)
(* caller of `amputate_at` expected it), cuts the file there and syncs it. *)
Truncate(h) ==
    /\ hs[h].pc = "refresh" /\ ~ReplayEnds(h) /\ hs[h].lock = "exclusive"
    /\ Torn(file, PileStop(h))
    /\ hs[h].op \in {"cut", "amputate_at"}
    /\ file' = SubSeq(file, 1, PileStop(h) - 1)
    /\ synced' = PileStop(h) - 1
    /\ hs' = [hs EXCEPT ![h] = [Done(Applied(@, Replayed(h))) EXCEPT !.dirty = FALSE]]
    /\ UNCHANGED <<job, acked, tears, powers>>

-----------------------------------------------------------------------------
(* Appending *)

(* Mutant of Writing: a small record, too, is appended in several calls. *)
WritingNever(g) == FALSE

(* An append in one system call runs alone; one in several does not. *)
Writing(g) == hs[g].pc = "append" /\ hs[g].part > 0 /\ hs[g].rec \notin Large

(* The next cell of the record reaches the file. *)
WriteCell(h) ==
    /\ hs[h].pc = "append"
    /\ \A g \in Handles \ {h} : ~Writing(g)
    /\ LET k == hs[h].part + 1
       IN  /\ file' = Append(file, Cell(hs[h].rec, k))
           /\ hs' = [hs EXCEPT ![h] = [@ EXCEPT !.part = k,
                        !.pc = IF k = Size[hs[h].rec] THEN "readback" ELSE "append"]]
    /\ UNCHANGED <<job, synced, acked, tears, powers>>

(* Mutant of ShortWrite: that part of the record was written is enough. *)
ShortWriteTaken(h) ==
    /\ hs[h].pc = "append"
    /\ hs[h].part > 0 => tears < job.tears
    /\ tears' = IF hs[h].part > 0 THEN tears + 1 ELSE tears
    /\ acked' = IF hs[h].part > 0 THEN acked \cup {hs[h].rec} ELSE acked
    /\ hs' = [hs EXCEPT ![h] = Done(@)]
    /\ UNCHANGED <<job, file, synced, powers>>

(* The append stops short and the operation reports it. *)
ShortWrite(h) ==
    /\ hs[h].pc = "append"
    /\ hs[h].part > 0 => tears < job.tears
    /\ tears' = IF hs[h].part > 0 THEN tears + 1 ELSE tears
    /\ hs' = [hs EXCEPT ![h] = Done(@)]
    /\ UNCHANGED <<job, file, synced, acked, powers>>

(* The records a writer reads back: `put` goes on to the first occurrence  *)
(* of its hash, its own or not; `insert` reads one record.                 *)
ReadTo(h) ==
    LET S == Replayed(h)
        own == {o \in S : file[o].rec = hs[h].rec}
    IN  IF hs[h].op = "insert" THEN {o \in S : o = hs[h].applied + 1}
        ELSE IF own = {} THEN S
        ELSE {o \in S : o <= Min(own)}

(* The writer is done if what it read last is its record, else it fails. *)
Readback(h) ==
    /\ hs[h].pc = "readback"
    /\ LET S == ReadTo(h)
           ok == S # {} /\ file[Max(S)].rec = hs[h].rec
           s == Done(Applied(hs[h], S))
       IN  /\ hs' = [hs EXCEPT ![h] =
                       IF ok THEN [s EXCEPT !.wrote = @ \cup {Max(S)}] ELSE s]
           /\ acked' = IF ok THEN acked \cup {hs[h].rec} ELSE acked
    /\ UNCHANGED <<job, file, synced, tears, powers>>

-----------------------------------------------------------------------------
(* Durability and failures *)

(* The record is found by a replay, with the payload its header names; it  *)
(* is where a power failure does not reach.                                *)
Readable(r) == \E o \in Starts(file, 1) : file[o].rec = r /\ Intact(file, o)
Durable(r) ==
    \E o \in Starts(file, 1) :
        file[o].rec = r /\ Intact(file, o) /\ o + Size[r] - 1 <= synced

(* `flush`: the whole file, other handles' appends included. *)
PileFlush(h) ==
    /\ hs[h].open /\ hs[h].pc = "idle" /\ h \notin Bounded
    /\ synced' = Len(file)
    /\ hs' = [hs EXCEPT ![h].dirty = FALSE]
    /\ UNCHANGED <<job, file, acked, tears, powers>>

(* `close`: flushes if this handle may have appended something. *)
PileClose(h) ==
    /\ hs[h].open /\ hs[h].pc = "idle"
    /\ synced' = IF hs[h].dirty THEN Len(file) ELSE synced
    /\ hs' = [hs EXCEPT ![h] = NoHandle]
    /\ UNCHANGED <<job, file, acked, tears, powers>>

(* The process of the handle is killed; the kernel releases its lock. *)
PileCrash(h) ==
    /\ hs[h].open
    /\ hs[h].pc = "append" /\ hs[h].part > 0 => tears < job.tears
    /\ tears' = IF hs[h].pc = "append" /\ hs[h].part > 0 THEN tears + 1 ELSE tears
    /\ hs' = [hs EXCEPT ![h] = NoHandle]
    /\ UNCHANGED <<job, file, synced, acked, powers>>

(* The machine stops; what was not synced may be lost from some cell on. *)
PilePowerFail ==
    /\ powers < job.powers /\ powers' = powers + 1
    /\ \E n \in synced .. Len(file) : file' = SubSeq(file, 1, n)
    /\ hs' = [h \in Handles |-> NoHandle]
    /\ acked' = {r \in acked : Durable(r)}
    /\ UNCHANGED <<job, synced, tears>>

PileStep(h) ==
    \/ RefreshOk(h) \/ Recheck(h) \/ RefreshFails(h) \/ Truncate(h)
    \/ WriteCell(h) \/ Readback(h)

PileNext ==
    \/ \E h \in Handles :
          \/ PileOpen(h)
          \/ \E p \in 1 .. Len(file) : OpenPrefix(h, p)
          \/ Refresh(h) \/ Amputate(h) \/ StartAmputateAt(h)
          \/ \E b \in PileBlobs \cap job.stores : PilePut(h, b)
          \/ \E r \in Fixed \cap job.stores : PileInsert(h, r)
          \/ LockExclusive(h) \/ PileStep(h) \/ ShortWrite(h)
          \/ PileFlush(h) \/ PileClose(h) \/ PileCrash(h)
    \/ PilePowerFail

PileSpec == PileInit /\ [][PileNext]_pileVars

-----------------------------------------------------------------------------
(* The file, the locks and the steps of the handles fit together: a lock   *)
(* is held exactly during an operation, an exclusive one alone.            *)
PileTypeOK ==
    /\ job \in PileUses
    /\ file \in Seq([rec : PileRecords, part : Nat \ {0}])
    /\ synced \in 0 .. Len(file)
    /\ acked \subseteq PileRecords
    /\ tears \in 0 .. job.tears /\ powers \in 0 .. job.powers
    /\ \A h \in Handles :
          /\ hs[h].lock \in {"none", "shared", "exclusive"}
          /\ hs[h].pc \in {"idle", "lock", "refresh", "append", "readback"}
          /\ hs[h].lock = "none" <=> hs[h].pc \in {"idle", "lock"}
          /\ hs[h].lock = "exclusive" => Excludable(h)
          /\ hs[h].wrote \subseteq 1 .. hs[h].applied

(* Whatever mixture of replays, failed replays and readbacks brought a     *)
(* handle to its applied length, its index is what a replay from the start *)
(* of the file finds up to there.                                          *)
IndexIsReplay ==
    \A h \in Handles :
        LET S == {o \in Starts(file, 1) : o <= hs[h].applied}
        IN  /\ hs[h].index = {<<file[o].rec, o>> : o \in S}
            /\ hs[h].applied = After(file, S, 1) - 1

(* Bytes that an open handle has applied are never cut off or changed,     *)
(* whoever amputates: a replay that found the file shorter would abort the *)
(* process, and readers hold views into those bytes.                       *)
AppliedBytesArePermanent ==
    [][\A h \in Handles : hs[h].open /\ hs'[h].open =>
          /\ Len(file') >= hs[h].applied
          /\ SubSeq(file', 1, hs[h].applied) = SubSeq(file, 1, hs[h].applied)]_pileVars

(* A collection record, proof or want that was reported stored is found by *)
(* every later replay, through torn appends of others, crashes and         *)
(* amputations, and once synced through power failures.  And whoever       *)
(* inserts it, however often, a replay finds it once: the check and the    *)
(* append are under one exclusive lock.                                    *)
InsertsStay ==
    \A r \in Fixed :
        /\ r \in acked => Readable(r)
        /\ Cardinality({o \in Starts(file, 1) : file[o].rec = r}) <= 1

(* `close` only flushes a dirty handle: of one that is not dirty, no record *)
(* that it stored and read back is where a power failure could take it.     *)
CleanIsDurable ==
    \A h \in Handles : \A o \in hs[h].wrote :
        ~hs[h].dirty => o + Size[file[o].rec] - 1 <= synced

(* A replay or a readback only ever reports a failure when some append     *)
(* really stopped short: an append under way is not mistaken for one.      *)
Fails(h) ==
    /\ hs[h].pc \in {"refresh", "readback"} /\ hs'[h].pc = "idle" /\ hs'[h].open
    /\ \/ hs[h].pc = "refresh" /\ ~ReplayEnds(h)
       \/ hs[h].pc = "readback" /\ hs[h].rec \notin acked'
FailuresAreReal == [][(\E h \in Handles : Fails(h)) => tears + powers > 0]_pileVars

(* "The successful append is complete, as are preceding serialized         *)
(* appends": a record that was reported stored can be read back.           *)
AckedIsReadable == \A r \in acked : Readable(r)

(* As long as every append is complete, a record that was reported stored  *)
(* can be read back, however the appends of the handles interleave: no     *)
(* blob's header ends up in front of the payload of another.               *)
CompleteAppendsAreReadable == tears + powers = 0 => AckedIsReadable

=============================================================================
