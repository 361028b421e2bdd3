-------------------------------- MODULE Yard --------------------------------
(***************************************************************************)
(* A yard: an ordered sequence of piles, young to old, that collects       *)
(* (triblespace-core/src/repo/yard.rs).  Writes land in the young pile.    *)
(* `collect` takes unowned blobs out of the live sets, `compact` moves an  *)
(* overfull tier down and recycles its file, `reclaim` rewrites every file *)
(* to what is live.  A yard is owned by one process and its operations     *)
(* exclude each other, but the process may be killed and the machine may   *)
(* stop between any two of their steps.                                    *)
(*                                                                         *)
(* A pile is the set of items in its file (module Pile says how a file     *)
(* yields them) and the part of it that is synced.  A rewrite replaces the *)
(* file by one rename: before it the old file counts, after it the new     *)
(* one, which was synced before.                                           *)
(***************************************************************************)
EXTENDS Retention, FiniteSetsExt

CONSTANTS
    Generations,   \* how many
    Fanout,
    Uses           \* what happens to a yard: records [found, stores, budget,
                   \* faults], what its files hold when it is first opened, what
                   \* is written to it, its `strong_level_budget`, and the
                   \* steps that may fail: "copy", "sync", "rewrite"

Levels == 1 .. Generations
Young == 1

ASSUME GenerationsAssumption == Generations \in Nat \ {0} /\ Fanout \in Nat \ {0}
ASSUME UsesAssumption ==
    Uses \subseteq [found : [Levels -> SUBSET Items], stores : SUBSET Items, budget : Nat,
                   faults : SUBSET {"copy", "sync", "rewrite"}]

VARIABLES
    use,      \* which of the uses this is
    items,    \* level -> what its file holds
    durable,  \* level -> the part a power failure does not take back
    dirty,    \* level -> whether this process has appended to it
    live,     \* level -> its live blobs
    wants,    \* the requests in memory
    open,
    task,     \* the operation under way, see Idle
    wrote,    \* level -> what this process appended since it was synced
    reopened, \* levels a failed rewrite has given a fresh handle
    safe      \* items that were owned when everything was synced, without
              \* those a failed sync left in an unsynced file only

files == <<items, durable, dirty, wrote, reopened>>
vars == <<use, files, live, wants, open, task, safe>>

-----------------------------------------------------------------------------
(* No operation is under way.  Otherwise: the tier a compaction looks at,  *)
(* the blobs it has yet to copy, the tiers to be recycled and the roots.   *)
Idle == [op |-> "none", pc |-> "idle", level |-> 0, copy |-> {}, recycle |-> {},
         roots |-> NoRoots]

Visible == UNION {live[l] : l \in Levels}
Stored == (UNION {items[l] : l \in Levels}) \cap Records
Owned == LET owners == Stored \cup wants
         IN  owners \cup (Keep(Visible, owners, NoRoots) \cap Visible)

(* `strong_budget_for`. *)
Budget(l) == use.budget * Fanout ^ (l - 1)

(* Mutant of Collected: a want does not keep what it names. *)
CollectedByRecords(roots) ==
    LET keep == Keep(Visible, Stored, roots)
    IN  [l \in Levels |-> live[l] \cap keep]

(* The live sets after `collect`. *)
Collected(roots) ==
    LET keep == Keep(Visible, Stored \cup wants, roots)
    IN  [l \in Levels |-> live[l] \cap keep]

Ready == open /\ task.pc = "idle"

Init ==
    /\ use \in Uses
    /\ items = use.found /\ durable = use.found
    /\ dirty = [l \in Levels |-> FALSE] /\ wrote = [l \in Levels |-> {}]
    /\ reopened = {}
    /\ live = [l \in Levels |-> {}]
    /\ wants = {} /\ open = FALSE /\ task = Idle
    /\ safe = UNION {use.found[l] \ Blobs : l \in Levels}

(* `open`: every blob of a file is live, and the wants of all are wanted. *)
Open ==
    /\ ~open /\ open' = TRUE
    /\ live' = [l \in Levels |-> items[l] \cap Blobs]
    /\ wants' = (UNION {items[l] : l \in Levels}) \cap Wants
    /\ UNCHANGED <<use, files, task, safe>>

(* An item is appended to a pile, unless it is there. *)
Write(l, new) ==
    /\ items' = [items EXCEPT ![l] = @ \cup new]
    /\ dirty' = [dirty EXCEPT ![l] = @ \/ ~(new \subseteq items[l])]
    /\ wrote' = [wrote EXCEPT ![l] = @ \cup (new \ items[l])]

Put(b) ==
    /\ Ready /\ Write(Young, {b})
    /\ live' = [live EXCEPT ![Young] = @ \cup {b}]
    /\ UNCHANGED <<use, durable, reopened, wants, open, task, safe>>

Insert(r) ==
    /\ Ready /\ Write(Young, {r})
    /\ UNCHANGED <<use, durable, reopened, live, wants, open, task, safe>>

Want(w) ==
    /\ Ready /\ Write(Young, {w})
    /\ wants' = wants \cup {w}
    /\ UNCHANGED <<use, durable, reopened, live, open, task, safe>>

Collect(roots) ==
    /\ Ready /\ live' = Collected(roots)
    /\ UNCHANGED <<use, files, wants, open, task, safe>>

-----------------------------------------------------------------------------
(* `compact` collects, then looks at the tiers from the young one down. *)
Compact(roots) ==
    /\ Ready /\ live' = Collected(roots)
    /\ task' = [Idle EXCEPT !.op = "compact", !.pc = "scan", !.level = Young,
                            !.roots = roots]
    /\ UNCHANGED <<use, files, wants, open, safe>>

(* The survivors of a tier.  The code computes the set to keep once: what  *)
(* it is computed from does not change while tiers move down.              *)
Strong(l) == live[l] \cap Keep(Visible, Stored \cup wants, task.roots)

(* A tier that is not the last one is within its budget, or it overflows:  *)
(* all of it is to be copied to the next.                                  *)
Scan ==
    /\ task.pc = "scan" /\ task.level < Generations
    /\ task' = IF Cardinality(Strong(task.level)) <= Budget(task.level)
               THEN [task EXCEPT !.level = @ + 1]
               ELSE [task EXCEPT !.pc = "copy", !.copy = live[task.level]]
    /\ UNCHANGED <<use, files, live, wants, open, safe>>

CopyBlob(b) ==
    /\ task.pc = "copy" /\ b \in task.copy
    /\ Write(task.level + 1, {b})
    /\ task' = [task EXCEPT !.copy = @ \ {b}]
    /\ UNCHANGED <<use, durable, reopened, live, wants, open, safe>>

(* The copied tier is live in the next one only. *)
Move ==
    /\ task.pc = "copy" /\ task.copy = {}
    /\ live' = [live EXCEPT ![task.level] = {}, ![task.level + 1] = @ \cup live[task.level]]
    /\ task' = [task EXCEPT !.pc = "sync"]
    /\ UNCHANGED <<use, files, wants, open, safe>>

(* A pile is synced. *)
Sync(l) ==
    /\ durable' = [durable EXCEPT ![l] = items[l]]
    /\ dirty' = [dirty EXCEPT ![l] = FALSE]
    /\ wrote' = [wrote EXCEPT ![l] = {}]
    /\ reopened' = reopened \ {l}

(* What moved is synced before the file it came from may be recycled. *)
SyncMoved ==
    /\ task.pc = "sync" /\ Sync(task.level + 1)
    /\ task' = [task EXCEPT !.pc = "scan", !.level = @ + 1, !.recycle = @ \cup {task.level}]
    /\ UNCHANGED <<use, items, live, wants, open, safe>>

(* The last tier is reached.  If tiers are to be recycled and the young    *)
(* one is not among them, the wants are anchored in it first.              *)
Scanned ==
    /\ task.pc = "scan" /\ task.level = Generations
    /\ task' = [task EXCEPT !.pc =
                  IF task.recycle = {} THEN "finish"
                  ELSE IF Young \in task.recycle THEN "recycle" ELSE "anchor"]
    /\ UNCHANGED <<use, files, live, wants, open, safe>>

(* Mutant of Anchor: the young file is left as it is. *)
AnchorSkipped ==
    /\ task.pc = "anchor"
    /\ task' = [task EXCEPT !.pc = "recycle"]
    /\ UNCHANGED <<use, files, live, wants, open, safe>>

(* `anchor_wants_in_young`: appended and synced. *)
Anchor ==
    /\ task.pc = "anchor"
    /\ items' = [items EXCEPT ![Young] = @ \cup wants]
    /\ durable' = [durable EXCEPT ![Young] = items[Young] \cup wants]
    /\ dirty' = [dirty EXCEPT ![Young] = FALSE]
    /\ wrote' = [wrote EXCEPT ![Young] = {}]
    /\ reopened' = reopened \ {Young}
    /\ task' = [task EXCEPT !.pc = "recycle"]
    /\ UNCHANGED <<use, live, wants, open, safe>>

(* `reclaim`: every file is to be rewritten. *)
Reclaim ==
    /\ Ready
    /\ task' = [Idle EXCEPT !.op = "reclaim", !.pc = "recycle", !.recycle = Levels]
    /\ UNCHANGED <<use, files, live, wants, open, safe>>

(* The file `reclaim_generation` replaces a tier's by: its live blobs and  *)
(* its records, and in the young tier every want.                          *)
Rewritten(l) ==
    live[l] \cup (items[l] \cap Records) \cup (IF l = Young THEN wants ELSE {})

(* `reclaim_segment` for the youngest tier to be recycled. *)
Recycle ==
    /\ task.pc = "recycle" /\ task.recycle # {}
    /\ LET l == Min(task.recycle)
       IN  /\ items' = [items EXCEPT ![l] = Rewritten(l)]
           /\ durable' = [durable EXCEPT ![l] = Rewritten(l)]
           /\ dirty' = [dirty EXCEPT ![l] = FALSE]
           /\ wrote' = [wrote EXCEPT ![l] = {}]
           /\ reopened' = reopened \ {l}
           /\ task' = [task EXCEPT !.recycle = @ \ {l}]
    /\ UNCHANGED <<use, live, wants, open, safe>>

(* A compaction ends with a second `collect`. *)
Finish ==
    /\ task.pc = "finish" \/ (task.pc = "recycle" /\ task.recycle = {})
    /\ live' = IF task.op = "compact" THEN Collected(task.roots) ELSE live
    /\ task' = Idle
    /\ UNCHANGED <<use, files, wants, open, safe>>

(* A blob cannot be copied: the operation ends. *)
FailCopy ==
    /\ "copy" \in use.faults /\ task.pc = "copy" /\ task.copy # {}
    /\ task' = Idle
    /\ UNCHANGED <<use, files, live, wants, open, safe>>

(* What moved or was to be anchored cannot be synced.  The moved tier is   *)
(* live in the next one, whose file may lose what is not synced, and with  *)
(* it the claim on what only that kept.                                    *)
FailSync ==
    /\ "sync" \in use.faults /\ task.pc \in {"sync", "anchor"}
    /\ task' = Idle
    /\ safe' = IF task.pc = "anchor" THEN safe
               ELSE Supported(safe \ (items[task.level + 1] \ durable[task.level + 1]))
    /\ UNCHANGED <<use, files, live, wants, open>>

(* A rewrite fails: the file is opened again as it is, through a handle    *)
(* that has appended nothing.                                              *)
FailRewrite ==
    /\ "rewrite" \in use.faults /\ task.pc = "recycle" /\ task.recycle # {}
    /\ dirty' = [dirty EXCEPT ![Min(task.recycle)] = FALSE]
    /\ reopened' = reopened \cup {Min(task.recycle)}
    /\ task' = Idle
    /\ UNCHANGED <<use, items, durable, wrote, live, wants, open, safe>>

-----------------------------------------------------------------------------
AllSynced == \A l \in Levels : durable'[l] = items[l]

(* `flush`: every file. *)
Flush ==
    /\ Ready
    /\ durable' = items
    /\ dirty' = [l \in Levels |-> FALSE] /\ wrote' = [l \in Levels |-> {}]
    /\ reopened' = {}
    /\ safe' = safe \cup Owned
    /\ UNCHANGED <<use, items, live, wants, open, task>>

(* Nothing of the process is left. *)
Gone ==
    /\ open' = FALSE /\ task' = Idle /\ wants' = {}
    /\ live' = [l \in Levels |-> {}]
    /\ dirty' = [l \in Levels |-> FALSE] /\ wrote' = [l \in Levels |-> {}]
    /\ reopened' = {}

(* Mutant of Close: only the young file, where writes land, is synced. *)
CloseYoung ==
    /\ Ready /\ Gone
    /\ durable' = [durable EXCEPT ![Young] = IF dirty[Young] THEN items[Young] ELSE @]
    /\ safe' = IF AllSynced THEN safe \cup Owned ELSE safe
    /\ UNCHANGED <<use, items>>

(* `close`: every file this process may have appended to is synced. *)
Close ==
    /\ Ready /\ Gone
    /\ durable' = [l \in Levels |-> IF dirty[l] THEN items[l] ELSE durable[l]]
    /\ safe' = IF AllSynced THEN safe \cup Owned ELSE safe
    /\ UNCHANGED <<use, items>>

(* The process is killed. *)
Crash == open /\ Gone /\ UNCHANGED <<use, items, durable, safe>>

(* The machine stops: any part of what is not synced is lost. *)
PowerFail ==
    /\ Gone
    /\ \E lost \in SUBSET {u \in Levels \X Items : u[2] \in items[u[1]] \ durable[u[1]]} :
          items' = [l \in Levels |-> {i \in items[l] : <<l, i>> \notin lost}]
    /\ UNCHANGED <<use, durable, safe>>

Next ==
    \/ Open \/ Flush \/ Close \/ Crash \/ PowerFail
    \/ \E b \in Blobs \cap use.stores : Put(b)
    \/ \E r \in Records \cap use.stores : Insert(r)
    \/ \E w \in Wants \cap use.stores : Want(w)
    \/ \E roots \in Roots : Collect(roots) \/ Compact(roots)
    \/ Scan \/ (\E b \in Blobs : CopyBlob(b)) \/ Move \/ SyncMoved \/ Scanned
    \/ Anchor \/ Reclaim \/ Recycle \/ Finish
    \/ FailCopy \/ FailSync \/ FailRewrite

Spec == Init /\ [][Next]_vars

-----------------------------------------------------------------------------
(* Every level is within its universe; without a process nothing is live,  *)
(* and a live blob is in its tier's file: the listing of a snapshot panics *)
(* on a live blob no file holds.                                           *)
TypeOK ==
    /\ \A l \in Levels :
          /\ items[l] \subseteq Items /\ durable[l] \subseteq items[l]
          /\ live[l] \subseteq items[l] \cap Blobs
          /\ wrote[l] \subseteq Items
    /\ use \in Uses /\ reopened \subseteq Levels
    /\ wants \subseteq Wants /\ safe \subseteq Items
    /\ ~open => task = Idle /\ wants = {} /\ Visible = {}

(* What was owned when everything was synced is in a synced file at every  *)
(* later moment, in the middle of a compaction or a rewrite too: no power  *)
(* failure takes it.  What a failed sync left unsynced is excepted.        *)
FlushedIsKept == safe \subseteq UNION {durable[l] : l \in Levels}

(* "Make the moved blobs durable in the target before the source pile is   *)
(* recycled": what a rewrite drops of a file is synced in another, if a    *)
(* reader still sees it.                                                   *)
MovedIsDurable ==
    [][Recycle => \A l \in Levels :
          (durable[l] \ durable'[l]) \cap Visible \subseteq UNION {durable'[k] : k \in Levels}]_vars

(* A close that succeeds leaves nothing this process appended, to any of   *)
(* the files, for a power failure to take.  A file that was reopened by a  *)
(* failed rewrite is excepted.                                             *)
ClosedIsDurable ==
    [][Close => \A l \in Levels \ reopened : wrote[l] \subseteq durable'[l]]_vars

(* "Explicit close remains the persistence boundary": of every file.       *)
CloseIsBoundary == [][Close => \A l \in Levels : wrote[l] \subseteq durable'[l]]_vars

(* Through all of it a reader sees a flat store: compaction and rewriting  *)
(* are invisible except for the collection they begin with, and what is    *)
(* safe comes back after every failure.                                    *)
Flat == INSTANCE RetentionStore WITH visible <- Visible,
            records <- IF open THEN Stored ELSE {}
FlatSpec == Flat!Spec

=============================================================================
