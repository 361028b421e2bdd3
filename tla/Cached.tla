------------------------------- MODULE Cached -------------------------------
(* The exchange of a data tree both ways: each side streams coded cells of    *)
(* its whole tree until both have decoded the difference, sends the bodies    *)
(* the other lacks, and half-closes once everything landed.  An exchange that *)
(* is cut off keeps the cells it received, and a later one resumes there.     *)
(*                                                                            *)
(*   src/triblespace-net/src/exchange.rs      the exchange, cached mode       *)
(*   src/triblespace-net/src/walk_cached.rs   its driver                      *)
(*   src/triblespace-net/src/riblt_resume.rs  the cells kept for resuming     *)
(*                                                                            *)
(* A tree is the set of its keys, and a root is the tree it names.  Cells are *)
(* not computed: the decoder recovers one more key of the symmetric           *)
(* difference with every cell after the first, the same key on both sides,    *)
(* and is done one cell after the last.                                       *)
EXTENDS Naturals, Sequences, FiniteSets, FiniteSetsExt, SequencesExt, Landing

CONSTANTS
  Keys,         \* a set of numbers
  MaxRequests,  \* MAX_WALK_REQUESTS
  MaxUnlanded,  \* MAX_WALK_UNLANDED
  Headroom,     \* CELL_HEADROOM
  Credit,       \* frames the stream takes before its reader reads one
  Budget,       \* RESUME_BUDGET_BYTES, in cells
  Uses          \* the situations explored: see the MC module

VARIABLES
  use,      \* the situation, chosen once
  store,    \* what each node holds: the tree, and the resident blobs
  snap,     \* the serving snapshot each node last published
  cache,    \* ResumeCache: the cells kept for each root, oldest first
  x,        \* the exchange and its driver, on each side
  wire,     \* frames on their way to each side
  landing,  \* events on their way to each side's landing task
  acks,     \* acknowledgements on their way to each side's driver
  round,    \* the exchange that runs, counted from 1
  faults    \* exchanges cut short so far

cachedVars == <<use, store, snap, cache, x, wire, landing, acks, round, faults>>

Sides == {"a", "b"}
Peer(e) == IF e = "a" THEN "b" ELSE "a"
Sorted(S) == SetToSortSeq(S, LAMBDA j, k : j < k)

RootFrame(S, r)   == [t |-> "root", root |-> S, resume |-> r]
Resume(n, S)      == [t |-> "resume", held |-> n, root |-> S]
CellFrame(i)      == [t |-> "cell", index |-> i]
ValueFrame(k)     == [t |-> "value", key |-> k]
Fin               == [t |-> "fin"]

----------------------------------------------------------------------------
(* The decoder.                                                               *)

Difference(s) ==
  LET peer == Head(s.peerRoot) IN Sorted((s.pinned \ peer) \union (peer \ s.pinned))

(* The cells that decode the whole difference. *)
Need(s) == IF Difference(s) = <<>> THEN 0 ELSE Len(Difference(s)) + 1

(* What the first n cells recover, in order: keys only here, keys only there. *)
Recovered(s, n) == SubSeq(Difference(s), 1, IF n = 0 THEN 0 ELSE n - 1)
Known(s)  == IF s.peerRoot = <<>> THEN <<>>
             ELSE Recovered(s, IF s.proven THEN Need(s) ELSE s.received)
Local(s)  == SelectSeq(Known(s), LAMBDA k : k \in s.pinned)
Remote(s) == SelectSeq(Known(s), LAMBDA k : k \notin s.pinned)

(* cell_bound *)
Bound(s) == 2 * (Cardinality(s.pinned) + Cardinality(Head(s.peerRoot))) + Headroom

(* discovery_stopped: decoded, and the peer was sent as much as it needs. *)
Stopped(s) == s.proven /\ s.written >= Need(s)

----------------------------------------------------------------------------
(* Starting.                                                                  *)

Holds(e) == cache[e] # <<>>

Start(e, pin) ==
  [phase |-> "drive", outcome |-> "none", pinned |-> pin, peer |-> pin,
   rootSent |-> FALSE, rootWritten |-> FALSE, peerRoot |-> <<>>,
   generated |-> 0, written |-> 0, received |-> 0, proven |-> FALSE,
   remoteQueued |-> 0, eager |-> 0, values |-> {}, start |-> 0,
   announced |-> Holds(e), awaitingResume |-> FALSE, owedResume |-> <<>>,
   recorded |-> 0, recording |-> TRUE,
   wanted |-> <<>>, requests |-> {}, fetching |-> {}, unlanded |-> 0, failed |-> 0,
   peerDone |-> FALSE, landedSent |-> FALSE, landedReceived |-> FALSE,
   pending |-> <<>>, deferred |-> <<>>, open |-> TRUE,
   finished |-> FALSE, receipt |-> [root |-> FALSE, cells |-> 0], toLand |-> <<>>]

Fail(s, why) == [s EXCEPT !.outcome = why]
Event(t, k) == [t |-> t, key |-> k, id |-> round]
AdmitLand(s, events) ==
  [s EXCEPT !.toLand = @ \o events, !.unlanded = @ + Len(events)]

----------------------------------------------------------------------------
(* Frames.                                                                    *)

(* peer_cell: the next cell owed.  Past decoding it is only counted.  Cells   *)
(* are recorded for resuming until the budget is reached.                     *)
PeerCell(s, index, fresh) ==
  LET keep == fresh /\ s.recording
      c == [s EXCEPT !.received = @ + 1,
                     !.recording = @ /\ (fresh => s.recorded < Budget),
                     !.recorded = IF keep /\ @ < Budget THEN @ + 1 ELSE @]
      d == [c EXCEPT !.proven = c.received = Need(s)]
  IN  IF s.peerRoot = <<>> \/ s.peerDone \/ index # s.received THEN Fail(s, "protocol")
      ELSE IF s.received >= Bound(s) THEN Fail(s, "resource")
      ELSE IF s.proven THEN [s EXCEPT !.received = @ + 1]
      ELSE [d EXCEPT !.peer = @ \ ToSet(Local(d))]

(* claim: our promised RESUME names the cells kept for exactly this root, if  *)
(* the peer will honour it, and replays them.                                 *)
Entry(e, root) == SelectSeq(cache[e], LAMBDA c : c.root = root)

Claim(s, e) ==
  LET root == Head(s.peerRoot)
      kept == Entry(e, root)
      held == IF kept # <<>> /\ root # s.pinned /\ Head(kept).cells < Bound(s)
              THEN Head(kept).cells ELSE 0
      owed == [s EXCEPT !.owedResume = <<Resume(held, root)>>]
      replayed == FoldLeft(LAMBDA c, i : PeerCell(c, i - 1, FALSE), owed,
                           [i \in 1..held |-> i])
  IN  IF ~s.announced THEN s
      ELSE IF held = 0 THEN owed ELSE [replayed EXCEPT !.recorded = held]

OnRoot(s, e, f) ==
  IF s.peerRoot # <<>> THEN Fail(s, "protocol")
  ELSE Claim([s EXCEPT !.peerRoot = <<f.root>>, !.awaitingResume = f.resume,
                       !.proven = f.root = s.pinned], e)

OnResume(s, f) ==
  LET back == [s EXCEPT !.awaitingResume = FALSE]
  IN  IF s.peerRoot = <<>> \/ ~s.awaitingResume THEN Fail(s, "protocol")
      ELSE IF f.held > 0 /\ f.root = s.pinned /\ f.held < Bound(s)
      THEN [back EXCEPT !.start = f.held, !.generated = f.held, !.written = f.held]
      ELSE back

OnValue(s, k) ==
  IF s.peerRoot = <<>> \/ use.kind = "references" THEN Fail(s, "protocol")
  ELSE IF k \in s.values THEN s
  ELSE AdmitLand([s EXCEPT !.values = @ \union {k}, !.requests = @ \ {k},
                           !.wanted = SelectSeq(@, LAMBDA w : w # k),
                           !.peer = @ \union {k}], <<Event("value", k)>>)

Verified(s) == s.peer = Head(s.peerRoot)

(* on_fin: a clean end is the peer's promise that everything landed there. *)
OnFin(s) ==
  IF s.peerDone \/ ~s.proven \/ (s.awaitingResume /\ ~Stopped(s)) THEN Fail(s, "protocol")
  ELSE IF use.kind # "references" /\ ~Verified(s) THEN Fail(s, "count")
  ELSE [s EXCEPT !.peerDone = TRUE, !.landedReceived = TRUE]

OnFrame(s, e, f) ==
  CASE f.t = "root"   -> OnRoot(s, e, f)
    [] f.t = "resume" -> OnResume(s, f)
    [] f.t = "cell"   -> PeerCell(s, f.index, TRUE)
    [] f.t = "value"  -> OnValue(s, f.key)
    [] f.t = "fin"    -> OnFin(s)

----------------------------------------------------------------------------
(* Settling.  Readiness is a current predicate, not a latch: a body that      *)
(* comes late makes new debt.                                                 *)

(* Recovered keys of the peer: note a held one, queue the others. *)
QueueRemote(s, e) ==
  LET new  == SubSeq(Remote(s), s.remoteQueued + 1, Len(Remote(s)))
      Here(k) == k \in s.values \/ k \in snap[e].tree
  IN  [s EXCEPT !.remoteQueued = Len(Remote(s)),
                !.peer = @ \union {k \in ToSet(new) : Here(k)},
                !.wanted = @ \o SelectSeq(new, LAMBDA k : ~Here(k))]

Scheduled(s, e) ==
  LET room == MaxRequests - Cardinality(s.requests) - Cardinality(s.fetching)
      Resident(i) == use.kind = "references" /\ s.wanted[i] \in snap[e].blobs
      Before(i) == Cardinality({j \in 1..(i - 1) : ~Resident(j)})
  IN  Cardinality({i \in 1..Len(s.wanted) : Before(i) < room})

(* References are fetched, records wait for the body the peer sends. *)
Schedule(s, e) ==
  LET n    == Scheduled(s, e)
      now  == SubSeq(s.wanted, 1, n)
      left == [s EXCEPT !.wanted = SubSeq(@, n + 1, Len(@))]
      here == SelectSeq(now, LAMBDA k : k \in snap[e].blobs)
  IN  IF use.kind = "references"
      THEN AdmitLand([left EXCEPT !.peer = @ \union ToSet(now),
                                  !.fetching = @ \union (ToSet(now) \ ToSet(here))],
                     [i \in 1..Len(here) |-> Event("held", here[i])])
      ELSE [left EXCEPT !.requests = @ \union ToSet(now)]

Answer(s) ==
  LET asked == s.wanted = <<>> /\ s.requests = {}
  IN  IF s.proven /\ asked /\ ~Verified(s) THEN Fail(s, "count")
      ELSE IF ~(s.rootWritten /\ Stopped(s) /\ asked /\ s.fetching = {} /\ s.unlanded = 0)
      THEN s
      ELSE IF s.failed > 0 THEN Fail(s, "insert")
      ELSE [s EXCEPT !.landedSent = TRUE]

Confirm(s) ==
  IF s.outcome = "none" /\ s.landedSent /\ s.landedReceived
  THEN [s EXCEPT !.outcome = "confirmed"] ELSE s

Settle(s, e) ==
  IF s.outcome # "none" THEN s
  ELSE Confirm(Answer(Schedule(QueueRemote([s EXCEPT !.landedSent = FALSE], e), e)))

----------------------------------------------------------------------------
(* What the driver writes next: bodies, a cell that was put off, the delta.   *)

(* next_delta: ROOT, the promised RESUME, then cells until discovery stops. *)
NextDelta(s) ==
  IF s.rootSent /\ s.owedResume # <<>>
  THEN [s EXCEPT !.pending = s.owedResume, !.owedResume = <<>>]
  ELSE IF s.outcome # "none" THEN s
  ELSE IF ~s.rootSent
  THEN [s EXCEPT !.rootSent = TRUE, !.pending = <<RootFrame(s.pinned, s.announced)>>]
  ELSE IF Stopped(s) \/ s.peerRoot = <<>> \/ s.awaitingResume THEN s
  ELSE IF s.generated >= Bound(s) THEN Fail(s, "resource")
  ELSE [s EXCEPT !.pending = <<CellFrame(s.generated)>>, !.generated = @ + 1]

Bodies(s) == IF use.kind = "references" THEN <<>> ELSE SubSeq(Local(s), s.eager + 1, Len(Local(s)))
IsCell(frames) == frames # <<>> /\ Head(frames).t = "cell"

NextBody(s) == [s EXCEPT !.pending = <<ValueFrame(Head(Bodies(s)))>>, !.eager = @ + 1]

(* Cells no longer needed are dropped, and a body goes before a cell. *)
Refill(s) ==
  LET d == IF Stopped(s) THEN [s EXCEPT !.deferred = <<>>,
                                        !.pending = IF IsCell(@) THEN <<>> ELSE @]
           ELSE s
  IN  IF IsCell(d.pending) /\ Bodies(d) # <<>>
      THEN NextBody([d EXCEPT !.deferred = d.pending])
      ELSE IF d.pending # <<>> THEN d
      ELSE IF Bodies(d) # <<>> THEN NextBody(d)
      ELSE IF d.deferred # <<>> THEN [d EXCEPT !.pending = d.deferred, !.deferred = <<>>]
      ELSE NextDelta(d)

(* ready_to_finish: everything landed and nothing is owed; the write half     *)
(* then closes, whether or not the peer's has.                                *)
ReadyToFinish(s) == s.owedResume = <<>> /\ s.landedSent

Close(s) == IF ReadyToFinish(s) /\ s.pending = <<>> THEN [s EXCEPT !.open = FALSE] ELSE s

----------------------------------------------------------------------------
(* The driver and its writer.                                                 *)

Driving(e) == x[e].phase = "drive"
Ended(e) == x[e].phase = "ended"

(* keep_received and ResumeCache::keep: an exchange that was cut off short of *)
(* decoding keeps its cells, replacing older ones for the same root; the      *)
(* oldest entries go when the budget is exceeded.                             *)
Sum(entries) == FoldLeft(LAMBDA n, c : n + c.cells, 0, entries)

Kept(entries, root, cells) ==
  LET all == Append(SelectSeq(entries, LAMBDA c : c.root # root), [root |-> root, cells |-> cells])
      fitting == {n \in 1..Len(all) : Sum(SubSeq(all, n, Len(all))) <= Budget}
  IN  SubSeq(all, CHOOSE n \in fitting : \A m \in fitting : n <= m, Len(all))

CutOff(s) ==
  /\ s.outcome \in {"cut", "stream"} /\ s.recording /\ s.recorded > 0
  /\ s.peerRoot # <<>> /\ ~s.proven /\ Head(s.peerRoot) # s.pinned

Advance(e, s, entries) ==
  LET r == IF s.outcome \in {"none", "confirmed"} /\ s.open THEN Close(Refill(s)) ELSE s
      over == \/ r.outcome \notin {"none", "confirmed"}
              \/ r.outcome = "confirmed" /\ r.finished
      gone == [Start(e, r.pinned) EXCEPT !.phase = "ended", !.outcome = r.outcome,
                                         !.landedReceived = r.landedReceived]
  IN  /\ x' = [x EXCEPT ![e] = IF over THEN gone ELSE [r EXCEPT !.toLand = <<>>]]
      /\ landing' = [landing EXCEPT ![e] = @ \o r.toLand]
      /\ cache' = [cache EXCEPT ![e] = IF CutOff(r) THEN Kept(entries, Head(r.peerRoot), r.recorded)
                                       ELSE entries]
      /\ UNCHANGED <<use, store, snap, round>>

(* The writer takes the driver's frame, writes it, and posts a receipt for a  *)
(* ROOT or a cell; a frame written to a peer that is gone is lost.            *)
Send(e) ==
  /\ Driving(e) /\ x[e].pending # <<>>
  /\ LET f == Head(x[e].pending)
         r == x[e].receipt
         posted == [root  |-> r.root \/ f.t = "root",
                    cells |-> IF f.t = "cell" THEN f.index + 1 ELSE r.cells]
     IN  /\ IF Ended(Peer(e)) THEN wire' = wire
            ELSE /\ Len(wire[Peer(e)]) < Credit
                 /\ wire' = [wire EXCEPT ![Peer(e)] = Append(@, f)]
         /\ Advance(e, [x[e] EXCEPT !.pending = <<>>, !.receipt = posted], cache[e])
  /\ UNCHANGED <<acks, faults>>

(* on_written and on_root_written *)
OnWritten(s) ==
  LET prefix == IF s.receipt.cells < s.start THEN s.start ELSE s.receipt.cells
  IN  IF prefix < s.written \/ prefix > s.generated THEN Fail(s, "protocol")
      ELSE [s EXCEPT !.written = prefix, !.rootWritten = s.receipt.root]

Unnoted(s) == s.receipt.root # s.rootWritten \/ s.receipt.cells > s.written

Written(e) ==
  /\ Driving(e) /\ x[e].outcome = "none" /\ Unnoted(x[e])
  /\ Advance(e, Settle(OnWritten(x[e]), e), cache[e])
  /\ UNCHANGED <<wire, acks, faults>>

(* The writer has written everything and finishes the stream. *)
Finish(e) ==
  /\ Driving(e) /\ ~x[e].open /\ ~x[e].finished
  /\ wire' = IF Ended(Peer(e)) THEN wire
             ELSE [wire EXCEPT ![Peer(e)] = Append(@, Fin)]
  /\ Advance(e, [x[e] EXCEPT !.finished = TRUE], cache[e])
  /\ UNCHANGED <<acks, faults>>

(* A claim takes its entry out of the cache while the exchange runs. *)
Taken(e, f) ==
  IF f.t = "root" /\ x[e].announced THEN SelectSeq(cache[e], LAMBDA c : c.root # f.root)
  ELSE cache[e]

Read(e) ==
  /\ Driving(e) /\ x[e].outcome = "none" /\ x[e].unlanded < MaxUnlanded
  /\ ~x[e].peerDone /\ wire[e] # <<>>
  /\ wire' = [wire EXCEPT ![e] = Tail(@)]
  /\ Advance(e, Settle(OnFrame(x[e], e, Head(wire[e])), e), Taken(e, Head(wire[e])))
  /\ UNCHANGED <<acks, faults>>

(* on_landed_ack *)
Acked(e) ==
  /\ Driving(e) /\ x[e].outcome = "none" /\ acks[e] # <<>>
  /\ acks' = [acks EXCEPT ![e] = Tail(@)]
  /\ LET a == Head(acks[e])
     IN  Advance(e, Settle([x[e] EXCEPT !.unlanded = @ - (a.landed + a.failed),
                                        !.failed = @ + a.failed], e), cache[e])
  /\ UNCHANGED <<wire, faults>>

(* on_fetched *)
Fetched(e) ==
  /\ Driving(e) /\ x[e].outcome = "none"
  /\ \E k \in x[e].fetching, found \in BOOLEAN :
       LET back == [x[e] EXCEPT !.fetching = @ \ {k}]
       IN  /\ IF found THEN k \in store[Peer(e)].blobs ELSE use.fails
           /\ Advance(e, Settle(IF found
                                THEN AdmitLand(back, <<Event("blob", k), Event("held", k)>>)
                                ELSE [back EXCEPT !.failed = @ + 1], e), cache[e])
  /\ UNCHANGED <<wire, acks, faults>>

(* The peer reset the stream. *)
Broken(e) ==
  /\ Driving(e) /\ Ended(Peer(e)) /\ x[Peer(e)].outcome # "confirmed"
  /\ Advance(e, Fail(x[e], "stream"), cache[e])
  /\ UNCHANGED <<wire, acks, faults>>

(* The exchange is cut short here: its deadline passes, its stream or         *)
(* connection fails, or a later stream replaces it.                           *)
Abort(e) ==
  /\ Driving(e) /\ faults < use.faults
  /\ faults' = faults + 1
  /\ Advance(e, Fail(x[e], "cut"), cache[e])
  /\ UNCHANGED <<wire, acks>>

----------------------------------------------------------------------------
(* The node around the exchange.                                              *)

Author(e) ==
  /\ \E k \in use.own[e] \ store[e].tree :
       store' = [store EXCEPT ![e].tree = @ \union {k}, ![e].blobs = @ \union {k}]
  /\ UNCHANGED <<use, snap, cache, x, wire, landing, acks, round, faults>>

Publish(e) ==
  /\ snap[e] # store[e]
  /\ snap' = [snap EXCEPT ![e] = store[e]]
  /\ UNCHANGED <<use, store, cache, x, wire, landing, acks, round, faults>>

(* The landing task takes what has queued up. *)
Land(e) ==
  /\ landing[e] # <<>>
  /\ \E bad \in SUBSET (IF use.fails THEN MayFail(landing[e]) ELSE {}) :
       LET node == Inserted(store[e], landing[e], bad)
       IN  /\ store' = [store EXCEPT ![e] = node]
           /\ snap' = [snap EXCEPT ![e] = node]
           /\ acks' = IF Driving(e)
                      THEN [acks EXCEPT ![e] = @ \o Acknowledgement(landing[e], bad, round)]
                      ELSE acks
  /\ landing' = [landing EXCEPT ![e] = <<>>]
  /\ UNCHANGED <<use, cache, x, wire, round, faults>>

(* A later exchange of the same tree. *)
Reopen ==
  /\ round < use.rounds
  /\ \A e \in Sides : Ended(e)
  /\ round' = round + 1
  /\ x' = [e \in Sides |-> Refill(Start(e, snap[e].tree))]
  /\ wire' = [e \in Sides |-> <<>>]
  /\ acks' = [e \in Sides |-> <<>>]
  /\ UNCHANGED <<use, store, snap, cache, landing, faults>>

CachedInit ==
  /\ use \in Uses
  /\ store = use.store /\ snap = use.store
  /\ cache = use.cache
  /\ x = [e \in Sides |-> Refill(Start(e, snap[e].tree))]
  /\ wire = [e \in Sides |-> <<>>]
  /\ landing = [e \in Sides |-> <<>>]
  /\ acks = [e \in Sides |-> <<>>]
  /\ round = 1 /\ faults = 0

(* What the tasks of a side do: driver, writer and landing task. *)
Task(e) ==
  \/ Send(e) \/ Written(e) \/ Finish(e) \/ Read(e) \/ Acked(e)
  \/ Fetched(e) \/ Broken(e) \/ Land(e)

CachedNext ==
  \/ \E e \in Sides : Task(e) \/ Abort(e) \/ Author(e) \/ Publish(e)
  \/ Reopen

(* Task(e) can take a step. *)
CanRun(e) ==
  LET s == x[e]
  IN  \/ landing[e] # <<>>
      \/ /\ Driving(e)
         /\ \/ s.pending # <<>> /\ (Ended(Peer(e)) \/ Len(wire[Peer(e)]) < Credit)
            \/ ~s.open /\ ~s.finished
            \/ Ended(Peer(e)) /\ x[Peer(e)].outcome # "confirmed"
            \/ /\ s.outcome = "none"
               /\ \/ Unnoted(s) \/ acks[e] # <<>>
                  \/ s.unlanded < MaxUnlanded /\ ~s.peerDone /\ wire[e] # <<>>
                  \/ \E k \in s.fetching : use.fails \/ k \in store[Peer(e)].blobs

(* The runtime keeps running the tasks while one of them has something to do: *)
(* weak fairness of the tasks' steps, its enabling condition written out.     *)
Fairness == []<>(\A e \in Sides : ~CanRun(e)) \/ []<><<TRUE>>_cachedVars

CachedSpec == CachedInit /\ [][CachedNext]_cachedVars /\ Fairness

----------------------------------------------------------------------------
(* Properties.                                                                *)

CachedTypeOK ==
  /\ use \in Uses /\ round \in 1..use.rounds /\ faults \in 0..use.faults
  /\ \A e \in Sides :
       /\ store[e] \in [tree : SUBSET Keys, blobs : SUBSET Keys]
       /\ snap[e].tree \subseteq store[e].tree /\ snap[e].blobs \subseteq store[e].blobs
       /\ x[e].phase \in {"drive", "ended"}
       /\ x[e].written <= x[e].generated
       /\ Cardinality(x[e].requests) + Cardinality(x[e].fetching) <= MaxRequests
       /\ Sum(cache[e]) <= Budget

(* The peer's clean end is a receipt: by then the peer's store has every key  *)
(* of the tree this side pinned, and when this side confirms, each store has  *)
(* both trees.                                                                *)
FinIsAReceipt ==
  \A e \in Sides :
    /\ x[e].landedReceived => x[e].pinned \subseteq store[Peer(e)].tree
    /\ x[e].outcome = "confirmed" => x[Peer(e)].pinned \subseteq store[e].tree

(* Two nodes that follow the protocol never find each other in violation of   *)
(* it: not over a resume that was promised, claimed or honoured, and not over *)
(* a half-close that comes before or after the last body.                     *)
NeverMisjudged ==
  \A e \in Sides : x[e].outcome \notin {"protocol", "count"}
=============================================================================
