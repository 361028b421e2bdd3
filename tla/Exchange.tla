------------------------------ MODULE Exchange ------------------------------
(* One walk stream and the exchange each end drives on it: the Prefix         *)
(* protocol that carries a collection's records, its held references or the   *)
(* grants over a resource between two nodes.                                  *)
(*                                                                            *)
(*   src/triblespace-net/src/exchange.rs      the exchange itself             *)
(*   src/triblespace-net/src/prefix_offer.rs  the receipts of one-way offers  *)
(*   src/triblespace-net/src/walk.rs          the driver and the agreements   *)
(*   src/triblespace-net/src/landing.rs       the task that lands values      *)
(*                                                                            *)
(* A tree is the set of its keys and a summary is the set of keys under a     *)
(* prefix: two summaries are equal exactly when the subtrees are.  Exchanges  *)
(* follow one another on one connection, each against the agreement the last  *)
(* one left on its own side.                                                  *)
EXTENDS Naturals, Sequences, FiniteSets, FiniteSetsExt, SequencesExt, Landing

CONSTANTS
  Bytes,        \* the digits of a key
  KeyBytes,     \* KEY_BYTES
  Window,       \* prefix_offer::WINDOW: leaves that await a receipt
  MaxRequests,  \* MAX_WALK_REQUESTS
  MaxUnlanded,  \* MAX_WALK_UNLANDED
  Credit,       \* frames the stream takes before its reader reads one
  Uses          \* the situations explored: see the MC module

VARIABLES
  use,      \* the situation, chosen once
  store,    \* what each node holds: the tree, and the resident blobs
  snap,     \* the serving snapshot each node last published
  agreed,   \* Walks.agreed: the agreement of this connection, on each side
  x,        \* the exchange and its driver, on each side
  wire,     \* frames on their way to each side
  landing,  \* events on their way to each side's landing task
  acks,     \* acknowledgements on their way to each side's driver
  round,    \* the exchange that runs, counted from 1
  faults    \* exchanges cut short so far

net == <<wire, landing, acks>>
vars == <<use, store, snap, agreed, x, wire, landing, acks, round, faults>>

Sides == {"a", "b"}
Peer(e) == IF e = "a" THEN "b" ELSE "a"

----------------------------------------------------------------------------
(* Trees.                                                                     *)

TreeKeys == [1..KeyBytes -> Bytes]
Places == UNION {[1..n -> Bytes] : n \in 0..KeyBytes}
Root == <<>>

At(tree, prefix) == {k \in tree : IsPrefix(prefix, k)}

(* The longest prefix all keys of a subtree share: where its node stands. *)
Canonical(tree) ==
  LET shared == {p \in Places : At(tree, p) = tree}
  IN  CHOOSE p \in shared : \A q \in shared : Len(q) <= Len(p)

(* Tree::shape: the children of the node at a prefix, in byte order. *)
Children(tree) ==
  LET node  == Canonical(tree)
      below == {b \in Bytes : At(tree, Append(node, b)) # {}}
      Child(b) == Canonical(At(tree, Append(node, b)))
  IN  IF Len(node) = KeyBytes THEN <<>>
      ELSE LET order == SetToSortSeq(below, LAMBDA b, c : b < c)
           IN  [i \in 1..Len(order) |-> Child(order[i])]

Subtree(p, s)   == [t |-> "subtree", prefix |-> p, keys |-> s]
HaveFrame(p, s) == [t |-> "have", prefix |-> p, keys |-> s]
ValueFrame(k)   == [t |-> "value", key |-> k]
Request(k)      == [t |-> "request", key |-> k]
Done   == [t |-> "done"]
Landed == [t |-> "landed"]
Fin    == [t |-> "fin"]

----------------------------------------------------------------------------
(* Starting: an exchange pins the tree of the latest snapshot and sends what  *)
(* of it the agreement lacks.                                                 *)

Start(e, pin, g) ==
  LET mine == use.sends[e]
  IN  [phase |-> "drive", outcome |-> "none", pinned |-> pin, agreed |-> g,
       delta |-> IF mine THEN pin \ g ELSE {}, peer |-> {},
       rootSent |-> FALSE, queue |-> <<>>, announced |-> {}, doneSent |-> FALSE,
       commitments |-> [p \in {} |-> {}], wanted |-> <<>>, requests |-> {},
       fetching |-> {}, unlanded |-> 0, failed |-> 0, peerDone |-> FALSE,
       landedSent |-> FALSE, landedReceived |-> FALSE, excluded |-> {},
       offered |-> {}, acknowledged |-> {}, outstanding |-> {}, eager |-> <<>>,
       sent |-> {}, values |-> {}, landings |-> <<>>,
       toLand |-> <<>>, outbox |-> <<>>, pending |-> <<>>]

Receives(e) == use.receives[e]
Sends(e)    == use.sends[e]

Fail(s, why) == [s EXCEPT !.outcome = why]
Post(s, f)   == [s EXCEPT !.outbox = Append(@, f)]
Committed(s, p) == p \in DOMAIN s.commitments

(* held_value: what the latest snapshot serves, and under an offer what the   *)
(* agreement says both hold, even while the snapshot lags a landing.          *)
HeldValue(s, e, k) ==
  k \in snap[e].tree \/ (use.offer /\ k \in s.agreed)

(* have: one receipt for a prefix, unless it or an ancestor has one. *)
Have(s, p) ==
  IF ~use.offer \/ \E q \in s.sent : IsPrefix(q, p) THEN s
  ELSE Post([s EXCEPT !.sent = @ \union {p}], HaveFrame(p, s.commitments[p]))

HaveLeaf(s, k) == IF Committed(s, k) THEN Have(s, k) ELSE s

Event(t, k) == [t |-> t, key |-> k, id |-> round]

(* admit, Land: hand the events to the landing task; an offer remembers which *)
(* leaf each of them completes, in order.                                     *)
AdmitLand(s, events) ==
  [s EXCEPT !.toLand = @ \o events, !.unlanded = @ + Len(events),
            !.landings = IF use.offer THEN @ \o [i \in 1..Len(events) |-> events[i].key]
                                      ELSE @]

(* admit, Skip and Pending: accounted for, never agreed. *)
AdmitExcluded(s, k) == HaveLeaf([s EXCEPT !.excluded = @ \union {k}], k)

----------------------------------------------------------------------------
(* Frames.                                                                    *)

(* leaf: note a held one, queue the others. *)
Leaf(s, e, k) ==
  IF HeldValue(s, e, k) THEN HaveLeaf([s EXCEPT !.peer = @ \union {k}], k)
  ELSE [s EXCEPT !.wanted = Append(@, k)]

InCustody(s, p, d) == At(s.agreed, p) = d \/ At(s.pinned, p) = d

(* An exact subtree this side holds closes that part of the peer's delta. *)
Graft(s, p, d) ==
  IF At(s.delta, p) = d \/ InCustody(s, p, d)
  THEN [s EXCEPT !.peer = @ \union d] ELSE s

(* The peer's claim prunes our own walk where our delta has the same subtree. *)
Prune(s, p, d) ==
  IF d = {} \/ At(s.delta, p) # d THEN s
  ELSE [s EXCEPT !.announced = @ \union {p},
                 !.queue = SelectSeq(@, LAMBDA q : q = p \/ ~IsPrefix(p, q))]

OnSubtree(s, e, f) ==
  LET p == f.prefix
      d == f.keys
      c == Prune([s EXCEPT !.commitments =
                    [q \in DOMAIN @ \union {p} |-> IF q = p THEN d ELSE @[q]]], p, d)
  IN  IF s.peerDone \/ Committed(s, p) \/ (p # Root /\ ~Committed(s, Root))
      THEN Fail(s, "protocol")
      ELSE IF p # Root /\ d = {} THEN Fail(s, "bad node")
      ELSE IF ~Receives(e) \/ d = {} THEN c
      ELSE IF Len(p) = KeyBytes
      THEN IF d # {p} THEN Fail(s, "bad node") ELSE Leaf(c, e, p)
      ELSE Graft(IF use.offer /\ InCustody(s, p, d) THEN Have(c, p) ELSE c, p, d)

(* A value the gate lands, or that it skips or holds back. *)
AdmitValue(s, e, k) ==
  IF use.gate[e][k] = "land" THEN AdmitLand(s, <<Event("value", k)>>)
  ELSE AdmitExcluded(s, k)

OnValue(s, e, k) ==
  LET offered == use.offer /\ Receives(e)
      asked   == [s EXCEPT !.requests = @ \ {k}]
      taken   == IF offered THEN [asked EXCEPT !.values = @ \union {k},
                                    !.wanted = SelectSeq(@, LAMBDA w : w # k)]
                 ELSE asked
      counted == [taken EXCEPT !.peer = @ \union {k}]
  IN  IF (offered /\ ~Committed(s, k)) \/ (~offered /\ k \notin s.requests)
      THEN Fail(s, "protocol")
      ELSE IF offered /\ k \in s.values THEN asked
      ELSE IF offered /\ HeldValue(s, e, k) THEN HaveLeaf(counted, k)
      ELSE AdmitValue(counted, e, k)

OnRequest(s, e, k) ==
  IF ~Sends(e) \/ use.offer \/ k \notin s.delta THEN Fail(s, "protocol")
  ELSE Post(s, ValueFrame(k))

(* Mutant of OnHave: only the receipt of an outstanding leaf is in order. *)
OnHaveOutstanding(s, e, f) ==
  LET p == f.prefix
      Beneath(q) == IsPrefix(p, q)
  IN  IF ~Sends(e) \/ f.keys # At(s.delta, p) \/ ~\E k \in s.outstanding : Beneath(k)
      THEN Fail(s, "protocol")
      ELSE [s EXCEPT !.acknowledged = @ \union {p},
                     !.outstanding = {k \in @ : ~Beneath(k)},
                     !.eager = SelectSeq(@, LAMBDA k : ~Beneath(k)),
                     !.queue = SelectSeq(@, LAMBDA q : ~Beneath(q))]

(* Offers::have: the receipt releases every offer beneath its prefix. *)
OnHave(s, e, f) ==
  LET p == f.prefix
      Beneath(q) == IsPrefix(p, q)
      released == IF p \in s.acknowledged THEN s
                  ELSE [s EXCEPT !.acknowledged = @ \union {p},
                                 !.outstanding = {k \in @ : ~Beneath(k)},
                                 !.eager = SelectSeq(@, LAMBDA k : ~Beneath(k))]
  IN  IF ~Sends(e) \/ ~use.offer \/ p \notin s.offered \/ f.keys # At(s.delta, p)
      THEN Fail(s, "protocol")
      ELSE [released EXCEPT !.queue = SelectSeq(@, LAMBDA q : ~Beneath(q))]

OnDone(s) ==
  IF ~Committed(s, Root) \/ s.peerDone THEN Fail(s, "protocol")
  ELSE [s EXCEPT !.peerDone = TRUE]

OnLanded(s) ==
  IF ~s.doneSent \/ s.landedReceived THEN Fail(s, "protocol")
  ELSE [s EXCEPT !.landedReceived = TRUE]

(* A FIN before the exchange is confirmed ends it like a reset. *)
OnFrame(s, e, f) ==
  CASE f.t = "subtree" -> OnSubtree(s, e, f)
    [] f.t = "value"   -> OnValue(s, e, f.key)
    [] f.t = "request" -> OnRequest(s, e, f.key)
    [] f.t = "have"    -> OnHave(s, e, f)
    [] f.t = "done"    -> OnDone(s)
    [] f.t = "landed"  -> OnLanded(s)
    [] f.t = "fin"     -> Fail(s, "stream")

----------------------------------------------------------------------------
(* Settling: schedule what is missing, answer LANDED once every debt is paid, *)
(* confirm once both LANDEDs crossed.                                         *)

(* The wanted leaves that are scheduled now: in order, while requests and     *)
(* fetches leave room.  A resident blob takes none.                           *)
Scheduled(s, e) ==
  LET room == MaxRequests - Cardinality(s.requests) - Cardinality(s.fetching)
      Resident(i) == use.kind = "references" /\ s.wanted[i] \in snap[e].blobs
      Before(i) == Cardinality({j \in 1..(i - 1) : ~Resident(j)})
  IN  Cardinality({i \in 1..Len(s.wanted) : Before(i) < room})

Schedule(s, e) ==
  LET n     == Scheduled(s, e)
      now   == SubSeq(s.wanted, 1, n)
      left  == [s EXCEPT !.wanted = SubSeq(@, n + 1, Len(@))]
      here  == SelectSeq(now, LAMBDA k : k \in snap[e].blobs)
      far   == ToSet(now) \ ToSet(here)
  IN  IF use.kind = "references"
      THEN AdmitLand([left EXCEPT !.peer = @ \union ToSet(now),
                                  !.fetching = @ \union far],
                     [i \in 1..Len(here) |-> Event("held", here[i])])
      ELSE [left EXCEPT !.requests = @ \union ToSet(now),
              !.outbox = IF use.offer THEN @
                         ELSE @ \o [i \in 1..n |-> Request(now[i])]]

(* verify_delta: the peer's delta as we assembled it is the one it declared,  *)
(* at every prefix it named.                                                  *)
DeltaVerified(s) ==
  \A p \in DOMAIN s.commitments :
    /\ At(s.peer, p) = s.commitments[p]
    /\ p # Root => Canonical(At(s.peer, p)) = p

(* Mutant of Settled: it does not wait for the landing task. *)
SettledUnlanded(s) == s.wanted = <<>> /\ s.requests = {} /\ s.fetching = {}

Settled(s) == s.wanted = <<>> /\ s.requests = {} /\ s.fetching = {} /\ s.unlanded = 0

Answer(s, e) ==
  IF s.landedSent \/ ~s.peerDone \/ ~Settled(s) THEN s
  ELSE IF s.failed > 0 THEN Fail(s, "insert")
  ELSE IF Receives(e) /\ ~DeltaVerified(s) THEN Fail(s, "bad node")
  ELSE Post([s EXCEPT !.landedSent = TRUE], Landed)

Confirm(s) ==
  IF s.outcome = "none" /\ s.landedSent /\ s.landedReceived /\ s.outstanding = {}
  THEN [s EXCEPT !.outcome = "confirmed"] ELSE s

Settle(s, e) ==
  IF s.outcome # "none" THEN s ELSE Confirm(Answer(Schedule(s, e), e))

----------------------------------------------------------------------------
(* What the driver writes next: answers, then eager bodies, then the delta,   *)
(* one frame ahead of the writer.                                             *)

Full(s) == use.offer /\ Cardinality(s.outstanding) >= Window

(* Offers::offer *)
Offer(s, e, p) ==
  IF ~use.offer \/ At(s.delta, p) = {} THEN s
  ELSE LET o == [s EXCEPT !.offered = @ \union {p}]
       IN  IF Len(p) < KeyBytes THEN o
           ELSE [o EXCEPT !.outstanding = @ \union {p},
                          !.eager = IF Sends(e) THEN Append(@, p) ELSE @]

(* A subtree the peer announced too is announced once, and not descended. *)
Descend(s, p) ==
  LET d == At(s.delta, p)
  IN  IF d = {} THEN s
      ELSE IF p \in s.announced THEN [s EXCEPT !.announced = @ \ {p}]
      ELSE [s EXCEPT !.queue = @ \o IF p = Root /\ Canonical(d) # Root
                                    THEN <<Canonical(d)>> ELSE Children(d)]

Announce(s, e, p) ==
  [Offer(Descend(s, p), e, p) EXCEPT !.pending = <<Subtree(p, At(s.delta, p))>>]

NextDelta(s, e) ==
  IF s.doneSent \/ Full(s) THEN s
  ELSE IF ~s.rootSent THEN Announce([s EXCEPT !.rootSent = TRUE], e, Root)
  ELSE IF s.queue # <<>> THEN Announce([s EXCEPT !.queue = Tail(@)], e, Head(s.queue))
  ELSE [s EXCEPT !.doneSent = TRUE, !.pending = <<Done>>]

(* keep_pending: a receipt withdraws a body not yet handed to the writer. *)
Withdraw(s) ==
  IF /\ use.offer /\ s.pending # <<>> /\ Head(s.pending).t = "value"
     /\ Head(s.pending).key \notin s.outstanding
  THEN [s EXCEPT !.pending = <<>>] ELSE s

Refill(s, e) ==
  LET w == Withdraw(s)
  IN  IF w.pending # <<>> THEN w
      ELSE IF w.outbox # <<>>
      THEN [w EXCEPT !.pending = <<Head(w.outbox)>>, !.outbox = Tail(@)]
      ELSE IF w.eager # <<>>
      THEN [w EXCEPT !.pending = <<ValueFrame(Head(w.eager))>>, !.eager = Tail(@)]
      ELSE NextDelta(w, e)

----------------------------------------------------------------------------
(* The driver: one action per branch of its select, each followed by the      *)
(* frame it then holds ready, and by its end when the exchange has one.       *)

Advance(e, s) ==
  LET r == IF s.outcome = "none" THEN Refill(s, e) ELSE s
      phase == CASE r.outcome = "none"      -> "drive"
                 [] r.outcome = "confirmed" -> "drain"
                 [] OTHER                   -> "ended"
  IN  /\ x' = [x EXCEPT ![e] = [r EXCEPT !.phase = phase, !.toLand = <<>>]]
      /\ landing' = [landing EXCEPT ![e] = @ \o r.toLand]
      /\ agreed' = IF phase = "ended" THEN [agreed EXCEPT ![e] = {}] ELSE agreed
      /\ UNCHANGED <<use, store, snap, round>>

Driving(e) == x[e].phase = "drive"
Draining(e) == x[e].phase = "drain"
Ended(e) == x[e].phase = "ended"
Unwritten(e) == x[e].pending \o x[e].outbox

(* The writer takes the frame; one written to a peer that is gone is lost. *)
Write(e, f) ==
  IF Ended(Peer(e)) THEN wire' = wire
  ELSE /\ Len(wire[Peer(e)]) < Credit
       /\ wire' = [wire EXCEPT ![Peer(e)] = Append(@, f)]

Send(e) ==
  /\ Driving(e) /\ x[e].pending # <<>>
  /\ Write(e, Head(x[e].pending))
  /\ Advance(e, [x[e] EXCEPT !.pending = <<>>])
  /\ UNCHANGED <<acks, faults>>

(* want_read: frames wait while too much has not landed. *)
Read(e) ==
  /\ Driving(e) /\ x[e].unlanded < MaxUnlanded /\ wire[e] # <<>>
  /\ wire' = [wire EXCEPT ![e] = Tail(@)]
  /\ Advance(e, Settle(OnFrame(x[e], e, Head(wire[e])), e))
  /\ UNCHANGED <<acks, faults>>

(* Mutant of OnLandedAck: what landed is counted, and not receipted. *)
OnLandedAckSilent(s, landed, failed) ==
  IF use.offer /\ failed > 0 THEN Fail(s, "insert")
  ELSE [s EXCEPT !.unlanded = @ - (landed + failed), !.failed = @ + failed]

(* on_landed_ack: a receipt for each leaf that landed; a failure under an     *)
(* offer, whose leaf the counts do not tell, fails the exchange.              *)
OnLandedAck(s, landed, failed) ==
  LET n == landed + failed
      receipt == FoldLeft(HaveLeaf, s, SubSeq(s.landings, 1, n))
  IN  IF use.offer /\ failed > 0 THEN Fail(s, "insert")
      ELSE [IF use.offer THEN [receipt EXCEPT !.landings = SubSeq(@, n + 1, Len(@))]
                         ELSE s EXCEPT !.unlanded = @ - n, !.failed = @ + failed]

Acked(e) ==
  /\ Driving(e) /\ acks[e] # <<>>
  /\ acks' = [acks EXCEPT ![e] = Tail(@)]
  /\ LET a == Head(acks[e])
     IN  Advance(e, Settle(OnLandedAck(x[e], a.landed, a.failed), e))
  /\ UNCHANGED <<wire, faults>>

(* on_fetched: fetch_blob asked the peer for a blob by its hash. *)
OnFetched(s, k, found) ==
  LET back == [s EXCEPT !.fetching = @ \ {k}]
  IN  IF found THEN AdmitLand(back, <<Event("blob", k), Event("held", k)>>)
      ELSE [back EXCEPT !.failed = @ + 1]

Fetched(e) ==
  /\ Driving(e)
  /\ \E k \in x[e].fetching, found \in BOOLEAN :
       /\ IF found THEN k \in store[Peer(e)].blobs ELSE use.fails
       /\ Advance(e, Settle(OnFetched(x[e], k, found), e))
  /\ UNCHANGED <<wire, acks, faults>>

(* Confirmed: what is still unwritten goes out, then the stream finishes. *)
Drain(e) ==
  /\ Draining(e) /\ Unwritten(e) # <<>>
  /\ Write(e, Head(Unwritten(e)))
  /\ x' = [x EXCEPT ![e].pending = <<>>, ![e].outbox = Tail(Unwritten(e))]
  /\ UNCHANGED <<use, store, snap, agreed, landing, acks, round, faults>>

(* end and Walks::ended: the agreement becomes the old one plus both deltas,  *)
(* except for grants, which keep none.                                        *)
Agreement(s) == (s.agreed \union s.delta \union s.peer) \ s.excluded

Finish(e) ==
  /\ Draining(e) /\ Unwritten(e) = <<>>
  /\ wire' = IF Ended(Peer(e)) THEN wire
             ELSE [wire EXCEPT ![Peer(e)] = Append(@, Fin)]
  /\ x' = [x EXCEPT ![e].phase = "ended"]
  /\ agreed' = [agreed EXCEPT ![e] = IF use.kind = "grants" THEN {}
                                     ELSE Agreement(x[e])]
  /\ UNCHANGED <<use, store, snap, landing, acks, round, faults>>

(* The stream fails under this side: the peer reset it, or has stopped        *)
(* reading while this side still writes.                                      *)
Broken(e) ==
  /\ Driving(e) \/ Draining(e)
  /\ Ended(Peer(e))
  /\ x[Peer(e)].outcome # "confirmed" \/ Unwritten(e) # <<>>
  /\ Advance(e, Fail(x[e], "stream"))
  /\ UNCHANGED <<wire, acks, faults>>

(* The exchange is cut short here: its deadline passes, its stream or         *)
(* connection fails, or a later stream replaces it.                           *)
Abort(e) ==
  /\ Driving(e) \/ Draining(e)
  /\ faults < use.faults
  /\ faults' = faults + 1
  /\ Advance(e, Fail(x[e], "cut"))
  /\ UNCHANGED <<wire, acks>>

----------------------------------------------------------------------------
(* The node around the exchange.                                              *)

(* A record, reference or grant of the node's own. *)
Author(e) ==
  /\ \E k \in use.own[e] \ store[e].tree :
       store' = [store EXCEPT ![e].tree = @ \union {k}, ![e].blobs = @ \union {k}]
  /\ UNCHANGED <<use, snap, agreed, x, wire, landing, acks, round, faults>>

Publish(e) ==
  /\ snap[e] # store[e]
  /\ snap' = [snap EXCEPT ![e] = store[e]]
  /\ UNCHANGED <<use, store, agreed, x, wire, landing, acks, round, faults>>

(* The landing task takes what has queued up. *)
Land(e) ==
  /\ landing[e] # <<>>
  /\ \E bad \in SUBSET (IF use.fails THEN MayFail(landing[e]) ELSE {}) :
       LET node == Inserted(store[e], landing[e], bad)
       IN  /\ store' = [store EXCEPT ![e] = node]
           /\ snap' = [snap EXCEPT ![e] = node]
           /\ acks' = IF Driving(e)
                      THEN [acks EXCEPT ![e] = @ \o Acknowledgement(landing[e], bad, round)]
                      ELSE acks
  /\ landing' = [landing EXCEPT ![e] = <<>>]
  /\ UNCHANGED <<use, agreed, x, wire, round, faults>>

(* A later exchange on the same connection, opened by a side whose last one   *)
(* ended.  A side whose last one has not ended has it replaced: that end      *)
(* settles nothing, and its agreement stays as it was.                        *)
Reopen ==
  /\ round < use.rounds
  /\ \E e \in Sides : Ended(e)
  /\ round' = round + 1
  /\ x' = [e \in Sides |-> Refill(Start(e, snap[e].tree, agreed[e]), e)]
  /\ wire' = [e \in Sides |-> <<>>]
  /\ acks' = [e \in Sides |-> <<>>]
  /\ UNCHANGED <<use, store, snap, agreed, landing, faults>>

Init ==
  /\ use \in Uses
  /\ store = use.store /\ snap = use.store
  /\ agreed = [e \in Sides |-> {}]
  /\ x = [e \in Sides |-> Refill(Start(e, snap[e].tree, {}), e)]
  /\ wire = [e \in Sides |-> <<>>]
  /\ landing = [e \in Sides |-> <<>>]
  /\ acks = [e \in Sides |-> <<>>]
  /\ round = 1 /\ faults = 0

(* What the tasks of a side do: the driver's branches and the landing task. *)
Task(e) ==
  \/ Send(e) \/ Read(e) \/ Acked(e) \/ Fetched(e) \/ Drain(e) \/ Finish(e)
  \/ Broken(e) \/ Land(e)

Next ==
  \/ \E e \in Sides : Task(e) \/ Abort(e) \/ Author(e) \/ Publish(e)
  \/ Reopen

(* Task(e) can take a step. *)
CanRun(e) ==
  LET room == Ended(Peer(e)) \/ Len(wire[Peer(e)]) < Credit
  IN  \/ Driving(e) /\ x[e].pending # <<>> /\ room
      \/ Driving(e) /\ x[e].unlanded < MaxUnlanded /\ wire[e] # <<>>
      \/ Driving(e) /\ acks[e] # <<>>
      \/ Driving(e) /\ \E k \in x[e].fetching : use.fails \/ k \in store[Peer(e)].blobs
      \/ Draining(e) /\ (Unwritten(e) = <<>> \/ room)
      \/ ~Ended(e) /\ Ended(Peer(e))
           /\ (x[Peer(e)].outcome # "confirmed" \/ Unwritten(e) # <<>>)
      \/ landing[e] # <<>>

(* The runtime keeps running the tasks while one of them has something to do: *)
(* weak fairness of the tasks' steps, its enabling condition written out.     *)
Fairness == []<>(\A e \in Sides : ~CanRun(e)) \/ []<><<TRUE>>_vars

Spec == Init /\ [][Next]_vars /\ Fairness

----------------------------------------------------------------------------
(* Properties.                                                                *)

TypeOK ==
  /\ use \in Uses /\ round \in 1..use.rounds /\ faults \in 0..use.faults
  /\ \A e \in Sides :
       /\ store[e] \in [tree : SUBSET TreeKeys, blobs : SUBSET TreeKeys]
       /\ snap[e].tree \subseteq store[e].tree /\ snap[e].blobs \subseteq store[e].blobs
       /\ agreed[e] \subseteq TreeKeys
       /\ x[e].phase \in {"drive", "drain", "ended"}
       /\ x[e].delta \subseteq x[e].pinned /\ Len(x[e].pending) <= 1
       /\ Cardinality(x[e].outstanding) <= Window
       /\ Cardinality(x[e].requests) + Cardinality(x[e].fetching) <= MaxRequests
       /\ Len(wire[e]) <= Credit + 1

(* Both nodes hold every key of an agreement, whichever side keeps it: an     *)
(* agreed key is never sent again on the connection (walk.rs, "the prior      *)
(* agreement plus both deltas, which both hold").                             *)
AgreedIsJointlyHeld ==
  \A e \in Sides : agreed[e] \subseteq store["a"].tree \intersect store["b"].tree

(* The peer's LANDED is a receipt: what this side advertised is in the peer's *)
(* store, or the peer's gate decided not to keep it.                          *)
LandedIsAReceipt ==
  \A e \in Sides :
    x[e].landedReceived /\ Receives(Peer(e))
      => x[e].delta \subseteq store[Peer(e)].tree \union x[Peer(e)].excluded

(* Two nodes that follow the protocol never find each other in violation of   *)
(* it, whatever their snapshots, agreements and pins, and however receipts,   *)
(* bodies and announcements cross.                                            *)
NeverMisjudged ==
  \A e \in Sides : x[e].outcome \notin {"protocol", "bad node"}

(* Without a fault both sides confirm: no receipt, request or pruned subtree  *)
(* is lost on the way to a LANDED, and neither side stops reading while the   *)
(* other still has something to write.                                        *)
HealthyConfirms ==
  \A e \in Sides : Ended(e) /\ faults = 0 /\ ~use.fails => x[e].outcome = "confirmed"

=============================================================================
