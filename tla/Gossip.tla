------------------------------- MODULE Gossip -------------------------------
(* The grant exchange of two nodes, on top of the task that runs their walks. *)
(* On every connection a node lists the root of its grants over each resource *)
(* its peer takes part in; where a listed root differs from its own it asks   *)
(* for a walk, once per listed root, and again after a backoff when the walk  *)
(* failed.  A grant whose descriptor is missing waits in memory while that is *)
(* fetched.                                                                   *)
(*                                                                            *)
(*   src/triblespace-net/src/grants.rs   Listing, Grants, Pending, Sink       *)
(*                                                                            *)
(* A root is modelled by the set it summarises.  A backoff that is set may    *)
(* fall due at any later time.                                                *)
EXTENDS Walks

CONSTANTS
  MaxPending     \* MAX_PENDING_PER_SENDER

VARIABLES
  seen,      \* the store each node's exchange observed last
  listing,   \* each node's listing for each connection it has one for
  recon,     \* connection events on their way to each node's exchange
  waiting,   \* the grants waiting for their descriptor, oldest first
  fetching,  \* the resources whose descriptor is being fetched
  lost,      \* the descriptors no source had, not yet heard
  landing    \* grants on their way to the store

gossipVars == <<seen, listing, recon, waiting, fetching, lost, landing>>
vars == <<walkVars, gossipVars>>

Unsaid == {"unsaid"}
NewListing == [sent    |-> [k \in use.keys |-> Unsaid],
               listed  |-> [k \in use.keys |-> Unsaid],
               opened  |-> [k \in use.keys |-> Unsaid],
               unknown |-> {}, heldBack |-> {},
               retry   |-> [k \in use.keys |-> "none"],
               local   |-> [k \in use.keys |-> Unsaid]]

(* What a handler works on: the node's exchange, and the effects it asks for. *)
Exchange(n) == [seen |-> seen[n], listing |-> listing[n], waiting |-> waiting[n],
                walks |-> <<>>, frames |-> <<>>, fetch |-> {}, land |-> {}]

----------------------------------------------------------------------------
(* Listing.                                                                   *)

(* Listing::schedule *)
Schedule(l, k, local) == [l EXCEPT !.retry[k] = "due", !.local[k] = local]

(* Listing::reopen *)
Reopens(l, k, local) ==
  /\ l.listed[k] # Unsaid /\ l.listed[k] # local
  /\ l.opened[k] # l.listed[k]

Reopen(g, c, k) ==
  IF Reopens(g.listing[c], k, g.seen.held[k])
  THEN [g EXCEPT !.listing[c].opened[k] = g.listing[c].listed[k], !.walks = Append(@, k)]
  ELSE g

(* Grants::list *)
List(g, n, c) ==
  LET says == {k \in use.keys : /\ TakesPart(n, g.seen.held[k], Peer(n))
                                /\ g.listing[c].sent[k] # g.seen.held[k]}
  IN  IF says = {} THEN g
      ELSE [g EXCEPT
             !.listing[c].sent = [k \in use.keys |-> IF k \in says THEN g.seen.held[k] ELSE @[k]],
             !.frames = Append(@, [t |-> "roots", conn |-> c,
                                   roots |-> [k \in says |-> g.seen.held[k]]])]

(* needed: the descriptor of a waiting grant over k. *)
Needed(g, k) ==
  IF ~g.seen.desc /\ \E i \in DOMAIN g.waiting : g.waiting[i].key = k
  THEN [g EXCEPT !.fetch = @ \union {k}] ELSE g

(* Grants::hear, one root: within the budget of unknown resources, the root   *)
(* stands, a change of it resets the backoff, and a difference asks a walk.   *)
HearRoot(g, n, c, k, theirs) ==
  LET l == g.listing[c]
      known == TakesPart(n, g.seen.held[k], n) \/ l.listed[k] # Unsaid
      charged == IF known THEN l ELSE [l EXCEPT !.unknown = @ \union {k}]
      fresh == IF l.listed[k] = theirs THEN charged ELSE [charged EXCEPT !.retry[k] = "none"]
  IN  IF ~known /\ Cardinality(l.unknown) >= MaxUnknown THEN g
      ELSE Needed(Reopen([g EXCEPT !.listing[c] = [fresh EXCEPT !.listed[k] = theirs]], c, k), k)

Hear(g, n, c, roots) ==
  IF c \notin DOMAIN g.listing THEN g
  ELSE FoldLeft(LAMBDA h, k : HearRoot(h, n, c, k, roots[k]), g, SetToSeq(DOMAIN roots))

(* Grants::event *)
OpenedEvent(g, n, c) ==
  IF links[n][c] = "closed" THEN g
  ELSE List([g EXCEPT !.listing = [d \in DOMAIN @ \union {c} |-> IF d = c THEN NewListing ELSE @[d]]], n, c)

ClosedEvent(g, n, c) ==
  LET left == [d \in DOMAIN g.listing \ {c} |-> g.listing[d]]
  IN  [g EXCEPT !.listing = left, !.waiting = IF DOMAIN left = {} THEN <<>> ELSE @]

----------------------------------------------------------------------------
(* Walks reported, and grants waiting.                                        *)

OnEvery(g, F(_)) == [g EXCEPT !.listing = [c \in DOMAIN @ |-> F(@[c])]]

Again(g, k) ==
  LET F(l) == Schedule([l EXCEPT !.opened[k] = Unsaid], k, g.seen.held[k]) IN OnEvery(g, F)

(* Mutant of EndedReport: a walk that found another running is not repeated. *)
EndedReportOnce(g, k, what) ==
  LET Forget(l) == [l EXCEPT !.heldBack = @ \ {k}]
      Done(l) == [Forget(l) EXCEPT
                    !.retry[k] = IF @ = "due" \/ k \in l.heldBack THEN @ ELSE "none"]
  IN  CASE what = "confirmed" -> OnEvery(g, Done)
        [] what \in {"unconfirmed", "refused"} -> Again(OnEvery(g, Forget), k)
        [] what \in {"unconnected", "declined"} -> Again(g, k)
        [] what \in {"already", "replaced", "queued"} -> g

(* Grants::ended *)
EndedReport(g, k, what) ==
  LET Forget(l) == [l EXCEPT !.heldBack = @ \ {k}]
      Done(l) == [Forget(l) EXCEPT
                    !.retry[k] = IF @ = "due" \/ k \in l.heldBack THEN @ ELSE "none"]
  IN  CASE what = "confirmed" -> OnEvery(g, Done)
        [] what \in {"unconfirmed", "refused"} -> Again(OnEvery(g, Forget), k)
        [] what \in {"unconnected", "declined", "already"} -> Again(g, k)
        [] what \in {"replaced", "queued"} -> g

(* Pending::insert, from the one peer: its oldest is given up. *)
Wait(g, w) ==
  IF w \in ToSet(g.waiting) THEN g
  ELSE IF Len(g.waiting) < MaxPending THEN [g EXCEPT !.waiting = Append(@, w)]
  ELSE Again([g EXCEPT !.waiting = Append(Tail(@), w)], Head(g.waiting).key)

(* Grants::walked, a grant that waits. *)
PendingReport(g, k, i) ==
  LET w == [key |-> k, item |-> i]
      Hold(l) == [l EXCEPT !.heldBack = @ \union {k}]
  IN  IF g.seen.desc THEN [g EXCEPT !.land = @ \union {w}]
      ELSE Needed(Wait(OnEvery(g, Hold), w), k)

(* Grants::fetch_failed *)
FetchFailed(g, k) ==
  LET gone == [g EXCEPT !.waiting = SelectSeq(@, LAMBDA w : w.key # k)]
  IN  IF gone.waiting = g.waiting THEN g ELSE Again(gone, k)

(* Grants::retry, one that is due. *)
RetryDue(g, c, k) ==
  LET l == g.listing[c]
  IN  Needed(IF Reopens(l, k, g.seen.held[k])
             THEN Reopen([g EXCEPT !.listing[c].retry[k] = "idle"], c, k)
             ELSE [g EXCEPT !.listing[c].retry[k] = "none"], k)

----------------------------------------------------------------------------
(* Observing the store.                                                       *)

Store(n) == [held |-> held[n], desc |-> desc[n]]

(* A backoff set for another root is over; the walk may open at once. *)
Changed(g, c, k) ==
  IF g.listing[c].retry[k] = "none" \/ g.listing[c].local[k] = g.seen.held[k] THEN g
  ELSE Reopen([g EXCEPT !.listing[c].retry[k] = "none"], c, k)

(* Taking part at last: what was skipped before is walked again. *)
JoinedPart(g, n, c, k) ==
  IF /\ g.listing[c].listed[k] # Unsaid
     /\ TakesPart(n, g.seen.held[k], n) /\ ~TakesPart(n, seen[n].held[k], n)
  THEN Reopen([g EXCEPT !.listing[c].opened[k] = Unsaid], c, k) ELSE g

OverAll(F(_, _, _), g) ==
  FoldLeft(LAMBDA h, ck : F(h, ck[1], ck[2]), g, SetToSeq((DOMAIN g.listing) \X use.keys))

(* Grants::observe *)
Observing(n) ==
  LET g == [Exchange(n) EXCEPT !.seen = Store(n)]
      settled == IF ~g.seen.desc THEN g
                 ELSE [g EXCEPT !.waiting = <<>>, !.land = ToSet(g.waiting)]
      J(h, c, k) == JoinedPart(h, n, c, k)
      walked == OverAll(J, OverAll(Changed, settled))
  IN  FoldLeft(LAMBDA h, c : List(h, n, c), walked, SetToSeq(DOMAIN g.listing))

----------------------------------------------------------------------------
(* The exchange's loop, and what it asks of the host.                         *)

(* Frames reach the peer's exchange unless the connection is gone. *)
Delivered(n, frames) ==
  SelectSeq(frames, LAMBDA f : Alive(f.conn) /\ links[Peer(n)][f.conn] = "open")

(* Sink::apply: a descriptor is fetched once at a time. *)
Apply(n, g) ==
  /\ seen' = [seen EXCEPT ![n] = g.seen]
  /\ listing' = [listing EXCEPT ![n] = g.listing]
  /\ waiting' = [waiting EXCEPT ![n] = g.waiting]
  /\ fetching' = [fetching EXCEPT ![n] = @ \union g.fetch]
  /\ landing' = [landing EXCEPT ![n] = @ \union g.land]
  /\ commands' = [commands EXCEPT ![n] =
                    @ \o [i \in DOMAIN g.walks |-> [t |-> "open", key |-> g.walks[i]]]]

Sent(n, g, rest) ==
  recon' = [recon EXCEPT ![n] = rest, ![Peer(n)] = @ \o Delivered(n, g.frames)]

walkIdle == <<use, held, desc, selected, links, dead, stream, task, receiving, faults>>

Observe(n) ==
  /\ Grants /\ seen[n] # Store(n)
  /\ LET g == Observing(n) IN Apply(n, g) /\ Sent(n, g, recon[n])
  /\ UNCHANGED <<walkIdle, reports, lost>>

ReconEvent(n) ==
  /\ recon[n] # <<>>
  /\ LET e == Head(recon[n])
         g == CASE e.t = "opened" -> OpenedEvent(Exchange(n), n, e.conn)
                [] e.t = "closed" -> ClosedEvent(Exchange(n), n, e.conn)
                [] e.t = "roots"  -> Hear(Exchange(n), n, e.conn, e.roots)
     IN  Apply(n, g) /\ Sent(n, g, Tail(recon[n]))
  /\ UNCHANGED <<walkIdle, reports, lost>>

Walked(n) ==
  /\ reports[n] # <<>>
  /\ LET r == Head(reports[n])
         g == IF r.what = "pending"
              THEN PendingReport(Exchange(n), r.key, CHOOSE i \in r.agreed : TRUE)
              ELSE EndedReport(Exchange(n), r.key, r.what)
     IN  Apply(n, g)
  /\ reports' = [reports EXCEPT ![n] = Tail(@)]
  /\ UNCHANGED <<walkIdle, recon, lost>>

(* Nothing is under way: no message, no stream, no change not observed. *)
Quiet ==
  /\ \A n \in Nodes : /\ commands[n] = <<>> /\ reports[n] = <<>> /\ recon[n] = <<>>
                      /\ Grants => seen[n] = Store(n)
                      /\ fetching[n] = {} /\ lost[n] = {} /\ landing[n] = {}
                      /\ selected[n] /\ \A c \in dead : links[n][c] # "open"
  /\ stream = [s \in Streams |-> Free]
  /\ Made \ dead # {} \/ Made = Conns

(* Timers.  The shortest interval is a second: where use.patient holds they   *)
(* outlast what is under way, elsewhere they cross it.  At most half of the   *)
(* streams are under way then.                                                *)
Due == IF use.patient THEN Quiet ELSE 2 * Cardinality(FreeStreams(State("a"))) >= MaxStreams

Retry(n) ==
  /\ Due
  /\ \E c \in DOMAIN listing[n], k \in use.keys :
       /\ listing[n][c].retry[k] = "due"
       /\ Apply(n, RetryDue(Exchange(n), c, k))
  /\ UNCHANGED <<walkIdle, reports, recon, lost>>

HearLost(n) ==
  /\ \E k \in lost[n] :
       /\ Apply(n, FetchFailed(Exchange(n), k))
       /\ lost' = [lost EXCEPT ![n] = @ \ {k}]
  /\ UNCHANGED <<walkIdle, reports, recon>>

(* fetch_blobs, asking the peer. *)
Fetched(n, k) ==
  /\ k \in fetching[n]
  /\ fetching' = [fetching EXCEPT ![n] = @ \ {k}]
  /\ \/ /\ Current(n) # 0 /\ Alive(Current(n)) /\ desc[Peer(n)]
        /\ desc' = [desc EXCEPT ![n] = TRUE]
        /\ UNCHANGED <<lost, faults>>
     \/ /\ Current(n) # 0 /\ Alive(Current(n)) /\ desc[Peer(n)] => faults < use.faults
        /\ faults' = IF Current(n) # 0 /\ Alive(Current(n)) /\ desc[Peer(n)] THEN faults + 1 ELSE faults
        /\ lost' = [lost EXCEPT ![n] = @ \union {k}]
        /\ UNCHANGED desc
  /\ UNCHANGED <<use, held, selected, links, dead, stream, task, commands, reports, receiving,
                 seen, listing, recon, waiting, landing>>

Land(n) ==
  /\ landing[n] # {}
  /\ \E w \in landing[n] :
       /\ landing' = [landing EXCEPT ![n] = @ \ {w}]
       /\ held' = [held EXCEPT ![n][w.key] = @ \union {w.item}]
  /\ UNCHANGED <<use, desc, selected, links, dead, stream, task, commands, reports, receiving, faults,
                 seen, listing, recon, waiting, fetching, lost>>

----------------------------------------------------------------------------
(* The stores and the connections around it.                                  *)

Author(a) ==
  /\ a.item \notin held[a.node][a.key]
  /\ held' = [held EXCEPT ![a.node][a.key] = @ \union {a.item}]
  /\ UNCHANGED <<use, desc, selected, links, dead, stream, task, commands, reports, receiving, faults, gossipVars>>

(* A connection is made where one side has none, at both. *)
Connect(c) ==
  /\ c \notin Made /\ \A d \in 1..(c - 1) : d \in dead
  /\ \E n \in Nodes : Current(n) = 0
  /\ links' = [n \in Nodes |-> [links[n] EXCEPT ![c] = "open"]]
  /\ recon' = [n \in Nodes |-> IF Grants THEN Append(recon[n], [t |-> "opened", conn |-> c]) ELSE <<>>]
  /\ UNCHANGED <<use, held, desc, selected, dead, stream, task, commands, reports, receiving, faults,
                 seen, listing, waiting, fetching, lost, landing>>

(* A side notices that the connection is gone: the task and the exchange hear *)
(* of it, each in its own time.                                               *)
Notice(n, c) ==
  /\ links[n][c] = "open" /\ c \in dead
  /\ links' = [links EXCEPT ![n][c] = "closed"]
  /\ Post(n, [t |-> "closed", conn |-> c])
  /\ recon' = [recon EXCEPT ![n] = IF Grants THEN Append(@, [t |-> "closed", conn |-> c]) ELSE @]
  /\ UNCHANGED <<use, held, desc, selected, dead, stream, task, reports, receiving, faults,
                 seen, listing, waiting, fetching, lost, landing>>

(* The node is replaced by one with an older copy of its store. *)
Restart(n) ==
  /\ use.restarts /\ faults < use.faults /\ \E c \in Conns : c \notin Made
  /\ faults' = faults + 1
  /\ held' = [held EXCEPT ![n] = use.held[n]]
  /\ dead' = Made
  /\ links' = [links EXCEPT ![n] = [c \in Conns |-> IF c \in Made THEN "closed" ELSE "none"]]
  /\ task' = [task EXCEPT ![n] = [running |-> [k \in use.keys |-> 0],
                                 agreed |-> [k \in use.keys |-> None],
                                 queue |-> <<>>, unknown |-> {}]]
  /\ commands' = [commands EXCEPT ![n] = <<>>]
  /\ receiving' = [receiving EXCEPT ![n] = 0]
  /\ stream' = [s \in Streams |->
                  LET st == IF stream[s] = Free THEN Free ELSE [stream[s] EXCEPT !.drv[n] = "none", !.code = "failed"]
                  IN  IF st # Free /\ st.drv[Peer(n)] \in {"none", "coming"} THEN Free ELSE st]
  /\ UNCHANGED <<use, desc, selected, reports, gossipVars>>

GossipInit ==
  /\ Init
  /\ seen = [n \in Nodes |-> Store(n)]
  /\ listing = [n \in Nodes |-> <<>>]
  /\ recon = [n \in Nodes |-> <<>>]
  /\ waiting = [n \in Nodes |-> <<>>]
  /\ fetching = [n \in Nodes |-> {}]
  /\ lost = [n \in Nodes |-> {}]
  /\ landing = [n \in Nodes |-> {}]

Task(n) == reports[n] = <<>> /\ Command(n) /\ UNCHANGED gossipVars
Timer(n) == Due /\ (\E k \in use.keys : Ask(n, k)) /\ UNCHANGED gossipVars
Drive(s) == Drives(s) /\ UNCHANGED gossipVars
Loop(n) == Observe(n) \/ ReconEvent(n) \/ Walked(n) \/ HearLost(n)
Host(n) == Land(n) \/ \E k \in use.keys : Fetched(n, k)
Network == \E c \in Conns : Connect(c) \/ \E n \in Nodes : Notice(n, c)

Faults ==
  \/ (\E c \in Conns : Lose(c)) /\ UNCHANGED gossipVars
  \/ \E n \in Nodes : (Select(n) \/ \E s \in Streams : Fail(n, s)) /\ UNCHANGED gossipVars
  \/ \E n \in Nodes : Restart(n)

Next ==
  \/ Faults \/ Network
  \/ \E n \in Nodes : Task(n) \/ Timer(n) \/ Loop(n) \/ Retry(n) \/ Host(n)
  \/ \E s \in Streams : Drive(s)
  \/ \E a \in use.authors : Author(a)

CanRun ==
  \/ ~Quiet \/ ~Grants
  \/ \E n \in Nodes : \E c \in DOMAIN listing[n], k \in use.keys : listing[n][c].retry[k] = "due"

(* Every task runs when it can, every timer falls due, every stream makes     *)
(* progress or breaks, and a lost connection is noticed and made again: the   *)
(* system does not stop while any of them can run.                            *)
Fairness == []<>~CanRun \/ []<><<TRUE>>_vars

Spec == GossipInit /\ [][Next]_vars /\ Fairness

----------------------------------------------------------------------------
(* Properties.                                                                *)

TypeOK ==
  /\ use \in Uses
  /\ \A n \in Nodes :
       /\ \A k \in use.keys : /\ held[n][k] \subseteq Items
                              /\ task[n].running[k] \in Streams \union {0}
                              /\ task[n].agreed[k].tree \subseteq Items
       /\ Len(task[n].queue) <= MaxQueued /\ Len(waiting[n]) <= MaxPending
       /\ DOMAIN listing[n] \subseteq Conns
       /\ receiving[n] \in Nat

Driven(n, s) == stream[s].drv[n] \in {"driving", "ended"}

(* One exchange per peer, collection and kind (walk.rs, Task::running): an    *)
(* uncancelled driver is the registered one, and what is registered runs or   *)
(* has reported its end.                                                      *)
RunningIsDriven ==
  \A n \in Nodes :
    /\ \A s \in Streams : stream[s].drv[n] = "driving" => task[n].running[stream[s].key] = s
    /\ \A k \in use.keys : LET s == task[n].running[k]
                           IN  s # 0 => stream[s].key = k /\ stream[s].drv[n] \in {"driving", "ended"}

(* Walks::start: what an exchange takes as agreed, the peer on that           *)
(* connection holds, whatever was lost since.                                 *)
BasesAreHeld ==
  \A s \in Streams : stream[s] # Free /\ Alive(stream[s].conn) =>
    \A n \in Nodes : stream[s].sends[n] => stream[s].base[n] \subseteq held[Peer(n)][stream[s].key]

(* walk.rs, Event: every receive reported to the scheduler is reported over   *)
(* once, replaced and cancelled ones included, so its count comes back to 0.  *)
ReceivesBalance ==
  \A n \in Nodes : receiving[n] =
    IF Grants THEN 0 ELSE Cardinality({s \in Streams : stream[s].receives[n] /\ Driven(n, s)})

(* start_queued: a queued grant walk has an end to wait for. *)
QueueIsServed ==
  \A n \in Nodes : task[n].queue # <<>> => \E s \in Streams : Driven(n, s)

(* The walks task and what it told others agree: its registrations with the   *)
(* drivers, its reports with the scheduler's count, its queue with the ends   *)
(* that serve it, within the bounds on each (walk.rs, Task).                  *)
TasksAreSound == TypeOK /\ RunningIsDriven /\ ReceivesBalance /\ QueueIsServed

(* A node holds what its peer holds and would send it, and it would keep. *)
Shared ==
  \A n \in Nodes, k \in use.keys :
    Sends(n, k) => \A i \in held[n][k] : Keeps(Peer(n), k, i) => i \in held[Peer(n)][k]

(* Once nothing fails any more, both nodes come to hold what they share. *)
Converges == use.patient => <>[]Shared
=============================================================================
