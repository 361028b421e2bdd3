------------------------------- MODULE Walks -------------------------------
(* The task that runs a node's walks: it opens exchanges, joins those its     *)
(* peer opens, lets one exchange run per key, and keeps what an exchange      *)
(* agreed on for the next one on the same connection.                         *)
(*                                                                            *)
(*   src/triblespace-net/src/walk.rs   Walks, Task, GrantQueue                *)
(*                                                                            *)
(* Two nodes.  What an exchange carries is the subject of Exchange; here one  *)
(* lands the sender's delta at once, or is cut short.  A driver is known by   *)
(* its stream: each node has at most one for it.                              *)
EXTENDS Naturals, Sequences, FiniteSets, FiniteSetsExt, SequencesExt

CONSTANTS
  Items,          \* records or grants
  MaxConns,       \* connections made in all
  MaxStreams,     \* streams not done with, at any time
  MaxGrantWalks,  \* MAX_GRANT_WALKS_PER_PEER
  MaxJoined,      \* MAX_JOINED_GRANT_WALKS_PER_PEER
  MaxQueued,      \* MAX_QUEUED_GRANT_WALKS_PER_PEER
  MaxUnknown,     \* MAX_UNKNOWN_RESOURCES_PER_LINK
  Uses            \* the situations explored: see the MC module

VARIABLES
  use,       \* the situation, chosen once
  held,      \* the items each node stores under each key
  selected,  \* whether each node selects the collection
  desc,      \* whether each node stores the resource descriptor
  links,     \* how each node sees each connection
  dead,      \* the connections that failed
  stream,    \* the streams and their drivers
  task,      \* each node's task: running, agreed, queue
  commands,  \* commands on their way to each node's task
  reports,   \* what each task told the grant exchange and it has not heard
  receiving, \* receives reported to the scheduler less ends reported
  faults     \* what went wrong so far

walkVars == <<use, held, desc, selected, links, dead, stream, task, commands, reports, receiving, faults>>

Nodes == {"a", "b"}
Peer(n) == IF n = "a" THEN "b" ELSE "a"
Smaller(n) == n = "a"
Conns == 1..MaxConns
Streams == 1..MaxStreams
Grants == use.kind = "grants"

None == [conn |-> 0, tree |-> {}]
Free == [key |-> "", opener |-> "", conn |-> 0, code |-> "none",
         drv |-> [n \in Nodes |-> "none"], landed |-> {},
         pin |-> [n \in Nodes |-> {}], base |-> [n \in Nodes |-> {}],
         excluded |-> [n \in Nodes |-> {}],
         sends |-> [n \in Nodes |-> FALSE], receives |-> [n \in Nodes |-> FALSE]]

(* ConnectionTable::current: the newest connection not closed. *)
Current(n) == Max({0} \union {c \in Conns : links[n][c] = "open"})

----------------------------------------------------------------------------
(* Who takes part.                                                            *)

(* GrantIndex::participates, in the entry n's store h has for k: there is one *)
(* when n holds a grant over k, or k is an active collection there.           *)
TakesPart(n, h, m) ==
  /\ h # {} \/ n \in use.active
  /\ m \in use.roots \/ \E i \in h : m \in use.names[i]

Participates(n, k, m) == TakesPart(n, held[n][k], m)

Sends(n, k) == IF Grants THEN Participates(n, k, Peer(n)) ELSE use.sends[n]
Receives(n) == Grants \/ ~use.sends[n]

(* Gate::admit, but for the descriptor: what n keeps of what it is sent. *)
Keeps(n, k, i) == ~Grants \/ n \in use.names[i] \/ Participates(n, k, n)

----------------------------------------------------------------------------
(* Starting.  The handlers below take and return w, the node's task with the  *)
(* streams and what the handler reports.                                      *)

GrantWalks(w) == Cardinality({k \in use.keys : w.task.running[k] # 0})

(* Mutant of Base: the agreement of any connection will do. *)
BaseOfAny(t, c, k) == IF Grants THEN {} ELSE t.agreed[k].tree

(* The agreement, if the connection is the one that confirmed it. *)
Base(t, c, k) ==
  IF Grants \/ t.agreed[k].conn # c THEN {} ELSE t.agreed[k].tree

Told(w, k, what) ==
  IF Grants THEN [w EXCEPT !.reports = Append(@, [key |-> k, what |-> what, agreed |-> {}])] ELSE w

Received(w, n, s) ==
  IF ~Grants /\ stream[s].receives[n] THEN [w EXCEPT !.receiving = @ - 1] ELSE w

Ended(s, confirmed, code) ==
  [t |-> "ended", stream |-> s, confirmed |-> confirmed, duplicate |-> ~confirmed /\ code = "duplicate"]

(* Dropping a running entry: its driver resets the stream and ends.  Its end  *)
(* settles nothing whenever it comes, so it comes at once.                    *)
Replace(w, n, s) ==
  IF w.stream[s].drv[n] # "driving" THEN w
  ELSE [w EXCEPT !.stream[s].drv[n] = "ended",
                 !.stream[s].code = IF @ = "none" THEN "failed" ELSE @,
                 !.posted = Append(@, Ended(s, FALSE, w.stream[s].code))]

(* register: it replaces the driver running there. *)
Register(w, n, k, s) ==
  LET old == w.task.running[k]
      v == IF old = 0 THEN w ELSE Replace(w, n, old)
  IN  [v EXCEPT !.task.running[k] = s,
                !.stream[s].drv[n] = "driving",
                !.receiving = IF ~Grants /\ v.stream[s].receives[n] THEN @ + 1 ELSE @]

FreeStreams(w) == {s \in Streams : w.stream[s] = Free}

(* open, after its checks: OPEN is on its way to the peer. *)
OpenStream(w, n, k) ==
  LET s == Min(FreeStreams(w))
      c == Current(n)
      new == [Free EXCEPT !.key = k, !.opener = n, !.conn = c,
                          !.drv[Peer(n)] = "coming",
                          !.pin[n] = held[n][k], !.base[n] = Base(w.task, c, k),
                          !.sends[n] = Sends(n, k), !.receives[n] = Receives(n)]
  IN  Register([w EXCEPT !.stream[s] = new], n, k, s)

(* GrantQueue::push *)
Queue(w, k) ==
  IF k \in ToSet(w.task.queue) THEN Told(w, k, "queued")
  ELSE IF Len(w.task.queue) >= MaxQueued THEN Told(w, k, "declined")
  ELSE Told([w EXCEPT !.task.queue = Append(@, k)], k, "queued")

Open(w, n, k) ==
  IF w.task.running[k] # 0 THEN Told(w, k, "already")
  ELSE IF Current(n) = 0 THEN Told(w, k, "unconnected")
  ELSE IF Grants /\ GrantWalks(w) >= MaxGrantWalks THEN Queue(w, k)
  ELSE IF ~Grants /\ ~selected[n] THEN w
  ELSE OpenStream(w, n, k)

(* start_queued *)
StartQueued(w, n) ==
  FoldLeft(LAMBDA v, i : IF v.task.queue = <<>> \/ GrantWalks(v) >= MaxGrantWalks THEN v
                         ELSE Open([v EXCEPT !.task.queue = Tail(@)], n, Head(v.task.queue)),
           w, [i \in 1..Len(w.task.queue) |-> i])

----------------------------------------------------------------------------
(* Joining.                                                                   *)

Reset(w, n, s, code) == [w EXCEPT !.stream[s].drv[n] = "none", !.stream[s].code = code]

Joined(w, n, k) ==
  Cardinality({j \in use.keys \ {k} :
    LET s == w.task.running[j] IN s # 0 /\ w.stream[s].opener # n})

(* joins: room for the walk, and for a resource n takes no part in. *)
Charges(w, n, k) == ~Participates(n, k, n) /\ k \notin w.task.unknown

HasRoom(w, n, k) ==
  /\ Joined(w, n, k) < MaxJoined
  /\ Charges(w, n, k) => Cardinality(w.task.unknown) < MaxUnknown

(* start_incoming: an opener that only receives is joined by a sender. *)
Joins(n, s) ==
  IF Grants THEN stream[s].sends[Peer(n)] \/ Sends(n, stream[s].key) ELSE selected[n]

Incoming(w, n, s) ==
  LET k == w.stream[s].key
      c == w.stream[s].conn
      old == w.task.running[k]
      crossed == old # 0 /\ w.stream[old].opener = n
      charged == IF Grants /\ Charges(w, n, k)
                 THEN [w EXCEPT !.task.unknown = @ \union {k}] ELSE w
      joined == [charged EXCEPT !.stream[s].pin[n] = held[n][k],
                          !.stream[s].base[n] = Base(w.task, c, k),
                          !.stream[s].sends[n] = Sends(n, k),
                          !.stream[s].receives[n] =
                             IF Grants THEN w.stream[s].sends[Peer(n)] ELSE Receives(n)]
  IN  IF links[n][c] = "closed" THEN Reset(w, n, s, "failed")
      ELSE IF crossed /\ Smaller(n) THEN Reset(w, n, s, "duplicate")
      ELSE IF Grants /\ ~HasRoom(w, n, k) THEN Reset(w, n, s, "refused")
      ELSE IF ~Joins(n, s) THEN Reset(charged, n, s, "refused")
      ELSE Register(joined, n, k, s)

----------------------------------------------------------------------------
(* Ending.                                                                    *)

Delta(s, n) == IF stream[s].sends[n] THEN stream[s].pin[n] \ stream[s].base[n] ELSE {}

(* The prior agreement plus both deltas. *)
Agreement(s, n) ==
  (stream[s].base[n] \union Delta(s, n) \union
   (IF stream[s].receives[n] THEN Delta(s, Peer(n)) ELSE {})) \ stream[s].excluded[n]

(* Walks::ended *)
Settle(w, n, s, confirmed) ==
  LET k == stream[s].key
      agreed == Agreement(s, n)
      kept == [w EXCEPT !.task.agreed[k] =
                 IF confirmed /\ ~Grants THEN [conn |-> stream[s].conn, tree |-> agreed] ELSE None]
      moved == confirmed /\ stream[s].sends[n] /\ ~(held[n][k] \subseteq agreed)
  IN  IF moved THEN Open(kept, n, k) ELSE kept

(* How a grant walk's end is reported. *)
Outcome(s, n, current, confirmed, duplicate) ==
  IF ~current \/ duplicate THEN "replaced"
  ELSE IF confirmed THEN "confirmed"
  ELSE IF stream[s].code = "refused" THEN "refused" ELSE "unconfirmed"

(* Mutant of EndedCommand: any end clears the key. *)
EndedAlways(w, n, c) ==
  LET s == c.stream
      k == stream[s].key
      over == [w EXCEPT !.stream[s].drv[n] = "none", !.task.running[k] = 0]
  IN  IF c.duplicate THEN Received(over, n, s)
      ELSE Settle(Received(over, n, s), n, s, c.confirmed)

EndedCommand(w, n, c) ==
  LET s == c.stream
      k == stream[s].key
      current == w.task.running[k] = s
      over == [w EXCEPT !.stream[s].drv[n] = "none",
                        !.task.running[k] = IF current THEN 0 ELSE @]
      told == IF ~Grants THEN over
              ELSE StartQueued([over EXCEPT !.reports = Append(@,
                     [key |-> k, what |-> Outcome(s, n, current, c.confirmed, c.duplicate),
                      agreed |-> Agreement(s, n)])], n)
      heard == Received(told, n, s)
  IN  IF ~current \/ c.duplicate THEN heard ELSE Settle(heard, n, s, c.confirmed)

(* running.retain: the drivers of the streams S are dropped. *)
Dropping(w, n, S) ==
  LET gone == {k \in use.keys : w.task.running[k] \in S}
      v == FoldLeft(LAMBDA u, k : Replace(u, n, w.task.running[k]), w, SetToSeq(gone))
  IN  [v EXCEPT !.task.running = [k \in use.keys |-> IF k \in gone THEN 0 ELSE @[k]]]

(* Command::Closed *)
ClosedCommand(w, n, c) ==
  LET dropped == Dropping(w, n, {s \in Streams : w.stream[s].conn = c})
      forgot  == [dropped EXCEPT !.task.agreed =
                    [k \in use.keys |-> IF @[k].conn = c THEN None ELSE @[k]]]
  IN  IF Current(n) # 0 THEN forgot ELSE [forgot EXCEPT !.task.queue = <<>>, !.task.unknown = {}]

----------------------------------------------------------------------------
(* The task.                                                                  *)

(* A stream neither side drives any more is done with. *)
Over(st) ==
  /\ st.drv[st.opener] = "none"
  /\ \/ st.drv[Peer(st.opener)] = "none"
     \/ st.drv[Peer(st.opener)] = "coming" /\ (st.code # "none" \/ st.conn \in dead)

Tidy(st) == [s \in Streams |-> IF st[s] # Free /\ Over(st[s]) THEN Free ELSE st[s]]

Handled(n, w) ==
  /\ task' = [task EXCEPT ![n] = w.task]
  /\ stream' = Tidy(w.stream)
  /\ reports' = [reports EXCEPT ![n] = @ \o w.reports]
  /\ receiving' = [receiving EXCEPT ![n] = w.receiving]

State(n) == [task |-> task[n], stream |-> stream, reports |-> <<>>, posted |-> <<>>,
             receiving |-> receiving[n]]

Command(n) ==
  /\ commands[n] # <<>>
  /\ FreeStreams(State(n)) # {}
  /\ LET c == Head(commands[n])
         w == State(n)
         v == CASE c.t = "open"     -> Open(w, n, c.key)
                [] c.t = "incoming" -> Incoming(w, n, c.stream)
                [] c.t = "ended"    -> EndedCommand(w, n, c)
                [] c.t = "closed"   -> ClosedCommand(w, n, c.conn)
     IN  /\ Handled(n, v)
         /\ commands' = [commands EXCEPT ![n] = Tail(@) \o v.posted]
  /\ UNCHANGED <<use, held, desc, selected, links, dead, faults>>

Post(n, c) == commands' = [commands EXCEPT ![n] = Append(@, c)]

(* The timer asks for an exchange. *)
Ask(n, k) ==
  /\ ~Grants
  /\ \A i \in DOMAIN commands[n] : commands[n][i].t # "open"
  /\ task[n].running[k] = 0
  /\ Post(n, [t |-> "open", key |-> k])
  /\ UNCHANGED <<use, held, desc, selected, links, dead, stream, task, reports, receiving, faults>>

(* observe: a deselected collection's walks are retired, its agreements gone. *)
Select(n) ==
  /\ ~Grants /\ (selected[n] => faults < use.faults)
  /\ faults' = IF selected[n] THEN faults + 1 ELSE faults
  /\ selected' = [selected EXCEPT ![n] = ~@]
  /\ IF ~selected[n] THEN UNCHANGED <<stream, task, commands, reports, receiving>>
     ELSE LET w == Dropping(State(n), n, Streams)
          IN  /\ Handled(n, [w EXCEPT !.task.agreed = [k \in use.keys |-> None]])
              /\ commands' = [commands EXCEPT ![n] = @ \o w.posted]
  /\ UNCHANGED <<use, held, desc, links, dead>>

----------------------------------------------------------------------------
(* The drivers.                                                               *)

Alive(c) == c \notin dead

(* OPEN reaches the peer. *)
Arrive(s) ==
  LET n == Peer(stream[s].opener)
  IN  /\ stream[s] # Free
      /\ stream[s].drv[n] = "coming" /\ stream[s].code = "none"
      /\ Alive(stream[s].conn) /\ links[n][stream[s].conn] = "open"
      /\ stream' = [stream EXCEPT ![s].drv[n] = "queued"]
      /\ Post(n, [t |-> "incoming", stream |-> s])
      /\ UNCHANGED <<use, held, desc, selected, links, dead, task, reports, receiving, faults>>

(* What n is sent, what of it n keeps, and what lands: a grant n does not     *)
(* keep is skipped, one whose descriptor is missing waits elsewhere.          *)
SentTo(n, s) ==
  IF stream[s].receives[n] THEN Delta(s, Peer(n)) \ held[n][stream[s].key] ELSE {}

Kept(n, s) == {i \in SentTo(n, s) : Keeps(n, stream[s].key, i)}
Lands(n, s) == IF desc[n] THEN Kept(n, s) ELSE {}

(* Both deltas land, or one before the exchange is cut short. *)
LandDeltas(s, who) ==
  LET k == stream[s].key
  IN  /\ stream[s] # Free /\ stream[s].landed = {}
      /\ \A n \in Nodes : stream[s].drv[n] = "driving"
      /\ stream[s].code = "none" /\ Alive(stream[s].conn)
      /\ who = Nodes \/ faults < use.faults
      /\ held' = [n \in Nodes |-> IF n \in who THEN [held[n] EXCEPT ![k] = @ \union Lands(n, s)] ELSE held[n]]
      /\ stream' = [stream EXCEPT ![s].landed = who,
                      ![s].excluded = [n \in Nodes |-> SentTo(n, s) \ Lands(n, s)]]
      /\ reports' = [n \in Nodes |-> IF n \notin who THEN reports[n] ELSE reports[n] \o
           SetToSeq({[key |-> k, what |-> "pending", agreed |-> {i}] : i \in Kept(n, s) \ Lands(n, s)})]
      /\ UNCHANGED <<use, desc, selected, links, dead, task, commands, receiving, faults>>

Ends(n, s, confirmed) ==
  /\ stream' = [stream EXCEPT ![s].drv[n] = "ended",
                              ![s].code = IF confirmed \/ @ # "none" THEN @ ELSE "failed"]
  /\ Post(n, Ended(s, confirmed, stream[s].code))
  /\ UNCHANGED <<use, held, desc, selected, links, dead, task, reports, receiving>>

(* Both sides landed. *)
Confirm(n, s) ==
  /\ stream[s].drv[n] = "driving" /\ stream[s].landed = Nodes
  /\ Ends(n, s, TRUE) /\ UNCHANGED faults

(* Reset by the peer, or cut off. *)
Broken(n, s) ==
  /\ stream[s].drv[n] = "driving"
  /\ \/ stream[s].code # "none"
     \/ ~Alive(stream[s].conn) \/ links[n][stream[s].conn] = "closed"
  /\ Ends(n, s, FALSE) /\ UNCHANGED faults

(* Past its deadline, or a value it could not take. *)
Fail(n, s) ==
  /\ faults < use.faults
  /\ stream[s].drv[n] = "driving"
  /\ Ends(n, s, FALSE) /\ faults' = faults + 1

----------------------------------------------------------------------------
(* Connections: external to the task.                                         *)

Made == {c \in Conns : \E n \in Nodes : links[n][c] # "none"}

Lose(c) ==
  /\ use.losses /\ faults < use.faults
  /\ c \in Made /\ Alive(c) /\ \E d \in Conns : d \notin Made
  /\ dead' = dead \union {c} /\ faults' = faults + 1
  /\ UNCHANGED <<use, held, desc, selected, links, stream, task, commands, reports, receiving>>

Init ==
  /\ use \in Uses
  /\ held = use.held /\ desc = use.desc
  /\ selected = [n \in Nodes |-> TRUE]
  /\ links = [n \in Nodes |-> [c \in Conns |-> "none"]]
  /\ dead = {} /\ faults = 0
  /\ stream = [s \in Streams |-> Free]
  /\ task = [n \in Nodes |-> [running |-> [k \in use.keys |-> 0],
                              agreed |-> [k \in use.keys |-> None],
                              queue |-> <<>>, unknown |-> {}]]
  /\ commands = [n \in Nodes |-> <<>>]
  /\ reports = [n \in Nodes |-> <<>>]
  /\ receiving = [n \in Nodes |-> 0]

Drives(s) ==
  \/ Arrive(s)
  \/ \E who \in (SUBSET Nodes) \ {{}} : LandDeltas(s, who)
  \/ \E n \in Nodes : Confirm(n, s) \/ Broken(n, s)
=============================================================================
