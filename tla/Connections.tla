---------------------------- MODULE Connections ----------------------------
(* The connection tables of two nodes: shared dials, the tie-break between    *)
(* the connections of one pair, draining, eviction, and the events a          *)
(* connection's tasks send the service while they race to close it.           *)
(*                                                                            *)
(*   src/triblespace-net/src/connection.rs                                    *)
(*                                                                            *)
(* Streams other than recon/1 are one flag per connection.  Time is left out: *)
(* a deadline may pass whenever its condition holds.  A transport connection  *)
(* is up, half (one end crashed and the other does not know) or down.  Its    *)
(* number stands for the sequence number of its dial: both grow.              *)
EXTENDS Naturals, Sequences, FiniteSets, FiniteSetsExt

CONSTANTS
  Callers,   \* tasks of a node that may ask for a connection at once
  MaxConns,  \* bound: transport connections made
  Cap,       \* MAX_CONNECTIONS
  Uses       \* the situations explored: see the MC module

ASSUME ConstantsAssumption ==
  IsFiniteSet(Callers) /\ MaxConns \in Nat /\ Cap \in Nat \ {0}
ASSUME UsesAssumption == \A u \in Uses : u.conns \in 0..MaxConns

Nodes == {"a", "b"}
Other(n) == IF n = "a" THEN "b" ELSE "a"
Conns == 1..MaxConns
Cells == 1..(Cardinality(Callers) + 1)  \* dials some caller still holds, and a new one

VARIABLES
  use,     \* the situation, chosen once
  faults,  \* bound: losses, crashes and cancellations left
  phys,    \* the transport's connections
  side,    \* State, per node and connection
  cur,     \* Table::current, per node; 0 when there is none
  dials,   \* Table::dials, per node: the cell callers share; 0 when none
  results, \* Dial::result, per node and cell
  callers, \* each caller of connect
  queue,   \* recon events sent and not yet handled
  view     \* the connections the service takes to be open

vars == <<use, faults, phys, side, cur, dials, results, callers, queue, view>>
tableVars == <<side, cur>>
dialVars == <<dials, results, callers>>

NoConn == [st |-> "none", dialler |-> "a", left |-> "none", streams |-> FALSE]
NewSide == [loop |-> "none", held |-> FALSE, known |-> FALSE, retired |-> FALSE,
            recon |-> "none", neighbour |-> FALSE]
NoCaller == [at |-> "idle", cell |-> 0, conn |-> 0]

Closed(s) == s.loop \in {"ended", "removed", "done"}
Dialled(n, c) == phys[c].dialler = n

----------------------------------------------------------------------------
(* The table.  An operator takes the sides and the current connection of one  *)
(* node and returns both.                                                     *)

(* State::outranks: the lower key, then the later dial.  "a" is the lower key. *)
Outranks(n, s, c, d) ==
  /\ s[c].known /\ s[d].known
  /\ \/ phys[c].dialler = "a" /\ phys[d].dialler = "b"
     \/ phys[c].dialler = phys[d].dialler /\ c > d

(* Mutant of Rank: a connection that was removed is ranked. *)
RankRemoved(n, t, c) ==
  IF t.side[c].retired \/ t.cur = c THEN t
  ELSE IF t.cur = 0 THEN [t EXCEPT !.cur = c]
  ELSE IF Outranks(n, t.side, c, t.cur)
       THEN [t EXCEPT !.side[t.cur].retired = TRUE, !.cur = c]
       ELSE [t EXCEPT !.side[c].retired = TRUE]

(* Table::rank *)
Rank(n, t, c) ==
  IF t.side[c].retired \/ ~t.side[c].held \/ t.cur = c THEN t
  ELSE IF t.cur = 0 THEN [t EXCEPT !.cur = c]
  ELSE IF Outranks(n, t.side, c, t.cur)
       THEN [t EXCEPT !.side[t.cur].retired = TRUE, !.cur = c]
       ELSE [t EXCEPT !.side[c].retired = TRUE]

(* Table::remove *)
Remove(t, c) ==
  [side |-> [t.side EXCEPT ![c].held = FALSE], cur |-> IF t.cur = c THEN 0 ELSE t.cur]

(* Table::evict: whom a newcomer over the cap may displace.  Which one was    *)
(* used least recently is left open.                                          *)
Victims(n, t, c) ==
  LET candidates == {d \in Conns : /\ t.side[d].held /\ ~t.side[d].neighbour
                                   /\ phys[d].dialler = phys[c].dialler}
      others == candidates \ {c}
      drained == {d \in others : t.side[d].retired}
      pool == IF drained # {} THEN drained ELSE others
      unused == {d \in pool : ~phys[d].streams}
  IN  IF Cardinality(candidates) <= Cap THEN {}
      ELSE IF unused # {} THEN unused ELSE pool

(* Shared::register: the connection is held, ranked once its sequence is      *)
(* known, and may displace another, which is closed.                          *)
Register(n, s, c, ph) ==
  LET held == [side |-> [s EXCEPT ![c].held = TRUE, ![c].loop = "running"], cur |-> cur[n]]
      ranked == IF s[c].known THEN Rank(n, held, c) ELSE held
      victims == Victims(n, ranked, c)
  IN  \E v \in IF victims = {} THEN {0} ELSE victims :
        LET t == IF v = 0 THEN ranked ELSE Remove(ranked, v)
        IN  /\ side' = [side EXCEPT ![n] = t.side]
            /\ cur' = [cur EXCEPT ![n] = t.cur]
            /\ phys' = IF v = 0 THEN ph ELSE [ph EXCEPT ![v].st = "down"]

----------------------------------------------------------------------------
(* Dialling.                                                                  *)

(* Service::recon, on the nodes whose events are followed. *)
Told(n, event) ==
  IF n \in use.hears THEN [queue EXCEPT ![n] = Append(@, event)] ELSE queue

Holders(n, cell) == {k \in Callers : callers[n][k].at # "idle" /\ callers[n][k].cell = cell}
Dialling(n, cell) == {k \in Holders(n, cell) : callers[n][k].at \in {"init", "setup"}}

Free == {c \in 1..use.conns : phys[c].st = "none"}

(* connect: a current connection is handed out (no state changes); else the   *)
(* caller joins the peer's dial, or begins one, and runs its initializer if   *)
(* no other caller does.                                                      *)
Connect(n, k) ==
  /\ callers[n][k].at = "idle" /\ cur[n] = 0 /\ k \in use.callers[n] /\ Free # {}
  /\ LET cell == IF dials[n] # 0 THEN dials[n] ELSE Min({c \in Cells : results[n][c] = "unused"})
         runs == results[n][cell] \in {"unused", "none"} /\ Dialling(n, cell) = {}
     IN  /\ dials' = [dials EXCEPT ![n] = cell]
         /\ results' = [results EXCEPT ![n][cell] = IF @ = "unused" THEN "none" ELSE @]
         /\ callers' = [callers EXCEPT ![n][k] = [at |-> IF runs THEN "init" ELSE "wait",
                                                cell |-> cell, conn |-> 0]]
  /\ UNCHANGED <<use, faults, phys, tableVars, queue, view>>

(* The initializer's caller was cancelled: another takes over. *)
Initialise(n, k) ==
  LET me == callers[n][k]
  IN  /\ me.at = "wait" /\ results[n][me.cell] = "none" /\ Dialling(n, me.cell) = {}
      /\ callers' = [callers EXCEPT ![n][k].at = "init"]
      /\ UNCHANGED <<use, faults, phys, tableVars, dials, results, queue, view>>

(* A dial nobody holds is dropped. *)
Kept(n, k, result) ==
  LET cell == callers[n][k].cell
  IN  [results EXCEPT ![n][cell] = IF Holders(n, cell) = {k} THEN "unused" ELSE result]

(* Mutant of Finished: whatever dial is in the map is removed. *)
FinishedAny(n, cell) == 0

(* Table::finish: only the completed dial leaves the map. *)
Finished(n, cell) == IF dials[n] = cell THEN 0 ELSE dials[n]

(* The result is set, and its caller goes on to finish at once. *)
Resolve(n, k, result) ==
  LET cell == callers[n][k].cell
  IN  /\ results' = Kept(n, k, result)
      /\ dials' = [dials EXCEPT ![n] = Finished(n, cell)]
      /\ callers' = [callers EXCEPT ![n][k] = NoCaller]

(* The transport connects, and the dialler's sequence number is sent in the   *)
(* opening frame.                                                             *)
DialSetup(n, k) ==
  /\ callers[n][k].at = "init"
  /\ \E c \in Free :
       /\ \A d \in Free : c <= d
       /\ phys' = [phys EXCEPT ![c] = [NoConn EXCEPT !.st = "up", !.dialler = n]]
       /\ side' = [side EXCEPT ![n][c].known = TRUE]
       /\ callers' = [callers EXCEPT ![n][k].at = "setup", ![n][k].conn = c]
  /\ UNCHANGED <<use, faults, cur, dials, results, queue, view>>

(* The dial fails, or runs into its deadline. *)
DialFails(n, k) ==
  /\ callers[n][k].at = "init" /\ (faults.fails > 0 \/ Free = {})
  /\ Resolve(n, k, "err")
  /\ faults' = [faults EXCEPT !.fails = IF Free = {} THEN @ ELSE @ - 1]
  /\ UNCHANGED <<use, phys, tableVars, queue, view>>

(* The rest of Shared::dial: the service is told, and the table holds the     *)
(* connection.  Nothing is awaited between the two.                           *)
DialRegister(n, k) ==
  /\ callers[n][k].at = "setup"
  /\ LET c == callers[n][k].conn
     IN  /\ queue' = Told(n, <<"opened", c>>)
         /\ Register(n, [side[n] EXCEPT ![c].recon = "sent"], c, phys)
  /\ Resolve(n, k, "ok")
  /\ UNCHANGED <<use, faults, view>>

(* Another caller of the same dial sees its result. *)
Shares(n, k) ==
  /\ callers[n][k].at = "wait" /\ results[n][callers[n][k].cell] \in {"ok", "err"}
  /\ dials' = [dials EXCEPT ![n] = Finished(n, callers[n][k].cell)]
  /\ results' = Kept(n, k, results[n][callers[n][k].cell])
  /\ callers' = [callers EXCEPT ![n][k] = NoCaller]
  /\ UNCHANGED <<use, faults, phys, tableVars, queue, view>>

(* Table::release: the last caller takes an unresolved dial with it. *)
Released(n, k) ==
  LET cell == callers[n][k].cell
  IN  IF dials[n] = cell /\ results[n][cell] = "none" /\ Holders(n, cell) = {k}
      THEN 0 ELSE dials[n]

(* A caller is cancelled (DialWaiter::drop): what its dial had set up closes. *)
CancelDial(n, k) ==
  /\ callers[n][k].at # "idle" /\ faults.cancels > 0
  /\ dials' = [dials EXCEPT ![n] = Released(n, k)]
  /\ phys' = IF callers[n][k].at = "setup" THEN [phys EXCEPT ![callers[n][k].conn].st = "down"] ELSE phys
  /\ results' = Kept(n, k, results[n][callers[n][k].cell])
  /\ callers' = [callers EXCEPT ![n][k] = NoCaller]
  /\ faults' = [faults EXCEPT !.cancels = @ - 1]
  /\ UNCHANGED <<use, tableVars, queue, view>>

----------------------------------------------------------------------------
(* Accepting: the table holds the connection at once, and ranks it when its   *)
(* opening frame arrives.                                                     *)

Reaches(n, c) == phys[c].st = "up" \/ (phys[c].st = "half" /\ phys[c].left = n)

Accept(n, c) ==
  /\ ~Dialled(n, c) /\ side[n][c].loop = "none" /\ Reaches(n, c)
  /\ Register(n, side[n], c, phys)
  /\ UNCHANGED <<use, faults, dialVars, queue, view>>

(* recon reads the opening frame and ranks the connection, which may have     *)
(* closed between the two, ...                                                *)
ReadOpen(n, c) ==
  /\ ~Dialled(n, c) /\ side[n][c].loop # "none" /\ side[n][c].recon = "none"
  /\ LET t == Rank(n, [side |-> [side[n] EXCEPT ![c].known = TRUE, ![c].recon = "ranked"],
                       cur |-> cur[n]], c)
     IN  side' = [side EXCEPT ![n] = t.side] /\ cur' = [cur EXCEPT ![n] = t.cur]
  /\ UNCHANGED <<use, faults, phys, dialVars, queue, view>>

(* ... marks it announced ... *)
Announce(n, c) ==
  /\ side[n][c].recon = "ranked" /\ n \in use.hears
  /\ side' = [side EXCEPT ![n][c].recon = "announced"]
  /\ UNCHANGED <<use, faults, phys, cur, dialVars, queue, view>>

(* ... and tells the service, though the connection may have closed. *)
SendOpened(n, c) ==
  /\ side[n][c].recon = "announced"
  /\ side' = [side EXCEPT ![n][c].recon = "sent"]
  /\ queue' = Told(n, <<"opened", c>>)
  /\ UNCHANGED <<use, faults, phys, cur, dialVars, view>>

----------------------------------------------------------------------------
(* Closing: the accept loop ends, the table forgets the connection, and the   *)
(* service is told if it was, or is about to be, told it opened.              *)

End(n, c) ==
  /\ side[n][c].loop = "running"
  /\ side' = [side EXCEPT ![n][c].loop = "ended"]
  /\ UNCHANGED <<use, faults, cur, dialVars, queue, view>>

(* The transport reports the end. *)
Ended(n, c) == phys[c].st = "down" /\ phys' = phys /\ End(n, c)

(* Mutant of Drain: the transport's connection is not closed. *)
DrainQuietly(n, c) ==
  /\ side[n][c].retired /\ Reaches(n, c) /\ ~phys[c].streams
  /\ phys' = phys
  /\ End(n, c)

(* State::deadline: a retired connection without streams closes when silent   *)
(* for DRAIN_GRACE, which outlasts a frame on its way, ...                    *)
Drain(n, c) ==
  /\ side[n][c].retired /\ Reaches(n, c) /\ ~phys[c].streams
  /\ phys' = [phys EXCEPT ![c].st = "down"]
  /\ End(n, c)

(* ... and any other one when idle for long, as it is when its peer is gone. *)
Idle(n, c) ==
  /\ phys[c].st = "half" /\ phys[c].left = n
  /\ phys' = [phys EXCEPT ![c].st = "down", ![c].left = "none", ![c].streams = FALSE]
  /\ End(n, c)

Forget(n, c) ==
  /\ side[n][c].loop = "ended"
  /\ LET t == Remove([side |-> side[n], cur |-> cur[n]], c)
     IN  side' = [side EXCEPT ![n] = [t.side EXCEPT ![c].loop = "removed", ![c].retired = FALSE]] /\ cur' = [cur EXCEPT ![n] = t.cur]
  /\ UNCHANGED <<use, faults, phys, dialVars, queue, view>>

SendClosed(n, c) ==
  /\ side[n][c].loop = "removed" /\ n \in use.hears
  /\ side' = [side EXCEPT ![n][c].loop = "done"]
  /\ queue' = IF side[n][c].recon \in {"announced", "sent"}
              THEN Told(n, <<"closed", c>>) ELSE queue
  /\ UNCHANGED <<use, faults, phys, cur, dialVars, view>>

(* invalidate: a request showed that the peer breaks its protocol. *)
Invalidate(n, c) ==
  /\ faults.losses > 0 /\ side[n][c].held /\ phys[c].st = "up"
  /\ LET t == Remove([side |-> side[n], cur |-> cur[n]], c)
     IN  side' = [side EXCEPT ![n] = t.side] /\ cur' = [cur EXCEPT ![n] = t.cur]
  /\ phys' = [phys EXCEPT ![c].st = "down"]
  /\ faults' = [faults EXCEPT !.losses = @ - 1]
  /\ UNCHANGED <<use, dialVars, queue, view>>

----------------------------------------------------------------------------
(* The service, as the peering layer keeps its links.                         *)

(* Mutant of Heard: an opening is believed whatever happened since. *)
HeardBlindly(n, event) ==
  IF event[1] = "opened" THEN view[n] \union {event[2]} ELSE view[n] \ {event[2]}

Heard(n, event) ==
  IF event[1] = "closed" THEN view[n] \ {event[2]}
  ELSE IF Closed(side[n][event[2]]) THEN view[n] ELSE view[n] \union {event[2]}

Hear(n) ==
  /\ queue[n] # <<>>
  /\ view' = [view EXCEPT ![n] = Heard(n, Head(queue[n]))]
  /\ queue' = [queue EXCEPT ![n] = Tail(@)]
  /\ UNCHANGED <<use, faults, phys, tableVars, dialVars>>

(* The service marks a link as a neighbour's. *)
SetNeighbour(n, c) ==
  /\ use.neighbours /\ c \in view[n] /\ ~side[n][c].neighbour
  /\ side' = [side EXCEPT ![n][c].neighbour = TRUE]
  /\ UNCHANGED <<use, faults, phys, cur, dialVars, queue, view>>

(* A stream is opened on the current connection, and ends. *)
OpenStream(n) ==
  /\ faults.streams > 0 /\ cur[n] # 0 /\ phys[cur[n]].st = "up" /\ ~phys[cur[n]].streams
  /\ phys' = [phys EXCEPT ![cur[n]].streams = TRUE]
  /\ faults' = [faults EXCEPT !.streams = @ - 1]
  /\ UNCHANGED <<use, tableVars, dialVars, queue, view>>

EndStream(c) ==
  /\ phys[c].streams
  /\ phys' = [phys EXCEPT ![c].streams = FALSE]
  /\ UNCHANGED <<use, faults, tableVars, dialVars, queue, view>>

----------------------------------------------------------------------------
(* The network (external).                                                    *)

Lose(c) ==
  /\ faults.losses > 0 /\ phys[c].st = "up"
  /\ phys' = [phys EXCEPT ![c].st = "down", ![c].streams = FALSE]
  /\ faults' = [faults EXCEPT !.losses = @ - 1]
  /\ UNCHANGED <<use, tableVars, dialVars, queue, view>>

(* A node stops and starts again with an empty table; its peer is not told. *)
Crash(n) ==
  /\ faults.crashes > 0
  /\ faults' = [faults EXCEPT !.crashes = @ - 1]
  /\ phys' = [c \in Conns |->
               CASE phys[c].st = "up" -> [phys[c] EXCEPT !.st = "half", !.left = Other(n), !.streams = FALSE]
                 [] phys[c].st = "half" /\ phys[c].left = n -> [phys[c] EXCEPT !.st = "down", !.left = "none"]
                 [] OTHER -> phys[c]]
  /\ side' = [side EXCEPT ![n] = [c \in Conns |-> NewSide]]
  /\ cur' = [cur EXCEPT ![n] = 0]
  /\ dials' = [dials EXCEPT ![n] = 0]
  /\ callers' = [callers EXCEPT ![n] = [k \in Callers |-> NoCaller]]
  /\ queue' = [queue EXCEPT ![n] = <<>>]
  /\ view' = [view EXCEPT ![n] = {}]
  /\ results' = [results EXCEPT ![n] = [c \in Cells |-> "unused"]]
  /\ UNCHANGED use

----------------------------------------------------------------------------
Init ==
  /\ use \in Uses
  /\ faults = use.faults
  /\ phys = [c \in Conns |-> NoConn]
  /\ side = [n \in Nodes |-> [c \in Conns |-> NewSide]]
  /\ cur = [n \in Nodes |-> 0]
  /\ dials = [n \in Nodes |-> 0]
  /\ results = [n \in Nodes |-> [c \in Cells |-> "unused"]]
  /\ callers = [n \in Nodes |-> [k \in Callers |-> NoCaller]]
  /\ queue = [n \in Nodes |-> <<>>]
  /\ view = [n \in Nodes |-> {}]

Dial(n, k) ==
  \/ Initialise(n, k) \/ DialSetup(n, k) \/ DialFails(n, k)
  \/ DialRegister(n, k) \/ Shares(n, k)
Recon(n, c) == Accept(n, c) \/ ReadOpen(n, c) \/ Announce(n, c) \/ SendOpened(n, c)
Loop(n, c) ==
  \/ Ended(n, c) \/ Drain(n, c) \/ Idle(n, c) \/ Forget(n, c) \/ SendClosed(n, c)

(* What the tasks of the two nodes do. *)
Step ==
  \/ \E n \in Nodes, k \in Callers : Dial(n, k)
  \/ \E n \in Nodes, c \in Conns : Recon(n, c) \/ Loop(n, c)
  \/ \E n \in Nodes : Hear(n)
  \/ \E c \in Conns : EndStream(c)

(* What callers, the service and the network may do. *)
Others ==
  \/ \E n \in Nodes, k \in Callers : Connect(n, k) \/ CancelDial(n, k)
  \/ \E n \in Nodes, c \in Conns : Invalidate(n, c) \/ SetNeighbour(n, c)
  \/ \E n \in Nodes : OpenStream(n) \/ Crash(n)
  \/ \E c \in Conns : Lose(c)

Next == Step \/ Others

(* Tasks run while they have something to do, silence on a retired connection *)
(* comes, and a connection whose peer is gone goes idle.  Dials, faults and   *)
(* streams are bounded, so the system comes to rest.                          *)
Spec == Init /\ [][Next]_vars /\ WF_vars(Step)

----------------------------------------------------------------------------
(* Types; and no more connections are held in one direction than the cap, the *)
(* neighbours' not counted (evict).                                           *)
TypeOK ==
  /\ \A n, m \in Nodes :
       Cardinality({c \in Conns : /\ side[n][c].held /\ ~side[n][c].neighbour
                                  /\ phys[c].dialler = m}) <= Cap
  /\ cur \in [Nodes -> {0} \union Conns] /\ dials \in [Nodes -> {0} \union Cells]
  /\ \A n \in Nodes, c \in Conns :
       /\ side[n][c].loop \in {"none", "running", "ended", "removed", "done"}
       /\ side[n][c].recon \in {"none", "ranked", "announced", "sent"}
       /\ phys[c].st \in {"none", "up", "half", "down"}

(* Streams are opened on a connection the table still holds and that was not  *)
(* retired, and every other ranked connection to that peer is retired, though *)
(* ranking races with the connection's end (rank, remove).                    *)
CurrentIsTheKept ==
  \A n \in Nodes, c \in Conns :
    LET s == side[n][c]
    IN  cur[n] = c <=> s.held /\ s.known /\ ~s.retired

(* Two connections of one pair never retire each other: without a failure     *)
(* some connection stays up that neither side retired (outranks).             *)
PairSurvives ==
  (use.faultless /\ \E c \in Conns : phys[c].st # "none") =>
    \E c \in Conns : phys[c].st = "up" /\ \A n \in Nodes : ~side[n][c].retired

(* Both sides come to use the same connection, whatever crossed, was lost,    *)
(* evicted or restarted: "both sides keep the same one" (connection.rs:16);   *)
(* ranking alone never leaves them without one; and every caller of connect   *)
(* is answered, whoever else's dial fails or is cancelled (initialise).       *)
DiallingSettles ==
  /\ []PairSurvives
  /\ <>[](cur["a"] = cur["b"])
  /\ \A n \in Nodes, k \in Callers : []<>(callers[n][k].at = "idle")

(* A connection the service takes to be open is open, or its closing is on    *)
(* the way, though the closing may overtake the opening (accept_loop, recon,  *)
(* Link::closed).                                                             *)
OpenIsClosed ==
  \A n \in Nodes : \A c \in view[n] :
    side[n][c].loop # "done" \/ \E i \in 1..Len(queue[n]) : queue[n][i] = <<"closed", c>>

(* Callers for one peer share one dial: no two run at once, whoever is        *)
(* cancelled and whoever comes late with an old result; and a dial stays in   *)
(* the table only while someone waits for it (finish, release).               *)
OneDialAtATime ==
  \A n \in Nodes :
    /\ Cardinality({k \in Callers : callers[n][k].at \in {"init", "setup"}}) <= 1
    /\ dials[n] # 0 => Holders(n, dials[n]) # {}
=============================================================================
