------------------------------ MODULE Schedule ------------------------------
(* When the trees of a selected collection are exchanged: the scheduler       *)
(* follows the collection's root, its neighbours and the deltas being         *)
(* received, and opens exchanges when the collection's timer fires.           *)
(*                                                                            *)
(*   src/triblespace-net/src/schedule.rs                                      *)
(*   src/triblespace-net/src/peering.rs       the loop that drives it         *)
(*                                                                            *)
(* One collection; collections do not affect each other.  The root is the     *)
(* number of its changes.  Walks report the receives they begin and end on a  *)
(* queue of its own, apart from the snapshots that show what landed.          *)
EXTENDS Sequences, FiniteSets, SequencesExt, WakeSchedule

CONSTANTS
  Peers,    \* peers a connection may lead to
  Links,    \* connections, a later one with a higher number
  Walks,    \* walks that receive a delta of a records tree
  Backlog,  \* reports the walks may be ahead of the loop
  Lateness, \* how late the loop may poll, where it may be late
  Uses      \* the situations explored: see the MC module

VARIABLES
  use,       \* the situation, chosen once
  root,      \* the root in the latest snapshot
  selected,  \* whether the latest snapshot selects the collection
  entry,     \* Schedules.collections: no entry, or the collection's
  receives,  \* the walks that receive
  events,    \* what the walks reported and the loop has not heard
  watch      \* time since the watched event that no emission followed, or Off

vars == <<use, root, selected, entry, receives, events, watch>>

Off == -1
Scheduled == entry # <<>>
Entry == Head(entry)
Wake == Entry.wake

NewEntry(r, w) ==
  [root |-> r, wake |-> w, neighbours |-> [p \in {} |-> 0], receiving |-> 0, merged |-> FALSE]

----------------------------------------------------------------------------
(* The stopwatch.  It is started by what the situation watches and stopped    *)
(* by an emission.                                                            *)

Started(what) == IF use.watch \in what /\ watch = Off THEN 0 ELSE watch
Changed(landed) == IF landed THEN Started({"change"}) ELSE watch

Exchanges(n) == n.sends \/ n.receives
Exchanging(e) == {p \in DOMAIN e.neighbours : Exchanges(e.neighbours[p])}

----------------------------------------------------------------------------
(* Snapshots.                                                                 *)

(* observe *)
CanObserve == selected # Scheduled \/ (Scheduled /\ root # Entry.root)
Observe ==
  /\ CanObserve
  /\ LET e == [Entry EXCEPT !.root = root]
         idle == Entry.receiving = 0
     IN  CASE ~selected -> entry' = <<>> /\ watch' = Off
           [] selected /\ ~Scheduled ->
                /\ \E w \in Begin(MinInterval) : entry' = <<NewEntry(root, w)>>
                /\ watch' = Started({"gap"})
           [] selected /\ Scheduled /\ idle ->
                /\ \E w \in Expedite(Wake) : entry' = <<[e EXCEPT !.wake = w]>>
                /\ watch' = Changed(TRUE)
           [] OTHER -> entry' = <<[e EXCEPT !.merged = TRUE]>> /\ UNCHANGED watch
  /\ UNCHANGED <<use, root, selected, receives, events>>

(* A local append, or the end of the selection. *)
LocalAppend ==
  /\ root < use.changes
  /\ root' = root + 1
  /\ UNCHANGED <<use, selected, entry, receives, events, watch>>

Select ==
  /\ use.reselects
  /\ selected' = ~selected
  /\ UNCHANGED <<use, root, entry, receives, events, watch>>

----------------------------------------------------------------------------
(* Neighbours.                                                                *)

(* The newest connection of each peer. *)
Newest(peerings) ==
  LET Of(p) == {n \in peerings : n.peer = p}
  IN  [p \in {n.peer : n \in peerings} |->
         CHOOSE n \in Of(p) : \A m \in Of(p) : m.link <= n.link]

Joined(e, current) ==
  {p \in DOMAIN current : Exchanges(current[p]) /\ p \notin Exchanging(e)}

(* One neighbour after another asks for a short interval. *)
ExpediteTimes(w, n) ==
  FoldLeft(LAMBDA S, i : UNION {Expedite(v) : v \in S}, {w}, [i \in 1..n |-> i])

Neighbours ==
  /\ Scheduled
  /\ \E peerings \in use.peerings :
       LET current == Newest(peerings)
           joined  == Joined(Entry, current)
       IN  /\ current # Entry.neighbours
           /\ \E w \in ExpediteTimes(Wake, Cardinality(joined)) :
                entry' = <<[Entry EXCEPT !.neighbours = current, !.wake = w]>>
           /\ watch' = IF joined # {} THEN Started({"join"})
                       ELSE IF use.watch = "join" /\ \A p \in DOMAIN current : ~Exchanges(current[p])
                       THEN Off ELSE watch
  /\ UNCHANGED <<use, root, selected, receives, events>>

----------------------------------------------------------------------------
(* Walks.                                                                     *)

Receive(w) ==
  /\ w \in use.walks \ receives /\ Len(events) < Backlog
  /\ receives' = receives \union {w} /\ events' = Append(events, "receiving")
  /\ UNCHANGED <<use, root, selected, entry, watch>>

(* Part of a delta lands: the snapshot shows a new root. *)
LandPart(w) ==
  /\ w \in receives /\ root < use.changes
  /\ root' = root + 1
  /\ UNCHANGED <<use, selected, entry, receives, events, watch>>

(* The exchange ends; everything landed, or not. *)
EndReceive(w) ==
  /\ w \in receives /\ Len(events) < Backlog
  /\ receives' = receives \ {w}
  /\ \E how \in {"landed", "failed"} : events' = Append(events, how)
  /\ UNCHANGED <<use, root, selected, entry, watch>>

(* The last receive to end resets the timer if the root changed and it landed. *)
Received(e, landed) ==
  LET left == IF e.receiving = 0 THEN 0 ELSE e.receiving - 1
      ended == [e EXCEPT !.receiving = left, !.merged = FALSE]
  IN  IF left > 0 THEN {[e EXCEPT !.receiving = left]}
      ELSE IF e.merged /\ landed THEN {[ended EXCEPT !.wake = w] : w \in Expedite(e.wake)}
      ELSE {ended}

(* event: one that comes while the collection is not scheduled is lost. *)
Hear ==
  /\ events # <<>>
  /\ events' = Tail(events)
  /\ IF ~Scheduled THEN UNCHANGED <<entry, watch>>
     ELSE IF Head(events) = "receiving"
     THEN entry' = <<[Entry EXCEPT !.receiving = @ + 1]>> /\ UNCHANGED watch
     ELSE LET landed == Head(events) = "landed"
          IN  /\ \E e \in Received(Entry, landed) : entry' = <<e>>
              /\ watch' = IF Entry.receiving <= 1 /\ Entry.merged
                          THEN Changed(landed) ELSE watch
  /\ UNCHANGED <<use, root, selected, receives>>

----------------------------------------------------------------------------
(* Time.                                                                      *)

(* poll: the exchanges it opens. *)
Starts(e) ==
  UNION {{<<p, "commit">>, <<p, "derive">>}
           \union (IF e.neighbours[p].full THEN {<<p, "references">>} ELSE {}) :
         p \in Exchanging(e)}

CanPoll == Scheduled /\ Deadline(Wake) <= 0
Poll ==
  /\ CanPoll
  /\ \E w \in Polled(Wake) : entry' = <<[Entry EXCEPT !.wake = w]>>
  /\ IF Transmits(Wake)
     THEN watch' = IF use.watch = "gap" THEN 0
                   ELSE IF use.watch = "join" /\ Starts(Entry) = {} THEN watch ELSE Off
     ELSE UNCHANGED watch
  /\ UNCHANGED <<use, root, selected, receives, events>>

(* Time passes, but not past a poll that is due, unless the loop is late. *)
CanTick == Scheduled /\ Deadline(Wake) > (IF use.late THEN -Lateness ELSE 0)
Tick ==
  /\ CanTick
  /\ entry' = <<[Entry EXCEPT !.wake = Elapsed(Wake)]>>
  /\ watch' = IF watch = Off \/ watch > 2 * MaxInterval THEN watch ELSE watch + 1
  /\ UNCHANGED <<use, root, selected, receives, events>>

----------------------------------------------------------------------------
Init ==
  /\ use \in Uses
  /\ root = 0 /\ selected = TRUE
  /\ \E w \in Begin(MinInterval) : entry = <<NewEntry(0, w)>>
  /\ receives = {} /\ events = <<>>
  /\ watch = IF use.watch = "gap" THEN 0 ELSE Off

Next ==
  \/ Observe \/ LocalAppend \/ Select \/ Neighbours
  \/ \E w \in Walks : Receive(w) \/ LandPart(w) \/ EndReceive(w)
  \/ Hear \/ Poll \/ Tick

Spec == Init /\ [][Next]_vars

----------------------------------------------------------------------------
(* Properties.                                                                *)

TypeOK ==
  /\ use \in Uses /\ root \in 0..use.changes /\ selected \in BOOLEAN
  /\ receives \subseteq use.walks
  /\ Scheduled => /\ Wake.interval \in MinInterval..MaxInterval
                  /\ Wake.at = Taken \/ Wake.at < Wake.left
                  /\ Entry.root <= root
                  /\ Entry.receiving <= Cardinality(use.walks)

(* A neighbour that joined is exchanged with within two minimum intervals,    *)
(* and so is a root that changed here while nothing was being received, or    *)
(* changed under a receive that then landed, when the loop polls on time      *)
(* (wake_schedule.rs, neighbour_joined).                                      *)
ChangeIsOffered ==
  (use.watch \in {"join", "change"} /\ ~use.late) => watch <= 2 * MinInterval

(* However often the root or the neighbours change, an exchange is opened     *)
(* again within one and a half of the longest intervals and a shortest one.   *)
OffersKeepComing ==
  (use.watch = "gap" /\ ~use.late) => 2 * watch <= 3 * MaxInterval + 2 * MinInterval

(* Two emissions are half a minimum interval apart, however many changes,     *)
(* joins and late polls come between them.                                    *)
Emits == Poll /\ Transmits(Wake)
OffersAreSpaced ==
  [][Emits /\ use.watch = "gap" => 2 * watch >= MinInterval]_vars
=============================================================================
