---------------------------- MODULE MCNeighbours ----------------------------
(* Two nodes that become neighbours over a collection (Peering), and the      *)
(* timer by which a node offers its neighbours what it holds (Schedule).  One *)
(* of them runs in each behaviour; the other rests, the nodes before their    *)
(* first connection and the timer before its collection is selected.          *)
EXTENDS MCPeering

CONSTANT ScheduleUses

VARIABLES part, situation, root, selected, entry, receives, events, watch

Timer == INSTANCE MCSchedule WITH
  use <- situation, Uses <- ScheduleUses,
  MinInterval <- 4, MaxInterval <- 12, Peers <- {"p", "q"}, Links <- {1, 2},
  Walks <- {1, 2}, Backlog <- 2, Lateness <- 2
Cases == INSTANCE MCSchedule WITH
  use <- situation, Uses <- {},
  MinInterval <- 4, MaxInterval <- 12, Peers <- {"p", "q"}, Links <- {1, 2},
  Walks <- {1, 2}, Backlog <- 2, Lateness <- 2
MCScheduleUses == Cases!MCUses

timerVars == <<situation, root, selected, entry, receives, events, watch>>
neighboursVars == <<part, vars, timerVars>>

TimerRests ==
  /\ situation = Timer!Joins
  /\ root = 0 /\ selected = FALSE /\ entry = <<>> /\ receives = {} /\ events = <<>>
  /\ watch = Timer!Off

NeighboursInit ==
  /\ Init
  /\ \/ part = "peering" /\ TimerRests
     \/ part = "timer" /\ use = Doubled /\ Timer!Init

Meeting == part = "peering" /\ Next /\ UNCHANGED <<part, timerVars>>
Offering == part = "timer" /\ Timer!Next /\ UNCHANGED <<part, vars>>

NeighboursSpec ==
  NeighboursInit /\ [][Meeting \/ Offering]_neighboursVars /\ Fairness

-----------------------------------------------------------------------------
(* The properties of Peering are checked as they stand, those of Schedule     *)
(* under this name.                                                           *)

(* A collection is offered soon after it changed or a neighbour joined, and   *)
(* at least once in every longest interval, but never twice within half a     *)
(* shortest one, whatever happens in between (schedule.rs, poll;              *)
(* wake_schedule.rs).                                                         *)
OffersAreTimely ==
  /\ [](Timer!TypeOK /\ Timer!ChangeIsOffered /\ Timer!OffersKeepComing)
  /\ Timer!OffersAreSpaced
=============================================================================
