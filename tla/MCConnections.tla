-------------------------- MODULE MCConnections --------------------------
(* Small situations for Connections.                                        *)
EXTENDS Connections

Faults(fails, cancels, losses, crashes, streams) ==
  [fails |-> fails, cancels |-> cancels, losses |-> losses, crashes |-> crashes, streams |-> streams]
Situation(a, b, f) ==
  [callers |-> [n \in Nodes |-> IF n = "a" THEN a ELSE b], faults |-> f,
   hears |-> {}, neighbours |-> FALSE, faultless |-> FALSE, conns |-> MaxConns]

(* Both nodes dial, and nothing fails. *)
Crossing == [Situation({1}, {1}, Faults(0, 0, 0, 0, 1)) EXCEPT !.faultless = TRUE]
(* Both nodes dial, and one of the two connections is lost or invalidated. *)
Losing == [Situation({1}, {1}, Faults(0, 0, 1, 0, 0)) EXCEPT !.conns = 2]
(* Connections are lost or invalidated, and dialled again. *)
Redialling == Situation({1}, {}, Faults(0, 0, 2, 0, 0))
(* A node restarts. *)
Restarting == Situation({1}, {1}, Faults(0, 0, 0, 1, 0))
(* Two callers of one node share dials, which may fail or be cancelled. *)
Sharing == Situation({1, 2}, {}, Faults(1, 2, 0, 0, 0))
(* Events of a connection's opening and its end race. *)
Racing == [Situation({1}, {}, Faults(0, 0, 1, 0, 0)) EXCEPT !.hears = {"b"}]
(* Links become neighbours'. *)
Marking == [Situation({1}, {}, Faults(0, 0, 1, 0, 0)) EXCEPT !.neighbours = TRUE, !.hears = {"a"}]

MCUses == {Crossing, Losing, Redialling, Restarting, Sharing, Racing, Marking}
==========================================================================
