----------------------------- MODULE MCSchedule -----------------------------
(* Small instances of Schedule. *)
EXTENDS Schedule, TLC

On(p, l, s, r, f) == [peer |-> p, link |-> l, sends |-> s, receives |-> r, full |-> f]
Meshes ==
  {{}, {On("p", 1, FALSE, FALSE, FALSE)}, {On("p", 1, TRUE, FALSE, FALSE)},
   {On("p", 1, TRUE, TRUE, TRUE), On("p", 2, FALSE, FALSE, FALSE)},
   {On("p", 1, TRUE, TRUE, TRUE), On("q", 2, FALSE, TRUE, FALSE)}}

(* Neighbours come and go. *)
Joins ==
  [watch |-> "join", late |-> FALSE, peerings |-> Meshes, walks |-> {}, changes |-> 0,
   reselects |-> FALSE]
(* The root changes, locally or by receives that land or fail. *)
Changes == [Joins EXCEPT !.watch = "change", !.peerings = {}, !.walks = {1, 2}, !.changes = 2]
(* Changes and joins at any time, polled on time or late. *)
Gaps == [Joins EXCEPT !.watch = "gap", !.changes = 1, !.reselects = TRUE,
                      !.peerings = {{}, {On("p", 1, TRUE, FALSE, FALSE)}}]
Late == [Gaps EXCEPT !.late = TRUE]

MCUses == {Joins, Changes, Gaps, Late}
=============================================================================
