------------------------------ MODULE MCGossip ------------------------------
(* Situations for TLC: two nodes, resources r and t, grants (or records) p    *)
(* and q.                                                                     *)
EXTENDS Gossip

Both == [n \in Nodes |-> TRUE]
OnlyA == [n \in Nodes |-> n = "a"]
Held(a, b) == [n \in Nodes |-> [k \in {"r"} |-> IF n = "a" THEN a ELSE b]]
By(n, i) == [node |-> n, key |-> "r", item |-> i]

(* Both are roots of r, a holds p, and one thing goes wrong. *)
Crossing ==
  [kind |-> "grants", keys |-> {"r"}, roots |-> Nodes, active |-> Nodes,
   names |-> [i \in Items |-> {}], held |-> Held({"p"}, {}), desc |-> Both,
   authors |-> {}, faults |-> 1, losses |-> FALSE, restarts |-> FALSE,
   patient |-> TRUE, sends |-> OnlyA]

(* The same, with retries that cross what is under way. *)
Impatient == [Crossing EXCEPT !.patient = FALSE]

(* Each holds what the other lacks. *)
Meeting == [Crossing EXCEPT !.held = Held({"p"}, {"q"}), !.faults = 0]

(* p names b, which learns of r from a and lacks its descriptor; q does not,  *)
(* and is kept once b takes part.                                             *)
Grantee ==
  [Crossing EXCEPT !.roots = {"a"}, !.active = {"a"}, !.desc = OnlyA,
                   !.held = Held({"p", "q"}, {}),
                   !.names = [i \in Items |-> IF i = "p" THEN {"b"} ELSE {}]]

(* Both name b, which has room for one that waits. *)
Evicting == [Grantee EXCEPT !.names = [i \in Items |-> {"b"}], !.faults = 0]

(* a signs q while p is on its way. *)
Signing ==
  [Evicting EXCEPT !.desc = Both, !.held = Held({"p"}, {}), !.authors = {By("a", "q")}]

(* The connection is lost, and b told of it late. *)
Losing == [Evicting EXCEPT !.desc = Both, !.held = Held({"p"}, {}),
                    !.faults = 1, !.losses = TRUE]

(* Two resources and room for one walk. *)
Queueing ==
  [Evicting EXCEPT !.keys = {"r", "t"}, !.desc = Both,
                   !.held = [n \in Nodes |-> [k \in {"r", "t"} |->
                              IF n = "b" THEN {} ELSE IF k = "r" THEN {"p"} ELSE {"q"}]],
                   !.faults = 1]

(* Records of a collection, sent by a: one more is written, the connection is *)
(* lost twice, b comes back with an older store.                              *)
Pushing == [Crossing EXCEPT !.kind = "data", !.authors = {By("a", "q")}]
Breaking == [Pushing EXCEPT !.authors = {}, !.faults = 2, !.losses = TRUE]
Restoring == [Pushing EXCEPT !.authors = {}, !.faults = 2, !.restarts = TRUE]
Repeating == [Pushing EXCEPT !.authors = {}, !.patient = FALSE]

MCUses == {Crossing, Impatient, Meeting, Grantee, Evicting, Signing, Losing, Queueing,
           Pushing, Breaking, Restoring, Repeating}
=============================================================================
