------------------------------ MODULE MCCached ------------------------------
(* Small instances of Cached. *)
EXTENDS Cached

Node(tree, extra) == [tree |-> tree, blobs |-> tree \union extra]
Pair(a, b) == ("a" :> a) @@ ("b" :> b)

(* One key to send each way. *)
Records ==
  [kind |-> "records", store |-> Pair(Node({1}, {}), Node({2}, {})),
   own |-> Pair({}, {}), cache |-> Pair(<<>>, <<>>), faults |-> 0, fails |-> FALSE, rounds |-> 1]
(* Cut off once, then resumed. *)
Resumed == [Records EXCEPT !.store = Pair(Node({1}, {}), Node({}, {})),
                           !.faults = 1, !.rounds = 2]
(* The root the cells were kept for is gone when the next exchange starts. *)
Moved == [Records EXCEPT !.store = Pair(Node({1, 3}, {}), Node({}, {})),
                         !.cache = Pair(<<>>, <<[root |-> {1}, cells |-> 1]>>)]
(* The receiver may come by the key on its own, or fail to store it. *)
Failing == [Records EXCEPT !.fails = TRUE, !.own = Pair({}, {1}),
                           !.store = Pair(Node({1}, {}), Node({}, {}))]
References == [Failing EXCEPT !.kind = "references", !.own = Pair({}, {}),
                 !.store = Pair(Node({1}, {2}), Node({2}, {}))]
Equal == [Records EXCEPT !.store = Pair(Node({1}, {}), Node({1}, {})),
                         !.faults = 1, !.rounds = 2]

MCUses == {Records, Resumed, Moved, Failing, References, Equal}
=============================================================================
