------------------------------ MODULE Landing ------------------------------
(* The task that lands what exchanges receive: it inserts the events that     *)
(* have queued up in order, publishes one serving snapshot of them, and       *)
(* acknowledges each exchange's share.                                        *)
(*                                                                            *)
(*   src/triblespace-net/src/landing.rs                                       *)
EXTENDS Naturals, Sequences, FiniteSets

(* Mutant of Inserted: every resident blob is noted as held. *)
InsertedAll(node, events, bad) ==
  LET blobs == node.blobs \union {events[i].key : i \in DOMAIN events \ bad}
  IN  [tree |-> node.tree \union blobs, blobs |-> blobs]

(* A node that holds a tree and resident blobs, after it inserted the events  *)
(* that are not bad.  A held reference joins the tree if its blob is          *)
(* resident by then.                                                          *)
Inserted(node, events, bad) ==
  LET Named(t) == {events[i].key : i \in {j \in DOMAIN events \ bad : events[j].t = t}}
      blobs == node.blobs \union Named("blob") \union Named("value")
  IN  [tree  |-> node.tree \union Named("value") \union (Named("held") \intersect blobs),
       blobs |-> blobs]

(* Which insertions may fail: noting a held reference never does. *)
MayFail(events) == {i \in DOMAIN events : events[i].t # "held"}

(* What exchange id hears of a batch of events. *)
Acknowledgement(events, bad, id) ==
  LET mine == {i \in DOMAIN events : events[i].id = id}
  IN  IF mine = {} THEN <<>>
      ELSE <<[landed |-> Cardinality(mine \ bad), failed |-> Cardinality(mine \intersect bad)]>>
=============================================================================
