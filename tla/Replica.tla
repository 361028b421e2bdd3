------------------------------- MODULE Replica -------------------------------
(* What an exchange of a tree promises two nodes, without its protocol: keys  *)
(* only travel from a node that holds them to one that receives, and the      *)
(* common ground a node counts on is held by both.                            *)
(*                                                                            *)
(*   src/triblespace-net/src/walk.rs, the head of the module                  *)
VARIABLES
  keys,      \* the keys there are; never changes
  held,      \* the tree each node holds
  common,    \* what each node believes both hold
  own,       \* the keys each node may author itself; never changes
  receives   \* whether each node receives from the other; never changes

Parties == {"a", "b"}
Other(n) == IF n = "a" THEN "b" ELSE "a"
replicaVars == <<keys, held, common, own, receives>>

ReplicaTypeOK ==
  /\ held \in [Parties -> SUBSET keys] /\ common \in [Parties -> SUBSET keys]
  /\ own \in [Parties -> SUBSET keys] /\ receives \in [Parties -> BOOLEAN]

ReplicaInit ==
  /\ ReplicaTypeOK
  /\ common = [n \in Parties |-> {}]

(* A node adds keys of its own, and, if it receives, keys the other holds. *)
Grow(n) ==
  /\ \E new \in SUBSET (own[n] \union (IF receives[n] THEN held[Other(n)] ELSE {})) :
       held' = [held EXCEPT ![n] = @ \union new]
  /\ UNCHANGED <<keys, common, own, receives>>

(* A node extends its common ground by keys both hold, or forgets it. *)
Agree(n) ==
  /\ \E shared \in SUBSET (held["a"] \intersect held["b"]) :
       common' = [common EXCEPT ![n] = @ \union shared]
  /\ UNCHANGED <<keys, held, own, receives>>

Forget(n) ==
  /\ common' = [common EXCEPT ![n] = {}]
  /\ UNCHANGED <<keys, held, own, receives>>

ReplicaNext == \E n \in Parties : Grow(n) \/ Agree(n) \/ Forget(n)

ReplicaSpec == ReplicaInit /\ [][ReplicaNext]_replicaVars

(* Both nodes hold what either counts on. *)
CommonIsHeld == \A n \in Parties : common[n] \subseteq held["a"] \intersect held["b"]
=============================================================================
