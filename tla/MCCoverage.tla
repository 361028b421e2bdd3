----------------------------- MODULE MCCoverage -----------------------------
(***************************************************************************)
(* A small lattice.  Some merges are what a correct host publishes (a      *)
(* merge of a merge, one that absorbs a node into itself); others are      *)
(* wrongly computed and close a cycle or give a foundation a second route. *)
(* The fold believes a host merge as signed, so it has to cope with both.  *)
(***************************************************************************)
EXTENDS Coverage

CONSTANTS nodeA, nodeB, nodeC, nodeD, nodeE

MCNodes == {nodeA, nodeB, nodeC, nodeD, nodeE}
MCFoundable == {nodeA, nodeB, nodeD}
MCJoins == {[inputs |-> {nodeA, nodeB}, result |-> nodeC],
            [inputs |-> {nodeC, nodeD}, result |-> nodeE],
            [inputs |-> {nodeB, nodeC}, result |-> nodeC],
            [inputs |-> {nodeC, nodeD}, result |-> nodeA],
            [inputs |-> {nodeA, nodeD}, result |-> nodeB]}
MCMaps == {<<nodeC, nodeD>>}

=============================================================================
