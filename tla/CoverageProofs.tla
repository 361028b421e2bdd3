--------------------------- MODULE CoverageProofs ---------------------------
(***************************************************************************)
(* Proofs about the coverage fold, for every lattice, every set of signers *)
(* and every set of merges, cyclic ones included.                          *)
(*                                                                         *)
(* The properties speak about the moments between two attestations.  The   *)
(* inductive invariant says what holds inside a fold: a ready join that    *)
(* does not hold yet is either an edge still to be driven or reads a node  *)
(* still on the worklist.                                                  *)
(*                                                                         *)
(* The reference the rows are held against is an iteration.  It settles    *)
(* because a set that grows inside a finite set stops growing.             *)
(***************************************************************************)
EXTENDS Coverage, FiniteSetTheorems, WellFoundedInduction, TLAPS

(* Node n is on the worklist g. *)
OnWorklist(n, g) == \E i \in 1 .. Len(g) : g[i] = n

(* The join's contribution is in the rows and its inputs are consumed. *)
Settled(j, R, F) ==
    /\ j.result \in DOMAIN R
    /\ Support(j, R) \subseteq R[j.result]
    /\ \A i \in j.inputs : i # j.result => i \notin F

(* The worklist loop still owes this join a drive. *)
Pending(j) == j \in edges \/ \E i \in j.inputs : OnWorklist(i, grown)

FoundationsHaveRows == \A n \in Founded : n \in DOMAIN rows /\ n \in rows[n]

JoinsSettle ==
    \A j \in joins : Ready(j, rows) =>
        (Settled(j, rows, frontier) /\ j \notin blocked) \/ Pending(j)

UnreadyAreBlocked == \A j \in joins : ~Ready(j, rows) => j \in blocked

FrontierAccounts ==
    /\ frontier \subseteq DOMAIN rows
    /\ \A n \in DOMAIN rows : n \in frontier \/ Consumed(n, rows, joins)

IndInv ==
    /\ TypeOK
    /\ FoundationsHaveRows
    /\ JoinsSettle
    /\ UnreadyAreBlocked
    /\ FrontierAccounts

(* Pushing a node puts it, and nothing else, on the worklist. *)
LEMMA PushFacts ==
    ASSUME NEW g \in Seq(Nodes), NEW x \in Nodes
    PROVE  /\ Append(g, x) \in Seq(Nodes)
           /\ OnWorklist(x, Append(g, x))
           /\ \A n : OnWorklist(n, g) => OnWorklist(n, Append(g, x))
  <1>1. Len(Append(g, x)) = Len(g) + 1 /\ Len(g) \in Nat
    OBVIOUS
  <1>2. \A i \in 1 .. Len(g) : Append(g, x)[i] = g[i]
    OBVIOUS
  <1>3. Append(g, x)[Len(g) + 1] = x
    OBVIOUS
  <1> QED
    BY <1>1, <1>2, <1>3 DEF OnWorklist

(* A prefix of a worklist. *)
LEMMA PrefixFacts ==
    ASSUME NEW g \in Seq(Nodes), NEW k \in Nat, k <= Len(g)
    PROVE  /\ SubSeq(g, 1, k) \in Seq(Nodes)
           /\ Len(SubSeq(g, 1, k)) = k
           /\ \A i \in 1 .. k : SubSeq(g, 1, k)[i] = g[i]
  OBVIOUS

(* Popping the worklist removes at most the node on top. *)
LEMMA PopFacts ==
    ASSUME NEW g \in Seq(Nodes), g # <<>>
    PROVE  /\ SubSeq(g, 1, Len(g) - 1) \in Seq(Nodes)
           /\ g[Len(g)] \in Nodes
           /\ \A n : OnWorklist(n, g) =>
                 n = g[Len(g)] \/ OnWorklist(n, SubSeq(g, 1, Len(g) - 1))
  <1>1. Len(g) \in Nat /\ Len(g) > 0 /\ Len(g) - 1 \in Nat /\ Len(g) - 1 <= Len(g)
    OBVIOUS
  <1>2. /\ SubSeq(g, 1, Len(g) - 1) \in Seq(Nodes)
        /\ Len(SubSeq(g, 1, Len(g) - 1)) = Len(g) - 1
        /\ \A i \in 1 .. Len(g) - 1 : SubSeq(g, 1, Len(g) - 1)[i] = g[i]
    BY <1>1, PrefixFacts, Zenon
  <1> QED
    BY <1>1, <1>2 DEF OnWorklist

-----------------------------------------------------------------------------
(* The types of what a contribution assigns. *)
LEMMA ContributeTypes ==
    ASSUME TypeOK, NEW r \in Nodes, NEW c, NEW s \in SUBSET Nodes, NEW J,
           Contribute(r, c, s, J)
    PROVE  /\ DOMAIN rows' \subseteq Nodes
           /\ \A n \in DOMAIN rows' : rows'[n] \subseteq Nodes
           /\ frontier' \subseteq Nodes
           /\ grown' \in Seq(Nodes)
  <1>1. rows' = Widen(rows, r, s)
    BY DEF Contribute
  <1>2. DOMAIN rows' \subseteq Nodes /\ \A n \in DOMAIN rows' : rows'[n] \subseteq Nodes
    BY <1>1 DEF Widen, TypeOK
  <1>3. frontier' \subseteq Nodes
    BY DEF Contribute, AdvanceFrontier, TypeOK
  <1>4. grown' \in Seq(Nodes)
    BY PushFacts DEF Contribute, TypeOK
  <1> QED
    BY <1>2, <1>3, <1>4

(* The types of what driving a believed join assigns. *)
LEMMA DriveJoinTypes ==
    ASSUME TypeOK, NEW j \in Joins, NEW J, j \in J, joins \subseteq J, DriveJoin(j, J)
    PROVE  /\ DOMAIN rows' \subseteq Nodes
           /\ \A n \in DOMAIN rows' : rows'[n] \subseteq Nodes
           /\ frontier' \subseteq Nodes
           /\ grown' \in Seq(Nodes)
           /\ blocked' \subseteq J
  <1>1. j.result \in Nodes /\ j.inputs \subseteq Nodes
    BY JoinsAssumption
  <1>2. CASE Ready(j, rows) /\ Contribute(j.result, j.inputs, Support(j, rows), J)
             /\ blocked' = blocked \ {j}
    <2>1. Support(j, rows) \in SUBSET Nodes
      BY <1>2 DEF Support, Ready, TypeOK
    <2> QED
      BY <1>1, <1>2, <2>1, ContributeTypes, Zenon DEF TypeOK
  <1>3. CASE blocked' = blocked \cup {j} /\ UNCHANGED <<rows, frontier, grown>>
    BY <1>3 DEF TypeOK
  <1> QED
    BY <1>2, <1>3 DEF DriveJoin

(* Every action keeps the tables within their universes. *)
LEMMA TypeStep ==
    ASSUME TypeOK, [Next]_vars
    PROVE  TypeOK'
  <1>1. ASSUME NEW n \in Foundable, NEW s \in Signers, BelieveFoundation(n, s)
        PROVE  TypeOK'
    <2>1. n \in Nodes
      BY FoundableAssumption
    <2>2. DOMAIN rows' \subseteq Nodes /\ (\A m \in DOMAIN rows' : rows'[m] \subseteq Nodes)
          /\ frontier' \subseteq Nodes /\ grown' \in Seq(Nodes)
      BY <1>1, <2>1, ContributeTypes, Zenon DEF BelieveFoundation
    <2> QED
      BY <1>1, <2>2 DEF BelieveFoundation, TypeOK
  <1>2. ASSUME NEW l \in Locators, NEW n \in Foundable, NEW s \in Signers,
               BelieveLeaf(l, n, s)
        PROVE  TypeOK'
    <2>1. n \in Nodes
      BY FoundableAssumption
    <2>2. DOMAIN rows' \subseteq Nodes /\ (\A m \in DOMAIN rows' : rows'[m] \subseteq Nodes)
          /\ frontier' \subseteq Nodes /\ grown' \in Seq(Nodes)
      BY <1>2, <2>1, ContributeTypes, Zenon DEF BelieveLeaf
    <2> QED
      BY <1>2, <2>2 DEF BelieveLeaf, TypeOK
  <1>3. ASSUME NEW j \in Joins, BelieveJoin(j)
        PROVE  TypeOK'
    <2>1. joins' = joins \cup {j}
      BY <1>3 DEF BelieveJoin
    <2> QED
      BY <1>3, <2>1, DriveJoinTypes DEF BelieveJoin, TypeOK
  <1>4. ASSUME NEW m \in Maps, BelieveAttachment(m)
        PROVE  TypeOK'
    BY <1>4 DEF BelieveAttachment, TypeOK
  <1>5. CASE Pop
    BY <1>5, PopFacts DEF Pop, published, Consumers, TypeOK
  <1>6. ASSUME NEW j \in edges, DriveEdge(j)
        PROVE  TypeOK'
    <2>1. j \in Joins /\ j \in joins
      BY <1>6 DEF TypeOK
    <2> QED
      BY <1>6, <2>1, DriveJoinTypes DEF DriveEdge, TypeOK
  <1>7. CASE UNCHANGED vars
    BY <1>7 DEF vars, published, TypeOK
  <1> QED
    BY <1>1, <1>2, <1>3, <1>4, <1>5, <1>6, <1>7 DEF Next, Believe, Drain

(* The fold never leaves its universes, in the middle of a fold included.  *)
THEOREM TypesHold == Spec => []TypeOK
  <1>1. Init => TypeOK
    BY DEF Init, TypeOK
  <1> QED
    BY <1>1, TypeStep, PTL DEF Spec

-----------------------------------------------------------------------------
(* A contribution keeps what is on the worklist, and puts its result there *)
(* when its row grew.                                                      *)
LEMMA ContributeWorklist ==
    ASSUME TypeOK, NEW r \in Nodes, NEW c, NEW s, NEW J, Contribute(r, c, s, J)
    PROVE  /\ \A n : OnWorklist(n, grown) => OnWorklist(n, grown')
           /\ rows' = rows \/ OnWorklist(r, grown')
  <1>1. CASE rows' = rows
    BY <1>1 DEF Contribute
  <1>2. CASE rows' # rows
    <2>1. grown' = Append(grown, r) /\ grown \in Seq(Nodes)
      BY <1>2 DEF Contribute, TypeOK
    <2> QED
      BY <2>1, PushFacts
  <1> QED
    BY <1>1, <1>2

(* A contribution only adds rows: the result's, and nothing is narrowed. *)
LEMMA ContributeRows ==
    ASSUME NEW r, NEW c, NEW s, NEW J, Contribute(r, c, s, J)
    PROVE  /\ DOMAIN rows' = DOMAIN rows \cup {r}
           /\ \A n \in DOMAIN rows : rows[n] \subseteq rows'[n]
           /\ \A n \in DOMAIN rows : n # r => rows'[n] = rows[n]
           /\ s \subseteq rows'[r]
           /\ rows'[r] = (IF r \in DOMAIN rows THEN rows[r] ELSE {}) \cup s
  <1>1. rows' = Widen(rows, r, s)
    BY DEF Contribute
  <1> QED
    BY <1>1 DEF Widen

(* A settled join stays settled under a contribution to another join's     *)
(* result, unless it reads that result and the result is put on the        *)
(* worklist.                                                               *)
LEMMA SettledKept ==
    ASSUME TypeOK, NEW r \in Nodes, NEW c, NEW s, NEW J, joins \subseteq J,
           Contribute(r, c, s, J),
           NEW k \in joins, Ready(k, rows), Settled(k, rows, frontier)
    PROVE  \/ Settled(k, rows', frontier')
           \/ r \in k.inputs /\ OnWorklist(r, grown')
  <1>0. /\ DOMAIN rows' = DOMAIN rows \cup {r}
        /\ \A n \in DOMAIN rows : rows[n] \subseteq rows'[n]
        /\ \A n \in DOMAIN rows : n # r => rows'[n] = rows[n]
    BY ContributeRows, Zenon
  <1>1. SUFFICES ASSUME rows' = rows \/ r \notin k.inputs
                 PROVE  Settled(k, rows', frontier')
    BY ContributeWorklist
  <1>2. k.result \in DOMAIN rows' /\ rows[k.result] \subseteq rows'[k.result]
    BY <1>0 DEF Settled
  <1>3. \A i \in k.inputs : rows'[i] = rows[i]
    BY <1>0, <1>1 DEF Ready
  <1>4. Support(k, rows') \subseteq rows'[k.result]
    BY <1>2, <1>3 DEF Settled, Support
  <1>5. ASSUME NEW i \in k.inputs, i # k.result
        PROVE  i \notin frontier'
    <2>1. i \notin frontier
      BY <1>5 DEF Settled
    <2>2. CASE i = r
      <3>1. k.result \in DOMAIN rows' /\ k.inputs \ {r} \subseteq DOMAIN rows'
        BY <1>0, <1>2 DEF Ready
      <3>2. Consumed(r, rows', J)
        BY <1>5, <2>2, <3>1 DEF Consumed
      <3> QED
        BY <2>1, <2>2, <3>2 DEF Contribute, AdvanceFrontier
    <2>3. CASE i # r
      BY <2>1, <2>3 DEF Contribute, AdvanceFrontier
    <2> QED
      BY <2>2, <2>3
  <1> QED
    BY <1>2, <1>4, <1>5 DEF Settled

(* A join can only become ready by reading the result of a contribution    *)
(* that was put on the worklist.                                           *)
LEMMA ReadyKept ==
    ASSUME TypeOK, NEW r \in Nodes, NEW c, NEW s, NEW J, Contribute(r, c, s, J),
           NEW k, Ready(k, rows')
    PROVE  Ready(k, rows) \/ (r \in k.inputs /\ OnWorklist(r, grown'))
  <1>1. DOMAIN rows' = DOMAIN rows \cup {r}
    BY ContributeRows, Zenon
  <1>2. rows' = rows \/ OnWorklist(r, grown')
    BY ContributeWorklist, Zenon
  <1> QED
    BY <1>1, <1>2 DEF Ready

(* Consumption survives new rows and new joins. *)
LEMMA ConsumedKept ==
    ASSUME NEW n, NEW R, NEW Q, DOMAIN R \subseteq DOMAIN Q, NEW J, NEW K, J \subseteq K,
           Consumed(n, R, J)
    PROVE  Consumed(n, Q, K)
  BY DEF Consumed

(* A contribution whose consumed inputs a join of J really consumes keeps  *)
(* the account of the frontier.                                            *)
LEMMA FrontierKept ==
    ASSUME FrontierAccounts, NEW r, NEW c, NEW s, NEW J, joins \subseteq J,
           joins' = J, Contribute(r, c, s, J),
           \A i \in c : i # r => Consumed(i, rows', J)
    PROVE  FrontierAccounts'
  <1>0. /\ DOMAIN rows' = DOMAIN rows \cup {r}
        /\ \A n \in DOMAIN rows : rows[n] \subseteq rows'[n]
        /\ \A n \in DOMAIN rows : n # r => rows'[n] = rows[n]
    BY ContributeRows, Zenon
  <1>1. frontier' \subseteq DOMAIN rows'
    BY <1>0 DEF Contribute, AdvanceFrontier, FrontierAccounts
  <1>2. ASSUME NEW n \in DOMAIN rows'
        PROVE  n \in frontier' \/ Consumed(n, rows', joins')
    <2>1. CASE n = r
      BY <2>1 DEF Contribute, AdvanceFrontier
    <2>2. CASE n # r /\ n \in c
      BY <2>2
    <2>3. CASE n # r /\ n \notin c
      <3>1. n \in DOMAIN rows
        BY <1>0, <1>2, <2>3
      <3>2. CASE n \in frontier
        BY <2>3, <3>2 DEF Contribute, AdvanceFrontier
      <3>3. CASE Consumed(n, rows, joins)
        BY <1>0, <3>3, ConsumedKept
      <3> QED
        BY <3>1, <3>2, <3>3 DEF FrontierAccounts
    <2> QED
      BY <2>1, <2>2, <2>3
  <1> QED
    BY <1>1, <1>2 DEF FrontierAccounts

-----------------------------------------------------------------------------
(* A new foundation keeps the invariant: the joins that read it are put    *)
(* behind it on the worklist if its row grew.                              *)
LEMMA FoundationStep ==
    ASSUME IndInv, NEW r \in Nodes, Contribute(r, {}, {r}, joins),
           UNCHANGED <<blocked, joins, edges>>,
           Founded' = Founded \cup {r}
    PROVE  FoundationsHaveRows' /\ JoinsSettle' /\ UnreadyAreBlocked' /\ FrontierAccounts'
  <1>0. /\ DOMAIN rows' = DOMAIN rows \cup {r}
        /\ \A n \in DOMAIN rows : rows[n] \subseteq rows'[n]
        /\ {r} \subseteq rows'[r]
    BY ContributeRows, Zenon
  <1>1. FoundationsHaveRows'
    BY <1>0 DEF IndInv, FoundationsHaveRows
  <1>2. ASSUME NEW k \in joins', Ready(k, rows')
        PROVE  (Settled(k, rows', frontier') /\ k \notin blocked') \/ Pending(k)'
    <2>1. k \in joins /\ TypeOK
      BY <1>2 DEF IndInv
    <2>2. CASE r \in k.inputs /\ OnWorklist(r, grown')
      BY <2>2 DEF Pending
    <2>3. CASE Ready(k, rows) /\ Settled(k, rows, frontier) /\ k \notin blocked
      BY <2>1, <2>2, <2>3, SettledKept
    <2>4. CASE Pending(k)
      BY <2>1, <2>4, ContributeWorklist DEF Pending
    <2>5. Ready(k, rows) \/ (r \in k.inputs /\ OnWorklist(r, grown'))
      BY <1>2, <2>1, ReadyKept
    <2> QED
      BY <2>1, <2>2, <2>3, <2>4, <2>5 DEF IndInv, JoinsSettle
  <1>3. UnreadyAreBlocked'
    BY <1>0 DEF IndInv, UnreadyAreBlocked, Ready
  <1>4. FrontierAccounts'
    BY FrontierKept DEF IndInv
  <1> QED
    BY <1>1, <1>2, <1>3, <1>4 DEF JoinsSettle

(* After its drive a ready join is settled, a result among its own inputs  *)
(* included.                                                               *)
LEMMA DrivenIsSettled ==
    ASSUME NEW j, NEW J, Ready(j, rows),
           Contribute(j.result, j.inputs, Support(j, rows), J)
    PROVE  Settled(j, rows', frontier')
  <1>0. /\ DOMAIN rows' = DOMAIN rows \cup {j.result}
        /\ \A n \in DOMAIN rows : n # j.result => rows'[n] = rows[n]
        /\ Support(j, rows) \subseteq rows'[j.result]
    BY ContributeRows, Zenon
  <1>1. Support(j, rows') \subseteq rows'[j.result]
    BY <1>0 DEF Support, Ready
  <1>2. \A i \in j.inputs : i # j.result => i \notin frontier'
    BY DEF Contribute, AdvanceFrontier
  <1> QED
    BY <1>0, <1>1, <1>2 DEF Settled

(* Driving a believed join keeps the invariant, whether it was just        *)
(* believed or is an edge of a node that grew.                             *)
LEMMA DriveStep ==
    ASSUME IndInv, NEW j \in Joins, joins' = joins \cup {j}, DriveJoin(j, joins'),
           owners' = owners, edges \ {j} \subseteq edges'
    PROVE  FoundationsHaveRows' /\ JoinsSettle' /\ UnreadyAreBlocked' /\ FrontierAccounts'
  <1>1. CASE ~Ready(j, rows) /\ blocked' = blocked \cup {j}
             /\ UNCHANGED <<rows, frontier, grown>>
    <2>1. JoinsSettle'
      BY <1>1 DEF IndInv, JoinsSettle, Pending
    <2>2. FrontierAccounts'
      BY <1>1 DEF IndInv, FrontierAccounts, Consumed
    <2> QED
      BY <1>1, <2>1, <2>2 DEF IndInv, FoundationsHaveRows, Founded, UnreadyAreBlocked
  <1>2. CASE Ready(j, rows) /\ blocked' = blocked \ {j}
             /\ Contribute(j.result, j.inputs, Support(j, rows), joins')
    <2> DEFINE r == j.result
    <2>0. r \in Nodes /\ TypeOK /\ joins \subseteq joins'
      BY JoinsAssumption DEF IndInv
    <2>1. /\ DOMAIN rows' = DOMAIN rows \cup {r}
          /\ \A n \in DOMAIN rows : rows[n] \subseteq rows'[n]
      BY <1>2, ContributeRows, Zenon
    <2>2. FoundationsHaveRows'
      BY <2>1 DEF IndInv, FoundationsHaveRows, Founded
    <2>3. Settled(j, rows', frontier') /\ j \notin blocked'
      BY <1>2, DrivenIsSettled
    <2>4. ASSUME NEW k \in joins', Ready(k, rows'), k # j
          PROVE  (Settled(k, rows', frontier') /\ k \notin blocked') \/ Pending(k)'
      <3>1. k \in joins
        BY <2>4
      <3>2. CASE r \in k.inputs /\ OnWorklist(r, grown')
        BY <3>2 DEF Pending
      <3>3. CASE Ready(k, rows) /\ Settled(k, rows, frontier) /\ k \notin blocked
        BY <1>2, <2>0, <3>1, <3>2, <3>3, SettledKept
      <3>4. CASE Pending(k)
        BY <1>2, <2>0, <2>4, <3>4, ContributeWorklist DEF Pending
      <3>5. Ready(k, rows) \/ (r \in k.inputs /\ OnWorklist(r, grown'))
        BY <1>2, <2>0, <2>4, ReadyKept
      <3> QED
        BY <3>1, <3>2, <3>3, <3>4, <3>5 DEF IndInv, JoinsSettle
    <2>5. UnreadyAreBlocked'
      BY <1>2, <2>1 DEF IndInv, UnreadyAreBlocked, Ready
    <2>6. \A i \in j.inputs : i # r => Consumed(i, rows', joins')
      BY <1>2, <2>1 DEF Consumed, Ready
    <2>7. FrontierAccounts'
      BY <1>2, <2>0, <2>6, FrontierKept DEF IndInv
    <2> QED
      BY <2>2, <2>3, <2>4, <2>5, <2>7 DEF JoinsSettle
  <1> QED
    BY <1>1, <1>2 DEF DriveJoin

(* A new owner makes its node a foundation. *)
LEMMA FoundedGrows ==
    ASSUME NEW n, NEW s, owners' = owners \cup {<<n, s>>}
    PROVE  Founded' = Founded \cup {n}
  <1>1. <<n, s>>[1] = n
    OBVIOUS
  <1>2. Founded' = {o[1] : o \in owners \cup {<<n, s>>}}
    BY DEF Founded
  <1>3. {o[1] : o \in owners \cup {<<n, s>>}} = {o[1] : o \in owners} \cup {<<n, s>>[1]}
    BY Zenon
  <1> QED
    BY <1>1, <1>2, <1>3 DEF Founded

(* Every step keeps the inductive invariant. *)
LEMMA IndStep ==
    ASSUME IndInv, [Next]_vars
    PROVE  IndInv'
  <1>0. TypeOK'
    BY TypeStep DEF IndInv
  <1>1. ASSUME NEW n \in Foundable, NEW s \in Signers, BelieveFoundation(n, s)
        PROVE  IndInv'
    <2>1. n \in Nodes
      BY FoundableAssumption
    <2>2. Founded' = Founded \cup {n}
      BY <1>1, FoundedGrows, Zenon DEF BelieveFoundation
    <2> QED
      BY <1>0, <1>1, <2>1, <2>2, FoundationStep DEF BelieveFoundation, IndInv
  <1>2. ASSUME NEW l \in Locators, NEW n \in Foundable, NEW s \in Signers,
               BelieveLeaf(l, n, s)
        PROVE  IndInv'
    <2>1. n \in Nodes
      BY FoundableAssumption
    <2>2. Founded' = Founded \cup {n}
      BY <1>2, FoundedGrows DEF BelieveLeaf
    <2> QED
      BY <1>0, <1>2, <2>1, <2>2, FoundationStep DEF BelieveLeaf, IndInv
  <1>3. ASSUME NEW j \in Joins, BelieveJoin(j)
        PROVE  IndInv'
    BY <1>0, <1>3, DriveStep DEF BelieveJoin, IndInv
  <1>4. ASSUME NEW m \in Maps, BelieveAttachment(m)
        PROVE  IndInv'
    BY <1>0, <1>4 DEF BelieveAttachment, IndInv, FoundationsHaveRows, Founded,
       JoinsSettle, Pending, UnreadyAreBlocked, FrontierAccounts
  <1>5. CASE Pop
    <2>1. /\ UNCHANGED published
          /\ edges = {}
          /\ edges' = {j \in joins : grown[Len(grown)] \in j.inputs}
      BY <1>5 DEF Pop, Consumers
    <2>2. \A n : OnWorklist(n, grown) => n = grown[Len(grown)] \/ OnWorklist(n, grown')
      BY <1>5, PopFacts DEF Pop, IndInv, TypeOK
    <2>3. \A j \in joins : Pending(j) => Pending(j)'
      BY <2>1, <2>2 DEF Pending
    <2>4. JoinsSettle'
      BY <2>1, <2>3 DEF IndInv, JoinsSettle, published
    <2> QED
      BY <1>0, <2>1, <2>4 DEF IndInv, published, FoundationsHaveRows, Founded,
         UnreadyAreBlocked, FrontierAccounts
  <1>6. ASSUME NEW j \in edges, DriveEdge(j)
        PROVE  IndInv'
    <2>1. j \in Joins /\ joins' = joins \cup {j} /\ joins' = joins
      BY <1>6 DEF DriveEdge, IndInv, TypeOK
    <2> QED
      BY <1>0, <1>6, <2>1, DriveStep DEF DriveEdge, IndInv
  <1>7. CASE UNCHANGED vars
    BY <1>0, <1>7 DEF vars, published, IndInv, FoundationsHaveRows, Founded,
       JoinsSettle, Pending, UnreadyAreBlocked, FrontierAccounts
  <1> QED
    BY <1>1, <1>2, <1>3, <1>4, <1>5, <1>6, <1>7 DEF Next, Believe, Drain

(* The fold's inductive invariant holds in every reachable state. *)
THEOREM FoldInvariant == Spec => []IndInv
  <1>1. Init => IndInv
    BY DEF Init, IndInv, TypeOK, FoundationsHaveRows, Founded, JoinsSettle,
       UnreadyAreBlocked, FrontierAccounts
  <1> QED
    BY <1>1, IndStep, PTL DEF Spec

(* Between two attestations nothing is pending. *)
LEMMA NothingPending ==
    ASSUME IndInv, Idle
    PROVE  \A j \in joins : Ready(j, rows) => Settled(j, rows, frontier) /\ j \notin blocked
  <1>1. \A n : ~OnWorklist(n, grown)
    BY DEF Idle, OnWorklist
  <1>2. \A j : ~Pending(j)
    BY <1>1 DEF Idle, Pending
  <1> QED
    BY <1>2 DEF IndInv, JoinsSettle

(* Between two attestations nothing is missing from the rows: `believe`    *)
(* has driven every join that is ready, however late its inputs came.      *)
THEOREM RowsClosed == Spec => []RowsAreClosed
  <1>1. IndInv => RowsAreClosed
    BY NothingPending DEF RowsAreClosed, Closed, Settled, IndInv, FoundationsHaveRows
  <1> QED
    BY <1>1, FoldInvariant, PTL

(* Between two attestations `blocked` marks exactly the joins that could   *)
(* not be driven, so `producers` offers exactly the driven ones.           *)
THEOREM BlockedExact == Spec => []BlockedIsExact
  <1>1. IndInv => BlockedIsExact
    BY NothingPending DEF BlockedIsExact, IndInv, UnreadyAreBlocked, TypeOK
  <1> QED
    BY <1>1, FoldInvariant, PTL

(* Between two attestations the frontier is the unconsumed nodes: a merge  *)
(* that arrived before or after its inputs leaves the same frontier.       *)
THEOREM FrontierUnconsumed == Spec => []FrontierIsUnconsumed
  <1>1. ASSUME IndInv, Idle
        PROVE  frontier = {n \in DOMAIN rows :
                   ~\E j \in joins : Ready(j, rows) /\ n \in j.inputs /\ j.result # n}
    <2>1. ASSUME NEW n \in frontier, NEW j \in joins, Ready(j, rows), n \in j.inputs,
                 j.result # n
          PROVE  FALSE
      BY <1>1, <2>1, NothingPending DEF Settled
    <2>2. ASSUME NEW n \in DOMAIN rows, n \notin frontier
          PROVE  \E j \in joins : Ready(j, rows) /\ n \in j.inputs /\ j.result # n
      BY <1>1, <2>2 DEF IndInv, FrontierAccounts, Consumed, Ready
    <2> QED
      BY <1>1, <2>1, <2>2 DEF IndInv, FrontierAccounts
  <1>2. IndInv => FrontierIsUnconsumed
    BY <1>1 DEF FrontierIsUnconsumed
  <1> QED
    BY <1>2, FoldInvariant, PTL

-----------------------------------------------------------------------------
(* What each step can do to the rows: nothing, or one contribution of a    *)
(* foundation just believed or of a ready believed join.                   *)
LEMMA RowStep ==
    ASSUME TypeOK, [Next]_vars
    PROVE  /\ Founded \subseteq Founded' /\ joins \subseteq joins'
           /\ \/ rows' = rows
              \/ \E n \in Founded' : Contribute(n, {}, {n}, joins)
              \/ \E j \in joins' : /\ Ready(j, rows)
                                   /\ Contribute(j.result, j.inputs, Support(j, rows), joins')
  <1>1. ASSUME NEW n \in Foundable, NEW s \in Signers, BelieveFoundation(n, s)
        PROVE  /\ Founded' = Founded \cup {n} /\ joins' = joins
               /\ Contribute(n, {}, {n}, joins)
    BY <1>1, FoundedGrows DEF BelieveFoundation
  <1>2. ASSUME NEW l \in Locators, NEW n \in Foundable, NEW s \in Signers,
               BelieveLeaf(l, n, s)
        PROVE  /\ Founded' = Founded \cup {n} /\ joins' = joins
               /\ Contribute(n, {}, {n}, joins)
    BY <1>2, FoundedGrows DEF BelieveLeaf
  <1>3. ASSUME NEW j, DriveJoin(j, joins')
        PROVE  \/ rows' = rows
               \/ Ready(j, rows) /\ Contribute(j.result, j.inputs, Support(j, rows), joins')
    BY <1>3 DEF DriveJoin
  <1>4. ASSUME NEW j \in Joins, BelieveJoin(j)
        PROVE  Founded' = Founded /\ joins' = joins \cup {j} /\ DriveJoin(j, joins')
    BY <1>4 DEF BelieveJoin, Founded
  <1>5. ASSUME NEW m \in Maps, BelieveAttachment(m)
        PROVE  Founded' = Founded /\ joins' = joins /\ rows' = rows
    BY <1>5 DEF BelieveAttachment, Founded
  <1>6. CASE Pop
    BY <1>6 DEF Pop, published, Founded
  <1>7. ASSUME NEW j \in edges, DriveEdge(j)
        PROVE  Founded' = Founded /\ joins' = joins /\ j \in joins' /\ DriveJoin(j, joins')
    BY <1>7 DEF DriveEdge, Founded, TypeOK
  <1>8. CASE UNCHANGED vars
    BY <1>8 DEF vars, published, Founded
  <1> QED
    BY <1>1, <1>2, <1>3, <1>4, <1>5, <1>6, <1>7, <1>8, Zenon DEF Next, Believe, Drain

(* Support a reader has seen of a node is never taken back. *)
THEOREM RowsGrow == Spec => RowsOnlyGrow
  <1>1. ASSUME TypeOK, [Next]_vars
        PROVE  /\ DOMAIN rows \subseteq DOMAIN rows'
               /\ \A n \in DOMAIN rows : rows[n] \subseteq rows'[n]
    <2>1. ASSUME NEW r, NEW c, NEW s, NEW J, Contribute(r, c, s, J)
          PROVE  /\ DOMAIN rows \subseteq DOMAIN rows'
                 /\ \A n \in DOMAIN rows : rows[n] \subseteq rows'[n]
      BY <2>1, ContributeRows, Zenon
    <2> QED
      BY <1>1, <2>1, RowStep, Zenon
  <1> QED
    BY <1>1, TypesHold, PTL DEF Spec, RowsOnlyGrow

(* In the middle of a fold, too, a row names believed foundations only. *)
THEOREM NothingIsInjected == Spec => []NothingInjected
  <1>1. Init => NothingInjected
    BY DEF Init, NothingInjected
  <1>2. ASSUME TypeOK, NothingInjected, [Next]_vars
        PROVE  NothingInjected'
    <2>1. Founded \subseteq Founded'
      BY <1>2, RowStep
    <2>2. CASE rows' = rows
      BY <1>2, <2>1, <2>2 DEF NothingInjected
    <2>3. ASSUME NEW r, NEW c, NEW s, NEW J, Contribute(r, c, s, J), s \subseteq Founded'
          PROVE  NothingInjected'
      <3>1. rows' = Widen(rows, r, s)
        BY <2>3 DEF Contribute
      <3> QED
        BY <1>2, <2>1, <2>3, <3>1 DEF NothingInjected, Widen
    <2>4. ASSUME NEW n \in Founded', Contribute(n, {}, {n}, joins)
          PROVE  NothingInjected'
      BY <2>3, <2>4
    <2>5. ASSUME NEW j \in joins', Ready(j, rows),
                 Contribute(j.result, j.inputs, Support(j, rows), joins')
          PROVE  NothingInjected'
      <3>1. Support(j, rows) \subseteq Founded'
        BY <1>2, <2>1, <2>5 DEF NothingInjected, Support, Ready
      <3> QED
        BY <2>3, <2>5, <3>1
    <2> QED
      BY <1>2, <2>2, <2>4, <2>5, RowStep, Zenon
  <1> QED
    BY <1>1, <1>2, TypesHold, PTL DEF Spec

-----------------------------------------------------------------------------
(* The rows lie below every table closed under the believed attestations. *)
RowsAreBelow == \A T : Closed(T) => Below(T)

(* The rows never say more than any table that holds what the believed     *)
(* attestations say.  With RowsClosed: between two attestations the rows   *)
(* are the least such table, so they are a function of the believed SET    *)
(* and two stores that believe the same attestations in different orders   *)
(* have the same rows.                                                     *)
THEOREM RowsAreLeast == Spec => []RowsAreBelow
  <1>1. Init => RowsAreBelow
    BY DEF Init, Below, RowsAreBelow
  <1>2. ASSUME TypeOK, RowsAreBelow, [Next]_vars
        PROVE  RowsAreBelow'
    <2>1. SUFFICES ASSUME NEW T, Closed(T)'
                   PROVE  Below(T)'
      BY Zenon DEF RowsAreBelow
    <2>2. Founded \subseteq Founded' /\ joins \subseteq joins'
      BY <1>2, RowStep
    <2>3. /\ \A n \in Founded' : n \in DOMAIN T /\ n \in T[n]
          /\ \A j \in joins' : Ready(j, T) => /\ j.result \in DOMAIN T
                                              /\ Support(j, T) \subseteq T[j.result]
      BY <2>1 DEF Closed, Ready, Support
    <2>4. Closed(T)
      BY <2>2, <2>3 DEF Closed
    <2>5. DOMAIN rows \subseteq DOMAIN T /\ \A n \in DOMAIN rows : rows[n] \subseteq T[n]
      BY <1>2, <2>4 DEF Below, RowsAreBelow
    <2>6. CASE rows' = rows
      BY <2>5, <2>6 DEF Below
    <2>7. ASSUME NEW r \in DOMAIN T, NEW c, NEW s, s \subseteq T[r], NEW J,
                 Contribute(r, c, s, J)
          PROVE  Below(T)'
      <3>1. rows' = Widen(rows, r, s)
        BY <2>7 DEF Contribute
      <3> QED
        BY <2>5, <2>7, <3>1 DEF Below, Widen
    <2>8. ASSUME NEW n \in Founded', Contribute(n, {}, {n}, joins)
          PROVE  Below(T)'
      BY <2>3, <2>7, <2>8
    <2>9. ASSUME NEW j \in joins', Ready(j, rows),
                 Contribute(j.result, j.inputs, Support(j, rows), joins')
          PROVE  Below(T)'
      <3>1. Ready(j, T)
        BY <2>5, <2>9 DEF Ready
      <3>2. Support(j, rows) \subseteq Support(j, T)
        BY <2>5, <2>9 DEF Support, Ready
      <3>3. j.result \in DOMAIN T /\ Support(j, rows) \subseteq T[j.result]
        BY <2>3, <2>9, <3>1, <3>2
      <3> QED
        BY <2>7, <2>9, <3>3
    <2> QED
      BY <1>2, <2>6, <2>8, <2>9, RowStep, Zenon
  <1> QED
    BY <1>1, <1>2, TypesHold, PTL DEF Spec

-----------------------------------------------------------------------------
(* Attaching the frontier stands for every believed foundation and nothing *)
(* else, whatever was believed in whatever order, as long as the believed  *)
(* merges form no cycle: the last node of the merges that carry a          *)
(* foundation is on the frontier.                                          *)
THEOREM FrontierCovers == Spec => []FrontierCoversAll
  <1>1. ASSUME TypeOK, RowsAreClosed, FrontierIsUnconsumed, NothingInjected, Idle, Acyclic
        PROVE  FrontierSupport = Founded
    <2>1. frontier \subseteq DOMAIN rows
      BY <1>1 DEF FrontierIsUnconsumed
    <2>2. FrontierSupport \subseteq Founded
      BY <1>1, <2>1 DEF FrontierSupport, NothingInjected
    <2>3. ASSUME NEW x \in Founded
          PROVE  x \in FrontierSupport
      <3> DEFINE S == {n \in DOMAIN rows : x \in rows[n]}
      <3>1. x \in S
        BY <1>1, <2>3 DEF RowsAreClosed, Closed
      <3>2. S \subseteq Nodes
        BY <1>1 DEF TypeOK
      <3>3. PICK n \in S : \A j \in joins : n \in j.inputs /\ j.result # n => j.result \notin S
        BY <1>1, <3>1, <3>2, Zenon DEF Acyclic
      <3>4. CASE n \in frontier
        BY <3>3, <3>4 DEF FrontierSupport
      <3>5. CASE n \notin frontier
        <4>1. PICK j \in joins : Ready(j, rows) /\ n \in j.inputs /\ j.result # n
          BY <1>1, <3>3, <3>5 DEF FrontierIsUnconsumed
        <4>2. j.result \in DOMAIN rows /\ Support(j, rows) \subseteq rows[j.result]
          BY <1>1, <4>1 DEF RowsAreClosed, Closed
        <4>3. j.result \in S
          BY <3>3, <4>1, <4>2 DEF Support
        <4> QED
          BY <3>3, <4>1, <4>3
      <3> QED
        BY <3>4, <3>5
    <2> QED
      BY <2>2, <2>3
  <1>2. TypeOK /\ RowsAreClosed /\ FrontierIsUnconsumed /\ NothingInjected
            => FrontierCoversAll
    BY <1>1 DEF FrontierCoversAll
  <1> QED
    BY <1>2, TypesHold, RowsClosed, FrontierUnconsumed, NothingIsInjected, PTL

(* Both halves of what readers attach: the frontier is the unconsumed      *)
(* nodes, and without a cycle it stands for the believed foundations.      *)
THEOREM FrontierExact == Spec => []FrontierIsExact
  <1>1. FrontierIsUnconsumed /\ FrontierCoversAll => FrontierIsExact
    BY DEF FrontierIsExact
  <1> QED
    BY <1>1, FrontierUnconsumed, FrontierCovers, PTL

-----------------------------------------------------------------------------
(* The rounds of the reference *)

(* A nonempty set of natural numbers has a least element. *)
LEMMA LeastNumber ==
    ASSUME NEW S \in SUBSET Nat, S # {}
    PROVE  \E n \in S : \A m \in S : n <= m
  <1> DEFINE R == OpToRel(<, Nat)
  <1>1. \A x, y \in Nat : x < y => <<x, y>> \in R
    BY DEF OpToRel
  <1>2. IsWellFoundedOn(R, Nat)
    BY NatLessThanWellFounded, Zenon
  <1> HIDE DEF R
  <1>3. PICK x \in S : \A y \in S : ~(<<y, x>> \in R)
    BY <1>2, WFMin, Zenon
  <1>4. \A y \in S : ~(y < x)
    BY <1>1, <1>3, Zenon
  <1> QED
    BY <1>4

(* Induction up to m: a set that holds 0 and, with a number, the next. *)
LEMMA CountingUp ==
    ASSUME NEW m \in Nat, NEW S, 0 \in S, \A k \in 0 .. m : k < m /\ k \in S => k + 1 \in S
    PROVE  \A k \in 0 .. m : k \in S
  <1> DEFINE Bad == {k \in 0 .. m : k \notin S}
  <1>1. SUFFICES ASSUME Bad # {} PROVE FALSE
    BY Zenon
  <1>2. Bad \in SUBSET Nat
    OBVIOUS
  <1>3. PICK n \in Bad : \A l \in Bad : n <= l
    BY <1>1, <1>2, LeastNumber, Zenon
  <1>4. n \in 0 .. m /\ n \notin S
    BY <1>3, Zenon
  <1>5. n # 0
    BY <1>4, Zenon
  <1>6. n - 1 \in 0 .. m /\ n - 1 < m /\ ~(n <= n - 1) /\ (n - 1) + 1 = n
    BY <1>4, <1>5
  <1>7. n - 1 \in S
    BY <1>3, <1>6, Zenon
  <1> QED
    BY <1>4, <1>6, <1>7, Zenon

Nothing == [n \in {} |-> {}]
IsChain(g, m) == g = [k \in 0 .. m |-> IF k = 0 THEN Nothing ELSE Round(g[k - 1])]

(* Rounds can be repeated as often as one likes. *)
LEMMA ChainsExist ==
    ASSUME NEW m \in Nat
    PROVE  \E g : IsChain(g, m)
  <1> DEFINE S == {k \in Nat : \E g : IsChain(g, k)}
  <1>1. 0 \in S
    <2> DEFINE g == [k \in 0 .. 0 |-> Nothing]
    <2>1. \A k \in 0 .. 0 : k = 0
      OBVIOUS
    <2>2. g = [k \in 0 .. 0 |-> IF k = 0 THEN Nothing ELSE Round(g[k - 1])]
      BY <2>1, Zenon
    <2> HIDE DEF g
    <2> QED
      BY <2>2, Zenon DEF IsChain
  <1>2. ASSUME NEW k \in Nat, k \in S
        PROVE  k + 1 \in S
    <2>1. PICK h : IsChain(h, k)
      BY <1>2, Zenon
    <2> DEFINE g == [i \in 0 .. k + 1 |-> IF i = k + 1 THEN Round(h[k]) ELSE h[i]]
    <2>2. ASSUME NEW i \in 0 .. k + 1
          PROVE  g[i] = IF i = 0 THEN Nothing ELSE Round(g[i - 1])
      <3>1. \A j \in 0 .. k : h[j] = IF j = 0 THEN Nothing ELSE Round(h[j - 1])
        BY <2>1, Zenon DEF IsChain
      <3>2. CASE i = k + 1
        <4>1. i - 1 \in 0 .. k + 1 /\ i - 1 = k /\ k # k + 1 /\ i # 0
          BY <3>2
        <4>2. g[i - 1] = h[k]
          BY <4>1, Zenon
        <4> QED
          BY <3>2, <4>1, <4>2, Zenon
      <3>3. CASE i # k + 1
        <4>1. i \in 0 .. k /\ (i # 0 => i - 1 \in 0 .. k + 1 /\ i - 1 # k + 1)
          BY <3>3
        <4>2. g[i] = h[i] /\ (i # 0 => g[i - 1] = h[i - 1])
          BY <3>3, <4>1, Zenon
        <4> QED
          BY <3>1, <4>1, <4>2, Zenon
      <3> QED
        BY <3>2, <3>3, Zenon
    <2>3. g = [i \in 0 .. k + 1 |-> g[i]]
      BY Zenon
    <2> HIDE DEF g
    <2>4. IsChain(g, k + 1)
      BY <2>2, <2>3, Zenon DEF IsChain
    <2>5. k + 1 \in Nat
      OBVIOUS
    <2> QED
      BY <2>4, <2>5, Zenon
  <1> HIDE DEF S
  <1>3. \A k \in 0 .. m : k < m /\ k \in S => k + 1 \in S
    BY <1>2
  <1>4. m \in 0 .. m
    OBVIOUS
  <1>5. m \in S
    BY <1>1, <1>3, <1>4, CountingUp, Zenon
  <1> QED
    BY <1>5, Zenon DEF S

(* The reference is the last of twice as many rounds as there are nodes. *)
LEMMA DenotationEnds ==
    ASSUME NEW last \in Nat, last = 2 * Cardinality(Nodes)
    PROVE  \E g : IsChain(g, last) /\ Denotation = g[last]
  <1> DEFINE after == CHOOSE g : g = [k \in 0 .. last |->
                                        IF k = 0 THEN Nothing ELSE Round(g[k - 1])]
  <1>1. Denotation = after[last]
    BY Zenon DEF Denotation, Nothing
  <1>2. \E g : g = [k \in 0 .. last |-> IF k = 0 THEN Nothing ELSE Round(g[k - 1])]
    BY ChainsExist, Zenon DEF IsChain
  <1>3. after = [k \in 0 .. last |-> IF k = 0 THEN Nothing ELSE Round(after[k - 1])]
    BY <1>2, Zenon
  <1> HIDE DEF after
  <1> QED
    BY <1>1, <1>3, Zenon DEF IsChain

IsTable(R) == DOMAIN R \subseteq Nodes /\ \A n \in DOMAIN R : R[n] \subseteq Nodes

(* The nodes whose row holds foundation f. *)
Reached(R, f) == {n \in DOMAIN R : f \in R[n]}

(* Another round gives no node a row; it puts f into no row. *)
Steady(R) == DOMAIN Round(R) = DOMAIN R
Still(R, f) == Reached(Round(R), f) = Reached(R, f)

(* What a round adds to a table. *)
LEMMA RoundFacts ==
    ASSUME TypeOK, NEW R, IsTable(R)
    PROVE  /\ IsTable(Round(R))
           /\ DOMAIN Round(R) = DOMAIN R \cup Founded \cup {j.result : j \in {d \in joins : Ready(d, R)}}
           /\ \A n \in DOMAIN R : R[n] \subseteq Round(R)[n]
           /\ \A f : Reached(Round(R), f) = Reached(R, f) \cup ({f} \cap Founded) \cup
                 {j.result : j \in {d \in joins : Ready(d, R) /\ d.inputs \cap Reached(R, f) # {}}}
  <1> DEFINE driven == {j \in joins : Ready(j, R)}
             D == DOMAIN R \cup Founded \cup {j.result : j \in driven}
             row(n) == (IF n \in DOMAIN R THEN R[n] ELSE {})
                          \cup ({n} \cap Founded)
                          \cup UNION {Support(j, R) : j \in {d \in driven : d.result = n}}
             via(n, f) == \E d \in driven : d.result = n /\ d.inputs \cap Reached(R, f) # {}
  <1>1. Round(R) = [n \in D |-> row(n)]
    BY Zenon DEF Round
  <1>2. DOMAIN Round(R) = D /\ \A n \in D : Round(R)[n] = row(n)
    BY <1>1, Zenon
  <1>3. Founded \subseteq Nodes
    BY FoundableAssumption DEF TypeOK, Founded
  <1>4. \A j \in joins : j.result \in Nodes /\ j.inputs \subseteq Nodes
    BY JoinsAssumption DEF TypeOK
  <1>5. D \subseteq Nodes
    BY <1>3, <1>4 DEF IsTable
  <1>6. \A j \in driven : Support(j, R) \subseteq Nodes
    BY DEF Support, Ready, IsTable
  <1>7. \A n \in D : row(n) \subseteq Nodes
    <2>1. ASSUME NEW n \in D, NEW x \in row(n) PROVE x \in Nodes
      <3>1. CASE x \in (IF n \in DOMAIN R THEN R[n] ELSE {})
        BY <3>1 DEF IsTable
      <3>2. CASE x \in {n} \cap Founded
        BY <1>3, <3>2
      <3>3. CASE x \in UNION {Support(j, R) : j \in {d \in driven : d.result = n}}
        <4>1. PICK j \in driven : x \in Support(j, R)
          BY <3>3, Zenon
        <4> QED
          BY <1>6, <4>1, Zenon
      <3> QED
        BY <2>1, <3>1, <3>2, <3>3, Zenon
    <2> HIDE DEF row, D
    <2> QED
      BY <2>1
  <1>8. \A n \in DOMAIN R : n \in D /\ R[n] \subseteq row(n)
    BY Zenon
  <1>9. ASSUME NEW f, NEW n \in D
        PROVE  f \in row(n) <=> \/ n \in Reached(R, f)
                                \/ n = f /\ f \in Founded
                                \/ via(n, f)
    <2>1. ASSUME NEW d \in driven
          PROVE  f \in Support(d, R) <=> d.inputs \cap Reached(R, f) # {}
      BY DEF Support, Reached, Ready
    <2>2. f \in UNION {Support(j, R) : j \in {d \in driven : d.result = n}}
            <=> \E d \in driven : d.result = n /\ f \in Support(d, R)
      BY Zenon
    <2>3. f \in (IF n \in DOMAIN R THEN R[n] ELSE {}) <=> n \in Reached(R, f)
      BY Zenon DEF Reached
    <2> HIDE DEF driven
    <2> QED
      BY <2>1, <2>2, <2>3, Zenon
  <1>10. ASSUME NEW f
         PROVE  Reached(Round(R), f) = Reached(R, f) \cup ({f} \cap Founded) \cup
                  {j.result : j \in {d \in joins : Ready(d, R) /\ d.inputs \cap Reached(R, f) # {}}}
    <2> DEFINE X == {j.result : j \in {d \in joins : Ready(d, R) /\ d.inputs \cap Reached(R, f) # {}}}
    <2>1. \A n : n \in X <=> via(n, f)
      BY Zenon
    <2>2. \A n : n \in Reached(Round(R), f) <=> n \in D /\ f \in row(n)
      BY <1>2, Zenon DEF Reached
    <2>3. Reached(R, f) \subseteq D /\ Founded \subseteq D /\ X \subseteq D
      <3>1. X \subseteq {j.result : j \in driven}
        BY Zenon
      <3>2. Reached(R, f) \subseteq DOMAIN R
        BY Zenon DEF Reached
      <3> HIDE DEF X, driven
      <3> QED
        BY <3>1, <3>2, Zenon
    <2> HIDE DEF X, D, row, driven, via
    <2>4. ASSUME NEW n
          PROVE  n \in Reached(Round(R), f)
                   <=> n \in Reached(R, f) \/ n \in {f} \cap Founded \/ n \in X
      <3>1. n \in {f} \cap Founded <=> n = f /\ f \in Founded
        OBVIOUS
      <3>2. CASE n \in D
        <4>1. f \in row(n) <=> (n \in Reached(R, f) \/ (n = f /\ f \in Founded) \/ via(n, f))
          BY <1>9, <3>2, Zenon
        <4> QED
          BY <2>1, <2>2, <3>1, <3>2, <4>1, Zenon
      <3>3. CASE n \notin D
        BY <2>2, <2>3, <3>3, Zenon
      <3> QED
        BY <3>2, <3>3, Zenon
    <2>5. Reached(Round(R), f) = Reached(R, f) \cup ({f} \cap Founded) \cup X
      BY <2>4
    <2> QED
      BY <2>5 DEF X
  <1> HIDE DEF row
  <1>11. \A n \in DOMAIN R : R[n] \subseteq Round(R)[n]
    <2> HIDE DEF D
    <2> QED
      BY <1>2, <1>8, Zenon
  <1>12. IsTable(Round(R))
    <2> HIDE DEF D
    <2> QED
      BY <1>2, <1>5, <1>7, Zenon DEF IsTable
  <1> QED
    BY <1>2, <1>10, <1>11, <1>12, Zenon

(* Once no node gets a row the next round gives none either, and from then  *)
(* on so it is with every foundation.                                       *)
LEMMA RestLasts ==
    ASSUME TypeOK, NEW R, IsTable(R), Steady(R)
    PROVE  Steady(Round(R)) /\ \A f : Still(R, f) => Still(Round(R), f)
  <1> DEFINE Q == Round(R)
  <1>1. IsTable(Q) /\ DOMAIN Q = DOMAIN R
    BY RoundFacts, Zenon DEF Steady
  <1>2. \A d : Ready(d, Q) <=> Ready(d, R)
    BY <1>1, Zenon DEF Ready
  <1>3. /\ DOMAIN Q = DOMAIN R \cup Founded \cup {j.result : j \in {d \in joins : Ready(d, R)}}
        /\ \A f : Reached(Q, f) = Reached(R, f) \cup ({f} \cap Founded) \cup
              {j.result : j \in {d \in joins : Ready(d, R) /\ d.inputs \cap Reached(R, f) # {}}}
    BY RoundFacts, Zenon
  <1> HIDE DEF Q
  <1>4. /\ DOMAIN Round(Q) = DOMAIN Q \cup Founded \cup {j.result : j \in {d \in joins : Ready(d, Q)}}
        /\ \A f : Reached(Round(Q), f) = Reached(Q, f) \cup ({f} \cap Founded) \cup
              {j.result : j \in {d \in joins : Ready(d, Q) /\ d.inputs \cap Reached(Q, f) # {}}}
    BY <1>1, RoundFacts, Zenon
  <1>5. {d \in joins : Ready(d, Q)} = {d \in joins : Ready(d, R)}
    BY <1>2, Zenon
  <1>6. DOMAIN Round(Q) = DOMAIN Q
    BY <1>1, <1>3, <1>4, <1>5, Zenon
  <1>7. ASSUME NEW f, Reached(Q, f) = Reached(R, f)
        PROVE  Reached(Round(Q), f) = Reached(Q, f)
    <2>1. {d \in joins : Ready(d, Q) /\ d.inputs \cap Reached(Q, f) # {}}
            = {d \in joins : Ready(d, R) /\ d.inputs \cap Reached(R, f) # {}}
      BY <1>2, <1>7, Zenon
    <2> QED
      BY <1>3, <1>4, <1>7, <2>1, Zenon
  <1> QED
    BY <1>6, <1>7, Zenon DEF Steady, Still, Q

(* A table that a round leaves as it is holds what the believed             *)
(* attestations say.                                                        *)
LEMMA RestCloses ==
    ASSUME TypeOK, NEW R, IsTable(R), Steady(R), \A f : Still(R, f)
    PROVE  Closed(R)
  <1>1. /\ DOMAIN R = DOMAIN R \cup Founded \cup {j.result : j \in {d \in joins : Ready(d, R)}}
        /\ \A f : Reached(R, f) = Reached(R, f) \cup ({f} \cap Founded) \cup
              {j.result : j \in {d \in joins : Ready(d, R) /\ d.inputs \cap Reached(R, f) # {}}}
    BY RoundFacts, Zenon DEF Steady, Still
  <1>2. ASSUME NEW n \in Founded PROVE n \in DOMAIN R /\ n \in R[n]
    <2>1. n \in Reached(R, n)
      BY <1>1
    <2> QED
      BY <2>1, Zenon DEF Reached
  <1>3. ASSUME NEW j \in joins, Ready(j, R)
        PROVE  j.result \in DOMAIN R /\ Support(j, R) \subseteq R[j.result]
    <2>1. j.result \in DOMAIN R
      BY <1>1, <1>3
    <2>2. ASSUME NEW f \in Support(j, R) PROVE f \in R[j.result]
      <3>1. j.inputs \cap Reached(R, f) # {}
        BY <1>3 DEF Support, Reached, Ready
      <3>2. j.result \in {i.result : i \in {d \in joins : Ready(d, R) /\ d.inputs \cap Reached(R, f) # {}}}
        BY <1>3, <3>1, Zenon
      <3>3. j.result \in Reached(R, f)
        BY <1>1, <3>2
      <3> QED
        BY <3>3, Zenon DEF Reached
    <2> QED
      BY <2>1, <2>2, Zenon
  <1> QED
    BY <1>2, <1>3, Zenon DEF Closed

(* N + 1 steps of sets that grow inside S, and stay as they are once a step *)
(* adds nothing.                                                            *)
GrowsWithin(D, N, S) ==
    /\ \A k \in 0 .. N + 1 : D[k] \subseteq S
    /\ \A k \in 0 .. N : D[k] \subseteq D[k + 1]
    /\ \A k \in 0 .. N : k < N /\ D[k + 1] = D[k] => D[k + 2] = D[k + 1]

StopsAfter(D, N) == D[N + 1] = D[N]

(* Inside a set of N elements they have stopped growing after N steps. *)
LEMMA GrowthEnds ==
    ASSUME NEW S, IsFiniteSet(S), NEW N, N = Cardinality(S), NEW D, GrowsWithin(D, N, S)
    PROVE  StopsAfter(D, N)
  <1> USE DEF GrowsWithin, StopsAfter
  <1> DEFINE A == {k \in 0 .. N : D[k + 1] = D[k] \/ Cardinality(D[k]) >= k}
  <1>0. N \in Nat
    BY FS_CardinalityType
  <1>1. ASSUME NEW k \in 0 .. N + 1
        PROVE  IsFiniteSet(D[k]) /\ Cardinality(D[k]) \in Nat
    BY FS_Subset, FS_CardinalityType
  <1>2. 0 \in A
    <2>1. 0 \in 0 .. N /\ 0 \in 0 .. N + 1
      BY <1>0
    <2>2. Cardinality(D[0]) >= 0
      BY <1>1, <2>1
    <2> QED
      BY <2>1, <2>2, Zenon
  <1>3. ASSUME NEW k \in 0 .. N, k < N, k \in A
        PROVE  k + 1 \in A
    <2>1. /\ k + 1 \in 0 .. N /\ k \in 0 .. N + 1 /\ k + 1 \in 0 .. N + 1
          /\ (k + 1) + 1 = k + 2
      BY <1>0, <1>3
    <2>2. CASE D[k + 1] = D[k]
      <3>1. D[k + 2] = D[k + 1]
        BY <1>3, <2>2, Zenon
      <3>2. D[(k + 1) + 1] = D[k + 1]
        BY <2>1, <3>1, Zenon
      <3> QED
        BY <2>1, <3>2, Zenon
    <2>3. CASE D[k + 1] # D[k]
      <3>1. Cardinality(D[k]) >= k
        BY <1>3, <2>3, Zenon
      <3>2. /\ IsFiniteSet(D[k + 1]) /\ Cardinality(D[k + 1]) \in Nat
            /\ Cardinality(D[k]) \in Nat
        BY <1>1, <2>1, Zenon
      <3>3. D[k] \in SUBSET D[k + 1]
        BY Zenon
      <3>4. /\ Cardinality(D[k]) <= Cardinality(D[k + 1])
            /\ Cardinality(D[k + 1]) = Cardinality(D[k]) => D[k + 1] = D[k]
        BY <3>2, <3>3, FS_Subset, Zenon
      <3>5. Cardinality(D[k + 1]) >= k + 1
        BY <2>3, <3>1, <3>2, <3>4
      <3> QED
        BY <2>1, <3>5, Zenon
    <2> QED
      BY <2>2, <2>3, Zenon
  <1> HIDE DEF A
  <1>4. \A k \in 0 .. N : k \in A
    BY <1>0, <1>2, <1>3, CountingUp, Zenon
  <1>5. N \in 0 .. N /\ N \in 0 .. N + 1 /\ N + 1 \in 0 .. N + 1
    BY <1>0
  <1>6. D[N + 1] = D[N] \/ Cardinality(D[N]) >= N
    BY <1>4, <1>5, Zenon DEF A
  <1>7. CASE Cardinality(D[N]) >= N
    <2>1. D[N] \in SUBSET S /\ D[N + 1] \subseteq S /\ D[N] \subseteq D[N + 1]
      BY <1>5, Zenon
    <2>2. Cardinality(D[N]) <= N /\ (N = Cardinality(D[N]) => S = D[N])
      BY <2>1, FS_Subset, Zenon
    <2>3. Cardinality(D[N]) \in Nat
      BY <1>1, <1>5, Zenon
    <2>4. N = Cardinality(D[N])
      <3>1. \A x, y \in Nat : x >= y /\ x <= y => y = x
        OBVIOUS
      <3> QED
        BY <1>0, <1>7, <2>2, <2>3, <3>1, Zenon
    <2> QED
      BY <2>1, <2>2, <2>4, Zenon
  <1> QED
    BY <1>6, <1>7, Zenon

(* What the links of a chain of rounds are. *)
LEMMA ChainLinks ==
    ASSUME NEW m \in Nat, NEW g, IsChain(g, m)
    PROVE  g[0] = Nothing /\ \A k \in 0 .. m : k < m => g[k + 1] = Round(g[k])
  <1>1. \A k \in 0 .. m : g[k] = IF k = 0 THEN Nothing ELSE Round(g[k - 1])
    BY Zenon DEF IsChain
  <1>2. 0 \in 0 .. m
    OBVIOUS
  <1>3. ASSUME NEW k \in 0 .. m, k < m
        PROVE  g[k + 1] = Round(g[k])
    <2>1. k + 1 \in 0 .. m /\ k + 1 # 0 /\ (k + 1) - 1 = k
      BY <1>3
    <2> QED
      BY <1>1, <2>1, Zenon
  <1> QED
    BY <1>1, <1>2, <1>3, Zenon

(* Every link is a table of the lattice's nodes. *)
LEMMA ChainTables ==
    ASSUME TypeOK, NEW m \in Nat, NEW g, IsChain(g, m)
    PROVE  \A k \in 0 .. m : IsTable(g[k])
  <1> DEFINE A == {k \in Nat : IsTable(g[k])}
  <1>1. g[0] = Nothing /\ \A k \in 0 .. m : k < m => g[k + 1] = Round(g[k])
    BY ChainLinks, Zenon
  <1>2. 0 \in A
    <2>1. IsTable(Nothing)
      BY DEF IsTable, Nothing
    <2> QED
      BY <1>1, <2>1, Zenon
  <1>3. ASSUME NEW k \in 0 .. m, k < m, k \in A
        PROVE  k + 1 \in A
    <2>1. IsTable(g[k]) /\ k + 1 \in Nat
      BY <1>3
    <2>2. IsTable(Round(g[k]))
      BY <2>1, RoundFacts, Zenon
    <2> QED
      BY <1>1, <1>3, <2>1, <2>2, Zenon
  <1> HIDE DEF A
  <1>4. \A k \in 0 .. m : k \in A
    BY <1>2, <1>3, CountingUp, Zenon
  <1> QED
    BY <1>4, Zenon DEF A

(* No link says more than a table that holds what the believed attestations *)
(* say.                                                                     *)
LEMMA ChainBelow ==
    ASSUME TypeOK, NEW m \in Nat, NEW g, IsChain(g, m), NEW T, Closed(T)
    PROVE  \A k \in 0 .. m : /\ DOMAIN g[k] \subseteq DOMAIN T
                             /\ \A n \in DOMAIN g[k] : g[k][n] \subseteq T[n]
  <1> DEFINE Under(R) == DOMAIN R \subseteq DOMAIN T /\ \A n \in DOMAIN R : R[n] \subseteq T[n]
             A == {k \in Nat : Under(g[k])}
  <1>1. g[0] = Nothing /\ \A k \in 0 .. m : k < m => g[k + 1] = Round(g[k])
    BY ChainLinks, Zenon
  <1>2. 0 \in A
    <2>1. Under(Nothing)
      BY DEF Nothing
    <2> HIDE DEF Under
    <2> QED
      BY <1>1, <2>1, Zenon
  <1>3. ASSUME NEW R, IsTable(R), Under(R)
        PROVE  Under(Round(R))
    <2>1. \A j : Ready(j, R) => Ready(j, T) /\ Support(j, R) \subseteq Support(j, T)
      BY <1>3 DEF Ready, Support
    <2>2. \A j \in joins : Ready(j, R) => j.result \in DOMAIN T /\ Support(j, T) \subseteq T[j.result]
      BY <2>1, Zenon DEF Closed
    <2>3. DOMAIN Round(R) \subseteq DOMAIN T
      <3>1. DOMAIN Round(R) = DOMAIN R \cup Founded \cup {j.result : j \in {d \in joins : Ready(d, R)}}
        BY <1>3, RoundFacts, Zenon
      <3>2. {j.result : j \in {d \in joins : Ready(d, R)}} \subseteq DOMAIN T
        BY <2>2, Zenon
      <3>3. Founded \subseteq DOMAIN T
        BY Zenon DEF Closed
      <3> QED
        BY <1>3, <3>1, <3>2, <3>3, Zenon
    <2>4. ASSUME NEW n \in DOMAIN Round(R), NEW f \in Round(R)[n]
          PROVE  f \in T[n]
      <3>1. n \in Reached(Round(R), f)
        BY <2>4, Zenon DEF Reached
      <3>2. Reached(Round(R), f) = Reached(R, f) \cup ({f} \cap Founded) \cup
              {j.result : j \in {d \in joins : Ready(d, R) /\ d.inputs \cap Reached(R, f) # {}}}
        BY <1>3, RoundFacts, Zenon
      <3>3. CASE n \in Reached(R, f)
        BY <1>3, <3>3, Zenon DEF Reached
      <3>4. CASE n \in {f} \cap Founded
        BY <3>4, Zenon DEF Closed
      <3>5. ASSUME NEW j \in joins, Ready(j, R), j.inputs \cap Reached(R, f) # {}, n = j.result
            PROVE  f \in T[n]
        <4>1. f \in Support(j, R)
          BY <3>5 DEF Support, Reached
        <4> QED
          BY <2>1, <2>2, <3>5, <4>1, Zenon
      <3> QED
        BY <3>1, <3>2, <3>3, <3>4, <3>5, Zenon
    <2> QED
      BY <2>3, <2>4, Zenon
  <1> HIDE DEF Under
  <1>4. ASSUME NEW k \in 0 .. m, k < m, k \in A
        PROVE  k + 1 \in A
    <2>1. k + 1 \in Nat
      BY <1>4
    <2>2. Under(g[k]) /\ IsTable(g[k])
      BY <1>4, ChainTables, Zenon
    <2> QED
      BY <1>1, <1>3, <1>4, <2>1, <2>2, Zenon
  <1> HIDE DEF A
  <1>5. \A k \in 0 .. m : k \in A
    BY <1>2, <1>4, CountingUp, Zenon
  <1> QED
    BY <1>5, Zenon DEF A, Under

(* As many rounds as there are nodes give every node its row. *)
LEMMA ChainSteady ==
    ASSUME TypeOK, NEW N, N = Cardinality(Nodes), NEW g, IsChain(g, 2 * N)
    PROVE  \A k \in 0 .. N : Steady(g[N + k])
  <1> DEFINE D == [k \in 0 .. N + 1 |-> IF k = 0 THEN DOMAIN g[0] ELSE DOMAIN Round(g[k - 1])]
  <1>0. N \in Nat /\ 2 * N \in Nat
    BY NodesAssumption, FS_CardinalityType
  <1>1. g[0] = Nothing /\ \A k \in 0 .. 2 * N : k < 2 * N => g[k + 1] = Round(g[k])
    BY <1>0, ChainLinks, Zenon
  <1>2. \A k \in 0 .. 2 * N : IsTable(g[k])
    BY <1>0, ChainTables, Zenon
  <1>3. ASSUME NEW k \in 0 .. N
        PROVE  /\ IsTable(g[k])
               /\ D[k] = DOMAIN g[k]
               /\ D[k + 1] = DOMAIN Round(g[k])
    <2>1. k \in 0 .. 2 * N /\ k \in 0 .. N + 1 /\ k + 1 \in 0 .. N + 1 /\ k + 1 # 0 /\ (k + 1) - 1 = k
      BY <1>0
    <2>2. D[k + 1] = DOMAIN Round(g[k])
      BY <2>1, Zenon
    <2>3. D[k] = DOMAIN g[k]
      <3>1. CASE k = 0
        BY <2>1, <3>1, Zenon
      <3>2. CASE k # 0
        <4>1. k - 1 \in 0 .. 2 * N /\ k - 1 < 2 * N /\ (k - 1) + 1 = k
          BY <1>0, <3>2
        <4>2. g[k] = Round(g[k - 1])
          BY <1>1, <4>1, Zenon
        <4> QED
          BY <2>1, <3>2, <4>2, Zenon
      <3> QED
        BY <3>1, <3>2, Zenon
    <2> QED
      BY <1>2, <2>1, <2>2, <2>3, Zenon
  <1> HIDE DEF D
  <1>4. \A k \in 0 .. N + 1 : D[k] \subseteq Nodes
    <2>1. ASSUME NEW k \in 0 .. N + 1 PROVE D[k] \subseteq Nodes
      <3>1. CASE k \in 0 .. N
        BY <1>3, <3>1, Zenon DEF IsTable
      <3>2. CASE k \notin 0 .. N
        <4>1. k = N + 1 /\ N \in 0 .. N
          BY <1>0, <3>2
        <4>2. IsTable(Round(g[N])) /\ D[N + 1] = DOMAIN Round(g[N])
          BY <1>3, <4>1, RoundFacts, Zenon
        <4> QED
          BY <4>1, <4>2, Zenon DEF IsTable
      <3> QED
        BY <3>1, <3>2, Zenon
    <2> QED
      BY <2>1, Zenon
  <1>5. \A k \in 0 .. N : D[k] \subseteq D[k + 1]
    <2>1. \A R : IsTable(R) => DOMAIN R \subseteq DOMAIN Round(R)
      <3>1. ASSUME NEW R, IsTable(R) PROVE DOMAIN R \subseteq DOMAIN Round(R)
        <4>1. DOMAIN Round(R) = DOMAIN R \cup Founded \cup {j.result : j \in {d \in joins : Ready(d, R)}}
          BY <3>1, RoundFacts, Zenon
        <4> QED
          BY <4>1, Zenon
      <3> QED
        BY <3>1, Zenon
    <2> QED
      BY <1>3, <2>1, Zenon
  <1>6. \A k \in 0 .. N : k < N /\ D[k + 1] = D[k] => D[k + 2] = D[k + 1]
    <2>1. ASSUME NEW k \in 0 .. N, k < N, D[k + 1] = D[k]
          PROVE  D[k + 2] = D[k + 1]
      <3>1. k + 1 \in 0 .. N /\ k \in 0 .. 2 * N /\ k < 2 * N /\ (k + 1) + 1 = k + 2
        BY <1>0, <2>1
      <3>2. Steady(g[k]) /\ IsTable(g[k])
        BY <1>3, <2>1, Zenon DEF Steady
      <3>3. Steady(Round(g[k])) /\ g[k + 1] = Round(g[k])
        BY <1>1, <3>1, <3>2, RestLasts, Zenon
      <3>4. D[(k + 1) + 1] = D[k + 1]
        BY <1>3, <3>1, <3>3, Zenon DEF Steady
      <3> QED
        BY <3>1, <3>4, Zenon
    <2> QED
      BY <2>1, Zenon
  <1>7. D[N + 1] = D[N]
    <2>1. GrowsWithin(D, N, Nodes)
      BY <1>4, <1>5, <1>6, Zenon DEF GrowsWithin
    <2>2. StopsAfter(D, N)
      BY <2>1, NodesAssumption, GrowthEnds, Zenon
    <2> QED
      BY <2>2, Zenon DEF StopsAfter
  <1>8. Steady(g[N])
    <2>1. N \in 0 .. N
      BY <1>0
    <2> QED
      BY <1>3, <1>7, <2>1, Zenon DEF Steady
  <1> DEFINE A == {k \in Nat : Steady(g[N + k])}
  <1>9. 0 \in A
    <2>1. N + 0 = N
      BY <1>0
    <2> QED
      BY <1>8, <2>1, Zenon
  <1>10. ASSUME NEW k \in 0 .. N, k < N, k \in A
         PROVE  k + 1 \in A
    <2>1. N + k \in 0 .. 2 * N /\ N + k < 2 * N /\ (N + k) + 1 = N + (k + 1) /\ k + 1 \in Nat
      BY <1>0, <1>10
    <2>2. Steady(g[N + k]) /\ IsTable(g[N + k])
      BY <1>2, <1>10, <2>1, Zenon
    <2>3. Steady(Round(g[N + k])) /\ g[(N + k) + 1] = Round(g[N + k])
      BY <1>1, <2>1, <2>2, RestLasts, Zenon
    <2> QED
      BY <2>1, <2>3, Zenon
  <1> HIDE DEF A
  <1>11. \A k \in 0 .. N : k \in A
    BY <1>0, <1>9, <1>10, CountingUp, Zenon
  <1> QED
    BY <1>11, Zenon DEF A

(* As many more put a foundation into every row it belongs to. *)
LEMMA ChainStill ==
    ASSUME TypeOK, NEW N, N = Cardinality(Nodes), NEW g, IsChain(g, 2 * N), NEW f
    PROVE  Still(g[2 * N], f)
  <1> DEFINE D == [k \in 0 .. N + 1 |-> IF k = 0 THEN Reached(g[N], f)
                                        ELSE Reached(Round(g[N + (k - 1)]), f)]
  <1>0. N \in Nat /\ 2 * N \in Nat /\ N + N = 2 * N /\ N + 0 = N /\ N \in 0 .. N
    BY NodesAssumption, FS_CardinalityType
  <1>1. \A k \in 0 .. 2 * N : k < 2 * N => g[k + 1] = Round(g[k])
    BY <1>0, ChainLinks, Zenon
  <1>2. \A k \in 0 .. 2 * N : IsTable(g[k])
    BY <1>0, ChainTables, Zenon
  <1>3. ASSUME NEW k \in 0 .. N
        PROVE  /\ IsTable(g[N + k]) /\ Steady(g[N + k])
               /\ D[k] = Reached(g[N + k], f)
               /\ D[k + 1] = Reached(Round(g[N + k]), f)
    <2>1. /\ N + k \in 0 .. 2 * N /\ k \in 0 .. N + 1 /\ k + 1 \in 0 .. N + 1
          /\ k + 1 # 0 /\ (k + 1) - 1 = k
      BY <1>0
    <2>2. D[k + 1] = Reached(Round(g[N + k]), f)
      BY <2>1, Zenon
    <2>3. D[k] = Reached(g[N + k], f)
      <3>1. CASE k = 0
        BY <1>0, <2>1, <3>1, Zenon
      <3>2. CASE k # 0
        <4>1. /\ N + (k - 1) \in 0 .. 2 * N /\ N + (k - 1) < 2 * N
              /\ (N + (k - 1)) + 1 = N + k
          BY <1>0, <3>2
        <4>2. g[N + k] = Round(g[N + (k - 1)])
          BY <1>1, <4>1, Zenon
        <4> QED
          BY <2>1, <3>2, <4>2, Zenon
      <3> QED
        BY <3>1, <3>2, Zenon
    <2>4. Steady(g[N + k])
      BY ChainSteady, Zenon
    <2> QED
      BY <1>2, <2>1, <2>2, <2>3, <2>4, Zenon
  <1> HIDE DEF D
  <1>4. \A R : IsTable(R) => /\ Reached(R, f) \subseteq Nodes
                             /\ IsTable(Round(R))
                             /\ Reached(R, f) \subseteq Reached(Round(R), f)
    <2>1. ASSUME NEW R, IsTable(R)
          PROVE  /\ Reached(R, f) \subseteq Nodes
                 /\ IsTable(Round(R))
                 /\ Reached(R, f) \subseteq Reached(Round(R), f)
      <3>1. Reached(R, f) \subseteq Nodes
        BY <2>1, Zenon DEF Reached, IsTable
      <3>2. IsTable(Round(R)) /\ Reached(Round(R), f) = Reached(R, f) \cup ({f} \cap Founded) \cup
              {j.result : j \in {d \in joins : Ready(d, R) /\ d.inputs \cap Reached(R, f) # {}}}
        BY <2>1, RoundFacts, Zenon
      <3> QED
        BY <3>1, <3>2, Zenon
    <2> QED
      BY <2>1, Zenon
  <1>5. \A k \in 0 .. N + 1 : D[k] \subseteq Nodes
    <2>1. ASSUME NEW k \in 0 .. N + 1 PROVE D[k] \subseteq Nodes
      <3>1. CASE k \in 0 .. N
        <4>1. IsTable(g[N + k]) /\ D[k] = Reached(g[N + k], f)
          BY <1>3, <3>1, Zenon
        <4> QED
          BY <1>4, <4>1, Zenon
      <3>2. CASE k \notin 0 .. N
        <4>1. k = N + 1
          BY <1>0, <3>2
        <4>2. IsTable(g[N + N]) /\ D[N + 1] = Reached(Round(g[N + N]), f)
          BY <1>0, <1>3, Zenon
        <4>3. IsTable(Round(g[N + N]))
          BY <1>4, <4>2, Zenon
        <4>4. Reached(Round(g[N + N]), f) \subseteq Nodes
          BY <1>4, <4>3, Zenon
        <4> QED
          BY <4>1, <4>2, <4>4, Zenon
      <3> QED
        BY <3>1, <3>2, Zenon
    <2> QED
      BY <2>1, Zenon
  <1>6. \A k \in 0 .. N : D[k] \subseteq D[k + 1]
    <2>1. ASSUME NEW k \in 0 .. N PROVE D[k] \subseteq D[k + 1]
      <3>1. /\ IsTable(g[N + k]) /\ D[k] = Reached(g[N + k], f)
            /\ D[k + 1] = Reached(Round(g[N + k]), f)
        BY <1>3, Zenon
      <3>2. Reached(g[N + k], f) \subseteq Reached(Round(g[N + k]), f)
        BY <1>4, <3>1, Zenon
      <3> QED
        BY <3>1, <3>2, Zenon
    <2> QED
      BY <2>1, Zenon
  <1>7. \A k \in 0 .. N : k < N /\ D[k + 1] = D[k] => D[k + 2] = D[k + 1]
    <2>1. ASSUME NEW k \in 0 .. N, k < N, D[k + 1] = D[k]
          PROVE  D[k + 2] = D[k + 1]
      <3>1. /\ k + 1 \in 0 .. N /\ N + k \in 0 .. 2 * N /\ N + k < 2 * N
            /\ (k + 1) + 1 = k + 2 /\ (N + k) + 1 = N + (k + 1)
        BY <1>0, <2>1
      <3>2. Still(g[N + k], f) /\ Steady(g[N + k]) /\ IsTable(g[N + k])
        BY <1>3, <2>1, Zenon DEF Still
      <3>3. Still(Round(g[N + k]), f) /\ g[N + (k + 1)] = Round(g[N + k])
        BY <1>1, <3>1, <3>2, RestLasts, Zenon
      <3>4. D[(k + 1) + 1] = D[k + 1]
        <4>1. /\ D[k + 1] = Reached(g[N + (k + 1)], f)
              /\ D[(k + 1) + 1] = Reached(Round(g[N + (k + 1)]), f)
          BY <1>3, <3>1, Zenon
        <4> QED
          BY <3>3, <4>1, Zenon DEF Still
      <3> QED
        BY <3>1, <3>4, Zenon
    <2> QED
      BY <2>1, Zenon
  <1>8. D[N + 1] = D[N]
    <2>1. GrowsWithin(D, N, Nodes)
      BY <1>5, <1>6, <1>7, Zenon DEF GrowsWithin
    <2>2. StopsAfter(D, N)
      BY <2>1, NodesAssumption, GrowthEnds, Zenon
    <2> QED
      BY <2>2, Zenon DEF StopsAfter
  <1> QED
    BY <1>0, <1>3, <1>8, Zenon DEF Still

(* The rows are a function of the nodes that have one. *)
RowsAreATable == rows = [n \in DOMAIN rows |-> rows[n]]

(* Init makes them one, and the fold only ever assigns `Widen` of them.    *)
LEMMA RowsStayATable == Spec => []RowsAreATable
  <1>1. Init => RowsAreATable
    BY Zenon DEF Init, RowsAreATable
  <1>2. ASSUME NEW r, NEW s, rows' = Widen(rows, r, s) PROVE RowsAreATable'
    BY <1>2, Zenon DEF Widen, RowsAreATable
  <1>3. \A r, c, s, J : Contribute(r, c, s, J) => rows' = Widen(rows, r, s)
    BY Zenon DEF Contribute
  <1>4. \A j, J : DriveJoin(j, J) => rows' = rows \/ \E r, s : rows' = Widen(rows, r, s)
    BY <1>3, Zenon DEF DriveJoin
  <1>5. [Next]_vars => rows' = rows \/ \E r, s : rows' = Widen(rows, r, s)
    BY <1>3, <1>4, Zenon
    DEF Next, Believe, Drain, BelieveFoundation, BelieveLeaf, BelieveJoin, BelieveAttachment,
        Pop, DriveEdge, vars, published
  <1>6. RowsAreATable /\ rows' = rows => RowsAreATable'
    BY Zenon DEF RowsAreATable
  <1>7. RowsAreATable /\ [Next]_vars => RowsAreATable'
    BY <1>2, <1>5, <1>6, Zenon
  <1> QED
    BY <1>1, <1>7, PTL DEF Spec

(* Between two attestations the rows the worklist loop of `believe` left   *)
(* behind are the table that the believed set denotes: whatever order the  *)
(* attestations arrived in, and whatever merges there are.                 *)
THEOREM RowsDenote == Spec => []RowsAreDenotation
  <1>1. ASSUME TypeOK, RowsAreATable, RowsAreClosed, RowsAreBelow, Idle
        PROVE  rows = Denotation
    <2> DEFINE N == Cardinality(Nodes)
    <2>0. N \in Nat /\ 2 * N \in Nat /\ 2 * N \in 0 .. 2 * N
      BY NodesAssumption, FS_CardinalityType
    <2>1. PICK g : IsChain(g, 2 * N) /\ Denotation = g[2 * N]
      BY <2>0, DenotationEnds, Zenon
    <2> HIDE DEF N
    <2> DEFINE G == g[2 * N]
    <2>2. IsTable(G)
      BY <1>1, <2>0, <2>1, ChainTables, Zenon
    <2>3. Steady(G) /\ \A f : Still(G, f)
      <3>1. N \in 0 .. N /\ N + N = 2 * N
        BY <2>0
      <3> QED
        BY <1>1, <2>1, <3>1, ChainSteady, ChainStill, Zenon DEF N
    <2>4. Closed(G)
      BY <1>1, <2>2, <2>3, RestCloses, Zenon
    <2>5. DOMAIN rows \subseteq DOMAIN G /\ \A n \in DOMAIN rows : rows[n] \subseteq G[n]
      BY <1>1, <2>4, Zenon DEF RowsAreBelow, Below
    <2>6. DOMAIN G \subseteq DOMAIN rows /\ \A n \in DOMAIN G : G[n] \subseteq rows[n]
      BY <1>1, <2>0, <2>1, ChainBelow, Zenon DEF RowsAreClosed
    <2>7. DOMAIN G = DOMAIN rows /\ \A n \in DOMAIN rows : G[n] = rows[n]
      BY <2>5, <2>6, Zenon
    <2>8. G = [n \in DOMAIN G |-> G[n]]
      <3>1. \A k \in 0 .. 2 * N : g[k] = IF k = 0 THEN Nothing ELSE Round(g[k - 1])
        BY <2>1, Zenon DEF IsChain
      <3>2. G = Nothing \/ \E R : G = Round(R)
        BY <2>0, <3>1, Zenon
      <3> HIDE DEF G
      <3> QED
        BY <3>2, Zenon DEF Nothing, Round
    <2> HIDE DEF G
    <2>9. rows = G
      BY <1>1, <2>7, <2>8, Zenon DEF RowsAreATable
    <2> QED
      BY <2>1, <2>9, Zenon DEF G
  <1>2. TypeOK /\ RowsAreATable /\ RowsAreClosed /\ RowsAreBelow => RowsAreDenotation
    BY <1>1, Zenon DEF RowsAreDenotation
  <1> QED
    BY <1>2, TypesHold, RowsStayATable, RowsClosed, RowsAreLeast, PTL

=============================================================================
