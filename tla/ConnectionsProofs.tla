------------------------- MODULE ConnectionsProofs -------------------------
(* The table hands out the connection it keeps, holds no more than its cap,   *)
(* has one dial under way at a time, and tells the service of every closing   *)
(* of a connection it was told of, for any number of callers and connections  *)
(* and through every race of rankings, evictions, cancellations, crashes and  *)
(* late frames.                                                               *)
(*                                                                            *)
(* The three concern different variables, and are one invariant for each node *)
(* because they meet in the sides: a connection is only registered once, and  *)
(* before that it has no place in the table.                                  *)
EXTENDS Connections, FiniteSetTheorems, WellFoundedInduction, TLAPS

SideSet ==
  [loop : {"none", "running", "ended", "removed", "done"}, held : BOOLEAN, known : BOOLEAN,
   retired : BOOLEAN, recon : {"none", "ranked", "announced", "sent"}, neighbour : BOOLEAN]
Sides == [Conns -> SideSet]
ConnSet ==
  [st : {"none", "up", "half", "down"}, dialler : Nodes, left : {"none"} \cup Nodes,
   streams : BOOLEAN]
Transport == [Conns -> ConnSet]
CallerSet ==
  [at : {"idle", "init", "setup", "wait"}, cell : {0} \cup Cells, conn : {0} \cup Conns]
Outcomes == {"unused", "none", "ok", "err"}
Events == {"opened", "closed"} \X Conns

Types ==
  /\ use \in Uses
  /\ phys \in Transport
  /\ side \in [Nodes -> Sides]
  /\ cur \in [Nodes -> {0} \cup Conns]
  /\ dials \in [Nodes -> {0} \cup Cells]
  /\ results \in [Nodes -> [Cells -> Outcomes]]
  /\ callers \in [Nodes -> [Callers -> CallerSet]]
  /\ queue \in [Nodes -> Seq(Events)]
  /\ view \in [Nodes -> SUBSET Conns]

(* The table of one node: its sides s and its current connection r.           *)
Usable(e) == e.held /\ e.known /\ ~e.retired
Ranked(s, r) == \A c \in Conns : r = c <=> Usable(s[c])

(* A connection that was not registered has no place in the table, and one    *)
(* that was not dialled is not registered.                                    *)
Unplaced(e) == ~e.held /\ ~e.retired /\ ~e.neighbour
Fresh(s) == \A c \in Conns : s[c].loop = "none" => Unplaced(s[c])
Born(s, ph) == \A c \in Conns : ph[c].st = "none" => s[c].loop = "none"

Counted(s, ph, m) ==
  {c \in Conns : s[c].held /\ ~s[c].neighbour /\ ph[c].dialler = m}
Capped(s, ph) == \A m \in Nodes : Cardinality(Counted(s, ph, m)) <= Cap

TableOK(s, r, ph) == Ranked(s, r) /\ Fresh(s) /\ Born(s, ph) /\ Capped(s, ph)

(* A dial that has its connection is the only one that has it, and has not    *)
(* registered it.                                                             *)
Setup(cl, k) == cl[k].at = "setup"
SetupOK(n, s, ph, cl) ==
  \A k \in Callers : Setup(cl, k) =>
    /\ cl[k].conn \in Conns /\ ph[cl[k].conn].st # "none" /\ ph[cl[k].conn].dialler = n
    /\ s[cl[k].conn].loop = "none"
    /\ \A j \in Callers : Setup(cl, j) /\ cl[j].conn = cl[k].conn => j = k

(* The events of a node on their way to its service, and what it knows.       *)
In(q) == {q[i] : i \in 1..Len(q)}
EventsOK(s, q, v) ==
  /\ \A c \in Conns : s[c].recon # "none" => s[c].loop # "none"
  /\ \A c \in Conns : c \in v \/ <<"opened", c>> \in In(q) => s[c].recon = "sent"
  /\ \A c \in v : s[c].loop = "done" => <<"closed", c>> \in In(q)

(* The dials of a node: its callers cl, the dial d in the map, the results r. *)
Active(e) == e.at \in {"init", "setup"}
DialsOK(cl, d, r) ==
  /\ \A k \in Callers : cl[k].at # "idle" =>
       /\ cl[k].cell \in Cells /\ r[cl[k].cell] # "unused"
       /\ r[cl[k].cell] = "none" => d = cl[k].cell
  /\ \A k \in Callers : Active(cl[k]) => r[cl[k].cell] = "none"
  /\ \A k, j \in Callers : Active(cl[k]) /\ Active(cl[j]) => k = j
  /\ d # 0 => r[d] = "none"
  /\ \A c \in Cells : r[c] # "unused" => \E k \in Callers : cl[k].at # "idle" /\ cl[k].cell = c

NodeOK(n) ==
  /\ TableOK(side[n], cur[n], phys)
  /\ SetupOK(n, side[n], phys, callers[n])
  /\ EventsOK(side[n], queue[n], view[n])
  /\ DialsOK(callers[n], dials[n], results[n])

IndInv == Types /\ \A n \in Nodes : NodeOK(n)

----------------------------------------------------------------------------
(* The transport *)

(* A connection is dialled once and stays dialled. *)
Moves(ph, qh) ==
  \A c \in Conns : ph[c].st # "none" => qh[c].st # "none" /\ qh[c].dialler = ph[c].dialler

(* What the transport does leaves a table as it is. *)
LEMMA TableStays ==
  ASSUME NEW n, NEW s \in Sides, NEW r, NEW ph \in Transport, NEW qh \in Transport,
         NEW cl, TableOK(s, r, ph), SetupOK(n, s, ph, cl), Moves(ph, qh)
  PROVE  TableOK(s, r, qh) /\ SetupOK(n, s, qh, cl)
  <1>1. Born(s, qh)
    BY DEF TableOK, Born, Moves
  <1>2. ASSUME NEW c \in Conns, s[c].held
        PROVE  ph[c].dialler = qh[c].dialler
    BY <1>2 DEF TableOK, Fresh, Born, Moves, Unplaced
  <1>3. \A m \in Nodes : Counted(s, qh, m) = Counted(s, ph, m)
    BY <1>2 DEF Counted
  <1>4. TableOK(s, r, qh)
    BY <1>1, <1>3 DEF TableOK, Capped
  <1>5. SetupOK(n, s, qh, cl)
    BY DEF SetupOK, Moves
  <1> QED
    BY <1>4, <1>5

----------------------------------------------------------------------------
(* The table's operators *)

(* What ranking and removing leave alone of a side. *)
Same(e, f) ==
  f.loop = e.loop /\ f.recon = e.recon /\ f.known = e.known /\ f.neighbour = e.neighbour

(* A connection that has become known, before and after it is ranked. *)
Unranked(s, r, c) ==
  /\ Fresh(s) /\ s[c].loop # "none" /\ s[c].known
  /\ \A d \in Conns \ {c} : r = d <=> Usable(s[d])
  /\ r = c => Usable(s[c])
Reranked(s, t) ==
  /\ t.side \in Sides /\ t.cur \in {0} \cup Conns
  /\ t = [side |-> t.side, cur |-> t.cur]
  /\ Ranked(t.side, t.cur) /\ Fresh(t.side)
  /\ \A d \in Conns : Same(s[d], t.side[d]) /\ t.side[d].held = s[d].held

(* Table::rank: a connection that has become known finds its place, whatever  *)
(* it was: current, retired, forgotten or new.                                *)
LEMMA RankFacts ==
  ASSUME NEW n, NEW s \in Sides, NEW r \in {0} \cup Conns, NEW c \in Conns,
         Unranked(s, r, c), NEW t, t = Rank(n, [side |-> s, cur |-> r], c)
  PROVE  Reranked(s, t)
  <1> USE DEF Unranked, Reranked
  <1>0. 0 \notin Conns
    BY ConstantsAssumption DEF Conns
  <1>1. CASE s[c].retired \/ ~s[c].held \/ r = c
    <2>1. t = [side |-> s, cur |-> r]
      BY <1>1 DEF Rank
    <2>2. Ranked(s, r)
      BY <1>1 DEF Ranked, Usable
    <2> QED
      BY <2>1, <2>2 DEF Same
  <1>2. CASE ~s[c].retired /\ s[c].held /\ r = 0
    <2>1. t = [side |-> s, cur |-> c]
      BY <1>0, <1>2 DEF Rank
    <2>2. Ranked(s, c)
      BY <1>0, <1>2 DEF Ranked, Usable
    <2> QED
      BY <2>1, <2>2 DEF Same
  <1>3. CASE ~s[c].retired /\ s[c].held /\ r # c /\ r # 0 /\ Outranks(n, s, c, r)
    <2> DEFINE e == [s[r] EXCEPT !.retired = TRUE]
               z == [s EXCEPT ![r] = e]
    <2>1. t = [side |-> z, cur |-> c]
      BY <1>3, Zenon DEF Rank
    <2>2. r \in Conns /\ Usable(s[r])
      BY <1>3
    <2>3. e \in SideSet /\ Same(s[r], e) /\ e.held = s[r].held /\ e.retired
      BY <2>2, Zenon DEF Sides, SideSet, Same
    <2> HIDE DEF e
    <2>4. z \in Sides /\ z[r] = e /\ \A d \in Conns \ {r} : z[d] = s[d]
      BY <2>2, <2>3 DEF Sides
    <2> HIDE DEF z
    <2>5. Ranked(z, c)
      BY <1>3, <2>2, <2>3, <2>4 DEF Ranked, Usable
    <2>6. Fresh(z)
      BY <2>2, <2>3, <2>4 DEF Fresh, Unplaced, Usable, Same
    <2>7. \A d \in Conns : Same(s[d], z[d]) /\ z[d].held = s[d].held
      BY <2>3, <2>4 DEF Same
    <2> QED
      BY <2>1, <2>4, <2>5, <2>6, <2>7
  <1>4. CASE ~s[c].retired /\ s[c].held /\ r # c /\ r # 0 /\ ~Outranks(n, s, c, r)
    <2> DEFINE e == [s[c] EXCEPT !.retired = TRUE]
               z == [s EXCEPT ![c] = e]
    <2>1. t = [side |-> z, cur |-> r]
      BY <1>4, Zenon DEF Rank
    <2>3. e \in SideSet /\ Same(s[c], e) /\ e.held = s[c].held /\ e.retired
      BY Zenon DEF Sides, SideSet, Same
    <2> HIDE DEF e
    <2>4. z \in Sides /\ z[c] = e /\ \A d \in Conns \ {c} : z[d] = s[d]
      BY <2>3 DEF Sides
    <2> HIDE DEF z
    <2>5. Ranked(z, r)
      BY <1>4, <2>3, <2>4 DEF Ranked, Usable
    <2>6. Fresh(z)
      BY <2>3, <2>4 DEF Fresh, Unplaced, Same
    <2>7. \A d \in Conns : Same(s[d], z[d]) /\ z[d].held = s[d].held
      BY <2>3, <2>4, Zenon DEF Same
    <2> QED
      BY <2>1, <2>4, <2>5, <2>6, <2>7
  <1> QED
    BY <1>1, <1>2, <1>3, <1>4

(* What is left of a table when a connection has been taken out of it. *)
Removal(s, c, t) ==
  /\ t.side \in Sides /\ t.cur \in {0} \cup Conns
  /\ Ranked(t.side, t.cur) /\ Fresh(t.side)
  /\ ~t.side[c].held /\ Same(s[c], t.side[c])
  /\ \A d \in Conns \ {c} : t.side[d] = s[d]

(* Table::remove. *)
LEMMA RemoveFacts ==
  ASSUME NEW s \in Sides, NEW r \in {0} \cup Conns, NEW c \in Conns,
         Ranked(s, r), Fresh(s),
         NEW t, t = Remove([side |-> s, cur |-> r], c)
  PROVE  Removal(s, c, t)
  <1> DEFINE e == [s[c] EXCEPT !.held = FALSE]
             z == [s EXCEPT ![c] = e]
  <1>0. 0 \notin Conns
    BY ConstantsAssumption DEF Conns
  <1>1. t = [side |-> z, cur |-> IF r = c THEN 0 ELSE r]
    BY DEF Remove
  <1>2. e \in SideSet /\ Same(s[c], e) /\ ~e.held /\ e.retired = s[c].retired
    BY Zenon DEF Sides, SideSet, Same
  <1> HIDE DEF e
  <1>3. z \in Sides /\ z[c] = e /\ \A d \in Conns \ {c} : z[d] = s[d]
    BY <1>2 DEF Sides
  <1> HIDE DEF z
  <1>4. Ranked(z, t.cur)
    BY <1>0, <1>1, <1>2, <1>3 DEF Ranked, Usable
  <1>5. Fresh(z)
    BY <1>2, <1>3 DEF Fresh, Unplaced, Same
  <1> QED
    BY <1>1, <1>2, <1>3, <1>4, <1>5 DEF Removal

(* The connections counted against the cap are finitely many. *)
LEMMA CountedFinite ==
  ASSUME NEW s, NEW ph, NEW m
  PROVE  /\ IsFiniteSet(Counted(s, ph, m)) /\ Cardinality(Counted(s, ph, m)) \in Nat
  <1>1. IsFiniteSet(Conns)
    BY ConstantsAssumption, FS_Interval DEF Conns
  <1>2. Counted(s, ph, m) \in SUBSET Conns
    BY DEF Counted
  <1>3. IsFiniteSet(Counted(s, ph, m))
    BY <1>1, <1>2, FS_Subset
  <1> QED
    BY <1>3, FS_CardinalityType

(* One more, one fewer. *)
LEMMA CapFacts ==
  ASSUME NEW S, IsFiniteSet(S), NEW x
  PROVE  /\ Cardinality(S) <= Cap => Cardinality(S \cup {x}) <= Cap + 1
         /\ x \in S /\ Cardinality(S) <= Cap + 1 => Cardinality(S \ {x}) <= Cap
  <1>1. Cardinality(S) \in Nat /\ Cap \in Nat
    BY FS_CardinalityType, ConstantsAssumption
  <1>2. Cardinality(S \cup {x}) = IF x \in S THEN Cardinality(S) ELSE Cardinality(S) + 1
    BY FS_AddElement
  <1>3. x \in S => Cardinality(S \ {x}) = Cardinality(S) - 1
    BY FS_RemoveElement
  <1> QED
    BY <1>1, <1>2, <1>3

(* Table::evict: if the newcomer is one too many there is another to displace. *)
LEMMA VictimFacts ==
  ASSUME NEW n, NEW t, NEW c \in Conns, NEW m, m = phys[c].dialler,
         t.side[c].held, ~t.side[c].neighbour
  PROVE  /\ Victims(n, t, c) \subseteq Counted(t.side, phys, m) \ {c}
         /\ Victims(n, t, c) = {} => Cardinality(Counted(t.side, phys, m)) <= Cap
  <1> DEFINE candidates == Counted(t.side, phys, m)
             others == candidates \ {c}
             drained == {d \in others : t.side[d].retired}
             pool == IF drained # {} THEN drained ELSE others
             unused == {d \in pool : ~phys[d].streams}
  <1>1. Victims(n, t, c) = IF Cardinality(candidates) <= Cap THEN {}
                           ELSE IF unused # {} THEN unused ELSE pool
    BY DEF Victims, Counted
  <1>2. unused \subseteq pool /\ pool \subseteq others
    OBVIOUS
  <1>3. others # {} => pool # {}
    OBVIOUS
  <1>4. c \in candidates /\ IsFiniteSet(candidates) /\ Cardinality(candidates) \in Nat
    <2>1. c \in candidates
      BY Zenon DEF Counted
    <2> QED
      BY <2>1, CountedFinite
  <1>5. others = {} => candidates = {c}
    BY <1>4
  <1> HIDE DEF candidates, drained
  <1>6. others = {} => Cardinality(candidates) <= Cap
    BY <1>4, <1>5, FS_Singleton, ConstantsAssumption
  <1> HIDE DEF others, pool, unused
  <1>7. Victims(n, t, c) \subseteq others
    BY <1>1, <1>2
  <1>8. Victims(n, t, c) = {} => Cardinality(candidates) <= Cap
    BY <1>1, <1>2, <1>3, <1>6
  <1> QED
    BY <1>7, <1>8 DEF candidates, others

(* What Shared::register leaves: the connection is in the table, and another  *)
(* may have made way for it.                                                  *)
Placed(n, s, c, z, r, v) ==
  /\ side' = [side EXCEPT ![n] = z] /\ cur' = [cur EXCEPT ![n] = r]
  /\ phys' = IF v = 0 THEN phys ELSE [phys EXCEPT ![v].st = "down"]
  /\ TableOK(z, r, phys)
  /\ \A d \in Conns : z[d].recon = s[d].recon
  /\ \A d \in Conns \ {c} : z[d].loop = s[d].loop
  /\ z[c].loop = "running"

(* Shared::register: a connection that was not registered finds its place,    *)
(* and the table is right with it, at the cap and below.                      *)
LEMMA RegisterFacts ==
  ASSUME NEW n \in Nodes, NEW s \in Sides, NEW c \in Conns, phys \in Transport,
         cur[n] \in {0} \cup Conns, TableOK(s, cur[n], phys),
         s[c].loop = "none", phys[c].st # "none", Register(n, s, c, phys)
  PROVE  \E z \in Sides, r \in {0} \cup Conns, v \in {0} \cup Conns : Placed(n, s, c, z, r, v)
  <1> DEFINE e == [s[c] EXCEPT !.held = TRUE, !.loop = "running"]
             h == [s EXCEPT ![c] = e]
             held == [side |-> h, cur |-> cur[n]]
             ranked == IF s[c].known THEN Rank(n, held, c) ELSE held
             m == phys[c].dialler
  <1>0. 0 \notin Conns /\ m \in Nodes
    BY ConstantsAssumption DEF Conns, Transport, ConnSet
  <1>1. /\ e \in SideSet /\ e.held /\ e.loop = "running" /\ e.known = s[c].known
        /\ e.retired = s[c].retired /\ e.recon = s[c].recon /\ e.neighbour = s[c].neighbour
    BY Zenon DEF Sides, SideSet
  <1>2. PICK v \in IF Victims(n, ranked, c) = {} THEN {0} ELSE Victims(n, ranked, c) :
          LET t == IF v = 0 THEN ranked ELSE Remove(ranked, v)
          IN  /\ side' = [side EXCEPT ![n] = t.side]
              /\ cur' = [cur EXCEPT ![n] = t.cur]
              /\ phys' = IF v = 0 THEN phys ELSE [phys EXCEPT ![v].st = "down"]
    <2>1. h = [s EXCEPT ![c].held = TRUE, ![c].loop = "running"]
      BY Zenon DEF Sides
    <2> QED
      BY <2>1, Zenon DEF Register
  <1> HIDE DEF e
  <1>3. h \in Sides /\ h[c] = e /\ \A d \in Conns \ {c} : h[d] = s[d]
    BY <1>1 DEF Sides
  <1> HIDE DEF h
  <1>4. /\ Unplaced(s[c]) /\ cur[n] # c
        /\ \A d \in Conns \ {c} : cur[n] = d <=> Usable(h[d])
    BY <1>3 DEF TableOK, Ranked, Fresh, Unplaced, Usable
  <1>5. Fresh(h)
    BY <1>1, <1>3, Zenon DEF TableOK, Fresh
  <1>6. Reranked(h, ranked)
    <2>1. CASE s[c].known
      <3>1. ranked = Rank(n, [side |-> h, cur |-> cur[n]], c)
        BY <2>1
      <3>2. Unranked(h, cur[n], c)
        BY <1>1, <1>3, <1>4, <1>5, <2>1, Zenon DEF Unranked
      <3> HIDE DEF ranked, held
      <3> QED
        BY <1>3, <3>1, <3>2, RankFacts, Zenon
    <2>2. CASE ~s[c].known
      <3>1. Ranked(h, cur[n])
        BY <1>1, <1>3, <1>4, <2>2, Zenon DEF Ranked, Usable
      <3> QED
        BY <1>3, <1>5, <2>2, <3>1, Zenon DEF Same, Reranked
    <2> QED
      BY <2>1, <2>2
  <1> DEFINE z == ranked.side
             r == ranked.cur
  <1>7. z[c].held /\ ~z[c].neighbour /\ z[c].loop = "running" /\ z[c].recon = s[c].recon
    BY <1>1, <1>3, <1>4, <1>6, Zenon DEF Same, Unplaced, Reranked
  <1>8. \A d \in Conns \ {c} :
          /\ z[d].loop = s[d].loop /\ z[d].recon = s[d].recon
          /\ z[d].held = s[d].held /\ z[d].neighbour = s[d].neighbour
    BY <1>3, <1>6, Zenon DEF Same, Reranked
  <1>9. /\ Victims(n, ranked, c) \subseteq Counted(z, phys, m) \ {c}
        /\ Victims(n, ranked, c) = {} => Cardinality(Counted(z, phys, m)) <= Cap
    BY <1>7, VictimFacts
  <1> HIDE DEF ranked
  <1>10. ranked = [side |-> z, cur |-> r] /\ z \in Sides /\ r \in {0} \cup Conns
    BY <1>6 DEF Reranked
  <1>11. Ranked(z, r) /\ Fresh(z)
    BY <1>6, Zenon DEF Reranked
  <1> HIDE DEF z, r, m
  <1>12. \A k \in Nodes \ {m} : Counted(z, phys, k) = Counted(s, phys, k)
    BY <1>8 DEF Counted, m
  <1>13. Counted(z, phys, m) = Counted(s, phys, m) \cup {c}
    BY <1>7, <1>8 DEF Counted, m
  <1>14. Born(z, phys)
    BY <1>7, <1>8 DEF TableOK, Born
  <1>15. CASE v = 0
    <2>1. Victims(n, ranked, c) = {}
      BY <1>0, <1>2, <1>9, <1>15 DEF Counted
    <2>2. Capped(z, phys)
      BY <1>9, <1>12, <2>1 DEF TableOK, Capped
    <2>3. side' = [side EXCEPT ![n] = z] /\ cur' = [cur EXCEPT ![n] = r] /\ phys' = phys
      BY <1>2, <1>15 DEF z, r
    <2>4. Placed(n, s, c, z, r, 0)
      BY <1>7, <1>8, <1>11, <1>14, <2>2, <2>3 DEF Placed, TableOK
    <2> QED
      BY <1>10, <2>4, Zenon
  <1>16. CASE v # 0
    <2> DEFINE t == Remove(ranked, v)
    <2>1. v \in Counted(z, phys, m) /\ v # c /\ v \in Conns
      BY <1>2, <1>9, <1>16 DEF Counted
    <2>2. side' = [side EXCEPT ![n] = t.side] /\ cur' = [cur EXCEPT ![n] = t.cur]
          /\ phys' = [phys EXCEPT ![v].st = "down"]
      BY <1>2, <1>16
    <2>3. /\ t.side \in Sides /\ t.cur \in {0} \cup Conns
          /\ Ranked(t.side, t.cur) /\ Fresh(t.side)
          /\ ~t.side[v].held /\ Same(z[v], t.side[v])
          /\ \A d \in Conns \ {v} : t.side[d] = z[d]
      BY <1>10, <1>11, <2>1, RemoveFacts, SMTT(30) DEF Removal
    <2> HIDE DEF t
    <2>4. Born(t.side, phys)
      BY <1>14, <2>1, <2>3 DEF Born, Same
    <2>5. Counted(t.side, phys, m) = Counted(z, phys, m) \ {v}
      BY <2>1, <2>3, Zenon DEF Counted
    <2>6. \A k \in Nodes \ {m} : Counted(t.side, phys, k) = Counted(z, phys, k)
      BY <2>1, <2>3, Zenon DEF Counted
    <2>7. Cardinality(Counted(t.side, phys, m)) <= Cap
      <3>1. /\ IsFiniteSet(Counted(s, phys, m)) /\ Cardinality(Counted(s, phys, m)) \in Nat
            /\ Cardinality(Counted(s, phys, m)) <= Cap
        BY <1>0, CountedFinite DEF TableOK, Capped
      <3>2. Cardinality(Counted(z, phys, m)) <= Cap + 1
        BY <1>13, <3>1, CapFacts, Zenon
      <3>3. IsFiniteSet(Counted(z, phys, m))
        BY CountedFinite
      <3> QED
        BY <2>1, <2>5, <3>2, <3>3, CapFacts, Zenon
    <2>8. Capped(t.side, phys)
      BY <1>12, <2>6, <2>7, Zenon DEF TableOK, Capped
    <2>9. /\ \A d \in Conns : t.side[d].recon = s[d].recon
          /\ \A d \in Conns \ {c} : t.side[d].loop = s[d].loop
          /\ t.side[c].loop = "running"
      BY <1>7, <1>8, <2>1, <2>3 DEF Same
    <2>10. Placed(n, s, c, t.side, t.cur, v)
      BY <1>16, <2>2, <2>3, <2>4, <2>8, <2>9 DEF Placed, TableOK
    <2> QED
      BY <2>1, <2>3, <2>10, Zenon
  <1> QED
    BY <1>15, <1>16

----------------------------------------------------------------------------
(* Dials *)

(* A set of naturals that is not empty has a least element.  This is how an   *)
(* induction is done here: on the least counterexample.                       *)
LEMMA LeastElement ==
  ASSUME NEW T \in SUBSET Nat, T # {}
  PROVE  \E x \in T : \A y \in T : x <= y
  <1> DEFINE R == OpToRel(<, Nat)
  <1>1. \A x, y \in Nat : x < y => <<x, y>> \in R
    BY DEF OpToRel
  <1>2. IsWellFoundedOn(R, Nat)
    BY NatLessThanWellFounded, Zenon
  <1> HIDE DEF R
  <1>3. PICK x \in T : \A y \in T : ~(<<y, x>> \in R)
    BY <1>2, WFMin, Zenon
  <1>4. \A y \in T : ~(y < x)
    BY <1>1, <1>3, Zenon
  <1>5. \A y \in T : x <= y
    BY ONLY <1>4, x \in T, T \in SUBSET Nat
  <1> QED
    BY <1>5, Zenon

(* Every cell in use has a caller, and there is a cell more than callers. *)
LEMMA FreeCell ==
  ASSUME NEW cl \in [Callers -> CallerSet], NEW d, NEW r \in [Cells -> Outcomes],
         DialsOK(cl, d, r), NEW free, free = {c \in Cells : r[c] = "unused"}
  PROVE  Min(free) \in free
  <1> DEFINE N == Cardinality(Callers)
             used == Cells \ free
             f == [k \in Callers |-> cl[k].cell]
             T == {cl[k].cell : k \in Callers}
  <1>1. IsFiniteSet(Callers) /\ N \in Nat
    BY ConstantsAssumption, FS_CardinalityType
  <1>2. f \in Surjection(Callers, T)
    BY DEF Surjection
  <1>3. IsFiniteSet(T) /\ Cardinality(T) <= N
    BY <1>1, <1>2, FS_Surjection
  <1>4. used \in SUBSET T
    BY DEF DialsOK
  <1>5. Cardinality(used) <= Cardinality(T) /\ IsFiniteSet(used)
    BY <1>3, <1>4, FS_Subset
  <1> HIDE DEF T, f, N
  <1>6. Cardinality(Cells) = N + 1
    BY <1>1, FS_Interval DEF Cells, N
  <1>7. Cardinality(used) \in Nat /\ Cardinality(T) \in Nat
    BY <1>3, <1>5, FS_CardinalityType
  <1>8. free # {}
    <2>1. SUFFICES ASSUME free = {} PROVE FALSE
      OBVIOUS
    <2>2. used = Cells
      BY <2>1
    <2> HIDE DEF used
    <2> QED
      BY <1>1, <1>3, <1>5, <1>6, <1>7, <2>2
  <1>9. free \in SUBSET Nat
    BY <1>1 DEF Cells, N
  <1>10. \E x \in free : \A y \in free : x <= y
    BY <1>8, <1>9, LeastElement
  <1> QED
    BY <1>10 DEF Min

JoinsWell(cl, d, r, k, cell, e) ==
  /\ cl[k].at = "idle" /\ (d # 0 => cell = d) /\ (d = 0 => r[cell] = "unused")
  /\ e.cell = cell /\ e.at \in {"init", "wait"}
  /\ e.at = "init" => \A j \in Callers : ~(Active(cl[j]) /\ cl[j].cell = cell)
Joined(cl, k, e) == [cl EXCEPT ![k] = e]
Begun(r, cell) == [r EXCEPT ![cell] = IF r[cell] = "unused" THEN "none" ELSE r[cell]]

(* connect: a caller joins the dial in the map, or puts one there. *)
LEMMA JoinKeeps ==
  ASSUME NEW cl \in [Callers -> CallerSet], NEW d \in {0} \cup Cells,
         NEW r \in [Cells -> Outcomes], DialsOK(cl, d, r),
         NEW k \in Callers, NEW cell \in Cells, NEW e \in CallerSet,
         JoinsWell(cl, d, r, k, cell, e),
         NEW z, z = Joined(cl, k, e), NEW q, q = Begun(r, cell)
  PROVE  DialsOK(z, cell, q) /\ z \in [Callers -> CallerSet] /\ q \in [Cells -> Outcomes]
  <1> USE DEF JoinsWell
  <1>0. 0 \notin Cells
    BY ConstantsAssumption, FS_CardinalityType DEF Cells
  <1>1. /\ z \in [Callers -> CallerSet] /\ z[k] = e
        /\ \A j \in Callers \ {k} : z[j] = cl[j]
    BY DEF Joined
  <1>2. /\ q \in [Cells -> Outcomes] /\ \A c \in Cells \ {cell} : q[c] = r[c]
        /\ q[cell] = IF r[cell] = "unused" THEN "none" ELSE r[cell]
    BY DEF Outcomes, Begun
  <1>3. q[cell] = "none" \/ q[cell] \in {"ok", "err"}
    BY <1>2 DEF Outcomes
  <1>4. \A j \in Callers : z[j].at # "idle" =>
          /\ z[j].cell \in Cells /\ q[z[j].cell] # "unused"
          /\ q[z[j].cell] = "none" => cell = z[j].cell
    BY <1>0, <1>1, <1>2, <1>3 DEF DialsOK
  <1>5. q[cell] = "none"
    BY <1>0, <1>2 DEF DialsOK
  <1>6. ASSUME NEW j \in Callers, j # k, Active(cl[j])
        PROVE  cl[j].cell = cell
    <2>1. cl[j].at # "idle" /\ r[cl[j].cell] = "none"
      BY <1>6 DEF DialsOK, Active
    <2>2. cl[j].cell \in Cells /\ d = cl[j].cell
      BY <2>1 DEF DialsOK
    <2> QED
      BY <1>0, <2>2
  <1>7. \A j \in Callers : Active(z[j]) => q[z[j].cell] = "none"
    BY <1>1, <1>5, <1>6
  <1>8. \A i, j \in Callers : Active(z[i]) /\ Active(z[j]) => i = j
    BY <1>1, <1>6 DEF DialsOK, Active
  <1>9. \A c \in Cells : q[c] # "unused" => \E j \in Callers : z[j].at # "idle" /\ z[j].cell = c
    BY <1>1, <1>2 DEF DialsOK
  <1> QED
    BY <1>1, <1>2, <1>4, <1>5, <1>7, <1>8, <1>9, Zenon DEF DialsOK

(* A caller leaves its dial with result x, and d2 is left in the map: finish  *)
(* and release take out the dial that has its result or lost its last caller. *)
Sole(cl, k) ==
  \A j \in Callers : cl[j].at # "idle" /\ cl[j].cell = cl[k].cell => j = k
LeavesWell(cl, d, r, k, x, d2) ==
  /\ x \in Outcomes \ {"unused"}
  /\ x = "none" => r[cl[k].cell] = "none"
  /\ x # "none" /\ r[cl[k].cell] = "none" => Active(cl[k])
  /\ \/ d2 = d /\ (d # 0 => cl[k].cell # d \/ (~Sole(cl, k) /\ x = "none"))
     \/ d2 = 0 /\ d = cl[k].cell /\ (Sole(cl, k) \/ x # "none")

Left(cl, k) == [cl EXCEPT ![k] = NoCaller]
Dropped(cl, r, k, x) == [r EXCEPT ![cl[k].cell] = IF Sole(cl, k) THEN "unused" ELSE x]

(* A caller that leaves, with a result or without, leaves the dials right. *)
LEMMA LeaveKeeps ==
  ASSUME NEW cl \in [Callers -> CallerSet], NEW d \in {0} \cup Cells,
         NEW r \in [Cells -> Outcomes], DialsOK(cl, d, r),
         NEW k \in Callers, cl[k].at # "idle", NEW x, NEW d2,
         LeavesWell(cl, d, r, k, x, d2),
         NEW z, z = Left(cl, k), NEW q, q = Dropped(cl, r, k, x)
  PROVE  /\ DialsOK(z, d2, q) /\ z \in [Callers -> CallerSet] /\ q \in [Cells -> Outcomes]
         /\ d2 \in {0} \cup Cells
  <1> DEFINE cell == cl[k].cell
  <1>0. 0 \notin Cells /\ cell \in Cells
    BY ConstantsAssumption, FS_CardinalityType DEF Cells, DialsOK
  <1>1. /\ z \in [Callers -> CallerSet] /\ z[k].at = "idle"
        /\ \A j \in Callers \ {k} : z[j] = cl[j]
    BY DEF NoCaller, CallerSet, Left
  <1>2. /\ q \in [Cells -> Outcomes] /\ \A c \in Cells \ {cell} : q[c] = r[c]
        /\ q[cell] = IF Sole(cl, k) THEN "unused" ELSE x
    BY <1>0, Zenon DEF Outcomes, LeavesWell, Dropped
  <1>3. ASSUME NEW j \in Callers, z[j].at # "idle"
        PROVE  /\ z[j].cell \in Cells /\ q[z[j].cell] # "unused"
               /\ q[z[j].cell] = "none" => d2 = z[j].cell
               /\ Active(z[j]) => q[z[j].cell] = "none"
    <2>1. j # k /\ z[j] = cl[j] /\ cl[j].cell \in Cells /\ r[cl[j].cell] # "unused"
      BY <1>1, <1>3 DEF DialsOK
    <2>2. CASE cl[j].cell # cell
      BY <1>0, <1>2, <1>3, <2>1, <2>2, SMTT(30) DEF DialsOK, LeavesWell
    <2>3. CASE cl[j].cell = cell
      <3>1. ~Sole(cl, k) /\ q[cell] = x
        BY <1>2, <1>3, <2>1, <2>3 DEF Sole
      <3>2. x = "none" => d2 = cell
        BY <1>0, <3>1 DEF LeavesWell, DialsOK
      <3>3. Active(cl[j]) => x = "none"
        BY <2>1, <2>3 DEF DialsOK, LeavesWell
      <3> QED
        BY <1>0, <2>1, <2>3, <3>1, <3>2, <3>3, Zenon DEF LeavesWell
    <2> QED
      BY <2>2, <2>3
  <1>4. \A i, j \in Callers : Active(z[i]) /\ Active(z[j]) => i = j
    BY <1>1 DEF DialsOK, Active
  <1>5. d2 # 0 => q[d2] = "none"
    BY <1>0, <1>2 DEF DialsOK, LeavesWell
  <1>6. ASSUME NEW c \in Cells, q[c] # "unused"
        PROVE  \E j \in Callers : z[j].at # "idle" /\ z[j].cell = c
    <2>1. CASE c = cell
      BY <1>1, <1>2, <1>6, <2>1 DEF Sole
    <2>2. CASE c # cell
      BY <1>1, <1>2, <1>6, <2>2 DEF DialsOK
    <2> QED
      BY <2>1, <2>2
  <1>7. d2 \in {0} \cup Cells
    BY DEF LeavesWell
  <1>8. \A j \in Callers : Active(z[j]) => z[j].at # "idle"
    BY DEF Active
  <1> QED
    BY <1>1, <1>2, <1>3, <1>4, <1>5, <1>6, <1>7, <1>8, Zenon DEF DialsOK

----------------------------------------------------------------------------
(* Steps of one node *)

Elsewhere(n) ==
  \A m \in Nodes \ {n} :
    /\ side'[m] = side[m] /\ cur'[m] = cur[m] /\ callers'[m] = callers[m]
    /\ dials'[m] = dials[m] /\ results'[m] = results[m]
    /\ queue'[m] = queue[m] /\ view'[m] = view[m]

(* A node's step moves the transport and leaves the other node alone. *)
LEMMA NodeSteps ==
  ASSUME IndInv, NEW n \in Nodes, Types', Moves(phys, phys'), Elsewhere(n), NodeOK(n)'
  PROVE  IndInv'
  <1>1. ASSUME NEW m \in Nodes, m # n
        PROVE  NodeOK(m)'
    <2>1. /\ TableOK(side[m], cur[m], phys) /\ SetupOK(m, side[m], phys, callers[m])
          /\ EventsOK(side[m], queue[m], view[m])
          /\ DialsOK(callers[m], dials[m], results[m])
      BY DEF IndInv, NodeOK
    <2>2. side[m] \in Sides /\ phys \in Transport /\ phys' \in Transport
      BY DEF IndInv, Types
    <2>3. TableOK(side[m], cur[m], phys') /\ SetupOK(m, side[m], phys', callers[m])
      BY <2>1, <2>2, TableStays
    <2> QED
      BY <1>1, <2>1, <2>3, Zenon DEF NodeOK, Elsewhere
  <1> QED
    BY <1>1, Zenon DEF IndInv

(* What the invariant says of one node. *)
LEMMA NodeFacts ==
  ASSUME IndInv, NEW n \in Nodes
  PROVE  /\ side \in [Nodes -> Sides] /\ side[n] \in Sides /\ cur[n] \in {0} \cup Conns
         /\ callers[n] \in [Callers -> CallerSet] /\ dials[n] \in {0} \cup Cells
         /\ results[n] \in [Cells -> Outcomes] /\ queue[n] \in Seq(Events)
         /\ view[n] \in SUBSET Conns /\ phys \in Transport
         /\ TableOK(side[n], cur[n], phys) /\ SetupOK(n, side[n], phys, callers[n])
         /\ EventsOK(side[n], queue[n], view[n])
         /\ DialsOK(callers[n], dials[n], results[n])
  BY DEF IndInv, Types, NodeOK

(* A side of which the table's part stays. *)
SameTable(e, f) ==
  /\ f.held = e.held /\ f.known = e.known /\ f.retired = e.retired /\ f.neighbour = e.neighbour
  /\ f.loop = "none" <=> e.loop = "none"

(* A table of which only the tasks' part changes stays right. *)
LEMMA SideStays ==
  ASSUME NEW n, NEW s \in Sides, NEW z \in Sides, NEW r, NEW ph, NEW cl,
         TableOK(s, r, ph), SetupOK(n, s, ph, cl),
         \A c \in Conns : SameTable(s[c], z[c])
  PROVE  TableOK(z, r, ph) /\ SetupOK(n, z, ph, cl)
  <1>1. Ranked(z, r)
    BY DEF TableOK, Ranked, Usable, SameTable
  <1>2. Fresh(z) /\ Born(z, ph)
    BY DEF TableOK, Fresh, Born, Unplaced, SameTable
  <1>3. \A m \in Nodes : Counted(z, ph, m) = Counted(s, ph, m)
    BY DEF Counted, SameTable
  <1>4. Capped(z, ph)
    BY <1>3 DEF TableOK, Capped
  <1>5. SetupOK(n, z, ph, cl)
    BY DEF SetupOK, SameTable
  <1> QED
    BY <1>1, <1>2, <1>4, <1>5 DEF TableOK

(* One side of one node changes. *)
Entry(n, c, e) == [side EXCEPT ![n] = [side[n] EXCEPT ![c] = e]]

(* What is known of the tables when one entry of one is set. *)
EntrySet(n, c, e, z) ==
  /\ z \in [Nodes -> Sides] /\ z[n] \in Sides /\ z[n][c] = e
  /\ \A d \in Conns \ {c} : z[n][d] = side[n][d]
  /\ \A m \in Nodes \ {n} : z[m] = side[m]

(* The sides of the nodes after one has changed. *)
LEMMA EntryFacts ==
  ASSUME side \in [Nodes -> Sides], NEW n \in Nodes, NEW c \in Conns, NEW e \in SideSet,
         NEW z, z = Entry(n, c, e)
  PROVE  EntrySet(n, c, e, z)
  BY DEF Sides, Entry, EntrySet

(* The ways in which one changes. *)
LEMMA UpdateFacts ==
  ASSUME NEW f \in SideSet
  PROVE  /\ \A b \in BOOLEAN : LET e == [f EXCEPT !.known = b] IN
              /\ e \in SideSet /\ e.known = b /\ e.loop = f.loop /\ e.held = f.held
              /\ e.retired = f.retired /\ e.recon = f.recon /\ e.neighbour = f.neighbour
         /\ \A b \in BOOLEAN : LET e == [f EXCEPT !.neighbour = b] IN
              /\ e \in SideSet /\ e.known = f.known /\ e.loop = f.loop /\ e.held = f.held
              /\ e.retired = f.retired /\ e.recon = f.recon /\ e.neighbour = b
         /\ \A l \in {"none", "running", "ended", "removed", "done"} :
              LET e == [f EXCEPT !.loop = l] IN
              /\ e \in SideSet /\ e.known = f.known /\ e.loop = l /\ e.held = f.held
              /\ e.retired = f.retired /\ e.recon = f.recon /\ e.neighbour = f.neighbour
         /\ \A r \in {"none", "ranked", "announced", "sent"} :
              LET e == [f EXCEPT !.recon = r] IN
              /\ e \in SideSet /\ e.known = f.known /\ e.loop = f.loop /\ e.held = f.held
              /\ e.retired = f.retired /\ e.recon = r /\ e.neighbour = f.neighbour
  BY DEF SideSet

(* Queues. *)
LEMMA TailFacts ==
  ASSUME NEW q \in Seq(Events), q # <<>>
  PROVE  /\ Tail(q) \in Seq(Events) /\ Head(q) \in Events
         /\ In(q) = In(Tail(q)) \cup {Head(q)}
  <1>1. /\ Tail(q) \in Seq(Events) /\ Head(q) \in Events /\ Head(q) = q[1]
        /\ Len(Tail(q)) = Len(q) - 1 /\ Len(q) \in Nat \ {0}
        /\ \A i \in 1 .. Len(Tail(q)) : Tail(q)[i] = q[i + 1]
    OBVIOUS
  <1>2. ASSUME NEW i \in 1..Len(q)
        PROVE  i = 1 \/ (i - 1 \in 1..Len(Tail(q)) /\ Tail(q)[i - 1] = q[i])
    BY <1>1
  <1>3. \A i \in 1..Len(Tail(q)) : i + 1 \in 1..Len(q)
    BY <1>1
  <1>4. In(q) \subseteq In(Tail(q)) \cup {Head(q)}
    BY <1>1, <1>2 DEF In
  <1>5. In(Tail(q)) \cup {Head(q)} \subseteq In(q)
    BY <1>1, <1>3 DEF In
  <1> QED
    BY <1>1, <1>4, <1>5

(* An event that is sent is one more on its way. *)
LEMMA AppendFacts ==
  ASSUME NEW q \in Seq(Events), NEW e \in Events
  PROVE  Append(q, e) \in Seq(Events) /\ In(Append(q, e)) = In(q) \cup {e}
  <1>1. /\ Append(q, e) \in Seq(Events) /\ Len(Append(q, e)) = Len(q) + 1 /\ Len(q) \in Nat
        /\ \A i \in 1..Len(q) : Append(q, e)[i] = q[i]
        /\ Append(q, e)[Len(q) + 1] = e
    OBVIOUS
  <1>2. \A i \in 1..Len(q) + 1 : i \in 1..Len(q) \/ i = Len(q) + 1
    BY <1>1
  <1>3. Len(q) + 1 \in 1..Len(q) + 1 /\ \A i \in 1..Len(q) : i \in 1..Len(q) + 1
    BY <1>1
  <1> QED
    BY <1>1, <1>2, <1>3 DEF In

(* Service::recon: the event is appended where events are followed. *)
Tells(n, e, z) ==
  /\ z \in [Nodes -> Seq(Events)] /\ \A m \in Nodes \ {n} : z[m] = queue[m]
  /\ In(queue[n]) \subseteq In(z[n]) /\ In(z[n]) \subseteq In(queue[n]) \cup {e}
  /\ n \in use.hears => e \in In(z[n])

(* What the service of a node is told is queued, and nothing else is. *)
LEMMA ToldFacts ==
  ASSUME IndInv, NEW n \in Nodes, NEW e \in Events, NEW z, z = Told(n, e)
  PROVE  Tells(n, e, z)
  <1> USE DEF Tells
  <1>1. queue \in [Nodes -> Seq(Events)]
    BY DEF IndInv, Types
  <1>2. Append(queue[n], e) \in Seq(Events) /\ In(Append(queue[n], e)) = In(queue[n]) \cup {e}
    BY <1>1, AppendFacts
  <1>3. CASE n \in use.hears
    <2>1. z = [queue EXCEPT ![n] = Append(queue[n], e)]
      BY <1>3 DEF Told
    <2> QED
      BY <1>1, <1>2, <1>3, <2>1
  <1>4. CASE n \notin use.hears
    BY <1>1, <1>4 DEF Told
  <1> QED
    BY <1>3, <1>4

(* A caller of node n leaves its dial. *)
LEMMA CallerLeaves ==
  ASSUME IndInv, NEW n \in Nodes, NEW k \in Callers, callers[n][k].at # "idle", NEW x, NEW d2,
         LeavesWell(callers[n], dials[n], results[n], k, x, d2),
         results' = Kept(n, k, x), dials' = [dials EXCEPT ![n] = d2],
         callers' = [callers EXCEPT ![n][k] = NoCaller]
  PROVE  /\ callers' \in [Nodes -> [Callers -> CallerSet]] /\ dials' \in [Nodes -> {0} \cup Cells]
         /\ results' \in [Nodes -> [Cells -> Outcomes]]
         /\ DialsOK(callers'[n], dials'[n], results'[n])
         /\ callers'[n][k].at = "idle" /\ \A j \in Callers \ {k} : callers'[n][j] = callers[n][j]
         /\ \A m \in Nodes \ {n} :
              callers'[m] = callers[m] /\ dials'[m] = dials[m] /\ results'[m] = results[m]
  <1> DEFINE cl == callers[n]
             z == Left(cl, k)
             q == Dropped(cl, results[n], k, x)
  <1>0. /\ callers \in [Nodes -> [Callers -> CallerSet]] /\ dials \in [Nodes -> {0} \cup Cells]
        /\ results \in [Nodes -> [Cells -> Outcomes]]
    BY DEF IndInv, Types
  <1>1. Holders(n, cl[k].cell) = {k} <=> Sole(cl, k)
    BY DEF Holders, Sole
  <1>2. results' = [results EXCEPT ![n] = q]
    BY <1>0, <1>1, Zenon DEF Kept, Dropped
  <1>3. callers' = [callers EXCEPT ![n] = z]
    BY <1>0 DEF Left
  <1>4. /\ DialsOK(z, d2, q) /\ z \in [Callers -> CallerSet] /\ q \in [Cells -> Outcomes]
        /\ d2 \in {0} \cup Cells
    BY NodeFacts, LeaveKeeps, ZenonT(30)
  <1>5. z[k].at = "idle" /\ \A j \in Callers \ {k} : z[j] = cl[j]
    BY <1>0 DEF NoCaller, Left
  <1> HIDE DEF z, q
  <1> QED
    BY <1>0, <1>2, <1>3, <1>4, <1>5, ZenonT(30)

(* A dial that ends is the one in the map, and nobody else runs it. *)
LEMMA ResolvesWell ==
  ASSUME IndInv, NEW n \in Nodes, NEW k \in Callers, Active(callers[n][k]), NEW x \in {"ok", "err"}
  PROVE  LeavesWell(callers[n], dials[n], results[n], k, x, Finished(n, callers[n][k].cell))
  <1>1. callers[n][k].at # "idle" /\ results[n][callers[n][k].cell] = "none"
    BY NodeFacts, Zenon DEF DialsOK, Active
  <1>2. dials[n] = callers[n][k].cell
    BY <1>1, NodeFacts, Zenon DEF DialsOK
  <1> QED
    BY <1>1, <1>2, Zenon DEF LeavesWell, Finished, Outcomes

(* Callers that leave take no connection. *)
LEMMA SetupShrinks ==
  ASSUME NEW n, NEW s, NEW ph, NEW cl, NEW z, SetupOK(n, s, ph, cl),
         \A j \in Callers : Setup(z, j) => z[j] = cl[j]
  PROVE  SetupOK(n, s, ph, z)
  BY DEF SetupOK, Setup

(* connect: the caller joins the dial in the map, or begins one in a free     *)
(* cell.                                                                      *)
LEMMA ConnectKeeps ==
  ASSUME IndInv, NEW n \in Nodes, NEW k \in Callers, Connect(n, k)
  PROVE  IndInv'
  <1> DEFINE free == {c \in Cells : results[n][c] = "unused"}
             cell == IF dials[n] # 0 THEN dials[n] ELSE Min(free)
             runs == results[n][cell] \in {"unused", "none"} /\ Dialling(n, cell) = {}
             e == [at |-> IF runs THEN "init" ELSE "wait", cell |-> cell, conn |-> 0]
             z == Joined(callers[n], k, e)
             q == Begun(results[n], cell)
  <1>0. /\ callers \in [Nodes -> [Callers -> CallerSet]] /\ dials \in [Nodes -> {0} \cup Cells]
        /\ results \in [Nodes -> [Cells -> Outcomes]]
    BY Zenon DEF IndInv, Types
  <1>1. /\ callers[n][k].at = "idle" /\ dials' = [dials EXCEPT ![n] = cell]
        /\ results' = [results EXCEPT ![n] = q] /\ callers' = [callers EXCEPT ![n] = z]
        /\ UNCHANGED <<use, phys, side, cur, queue, view>>
    BY <1>0 DEF Connect, tableVars, Joined, Begun
  <1>2. cell \in Cells /\ (dials[n] # 0 => cell = dials[n])
        /\ (dials[n] = 0 => results[n][cell] = "unused")
    <2>1. Min(free) \in free
      BY NodeFacts, FreeCell, ZenonT(30)
    <2> QED
      BY <1>0, <2>1, Zenon
  <1>3. e \in CallerSet /\ e.cell = cell /\ e.at \in {"init", "wait"}
    BY <1>2 DEF CallerSet
  <1>4. e.at = "init" => \A j \in Callers : ~(Active(callers[n][j]) /\ callers[n][j].cell = cell)
    BY DEF Dialling, Holders, Active
  <1> HIDE DEF cell, e
  <1>5. DialsOK(z, cell, q) /\ z \in [Callers -> CallerSet] /\ q \in [Cells -> Outcomes]
    <2>1. /\ callers[n] \in [Callers -> CallerSet] /\ dials[n] \in {0} \cup Cells
          /\ results[n] \in [Cells -> Outcomes] /\ DialsOK(callers[n], dials[n], results[n])
      BY NodeFacts, Zenon
    <2>2. JoinsWell(callers[n], dials[n], results[n], k, cell, e)
      BY <1>1, <1>2, <1>3, <1>4, Zenon DEF JoinsWell
    <2> QED
      BY <1>2, <1>3, <2>1, <2>2, JoinKeeps, Zenon
  <1>6. \A j \in Callers : Setup(z, j) => z[j] = callers[n][j]
    BY <1>0, <1>3, Zenon DEF Setup, Joined
  <1>7. SetupOK(n, side[n], phys, z)
    BY <1>6, NodeFacts, SetupShrinks, ZenonT(30)
  <1> HIDE DEF z, q
  <1>8. callers'[n] = z /\ dials'[n] = cell /\ results'[n] = q /\ Elsewhere(n)
    BY <1>0, <1>1, Zenon DEF Elsewhere
  <1>9. Types'
    BY <1>0, <1>1, <1>2, <1>5, Zenon DEF IndInv, Types
  <1>10. NodeOK(n)'
    BY <1>1, <1>5, <1>7, <1>8, NodeFacts, ZenonT(30) DEF NodeOK
  <1>11. Moves(phys, phys')
    BY <1>1 DEF Moves
  <1> QED
    BY <1>8, <1>9, <1>10, <1>11, NodeSteps, Zenon

(* A caller takes over a dial whose initializer was cancelled: no other runs  *)
(* it.                                                                        *)
LEMMA InitialiseKeeps ==
  ASSUME IndInv, NEW n \in Nodes, NEW k \in Callers, Initialise(n, k)
  PROVE  IndInv'
  <1> DEFINE cl == callers[n]
             e == [cl[k] EXCEPT !.at = "init"]
             z == [cl EXCEPT ![k] = e]
             d == dials[n]
             r == results[n]
  <1>0. callers \in [Nodes -> [Callers -> CallerSet]] /\ cl[k] \in CallerSet
    BY DEF IndInv, Types
  <1>1. /\ cl[k].at = "wait" /\ r[cl[k].cell] = "none" /\ Dialling(n, cl[k].cell) = {}
        /\ callers' = [callers EXCEPT ![n] = z]
        /\ UNCHANGED <<use, phys, side, cur, dials, results, queue, view>>
    BY <1>0 DEF Initialise, tableVars
  <1>2. e \in CallerSet /\ e.at = "init" /\ e.cell = cl[k].cell
    BY <1>0, Zenon DEF CallerSet
  <1>3. \A j \in Callers : ~(Active(cl[j]) /\ cl[j].cell = cl[k].cell)
    BY <1>1 DEF Dialling, Holders, Active
  <1>4. DialsOK(cl, d, r)
    BY NodeFacts
  <1> HIDE DEF e
  <1>5. z \in [Callers -> CallerSet] /\ z[k] = e /\ \A j \in Callers \ {k} : z[j] = cl[j]
    BY <1>0, <1>2
  <1>6. \A j \in Callers : ~Active(cl[j])
    <2>1. SUFFICES ASSUME NEW j \in Callers, Active(cl[j]) PROVE FALSE
      OBVIOUS
    <2>2. cl[j].at # "idle" /\ r[cl[j].cell] = "none"
      BY <1>4, <2>1 DEF DialsOK, Active
    <2>3. d = cl[j].cell /\ d = cl[k].cell
      BY <1>1, <1>4, <2>2, Zenon DEF DialsOK
    <2> QED
      BY <1>3, <2>1, <2>3, Zenon
  <1> HIDE DEF z
  <1>7. DialsOK(z, d, r)
    <2>1. \A j \in Callers : z[j].at # "idle" =>
            /\ z[j].cell \in Cells /\ r[z[j].cell] # "unused"
            /\ r[z[j].cell] = "none" => d = z[j].cell
      <3>1. ASSUME NEW j \in Callers, z[j].at # "idle"
            PROVE  cl[j].at # "idle" /\ z[j].cell = cl[j].cell
        BY <1>1, <1>2, <1>5, <3>1
      <3> HIDE DEF cl, d, r
      <3> QED
        BY <1>4, <3>1, Zenon DEF DialsOK
    <2>2. \A j \in Callers : Active(z[j]) => j = k
      BY <1>5, <1>6
    <2>3. \A c \in Cells : r[c] # "unused" => \E j \in Callers : z[j].at # "idle" /\ z[j].cell = c
      <3>1. ASSUME NEW c \in Cells, r[c] # "unused"
            PROVE  \E j \in Callers : z[j].at # "idle" /\ z[j].cell = c
        <4>1. PICK j \in Callers : cl[j].at # "idle" /\ cl[j].cell = c
          BY <1>4, <3>1 DEF DialsOK
        <4>2. z[j].at # "idle" /\ z[j].cell = c
          BY <1>2, <1>5, <4>1, SMTT(30)
        <4> QED
          BY <4>2
      <3> QED
        BY <3>1
    <2>4. \A j \in Callers : Active(z[j]) => r[z[j].cell] = "none"
      BY <1>1, <1>2, <1>5, <2>2, Zenon
    <2> QED
      BY <1>4, <2>1, <2>2, <2>3, <2>4, Zenon DEF DialsOK
  <1>8. \A j \in Callers : Setup(z, j) => z[j] = cl[j]
    BY <1>2, <1>5, Zenon DEF Setup
  <1>9. SetupOK(n, side[n], phys, z)
    BY <1>8, NodeFacts, SetupShrinks, Zenon
  <1>10. callers'[n] = z /\ Elsewhere(n)
    BY <1>0, <1>1, Zenon DEF Elsewhere
  <1>11. Types'
    BY <1>0, <1>1, <1>5, Zenon DEF IndInv, Types
  <1>12. NodeOK(n)'
    BY <1>1, <1>7, <1>9, <1>10, NodeFacts, ZenonT(30) DEF NodeOK
  <1>13. Moves(phys, phys')
    BY <1>1 DEF Moves
  <1> QED
    BY <1>10, <1>11, <1>12, <1>13, NodeSteps, Zenon

----------------------------------------------------------------------------
(* The other steps of a dial *)

(* A dial gets its connection: the lowest that was not used. *)
LEMMA DialSetupKeeps ==
  ASSUME IndInv, NEW n \in Nodes, NEW k \in Callers, DialSetup(n, k)
  PROVE  IndInv'
  <1> DEFINE s == side[n]
             cl == callers[n]
  <1>0. /\ callers \in [Nodes -> [Callers -> CallerSet]] /\ cl[k] \in CallerSet
        /\ side \in [Nodes -> Sides] /\ phys \in Transport /\ use \in Uses
    BY DEF IndInv, Types
  <1>1. /\ cl[k].at = "init" /\ UNCHANGED <<use, cur, dials, results, queue, view>>
    BY DEF DialSetup
  <1>2. PICK c \in Free :
          /\ phys' = [phys EXCEPT ![c] = [NoConn EXCEPT !.st = "up", !.dialler = n]]
          /\ side' = [side EXCEPT ![n][c].known = TRUE]
          /\ callers' = [callers EXCEPT ![n][k].at = "setup", ![n][k].conn = c]
    BY Zenon DEF DialSetup
  <1>3. c \in Conns /\ phys[c].st = "none"
    BY <1>0, UsesAssumption, ConstantsAssumption DEF Free, Conns
  <1> DEFINE f == [NoConn EXCEPT !.st = "up", !.dialler = n]
             e == [s[c] EXCEPT !.known = TRUE]
             g == [cl[k] EXCEPT !.at = "setup", !.conn = c]
  <1>4. f \in ConnSet /\ f.st = "up" /\ f.dialler = n
    BY Zenon DEF NoConn, ConnSet, Nodes
  <1>5. /\ phys' \in Transport /\ phys'[c].st = "up" /\ phys'[c].dialler = n
        /\ \A d \in Conns \ {c} : phys'[d] = phys[d]
    <2>1. phys' = [phys EXCEPT ![c] = f]
      BY <1>2
    <2> HIDE DEF f
    <2> QED
      BY <1>0, <1>3, <1>4, <2>1 DEF Transport
  <1>6. Moves(phys, phys')
    BY <1>3, <1>5 DEF Moves
  <1>7. /\ e \in SideSet /\ e.loop = s[c].loop /\ e.held = s[c].held /\ e.retired = s[c].retired
        /\ e.recon = s[c].recon /\ e.neighbour = s[c].neighbour
    <2>1. s[c] \in SideSet
      BY <1>0, <1>3 DEF Sides
    <2> QED
      BY <2>1, UpdateFacts, Zenon
  <1>8. side' = Entry(n, c, e)
    BY <1>0, <1>2, <1>3, Zenon DEF Sides, Entry
  <1>9. g \in CallerSet /\ g.at = "setup" /\ g.conn = c /\ g.cell = cl[k].cell
    BY <1>0, <1>3, Zenon DEF CallerSet
  <1>10. callers' = [callers EXCEPT ![n] = [cl EXCEPT ![k] = g]]
    BY <1>0, <1>2, ZenonT(30)
  <1> HIDE DEF e, g, f
  <1>11. /\ side' \in [Nodes -> Sides] /\ side'[n] \in Sides /\ side'[n][c] = e
         /\ \A d \in Conns \ {c} : side'[n][d] = s[d]
         /\ \A m \in Nodes \ {n} : side'[m] = side[m]
    <2>1. EntrySet(n, c, e, side')
      BY <1>0, <1>3, <1>7, <1>8, EntryFacts, Zenon
    <2> QED
      BY <2>1, Zenon DEF EntrySet
  <1>12. /\ callers' \in [Nodes -> [Callers -> CallerSet]] /\ callers'[n][k] = g
         /\ \A j \in Callers \ {k} : callers'[n][j] = cl[j]
         /\ \A m \in Nodes \ {n} : callers'[m] = callers[m]
    BY <1>0, <1>9, <1>10
  <1>13. s[c].loop = "none" /\ Unplaced(s[c]) /\ Unplaced(e)
    BY <1>3, <1>7, NodeFacts, ZenonT(30) DEF TableOK, Born, Fresh, Unplaced
  <1>14. TableOK(side'[n], cur[n], phys')
    <2>1. TableOK(s, cur[n], phys)
      BY NodeFacts, Zenon
    <2>2. Ranked(side'[n], cur[n])
      BY <1>11, <1>13, <2>1, Zenon DEF TableOK, Ranked, Usable, Unplaced
    <2>3. Fresh(side'[n]) /\ Born(side'[n], phys')
      BY <1>5, <1>7, <1>11, <1>13, <2>1, Zenon DEF TableOK, Fresh, Born
    <2>4. \A m \in Nodes : Counted(side'[n], phys', m) = Counted(s, phys, m)
      BY <1>5, <1>11, <1>13, Zenon DEF Counted, Unplaced
    <2> QED
      BY <2>1, <2>2, <2>3, <2>4, Zenon DEF TableOK, Capped
  <1>15. SetupOK(n, side'[n], phys', callers'[n])
    <2>1. SetupOK(n, s, phys, cl)
      BY NodeFacts, Zenon
    <2>2. ASSUME NEW j \in Callers, j # k, Setup(callers'[n], j)
          PROVE  /\ callers'[n][j].conn \in Conns \ {c} /\ phys[callers'[n][j].conn].st # "none"
                 /\ phys[callers'[n][j].conn].dialler = n /\ s[callers'[n][j].conn].loop = "none"
                 /\ Setup(cl, j) /\ callers'[n][j] = cl[j]
      <3>1. callers'[n][j] = cl[j] /\ Setup(cl, j)
        BY <1>12, <2>2, Zenon DEF Setup
      <3>2. /\ cl[j].conn \in Conns /\ phys[cl[j].conn].st # "none"
            /\ phys[cl[j].conn].dialler = n /\ s[cl[j].conn].loop = "none"
        BY <2>1, <3>1, Zenon DEF SetupOK
      <3>3. cl[j].conn # c
        BY <1>3, <3>2, Zenon
      <3> QED
        BY <3>1, <3>2, <3>3, Zenon
    <2>3. ASSUME NEW j \in Callers, Setup(callers'[n], j)
          PROVE  /\ callers'[n][j].conn \in Conns /\ phys'[callers'[n][j].conn].st # "none"
                 /\ phys'[callers'[n][j].conn].dialler = n
                 /\ side'[n][callers'[n][j].conn].loop = "none"
      <3>1. CASE j = k
        BY <1>3, <1>5, <1>7, <1>9, <1>11, <1>12, <1>13, <3>1, Zenon
      <3>2. CASE j # k
        <4> DEFINE d == callers'[n][j].conn
        <4>1. d \in Conns \ {c} /\ phys[d].st # "none" /\ phys[d].dialler = n /\ s[d].loop = "none"
          BY <2>2, <2>3, <3>2, Zenon
        <4> HIDE DEF d
        <4>2. phys'[d] = phys[d] /\ side'[n][d] = s[d]
          BY <1>5, <1>11, <4>1, Zenon
        <4> QED
          BY <4>1, <4>2, Zenon DEF d
      <3> QED
        BY <3>1, <3>2, Zenon
    <2>4. ASSUME NEW j \in Callers, NEW i \in Callers, Setup(callers'[n], j), Setup(callers'[n], i),
                 callers'[n][i].conn = callers'[n][j].conn
          PROVE  i = j
      <3>1. CASE i # k /\ j # k
        BY <2>1, <2>2, <2>4, <3>1, ZenonT(30) DEF SetupOK
      <3>2. CASE i = k \/ j = k
        BY <1>9, <1>12, <2>2, <2>4, <3>2, Zenon
      <3> QED
        BY <3>1, <3>2, Zenon
    <2> QED
      BY <2>3, <2>4, Zenon DEF SetupOK
  <1>16. EventsOK(side'[n], queue[n], view[n])
    <2>1. EventsOK(s, queue[n], view[n]) /\ view[n] \subseteq Conns
      BY NodeFacts
    <2>2. \A d \in Conns : side'[n][d].recon = s[d].recon /\ side'[n][d].loop = s[d].loop
      BY <1>7, <1>11, Zenon
    <2> QED
      BY <2>1, <2>2, Zenon DEF EventsOK
  <1>17. DialsOK(callers'[n], dials[n], results[n])
    <2>1. \A j \in Callers : /\ callers'[n][j].cell = cl[j].cell
                             /\ callers'[n][j].at # "idle" <=> cl[j].at # "idle"
                             /\ Active(callers'[n][j]) <=> Active(cl[j])
      BY <1>1, <1>9, <1>12, Zenon DEF Active
    <2>2. DialsOK(cl, dials[n], results[n])
      BY NodeFacts, ZenonT(30)
    <2> QED
      BY <2>1, <2>2, Zenon DEF DialsOK
  <1>18. Types'
    BY <1>0, <1>1, <1>5, <1>11, <1>12, Zenon DEF IndInv, Types
  <1>19. NodeOK(n)' /\ Elsewhere(n)
    BY <1>1, <1>11, <1>12, <1>14, <1>15, <1>16, <1>17, Zenon DEF NodeOK, Elsewhere
  <1> QED
    BY <1>6, <1>18, <1>19, NodeSteps, Zenon

(* What the transport does to one connection: it stays dialled. *)
LEMMA ConnFacts ==
  ASSUME phys \in Transport, NEW c \in Conns, NEW f \in ConnSet, f.st # "none",
         f.dialler = phys[c].dialler, phys' = [phys EXCEPT ![c] = f]
  PROVE  phys' \in Transport /\ Moves(phys, phys')
  BY DEF Transport, Moves

(* A connection that is closed stays dialled. *)
LEMMA DownFacts ==
  ASSUME phys \in Transport, NEW c \in Conns, phys' = [phys EXCEPT ![c].st = "down"]
  PROVE  phys' \in Transport /\ Moves(phys, phys')
  <1> DEFINE f == [phys[c] EXCEPT !.st = "down"]
  <1>1. phys[c] \in ConnSet
    BY DEF Transport
  <1>2. f \in ConnSet /\ f.st = "down" /\ f.dialler = phys[c].dialler
    BY <1>1 DEF ConnSet
  <1>3. phys' = [phys EXCEPT ![c] = f]
    OBVIOUS
  <1> HIDE DEF f
  <1> QED
    BY <1>2, <1>3, ConnFacts, Zenon

(* A caller leaves its dial, and the tables stay. *)
LEMMA LeaveStep ==
  ASSUME IndInv, NEW n \in Nodes, NEW k \in Callers, callers[n][k].at # "idle", NEW x, NEW d2,
         LeavesWell(callers[n], dials[n], results[n], k, x, d2),
         results' = Kept(n, k, x), dials' = [dials EXCEPT ![n] = d2],
         callers' = [callers EXCEPT ![n][k] = NoCaller],
         phys' \in Transport, Moves(phys, phys'), UNCHANGED <<use, side, cur, queue, view>>
  PROVE  IndInv'
  <1>1. /\ callers' \in [Nodes -> [Callers -> CallerSet]] /\ dials' \in [Nodes -> {0} \cup Cells]
        /\ results' \in [Nodes -> [Cells -> Outcomes]]
        /\ DialsOK(callers'[n], dials'[n], results'[n])
        /\ callers'[n][k].at = "idle" /\ \A j \in Callers \ {k} : callers'[n][j] = callers[n][j]
        /\ \A m \in Nodes \ {n} :
             callers'[m] = callers[m] /\ dials'[m] = dials[m] /\ results'[m] = results[m]
    BY CallerLeaves, Zenon
  <1>2. \A j \in Callers : Setup(callers'[n], j) => callers'[n][j] = callers[n][j]
    BY <1>1, Zenon DEF Setup
  <1>3. TableOK(side[n], cur[n], phys') /\ SetupOK(n, side[n], phys', callers[n])
    BY NodeFacts, TableStays, Zenon
  <1>4. SetupOK(n, side[n], phys', callers'[n])
    BY <1>2, <1>3, SetupShrinks, ZenonT(30)
  <1>5. Types'
    BY <1>1 DEF IndInv, Types
  <1>6. NodeOK(n)'
    BY <1>1, <1>3, <1>4, NodeFacts, Zenon DEF NodeOK
  <1>7. Elsewhere(n)
    BY <1>1, Zenon DEF Elsewhere
  <1> QED
    BY <1>5, <1>6, <1>7, NodeSteps

(* A dial that fails leaves the map. *)
LEMMA DialFailsKeeps ==
  ASSUME IndInv, NEW n \in Nodes, NEW k \in Callers, DialFails(n, k)
  PROVE  IndInv'
  <1> DEFINE d2 == Finished(n, callers[n][k].cell)
  <1>1. /\ callers[n][k].at = "init" /\ UNCHANGED <<use, phys, side, cur, queue, view>>
        /\ results' = Kept(n, k, "err") /\ dials' = [dials EXCEPT ![n] = d2]
        /\ callers' = [callers EXCEPT ![n][k] = NoCaller]
    BY DEF DialFails, Resolve, tableVars
  <1>2. LeavesWell(callers[n], dials[n], results[n], k, "err", d2)
    BY <1>1, ResolvesWell, Zenon DEF Active
  <1>3. phys' \in Transport /\ Moves(phys, phys')
    BY <1>1, NodeFacts DEF Moves
  <1> HIDE DEF d2
  <1> QED
    BY <1>1, <1>2, <1>3, LeaveStep, Zenon

(* A caller that comes late with a result leaves the dial that is in the map, *)
(* if any, alone.                                                             *)
LEMMA SharesKeeps ==
  ASSUME IndInv, NEW n \in Nodes, NEW k \in Callers, Shares(n, k)
  PROVE  IndInv'
  <1> DEFINE cell == callers[n][k].cell
             d2 == Finished(n, cell)
             x == results[n][cell]
  <1>1. /\ callers[n][k].at = "wait" /\ UNCHANGED <<use, phys, side, cur, queue, view>>
        /\ results' = Kept(n, k, x) /\ dials' = [dials EXCEPT ![n] = d2]
        /\ callers' = [callers EXCEPT ![n][k] = NoCaller] /\ x \in {"ok", "err"}
    BY Zenon DEF Shares, tableVars
  <1>2. cell # dials[n]
    <2>1. cell \in Cells /\ (dials[n] # 0 => results[n][dials[n]] = "none")
      BY <1>1, NodeFacts, Zenon DEF DialsOK
    <2>2. cell # 0
      BY <2>1, ConstantsAssumption, FS_CardinalityType, SMTT(30) DEF Cells
    <2> QED
      BY <1>1, <2>1, <2>2, Zenon
  <1>3. LeavesWell(callers[n], dials[n], results[n], k, x, d2)
    BY <1>1, <1>2, Zenon DEF LeavesWell, Finished, Outcomes
  <1>4. phys' \in Transport /\ Moves(phys, phys')
    BY <1>1, NodeFacts, Zenon DEF Moves
  <1>5. callers[n][k].at # "idle"
    BY <1>1
  <1> HIDE DEF d2, x
  <1> QED
    BY <1>1, <1>3, <1>4, <1>5, LeaveStep, Zenon

(* DialWaiter::drop: the last caller of a dial takes it out of the map. *)
LEMMA CancelDialKeeps ==
  ASSUME IndInv, NEW n \in Nodes, NEW k \in Callers, CancelDial(n, k)
  PROVE  IndInv'
  <1> DEFINE cell == callers[n][k].cell
             d2 == Released(n, k)
             x == results[n][cell]
  <1>1. /\ callers[n][k].at # "idle" /\ UNCHANGED <<use, side, cur, queue, view>>
        /\ results' = Kept(n, k, x) /\ dials' = [dials EXCEPT ![n] = d2]
        /\ callers' = [callers EXCEPT ![n][k] = NoCaller]
        /\ phys' = IF callers[n][k].at = "setup"
                   THEN [phys EXCEPT ![callers[n][k].conn].st = "down"] ELSE phys
    BY Zenon DEF CancelDial, tableVars
  <1>2. phys' \in Transport /\ Moves(phys, phys')
    <2>1. CASE callers[n][k].at = "setup"
      <3>1. callers[n][k].conn \in Conns
        BY <2>1, NodeFacts, Zenon DEF SetupOK, Setup
      <3> QED
        BY <1>1, <2>1, <3>1, NodeFacts, DownFacts, Zenon
    <2>2. CASE callers[n][k].at # "setup"
      BY <1>1, <2>2, NodeFacts, Zenon DEF Moves
    <2> QED
      BY <2>1, <2>2, Zenon
  <1>3. x \in Outcomes \ {"unused"} /\ (dials[n] # 0 => results[n][dials[n]] = "none")
    BY <1>1, NodeFacts, Zenon DEF DialsOK
  <1>4. Holders(n, cell) = {k} <=> Sole(callers[n], k)
    BY <1>1, Zenon DEF Holders, Sole
  <1>5. LeavesWell(callers[n], dials[n], results[n], k, x, d2)
    BY <1>3, <1>4, Zenon DEF LeavesWell, Released
  <1> HIDE DEF d2, x
  <1> QED
    BY <1>1, <1>2, <1>5, LeaveStep, Zenon

----------------------------------------------------------------------------
(* Registering: by the one who dialled, and by the one who accepts *)

(* The table of a node after its step, and the rest of it. *)
TableMoves(n) ==
  /\ side' \in [Nodes -> Sides] /\ cur' \in [Nodes -> {0} \cup Conns]
  /\ phys' \in Transport /\ Moves(phys, phys')
  /\ \A m \in Nodes \ {n} : side'[m] = side[m] /\ cur'[m] = cur[m]
  /\ TableOK(side'[n], cur'[n], phys') /\ SetupOK(n, side'[n], phys', callers'[n])
EventsMove(n) ==
  /\ queue' \in [Nodes -> Seq(Events)] /\ view' \in [Nodes -> SUBSET Conns]
  /\ \A m \in Nodes \ {n} : queue'[m] = queue[m] /\ view'[m] = view[m]
  /\ EventsOK(side'[n], queue'[n], view'[n])

(* A step of a node that leaves its dials alone. *)
LEMMA TableSteps ==
  ASSUME IndInv, NEW n \in Nodes, TableMoves(n), EventsMove(n),
         UNCHANGED <<use, dials, results, callers>>
  PROVE  IndInv'
  <1>1. Types'
    BY Zenon DEF IndInv, Types, TableMoves, EventsMove
  <1>2. NodeOK(n)'
    BY NodeFacts, ZenonT(30) DEF NodeOK, TableMoves, EventsMove
  <1>3. Elsewhere(n)
    BY Zenon DEF Elsewhere, TableMoves, EventsMove
  <1>4. Moves(phys, phys')
    BY Zenon DEF TableMoves
  <1> QED
    BY <1>1, <1>2, <1>3, <1>4, NodeSteps, Zenon

(* The dials that have a connection after the step had it before, and it is   *)
(* not the one that is registered.                                            *)
Spared(n, c) ==
  \A j \in Callers : Setup(callers'[n], j) =>
    callers'[n][j] = callers[n][j] /\ callers[n][j].conn # c

(* A table that has registered a connection is right, and so are the dials    *)
(* that have one.                                                             *)
LEMMA PlacedFacts ==
  ASSUME IndInv, NEW n \in Nodes, NEW c \in Conns, NEW s \in Sides,
         \A d \in Conns : s[d].loop = side[n][d].loop, Spared(n, c),
         NEW z \in Sides, NEW r \in {0} \cup Conns, NEW v \in {0} \cup Conns,
         Placed(n, s, c, z, r, v)
  PROVE  TableMoves(n) /\ side'[n] = z
  <1>0. /\ side \in [Nodes -> Sides] /\ cur \in [Nodes -> {0} \cup Conns] /\ phys \in Transport
    BY DEF IndInv, Types
  <1>1. /\ side' = [side EXCEPT ![n] = z] /\ cur' = [cur EXCEPT ![n] = r]
        /\ phys' = IF v = 0 THEN phys ELSE [phys EXCEPT ![v].st = "down"]
        /\ TableOK(z, r, phys) /\ \A d \in Conns \ {c} : z[d].loop = s[d].loop
    BY DEF Placed
  <1>2. /\ side' \in [Nodes -> Sides] /\ side'[n] = z /\ cur' \in [Nodes -> {0} \cup Conns]
        /\ cur'[n] = r /\ \A m \in Nodes \ {n} : side'[m] = side[m] /\ cur'[m] = cur[m]
    BY <1>0, <1>1, Zenon
  <1>3. phys' \in Transport /\ Moves(phys, phys')
    <2>1. CASE v = 0
      BY <1>0, <1>1, <2>1 DEF Moves
    <2>2. CASE v # 0
      BY <1>0, <1>1, <2>2, DownFacts, Zenon
    <2> QED
      BY <2>1, <2>2
  <1>4. SetupOK(n, z, phys, callers'[n])
    <2>1. SetupOK(n, side[n], phys, callers[n])
      BY NodeFacts, ZenonT(30)
    <2>2. ASSUME NEW k \in Callers, Setup(callers'[n], k)
          PROVE  Setup(callers[n], k) /\ callers'[n][k] = callers[n][k] /\ callers[n][k].conn # c
      BY <2>2, Zenon DEF Spared, Setup
    <2>3. ASSUME NEW k \in Callers, Setup(callers'[n], k)
          PROVE  z[callers'[n][k].conn].loop = "none"
      <3>1. Setup(callers[n], k) /\ callers'[n][k].conn = callers[n][k].conn /\ callers[n][k].conn # c
        BY <2>2, <2>3, Zenon
      <3>2. callers[n][k].conn \in Conns /\ side[n][callers[n][k].conn].loop = "none"
        BY <2>1, <3>1, Zenon DEF SetupOK
      <3> QED
        BY <1>1, <3>1, <3>2, Zenon
    <2> QED
      BY <2>1, <2>2, <2>3, ZenonT(30) DEF SetupOK
  <1>5. TableOK(z, r, phys') /\ SetupOK(n, z, phys', callers'[n])
    BY <1>0, <1>1, <1>3, <1>4, TableStays, SMTT(30)
  <1> QED
    BY <1>2, <1>3, <1>5, Zenon DEF TableMoves

(* A connection is accepted: no dial of this node has it. *)
LEMMA AcceptKeeps ==
  ASSUME IndInv, NEW n \in Nodes, NEW c \in Conns, Accept(n, c)
  PROVE  IndInv'
  <1>1. /\ ~Dialled(n, c) /\ side[n][c].loop = "none" /\ Reaches(n, c)
        /\ Register(n, side[n], c, phys)
        /\ UNCHANGED <<use, dials, results, callers, queue, view>>
    BY DEF Accept, dialVars
  <1>2. phys[c].st # "none"
    BY <1>1 DEF Reaches
  <1>3. PICK z \in Sides, r \in {0} \cup Conns, v \in {0} \cup Conns : Placed(n, side[n], c, z, r, v)
    BY <1>1, <1>2, NodeFacts, RegisterFacts, Zenon
  <1>4. Spared(n, c)
    <2>1. SUFFICES ASSUME NEW j \in Callers, Setup(callers'[n], j)
                   PROVE  callers'[n][j] = callers[n][j] /\ callers[n][j].conn # c
      BY Zenon DEF Spared
    <2>2. callers' = callers /\ Setup(callers[n], j)
      BY <1>1, <2>1
    <2>3. SetupOK(n, side[n], phys, callers[n])
      BY NodeFacts, Zenon
    <2>4. phys[callers[n][j].conn].dialler = n
      BY <2>2, <2>3, Zenon DEF SetupOK
    <2> QED
      BY <1>1, <2>2, <2>4, Zenon DEF Dialled
  <1>5. TableMoves(n) /\ side'[n] = z
    BY <1>3, <1>4, NodeFacts, PlacedFacts, Zenon
  <1>6. EventsMove(n)
    <2>1. /\ EventsOK(side[n], queue[n], view[n]) /\ view[n] \subseteq Conns
          /\ queue \in [Nodes -> Seq(Events)] /\ view \in [Nodes -> SUBSET Conns]
      BY DEF IndInv, Types, NodeOK
    <2>2. /\ \A d \in Conns : z[d].recon = side[n][d].recon
          /\ \A d \in Conns \ {c} : z[d].loop = side[n][d].loop
          /\ z[c].loop = "running"
      BY <1>3, Zenon DEF Placed
    <2>3. EventsOK(z, queue[n], view[n])
      BY <2>1, <2>2, Zenon DEF EventsOK
    <2> QED
      BY <1>1, <1>5, <2>1, <2>3, Zenon DEF EventsMove
  <1> QED
    BY <1>1, <1>5, <1>6, TableSteps, Zenon

(* The rest of Shared::dial: the service is told, the table holds the         *)
(* connection, and the dial has its result.                                   *)
LEMMA DialRegisterKeeps ==
  ASSUME IndInv, NEW n \in Nodes, NEW k \in Callers, DialRegister(n, k)
  PROVE  IndInv'
  <1> DEFINE c == callers[n][k].conn
             e == [side[n][c] EXCEPT !.recon = "sent"]
             s == [side[n] EXCEPT ![c] = e]
             d2 == Finished(n, callers[n][k].cell)
  <1>1. /\ callers[n][k].at = "setup" /\ queue' = Told(n, <<"opened", c>>)
        /\ Register(n, [side[n] EXCEPT ![c].recon = "sent"], c, phys)
        /\ results' = Kept(n, k, "ok") /\ dials' = [dials EXCEPT ![n] = d2]
        /\ callers' = [callers EXCEPT ![n][k] = NoCaller] /\ UNCHANGED <<use, view>>
    BY Zenon DEF DialRegister, Resolve
  <1>2. /\ c \in Conns /\ phys[c].st # "none" /\ side[n][c].loop = "none"
        /\ \A j \in Callers : Setup(callers[n], j) /\ callers[n][j].conn = c => j = k
    <2>1. SetupOK(n, side[n], phys, callers[n]) /\ Setup(callers[n], k)
      BY <1>1, NodeFacts, Zenon DEF Setup
    <2> QED
      BY <2>1, Zenon DEF SetupOK
  <1>3. side[n] \in Sides /\ side[n][c] \in SideSet
    BY <1>2, NodeFacts, Zenon DEF Sides
  <1>4. e \in SideSet /\ e.recon = "sent" /\ e.loop = side[n][c].loop /\ SameTable(side[n][c], e)
    <2>1. /\ e \in SideSet /\ e.recon = "sent" /\ e.loop = side[n][c].loop
          /\ e.held = side[n][c].held /\ e.known = side[n][c].known
          /\ e.retired = side[n][c].retired /\ e.neighbour = side[n][c].neighbour
      BY <1>3, UpdateFacts, Zenon
    <2> QED
      BY <2>1 DEF SameTable
  <1>5. Register(n, s, c, phys)
    BY <1>1, <1>2, <1>3, Zenon DEF Sides
  <1> HIDE DEF e
  <1>6. s \in Sides /\ s[c] = e /\ \A d \in Conns \ {c} : s[d] = side[n][d]
    BY <1>2, <1>3, <1>4, ZenonT(30) DEF Sides
  <1> HIDE DEF s
  <1>7. \A d \in Conns : SameTable(side[n][d], s[d]) /\ s[d].loop = side[n][d].loop
    BY <1>4, <1>6, ZenonT(30) DEF SameTable
  <1>8. TableOK(s, cur[n], phys)
    BY <1>6, <1>7, NodeFacts, SideStays, Zenon
  <1>9. PICK z \in Sides, r \in {0} \cup Conns, v \in {0} \cup Conns : Placed(n, s, c, z, r, v)
    <2>1. s[c].loop = "none" /\ phys \in Transport /\ cur[n] \in {0} \cup Conns
      BY <1>2, <1>7, NodeFacts, Zenon
    <2> QED
      BY <1>2, <1>5, <1>6, <1>8, <2>1, RegisterFacts, Zenon
  <1>10. /\ callers' \in [Nodes -> [Callers -> CallerSet]] /\ dials' \in [Nodes -> {0} \cup Cells]
         /\ results' \in [Nodes -> [Cells -> Outcomes]]
         /\ DialsOK(callers'[n], dials'[n], results'[n])
         /\ callers'[n][k].at = "idle" /\ \A j \in Callers \ {k} : callers'[n][j] = callers[n][j]
         /\ \A m \in Nodes \ {n} :
              callers'[m] = callers[m] /\ dials'[m] = dials[m] /\ results'[m] = results[m]
    <2>1. Active(callers[n][k]) /\ callers[n][k].at # "idle"
      BY <1>1, Zenon DEF Active
    <2>2. LeavesWell(callers[n], dials[n], results[n], k, "ok", d2)
      BY <2>1, ResolvesWell, Zenon
    <2> HIDE DEF d2
    <2> QED
      BY <1>1, <2>1, <2>2, CallerLeaves, Zenon
  <1>11. Spared(n, c)
    BY <1>2, <1>10 DEF Spared, Setup
  <1> HIDE DEF c
  <1>12. TableMoves(n) /\ side'[n] = z
    <2>1. \A d \in Conns : s[d].loop = side[n][d].loop
      BY <1>7, Zenon
    <2>2. c \in Conns /\ s \in Sides
      BY <1>2, <1>6
    <2> QED
      BY <1>9, <1>11, <2>1, <2>2, PlacedFacts, Zenon
  <1>13. EventsMove(n)
    <2>1. /\ EventsOK(side[n], queue[n], view[n]) /\ view[n] \subseteq Conns
          /\ view \in [Nodes -> SUBSET Conns]
      BY DEF IndInv, Types, NodeOK
    <2>2. /\ \A d \in Conns : z[d].recon = s[d].recon
          /\ \A d \in Conns \ {c} : z[d].loop = s[d].loop
          /\ z[c].loop = "running"
      BY <1>9, Zenon DEF Placed
    <2>3. /\ z[c].recon = "sent"
          /\ \A d \in Conns \ {c} : z[d].recon = side[n][d].recon /\ z[d].loop = side[n][d].loop
      BY <1>2, <1>4, <1>6, <2>2, Zenon
    <2>4. <<"opened", c>> \in Events
      BY <1>2 DEF Events
    <2>5. /\ queue' \in [Nodes -> Seq(Events)] /\ \A m \in Nodes \ {n} : queue'[m] = queue[m]
          /\ In(queue[n]) \subseteq In(queue'[n])
          /\ In(queue'[n]) \subseteq In(queue[n]) \cup {<<"opened", c>>}
      <3> DEFINE ev == <<"opened", c>>
      <3>1. queue' = Told(n, ev) /\ ev \in Events
        BY <1>1, <2>4
      <3> HIDE DEF ev
      <3>2. Tells(n, ev, queue')
        BY <3>1, ToldFacts, Zenon
      <3> QED
        BY <3>2, Zenon DEF ev, Tells
    <2>6. EventsOK(z, queue'[n], view[n])
      BY <2>1, <2>2, <2>3, <2>5, Zenon DEF EventsOK
    <2> QED
      BY <1>1, <1>12, <2>1, <2>5, <2>6, ZenonT(30) DEF EventsMove
  <1>14. Types'
    BY <1>1, <1>10, <1>12, <1>13, ZenonT(30) DEF IndInv, Types, TableMoves, EventsMove
  <1>15. NodeOK(n)'
    BY <1>10, <1>12, <1>13, ZenonT(30) DEF NodeOK, TableMoves, EventsMove
  <1>16. Elsewhere(n) /\ Moves(phys, phys')
    BY <1>10, <1>12, <1>13, ZenonT(30) DEF Elsewhere, TableMoves, EventsMove
  <1> QED
    BY <1>14, <1>15, <1>16, NodeSteps, Zenon

----------------------------------------------------------------------------
(* The tasks of a connection *)

(* One side moves on, and keeps its place in the table. *)
LEMMA EntryStep ==
  ASSUME IndInv, NEW n \in Nodes, NEW c \in Conns, NEW e \in SideSet,
         SameTable(side[n][c], e), side' = Entry(n, c, e),
         phys' \in Transport, Moves(phys, phys'),
         UNCHANGED <<use, cur, dials, results, callers, view>>,
         queue' \in [Nodes -> Seq(Events)], \A m \in Nodes \ {n} : queue'[m] = queue[m],
         EventsOK(side'[n], queue'[n], view[n])
  PROVE  IndInv'
  <1>1. /\ side' \in [Nodes -> Sides] /\ side'[n] \in Sides /\ side'[n][c] = e
        /\ \A d \in Conns \ {c} : side'[n][d] = side[n][d]
        /\ \A m \in Nodes \ {n} : side'[m] = side[m]
    <2>1. side \in [Nodes -> Sides]
      BY DEF IndInv, Types
    <2>2. EntrySet(n, c, e, side')
      BY <2>1, EntryFacts, Zenon
    <2> QED
      BY <2>2, Zenon DEF EntrySet
  <1>2. \A d \in Conns : SameTable(side[n][d], side'[n][d])
    BY <1>1 DEF SameTable
  <1>3. TableOK(side'[n], cur[n], phys) /\ SetupOK(n, side'[n], phys, callers[n])
    BY <1>1, <1>2, NodeFacts, SideStays, Zenon
  <1>4. TableOK(side'[n], cur[n], phys') /\ SetupOK(n, side'[n], phys', callers[n])
    BY <1>1, <1>3, NodeFacts, TableStays, Zenon
  <1>5. TableMoves(n)
    BY <1>1, <1>4, Zenon DEF TableMoves, IndInv, Types
  <1>6. EventsMove(n)
    BY Zenon DEF EventsMove, IndInv, Types
  <1> QED
    BY <1>5, <1>6, TableSteps, ZenonT(30)

(* The sides after one has changed, as the events see them. *)
LEMMA EntryEvents ==
  ASSUME IndInv, NEW n \in Nodes, NEW c \in Conns, NEW e \in SideSet, side' = Entry(n, c, e)
  PROVE  /\ side'[n][c] = e /\ \A d \in Conns \ {c} : side'[n][d] = side[n][d]
         /\ EventsOK(side[n], queue[n], view[n]) /\ view[n] \subseteq Conns
         /\ queue \in [Nodes -> Seq(Events)] /\ side[n][c] \in SideSet
  <1>1. side'[n][c] = e /\ \A d \in Conns \ {c} : side'[n][d] = side[n][d]
    <2>1. side \in [Nodes -> Sides]
      BY DEF IndInv, Types
    <2>2. EntrySet(n, c, e, side')
      BY <2>1, EntryFacts, Zenon
    <2> QED
      BY <2>2, Zenon DEF EntrySet
  <1>2. queue \in [Nodes -> Seq(Events)] /\ side[n][c] \in SideSet
    BY DEF IndInv, Types, Sides
  <1> QED
    BY <1>1, <1>2, NodeFacts, Zenon

(* recon marks a connection announced before it tells the service. *)
LEMMA AnnounceKeeps ==
  ASSUME IndInv, NEW n \in Nodes, NEW c \in Conns, Announce(n, c)
  PROVE  IndInv'
  <1> DEFINE f == side[n][c]
             e == [f EXCEPT !.recon = "announced"]
  <1>0. side \in [Nodes -> Sides] /\ f \in SideSet /\ phys \in Transport
    BY DEF IndInv, Types, Sides
  <1>1. /\ f.recon = "ranked" /\ side' = [side EXCEPT ![n][c].recon = "announced"]
        /\ UNCHANGED <<use, phys, cur, dials, results, callers, queue, view>>
    BY DEF Announce, dialVars
  <1>2. /\ e \in SideSet /\ e.known = f.known /\ e.loop = f.loop /\ e.held = f.held
        /\ e.retired = f.retired /\ e.recon = "announced" /\ e.neighbour = f.neighbour
    BY <1>0, UpdateFacts, Zenon
  <1>3. side' = Entry(n, c, e)
    BY <1>0, <1>1, Zenon DEF Sides, Entry
  <1> HIDE DEF e
  <1>4. SameTable(f, e)
    BY <1>2 DEF SameTable
  <1>5. /\ side'[n][c] = e /\ \A d \in Conns \ {c} : side'[n][d] = side[n][d]
        /\ EventsOK(side[n], queue[n], view[n]) /\ view[n] \subseteq Conns
        /\ queue \in [Nodes -> Seq(Events)]
    BY <1>2, <1>3, EntryEvents, Zenon
  <1>6. EventsOK(side'[n], queue[n], view[n])
    <2>1. /\ \A d \in Conns : side[n][d].recon # "none" => side[n][d].loop # "none"
          /\ \A d \in Conns : d \in view[n] \/ <<"opened", d>> \in In(queue[n])
                               => side[n][d].recon = "sent"
          /\ \A d \in view[n] : side[n][d].loop = "done" => <<"closed", d>> \in In(queue[n])
      BY <1>5, Zenon DEF EventsOK
    <2>2. \A d \in Conns : side'[n][d].recon # "none" => side'[n][d].loop # "none"
      BY <1>1, <1>2, <1>5, <2>1, Zenon
    <2>3. \A d \in Conns : d \in view[n] \/ <<"opened", d>> \in In(queue[n])
                           => side'[n][d].recon = "sent"
      BY <1>1, <1>2, <1>5, <2>1, Zenon
    <2>4. \A d \in view[n] : side'[n][d].loop = "done" => <<"closed", d>> \in In(queue[n])
      BY <1>1, <1>2, <1>5, <2>1, Zenon
    <2> QED
      BY <2>2, <2>3, <2>4, Zenon DEF EventsOK
  <1>7. Moves(phys, phys') /\ phys' \in Transport
    BY <1>0, <1>1 DEF Moves
  <1>8. /\ UNCHANGED <<use, cur, dials, results, callers, view>>
        /\ queue' \in [Nodes -> Seq(Events)] /\ \A m \in Nodes \ {n} : queue'[m] = queue[m]
        /\ EventsOK(side'[n], queue'[n], view[n])
    BY <1>1, <1>5, <1>6
  <1> QED
    BY <1>2, <1>3, <1>4, <1>7, <1>8, EntryStep, Zenon

(* recon tells the service of an opening, whether the connection has closed   *)
(* or not.                                                                    *)
LEMMA SendOpenedKeeps ==
  ASSUME IndInv, NEW n \in Nodes, NEW c \in Conns, SendOpened(n, c)
  PROVE  IndInv'
  <1> DEFINE f == side[n][c]
             e == [f EXCEPT !.recon = "sent"]
             ev == <<"opened", c>>
  <1>0. side \in [Nodes -> Sides] /\ f \in SideSet /\ phys \in Transport
    BY DEF IndInv, Types, Sides
  <1>1. /\ f.recon = "announced" /\ side' = [side EXCEPT ![n][c].recon = "sent"]
        /\ queue' = Told(n, ev)
        /\ UNCHANGED <<use, phys, cur, dials, results, callers, view>>
    BY DEF SendOpened, dialVars
  <1>2. /\ e \in SideSet /\ e.known = f.known /\ e.loop = f.loop /\ e.held = f.held
        /\ e.retired = f.retired /\ e.recon = "sent" /\ e.neighbour = f.neighbour
    BY <1>0, UpdateFacts, Zenon
  <1>3. side' = Entry(n, c, e)
    BY <1>0, <1>1, Zenon DEF Sides, Entry
  <1>4. ev \in Events /\ (\A d \in Conns \ {c} : <<"opened", d>> # ev)
        /\ (\A d \in Conns : <<"closed", d>> # ev)
    BY DEF Events
  <1> HIDE DEF e, ev
  <1>5. SameTable(f, e)
    BY <1>2 DEF SameTable
  <1>6. /\ side'[n][c] = e /\ \A d \in Conns \ {c} : side'[n][d] = side[n][d]
        /\ EventsOK(side[n], queue[n], view[n]) /\ view[n] \subseteq Conns
    BY <1>2, <1>3, EntryEvents, Zenon
  <1>7. /\ queue' \in [Nodes -> Seq(Events)] /\ \A m \in Nodes \ {n} : queue'[m] = queue[m]
        /\ In(queue[n]) \subseteq In(queue'[n]) /\ In(queue'[n]) \subseteq In(queue[n]) \cup {ev}
    <2>1. Tells(n, ev, queue')
      BY <1>1, <1>4, ToldFacts, Zenon
    <2> QED
      BY <2>1, Zenon DEF Tells
  <1>8. EventsOK(side'[n], queue'[n], view[n])
    <2>1. \A d \in Conns : side'[n][d].recon # "none" => side'[n][d].loop # "none"
      BY <1>1, <1>2, <1>6, Zenon DEF EventsOK
    <2>2. \A d \in Conns : d \in view[n] \/ <<"opened", d>> \in In(queue'[n])
            => side'[n][d].recon = "sent"
      BY <1>2, <1>4, <1>6, <1>7, Zenon DEF EventsOK
    <2>3. \A d \in view[n] : side'[n][d].loop = "done" => <<"closed", d>> \in In(queue'[n])
      BY <1>2, <1>6, <1>7, Zenon DEF EventsOK
    <2> QED
      BY <2>1, <2>2, <2>3, Zenon DEF EventsOK
  <1>9. Moves(phys, phys') /\ phys' \in Transport
    BY <1>0, <1>1 DEF Moves
  <1>10. UNCHANGED <<use, cur, dials, results, callers, view>>
    BY <1>1
  <1> QED
    BY <1>2, <1>3, <1>5, <1>7, <1>8, <1>9, <1>10, EntryStep, Zenon

(* accept_loop tells the service of a closing if the opening was, or is about *)
(* to be, told.                                                               *)
LEMMA SendClosedKeeps ==
  ASSUME IndInv, NEW n \in Nodes, NEW c \in Conns, SendClosed(n, c)
  PROVE  IndInv'
  <1> DEFINE f == side[n][c]
             e == [f EXCEPT !.loop = "done"]
             ev == <<"closed", c>>
             told == f.recon \in {"announced", "sent"}
  <1>0. /\ side \in [Nodes -> Sides] /\ f \in SideSet /\ phys \in Transport
        /\ queue \in [Nodes -> Seq(Events)]
    BY DEF IndInv, Types, Sides
  <1>1. /\ f.loop = "removed" /\ n \in use.hears /\ side' = [side EXCEPT ![n][c].loop = "done"]
        /\ queue' = IF told THEN Told(n, ev) ELSE queue
        /\ UNCHANGED <<use, phys, cur, dials, results, callers, view>>
    BY DEF SendClosed, dialVars
  <1>2. /\ e \in SideSet /\ e.known = f.known /\ e.loop = "done" /\ e.held = f.held
        /\ e.retired = f.retired /\ e.recon = f.recon /\ e.neighbour = f.neighbour
    BY <1>0, UpdateFacts, Zenon
  <1>3. side' = Entry(n, c, e)
    BY <1>0, <1>1, Zenon DEF Sides, Entry
  <1>4. ev \in Events /\ \A d \in Conns : <<"opened", d>> # ev
    BY DEF Events
  <1> HIDE DEF e
  <1>5. SameTable(f, e)
    BY <1>1, <1>2 DEF SameTable
  <1>6. /\ side'[n][c] = e /\ \A d \in Conns \ {c} : side'[n][d] = side[n][d]
        /\ EventsOK(side[n], queue[n], view[n]) /\ view[n] \subseteq Conns
    BY <1>2, <1>3, EntryEvents, Zenon
  <1> HIDE DEF ev
  <1>7. /\ queue' \in [Nodes -> Seq(Events)] /\ \A m \in Nodes \ {n} : queue'[m] = queue[m]
        /\ In(queue[n]) \subseteq In(queue'[n]) /\ In(queue'[n]) \subseteq In(queue[n]) \cup {ev}
        /\ told => ev \in In(queue'[n])
    <2>1. CASE told
      <3>1. Tells(n, ev, queue')
        BY <1>1, <1>4, <2>1, ToldFacts, Zenon
      <3> QED
        BY <1>1, <3>1, Zenon DEF Tells
    <2>2. CASE ~told
      BY <1>0, <1>1, <2>2, Zenon
    <2> QED
      BY <2>1, <2>2, Zenon
  <1>8. EventsOK(side'[n], queue'[n], view[n])
    <2>1. \A d \in Conns : side'[n][d].recon # "none" => side'[n][d].loop # "none"
      BY <1>2, <1>6, Zenon DEF EventsOK
    <2>2. \A d \in Conns : d \in view[n] \/ <<"opened", d>> \in In(queue'[n])
            => side'[n][d].recon = "sent"
      BY <1>2, <1>4, <1>6, <1>7, Zenon DEF EventsOK
    <2>3. ASSUME NEW d \in view[n], side'[n][d].loop = "done"
          PROVE  <<"closed", d>> \in In(queue'[n])
      <3>1. CASE d = c
        BY <1>6, <1>7, <2>3, <3>1, Zenon DEF EventsOK, ev
      <3>2. CASE d # c
        BY <1>6, <1>7, <2>3, <3>2, Zenon DEF EventsOK
      <3> QED
        BY <3>1, <3>2, Zenon
    <2> QED
      BY <2>1, <2>2, <2>3, Zenon DEF EventsOK
  <1>9. Moves(phys, phys') /\ phys' \in Transport
    BY <1>0, <1>1 DEF Moves
  <1>10. UNCHANGED <<use, cur, dials, results, callers, view>>
    BY <1>1
  <1> QED
    BY <1>2, <1>3, <1>5, <1>7, <1>8, <1>9, <1>10, EntryStep, Zenon

(* The accept loop ends: the service has still to be told. *)
LEMMA EndKeeps ==
  ASSUME IndInv, NEW n \in Nodes, NEW c \in Conns, End(n, c),
         phys' \in Transport, Moves(phys, phys')
  PROVE  IndInv'
  <1> DEFINE f == side[n][c]
             e == [f EXCEPT !.loop = "ended"]
  <1>0. side \in [Nodes -> Sides] /\ f \in SideSet
    BY DEF IndInv, Types, Sides
  <1>1. /\ f.loop = "running" /\ side' = [side EXCEPT ![n][c].loop = "ended"]
        /\ UNCHANGED <<use, cur, dials, results, callers, queue, view>>
    BY DEF End, dialVars
  <1>2. /\ e \in SideSet /\ e.known = f.known /\ e.loop = "ended" /\ e.held = f.held
        /\ e.retired = f.retired /\ e.recon = f.recon /\ e.neighbour = f.neighbour
    BY <1>0, UpdateFacts, Zenon
  <1>3. side' = Entry(n, c, e)
    BY <1>0, <1>1, Zenon DEF Sides, Entry
  <1> HIDE DEF e
  <1>4. SameTable(f, e)
    BY <1>1, <1>2 DEF SameTable
  <1>5. /\ side'[n][c] = e /\ \A d \in Conns \ {c} : side'[n][d] = side[n][d]
        /\ EventsOK(side[n], queue[n], view[n]) /\ view[n] \subseteq Conns
        /\ queue \in [Nodes -> Seq(Events)]
    BY <1>2, <1>3, EntryEvents, Zenon
  <1>6. EventsOK(side'[n], queue[n], view[n])
    BY <1>2, <1>5, Zenon DEF EventsOK
  <1>7. /\ UNCHANGED <<use, cur, dials, results, callers, view>>
        /\ queue' \in [Nodes -> Seq(Events)] /\ \A m \in Nodes \ {n} : queue'[m] = queue[m]
        /\ EventsOK(side'[n], queue'[n], view[n])
    BY <1>1, <1>5, <1>6
  <1> QED
    BY <1>2, <1>3, <1>4, <1>7, EntryStep, Zenon

(* The accept loop ends with the transport, by draining or when idle. *)
LEMMA LoopEndsKeep ==
  ASSUME IndInv, NEW n \in Nodes, NEW c \in Conns, Ended(n, c) \/ Drain(n, c) \/ Idle(n, c)
  PROVE  IndInv'
  <1>0. phys \in Transport /\ phys[c] \in ConnSet
    BY DEF IndInv, Types, Transport
  <1>1. CASE Ended(n, c)
    BY <1>0, <1>1, EndKeeps DEF Ended, Moves
  <1>2. CASE Drain(n, c)
    <2>1. phys' = [phys EXCEPT ![c].st = "down"] /\ End(n, c)
      BY <1>2 DEF Drain
    <2>2. phys' \in Transport /\ Moves(phys, phys')
      BY <1>0, <2>1, DownFacts, Zenon
    <2> QED
      BY <2>1, <2>2, EndKeeps, Zenon
  <1>3. CASE Idle(n, c)
    <2> DEFINE f == [phys[c] EXCEPT !.st = "down", !.left = "none", !.streams = FALSE]
    <2>1. /\ phys' = [phys EXCEPT ![c].st = "down", ![c].left = "none", ![c].streams = FALSE]
          /\ End(n, c)
      BY <1>3 DEF Idle
    <2>2. f \in ConnSet /\ f.st = "down" /\ f.dialler = phys[c].dialler
      BY <1>0, Zenon DEF ConnSet
    <2>3. phys' = [phys EXCEPT ![c] = f]
      BY <1>0, <2>1, Zenon DEF Transport
    <2> HIDE DEF f
    <2>4. phys' \in Transport /\ Moves(phys, phys')
      BY <1>0, <2>2, <2>3, ConnFacts, Zenon
    <2> QED
      BY <2>1, <2>4, EndKeeps, Zenon
  <1> QED
    BY <1>1, <1>2, <1>3

----------------------------------------------------------------------------
(* Steps of the table that hold nothing new *)

Shrinks(s, z) ==
  \A d \in Conns :
    /\ z[d].loop = "none" <=> s[d].loop = "none"
    /\ z[d].held /\ ~z[d].neighbour => s[d].held /\ ~s[d].neighbour

(* A table that holds nothing new is right if its ranking is. *)
LEMMA ShrinkFacts ==
  ASSUME IndInv, NEW n \in Nodes, NEW z \in Sides, NEW r \in {0} \cup Conns,
         side' = [side EXCEPT ![n] = z], cur' = [cur EXCEPT ![n] = r],
         Ranked(z, r), Fresh(z), Shrinks(side[n], z),
         phys' \in Transport, Moves(phys, phys'), callers' = callers
  PROVE  TableMoves(n) /\ side'[n] = z
  <1>0. side \in [Nodes -> Sides] /\ cur \in [Nodes -> {0} \cup Conns] /\ phys \in Transport
    BY DEF IndInv, Types
  <1>1. /\ side' \in [Nodes -> Sides] /\ side'[n] = z /\ cur' \in [Nodes -> {0} \cup Conns]
        /\ cur'[n] = r /\ \A m \in Nodes \ {n} : side'[m] = side[m] /\ cur'[m] = cur[m]
    BY <1>0, Zenon
  <1>2. TableOK(side[n], cur[n], phys) /\ SetupOK(n, side[n], phys, callers[n])
    BY NodeFacts, Zenon
  <1>3. ASSUME NEW m \in Nodes
        PROVE  Cardinality(Counted(z, phys, m)) <= Cap
    <2>1. Counted(z, phys, m) \subseteq Counted(side[n], phys, m)
      BY DEF Counted, Shrinks
    <2>2. Cardinality(Counted(z, phys, m)) <= Cardinality(Counted(side[n], phys, m))
      BY <2>1, CountedFinite, FS_Subset, Zenon
    <2>3. Cardinality(Counted(side[n], phys, m)) <= Cap
      BY <1>2, Zenon DEF TableOK, Capped
    <2>4. /\ Cardinality(Counted(z, phys, m)) \in Nat
          /\ Cardinality(Counted(side[n], phys, m)) \in Nat /\ Cap \in Nat
      BY CountedFinite, ConstantsAssumption, Zenon
    <2> QED
      BY <2>2, <2>3, <2>4, SMTT(30)
  <1>4. Born(z, phys)
    BY <1>2 DEF TableOK, Born, Shrinks
  <1>5. TableOK(z, r, phys)
    BY <1>3, <1>4, Zenon DEF TableOK, Capped
  <1>6. SetupOK(n, z, phys, callers[n])
    BY <1>2, Zenon DEF SetupOK, Shrinks
  <1>7. TableOK(z, r, phys') /\ SetupOK(n, z, phys', callers[n])
    BY <1>0, <1>5, <1>6, TableStays, Zenon
  <1> QED
    BY <1>1, <1>7, Zenon DEF TableMoves

(* A node that hears nothing: its events are right as long as the sides that  *)
(* were announced stay so.                                                    *)
LEMMA QuietFacts ==
  ASSUME IndInv, NEW n \in Nodes, NEW z \in Sides, side'[n] = z, UNCHANGED <<queue, view>>,
         \A d \in Conns : /\ z[d].recon # "none" => z[d].loop # "none"
                          /\ side[n][d].recon = "sent" => z[d].recon = "sent"
                          /\ z[d].loop = "done" => side[n][d].loop = "done"
  PROVE  EventsMove(n)
  <1>1. /\ EventsOK(side[n], queue[n], view[n]) /\ view[n] \subseteq Conns
        /\ queue \in [Nodes -> Seq(Events)] /\ view \in [Nodes -> SUBSET Conns]
    BY Zenon DEF IndInv, Types, NodeOK
  <1>2. EventsOK(z, queue[n], view[n])
    BY <1>1, Zenon DEF EventsOK
  <1> QED
    BY <1>1, <1>2, Zenon DEF EventsMove

(* The table forgets a connection whose accept loop has ended, current or     *)
(* retired.                                                                   *)
LEMMA ForgetKeeps ==
  ASSUME IndInv, NEW n \in Nodes, NEW c \in Conns, Forget(n, c)
  PROVE  IndInv'
  <1> DEFINE s == side[n]
             t == Remove([side |-> s, cur |-> cur[n]], c)
             e == [t.side[c] EXCEPT !.loop = "removed", !.retired = FALSE]
             z == [t.side EXCEPT ![c] = e]
  <1>0. /\ s \in Sides /\ phys \in Transport /\ cur[n] \in {0} \cup Conns
        /\ Ranked(s, cur[n]) /\ Fresh(s) /\ EventsOK(s, queue[n], view[n])
    BY NodeFacts, Zenon DEF TableOK
  <1>1. /\ s[c].loop = "ended" /\ cur' = [cur EXCEPT ![n] = t.cur]
        /\ side' = [side EXCEPT ![n] = [t.side EXCEPT ![c].loop = "removed", ![c].retired = FALSE]]
        /\ UNCHANGED <<use, phys, dials, results, callers, queue, view>>
    BY Zenon DEF Forget, dialVars
  <1>2. /\ t.side \in Sides /\ t.cur \in {0} \cup Conns
        /\ Ranked(t.side, t.cur) /\ Fresh(t.side)
        /\ ~t.side[c].held /\ Same(s[c], t.side[c])
        /\ \A d \in Conns \ {c} : t.side[d] = s[d]
    <2>1. t = Remove([side |-> s, cur |-> cur[n]], c)
      OBVIOUS
    <2> HIDE DEF t, s
    <2>2. Removal(s, c, t)
      BY <1>0, <2>1, RemoveFacts, Zenon
    <2> QED
      BY <2>2, Zenon DEF Removal
  <1> HIDE DEF t
  <1>3. t.side[c] \in SideSet
    BY <1>2 DEF Sides
  <1>4. /\ e \in SideSet /\ e.loop = "removed" /\ ~e.held /\ e.recon = t.side[c].recon
        /\ e.neighbour = t.side[c].neighbour
    BY <1>3, <1>2, Zenon DEF SideSet
  <1>5. side' = [side EXCEPT ![n] = z]
    BY <1>1, <1>2, Zenon DEF Sides
  <1> HIDE DEF e
  <1>6. z \in Sides /\ z[c] = e /\ \A d \in Conns \ {c} : z[d] = t.side[d]
    BY <1>2, <1>4, Zenon DEF Sides
  <1> HIDE DEF z
  <1>7. Ranked(z, t.cur) /\ Fresh(z)
    BY <1>2, <1>4, <1>6, SMTT(30) DEF Ranked, Fresh, Usable
  <1>8. Shrinks(s, z)
    BY <1>1, <1>2, <1>4, <1>6, Zenon DEF Shrinks
  <1>9. phys' \in Transport /\ Moves(phys, phys') /\ callers' = callers
    BY <1>0, <1>1 DEF Moves
  <1>10. cur' = [cur EXCEPT ![n] = t.cur]
    BY <1>1, Zenon
  <1> DEFINE r == t.cur
  <1>11. r \in {0} \cup Conns /\ cur' = [cur EXCEPT ![n] = r] /\ Ranked(z, r)
    BY <1>2, <1>7, <1>10, Zenon
  <1> HIDE DEF r
  <1>12. TableMoves(n) /\ side'[n] = z
    BY <1>5, <1>6, <1>7, <1>8, <1>9, <1>11, ShrinkFacts, Zenon
  <1>13. \A d \in Conns : /\ z[d].recon # "none" => z[d].loop # "none"
                          /\ s[d].recon = "sent" => z[d].recon = "sent"
                          /\ z[d].loop = "done" => s[d].loop = "done"
    BY <1>0, <1>2, <1>4, <1>6, ZenonT(30) DEF EventsOK, Same
  <1>14. EventsMove(n)
    BY <1>1, <1>6, <1>12, <1>13, QuietFacts
  <1> QED
    BY <1>1, <1>12, <1>14, TableSteps, Zenon

(* invalidate: a connection in use leaves the table before its accept loop    *)
(* ends.                                                                      *)
LEMMA InvalidateKeeps ==
  ASSUME IndInv, NEW n \in Nodes, NEW c \in Conns, Invalidate(n, c)
  PROVE  IndInv'
  <1> DEFINE s == side[n]
             t == Remove([side |-> s, cur |-> cur[n]], c)
             z == t.side
             r == t.cur
  <1>0. /\ s \in Sides /\ phys \in Transport /\ cur[n] \in {0} \cup Conns
        /\ Ranked(s, cur[n]) /\ Fresh(s) /\ EventsOK(s, queue[n], view[n])
    BY NodeFacts, Zenon DEF TableOK
  <1>1. /\ cur' = [cur EXCEPT ![n] = r] /\ side' = [side EXCEPT ![n] = z]
        /\ phys' = [phys EXCEPT ![c].st = "down"]
        /\ UNCHANGED <<use, dials, results, callers, queue, view>>
    BY Zenon DEF Invalidate, dialVars
  <1>2. /\ z \in Sides /\ r \in {0} \cup Conns /\ Ranked(z, r) /\ Fresh(z)
        /\ ~z[c].held /\ Same(s[c], z[c]) /\ \A d \in Conns \ {c} : z[d] = s[d]
    <2>1. t = Remove([side |-> s, cur |-> cur[n]], c)
      OBVIOUS
    <2> HIDE DEF t, s
    <2>2. Removal(s, c, t)
      BY <1>0, <2>1, RemoveFacts, Zenon
    <2> QED
      BY <2>2, Zenon DEF Removal
  <1> HIDE DEF z, r
  <1>3. Shrinks(s, z)
    BY <1>2 DEF Shrinks, Same
  <1>4. phys' \in Transport /\ Moves(phys, phys')
    BY <1>0, <1>1, DownFacts, Zenon
  <1>5. TableMoves(n) /\ side'[n] = z
    BY <1>1, <1>2, <1>3, <1>4, ShrinkFacts, Zenon
  <1>6. \A d \in Conns : /\ z[d].recon # "none" => z[d].loop # "none"
                         /\ s[d].recon = "sent" => z[d].recon = "sent"
                         /\ z[d].loop = "done" => s[d].loop = "done"
    BY <1>0, <1>2, Zenon DEF EventsOK, Same
  <1>7. EventsMove(n)
    BY <1>1, <1>2, <1>5, <1>6, QuietFacts, Zenon
  <1> QED
    BY <1>1, <1>5, <1>7, TableSteps, Zenon

(* recon reads the opening frame and ranks the connection, held or already    *)
(* removed.                                                                   *)
LEMMA ReadOpenKeeps ==
  ASSUME IndInv, NEW n \in Nodes, NEW c \in Conns, ReadOpen(n, c)
  PROVE  IndInv'
  <1> DEFINE f == side[n][c]
             e == [f EXCEPT !.known = TRUE, !.recon = "ranked"]
             s == [side[n] EXCEPT ![c] = e]
             t == Rank(n, [side |-> s, cur |-> cur[n]], c)
  <1>0. /\ side[n] \in Sides /\ f \in SideSet /\ phys \in Transport /\ cur[n] \in {0} \cup Conns
        /\ Ranked(side[n], cur[n]) /\ Fresh(side[n]) /\ EventsOK(side[n], queue[n], view[n])
    BY NodeFacts, Zenon DEF TableOK, Sides
  <1>1. /\ f.loop # "none" /\ f.recon = "none"
        /\ LET u == Rank(n, [side |-> [side[n] EXCEPT ![c].known = TRUE, ![c].recon = "ranked"],
                             cur |-> cur[n]], c)
           IN  side' = [side EXCEPT ![n] = u.side] /\ cur' = [cur EXCEPT ![n] = u.cur]
        /\ UNCHANGED <<use, phys, dials, results, callers, queue, view>>
    BY DEF ReadOpen, dialVars
  <1>2. s = [side[n] EXCEPT ![c].known = TRUE, ![c].recon = "ranked"]
    BY <1>0, Zenon DEF Sides
  <1>3. side' = [side EXCEPT ![n] = t.side] /\ cur' = [cur EXCEPT ![n] = t.cur]
    BY <1>1, <1>2, Zenon
  <1>4. /\ e \in SideSet /\ e.known /\ e.loop = f.loop /\ e.held = f.held
        /\ e.retired = f.retired /\ e.recon = "ranked" /\ e.neighbour = f.neighbour
    BY <1>0, Zenon DEF SideSet
  <1> HIDE DEF e
  <1>5. s \in Sides /\ s[c] = e /\ \A d \in Conns \ {c} : s[d] = side[n][d]
    BY <1>0, <1>4 DEF Sides
  <1> HIDE DEF s
  <1>6. Unranked(s, cur[n], c)
    <2>1. Fresh(s)
      BY <1>0, <1>1, <1>4, <1>5, Zenon DEF Fresh
    <2>2. \A d \in Conns \ {c} : cur[n] = d <=> Usable(s[d])
      BY <1>0, <1>5, ZenonT(30) DEF Ranked
    <2>3. cur[n] = c => Usable(s[c])
      BY <1>0, <1>4, <1>5, Zenon DEF Ranked, Usable
    <2> QED
      BY <1>1, <1>4, <1>5, <2>1, <2>2, <2>3, Zenon DEF Unranked
  <1>7. Reranked(s, t)
    <2> DEFINE r == cur[n]
    <2>1. r \in {0} \cup Conns /\ s \in Sides /\ Unranked(s, r, c)
      BY <1>0, <1>5, <1>6, Zenon
    <2>2. t = Rank(n, [side |-> s, cur |-> r], c)
      OBVIOUS
    <2> HIDE DEF r, t
    <2> QED
      BY <2>1, <2>2, RankFacts, Zenon
  <1> DEFINE z == t.side
             r == t.cur
  <1> HIDE DEF t
  <1>8. /\ z \in Sides /\ r \in {0} \cup Conns /\ Ranked(z, r) /\ Fresh(z)
        /\ \A d \in Conns : Same(s[d], z[d]) /\ z[d].held = s[d].held
    BY <1>7 DEF Reranked
  <1>9. side' = [side EXCEPT ![n] = z] /\ cur' = [cur EXCEPT ![n] = r]
    BY <1>3, Zenon
  <1> HIDE DEF z, r
  <1>10. Shrinks(side[n], z)
    BY <1>4, <1>5, <1>8, Zenon DEF Shrinks, Same
  <1>11. phys' \in Transport /\ Moves(phys, phys') /\ callers' = callers
    BY <1>0, <1>1 DEF Moves
  <1>12. TableMoves(n) /\ side'[n] = z
    BY <1>8, <1>9, <1>10, <1>11, ShrinkFacts, Zenon
  <1>13. \A d \in Conns : /\ z[d].recon # "none" => z[d].loop # "none"
                          /\ side[n][d].recon = "sent" => z[d].recon = "sent"
                          /\ z[d].loop = "done" => side[n][d].loop = "done"
    <2>1. ASSUME NEW d \in Conns, d # c
          PROVE  z[d].recon = side[n][d].recon /\ z[d].loop = side[n][d].loop
      BY <1>5, <1>8, <2>1, Zenon DEF Same
    <2>2. z[c].recon = "ranked" /\ z[c].loop = f.loop
      BY <1>4, <1>5, <1>8, Zenon DEF Same
    <2>3. f.recon = "none" /\ f.loop # "none"
      BY <1>1, Zenon
    <2>4. ASSUME NEW d \in Conns PROVE side[n][d].recon # "none" => side[n][d].loop # "none"
      BY <1>0, Zenon DEF EventsOK
    <2> QED
      BY <2>1, <2>2, <2>3, <2>4, Zenon
  <1>14. EventsMove(n)
    BY <1>1, <1>8, <1>12, <1>13, QuietFacts, Zenon
  <1> QED
    BY <1>1, <1>12, <1>14, TableSteps, Zenon

(* A neighbour's connection no longer counts against the cap. *)
LEMMA SetNeighbourKeeps ==
  ASSUME IndInv, NEW n \in Nodes, NEW c \in Conns, SetNeighbour(n, c)
  PROVE  IndInv'
  <1> DEFINE f == side[n][c]
             e == [f EXCEPT !.neighbour = TRUE]
             z == [side[n] EXCEPT ![c] = e]
             r == cur[n]
  <1>0. /\ side \in [Nodes -> Sides] /\ side[n] \in Sides /\ f \in SideSet /\ phys \in Transport
        /\ r \in {0} \cup Conns /\ cur \in [Nodes -> {0} \cup Conns]
        /\ Ranked(side[n], r) /\ Fresh(side[n]) /\ EventsOK(side[n], queue[n], view[n])
    BY DEF IndInv, Types, NodeOK, TableOK, Sides
  <1>1. /\ c \in view[n] /\ side' = [side EXCEPT ![n][c].neighbour = TRUE]
        /\ UNCHANGED <<use, phys, cur, dials, results, callers, queue, view>>
    BY DEF SetNeighbour, dialVars
  <1>2. f.loop # "none"
    BY <1>0, <1>1, Zenon DEF EventsOK
  <1>3. /\ e \in SideSet /\ e.known = f.known /\ e.loop = f.loop /\ e.held = f.held
        /\ e.retired = f.retired /\ e.recon = f.recon /\ e.neighbour
    BY <1>0, UpdateFacts, Zenon
  <1>4. side' = [side EXCEPT ![n] = z] /\ cur' = [cur EXCEPT ![n] = r]
    <2>1. side' = [side EXCEPT ![n] = z]
      BY <1>0, <1>1, Zenon DEF Sides
    <2>2. cur' = [cur EXCEPT ![n] = r]
      BY <1>0, <1>1, Zenon
    <2> QED
      BY <2>1, <2>2
  <1> HIDE DEF e
  <1>5. z \in Sides /\ z[c] = e /\ \A d \in Conns \ {c} : z[d] = side[n][d]
    BY <1>0, <1>3, ZenonT(30) DEF Sides
  <1> HIDE DEF z, r
  <1>6. Ranked(z, r) /\ Fresh(z)
    BY <1>0, <1>2, <1>3, <1>5, ZenonT(30) DEF Ranked, Fresh, Usable
  <1>7. Shrinks(side[n], z)
    BY <1>3, <1>5 DEF Shrinks
  <1>8. phys' \in Transport /\ Moves(phys, phys') /\ callers' = callers
    BY <1>0, <1>1 DEF Moves
  <1>9. TableMoves(n) /\ side'[n] = z
    BY <1>0, <1>4, <1>5, <1>6, <1>7, <1>8, ShrinkFacts, Zenon
  <1>10. \A d \in Conns : /\ z[d].recon # "none" => z[d].loop # "none"
                          /\ side[n][d].recon = "sent" => z[d].recon = "sent"
                          /\ z[d].loop = "done" => side[n][d].loop = "done"
    BY <1>0, <1>3, <1>5, ZenonT(30) DEF EventsOK
  <1>11. EventsMove(n)
    BY <1>1, <1>5, <1>9, <1>10, QuietFacts
  <1> QED
    BY <1>1, <1>9, <1>11, TableSteps, Zenon

----------------------------------------------------------------------------
(* The transport, the service and crashes *)

LEMMA PhysStep ==
  ASSUME IndInv, phys' \in Transport, Moves(phys, phys'),
         UNCHANGED <<use, side, cur, dials, results, callers, queue, view>>
  PROVE  IndInv'
  <1>1. PICK n \in Nodes : TRUE
    BY DEF Nodes
  <1>2. TableOK(side[n], cur[n], phys') /\ SetupOK(n, side[n], phys', callers[n])
    BY NodeFacts, TableStays, Zenon
  <1>3. NodeOK(n)' /\ Types' /\ Elsewhere(n)
    BY <1>2, NodeFacts, Zenon DEF NodeOK, IndInv, Types, Elsewhere
  <1> QED
    BY <1>3, NodeSteps

(* Streams begin and end, and connections are lost, without the table         *)
(* noticing.                                                                  *)
LEMMA TransportKeeps ==
  ASSUME IndInv, NEW c \in Conns,
         EndStream(c) \/ Lose(c) \/ \E n \in Nodes : OpenStream(n) /\ cur[n] = c
  PROVE  IndInv'
  <1> DEFINE f == [phys[c] EXCEPT !.streams = TRUE]
             g == [phys[c] EXCEPT !.streams = FALSE]
             h == [phys[c] EXCEPT !.st = "down", !.streams = FALSE]
  <1>0. phys \in Transport /\ phys[c] \in ConnSet
    BY DEF IndInv, Types, Transport
  <1>1. /\ f \in ConnSet /\ f.st = phys[c].st /\ f.dialler = phys[c].dialler
        /\ g \in ConnSet /\ g.st = phys[c].st /\ g.dialler = phys[c].dialler
        /\ h \in ConnSet /\ h.st = "down" /\ h.dialler = phys[c].dialler
    BY <1>0, Zenon DEF ConnSet
  <1>2. /\ UNCHANGED <<use, side, cur, dials, results, callers, queue, view>>
        /\ phys' \in {[phys EXCEPT ![c] = f], [phys EXCEPT ![c] = g], [phys EXCEPT ![c] = h]}
    <2>1. CASE EndStream(c)
      BY <1>0, <2>1, Zenon DEF EndStream, tableVars, dialVars, Transport
    <2>2. CASE Lose(c)
      BY <1>0, <2>2, Zenon DEF Lose, tableVars, dialVars, Transport
    <2>3. CASE \E n \in Nodes : OpenStream(n) /\ cur[n] = c
      BY <1>0, <2>3, Zenon DEF OpenStream, tableVars, dialVars, Transport
    <2> QED
      BY <2>1, <2>2, <2>3
  <1> HIDE DEF f, g, h
  <1>3. phys' \in Transport /\ Moves(phys, phys')
    BY <1>0, <1>1, <1>2, Zenon DEF Transport, Moves
  <1> QED
    BY <1>2, <1>3, PhysStep, Zenon

(* The service takes the next event: an opening that comes after the end is   *)
(* ignored.                                                                   *)
LEMMA HearKeeps ==
  ASSUME IndInv, NEW n \in Nodes, Hear(n)
  PROVE  IndInv'
  <1> DEFINE q == queue[n]
             ev == Head(q)
             v == Heard(n, ev)
             w == Tail(q)
  <1>0. /\ queue \in [Nodes -> Seq(Events)] /\ view \in [Nodes -> SUBSET Conns]
        /\ view[n] \subseteq Conns /\ EventsOK(side[n], q, view[n]) /\ phys \in Transport
    BY DEF IndInv, Types, NodeOK
  <1>1. /\ q # <<>> /\ view' = [view EXCEPT ![n] = v] /\ queue' = [queue EXCEPT ![n] = w]
        /\ UNCHANGED <<use, phys, side, cur, dials, results, callers>>
    BY DEF Hear, tableVars, dialVars
  <1>2. w \in Seq(Events) /\ ev \in Events /\ In(q) = In(w) \cup {ev}
    BY <1>0, <1>1, TailFacts, Zenon
  <1> HIDE DEF ev, w
  <1>3. PICK c \in Conns : ev = <<"opened", c>> \/ ev = <<"closed", c>>
    BY <1>2 DEF Events
  <1> HIDE DEF q
  <1>4. v \subseteq Conns /\ EventsOK(side[n], w, v)
    <2>1. CASE ev = <<"closed", c>>
      <3>1. v = view[n] \ {c}
        BY <2>1 DEF Heard
      <3>2. \A d \in Conns : <<"opened", d>> \in In(w) => <<"opened", d>> \in In(q)
        BY <1>2
      <3>3. \A d \in v : <<"closed", d>> \in In(q) => <<"closed", d>> \in In(w)
        BY <1>2, <2>1, <3>1, Zenon
      <3> HIDE DEF v
      <3> QED
        BY <1>0, <3>1, <3>2, <3>3, Zenon DEF EventsOK
    <2>2. CASE ev = <<"opened", c>>
      <3>1. v = IF Closed(side[n][c]) THEN view[n] ELSE view[n] \cup {c}
        BY <2>2, Zenon DEF Heard
      <3>2. \A d \in Conns : <<"opened", d>> \in In(w) => <<"opened", d>> \in In(q)
        BY <1>2
      <3>3. \A d \in Conns : <<"closed", d>> \in In(q) => <<"closed", d>> \in In(w)
        BY <1>2, <2>2
      <3>4. <<"opened", c>> \in In(q)
        BY <1>2, <2>2, Zenon
      <3> HIDE DEF v
      <3>5. v \subseteq Conns /\ \A d \in v : d \in view[n] \/ (d = c /\ side[n][c].loop # "done")
        BY <1>0, <3>1, Zenon DEF Closed
      <3> QED
        BY <1>0, <3>2, <3>3, <3>4, <3>5, Zenon DEF EventsOK
    <2> QED
      BY <1>3, <2>1, <2>2, Zenon
  <1> HIDE DEF v
  <1>5. /\ queue' \in [Nodes -> Seq(Events)] /\ view' \in [Nodes -> SUBSET Conns]
        /\ queue'[n] = w /\ view'[n] = v
        /\ \A m \in Nodes \ {n} : queue'[m] = queue[m] /\ view'[m] = view[m]
    BY <1>0, <1>1, <1>2, <1>4, Zenon
  <1>6. EventsMove(n)
    BY <1>1, <1>4, <1>5, Zenon DEF EventsMove
  <1>7. TableMoves(n)
    BY <1>0, <1>1, NodeFacts, Zenon DEF TableMoves, Moves, IndInv, Types
  <1> QED
    BY <1>1, <1>6, <1>7, TableSteps, Zenon

(* A node that has just started. *)
NewSides == [c \in Conns |-> NewSide]
NewCallers == [k \in Callers |-> NoCaller]
NewResults == [c \in Cells |-> "unused"]

(* A node that has just started has nothing to be wrong about. *)
LEMMA EmptyNode ==
  ASSUME NEW n, NEW ph
  PROVE  /\ NewSides \in Sides /\ NewCallers \in [Callers -> CallerSet]
         /\ NewResults \in [Cells -> Outcomes] /\ <<>> \in Seq(Events)
         /\ TableOK(NewSides, 0, ph) /\ SetupOK(n, NewSides, ph, NewCallers)
         /\ EventsOK(NewSides, <<>>, {}) /\ DialsOK(NewCallers, 0, NewResults)
  <1>1. NewSides \in Sides
    BY DEF NewSides, NewSide, Sides, SideSet
  <1>2. NewCallers \in [Callers -> CallerSet]
    BY DEF NewCallers, NoCaller, CallerSet
  <1>3. NewResults \in [Cells -> Outcomes]
    BY Zenon DEF NewResults, Outcomes
  <1>4. \A c \in Conns : /\ ~NewSides[c].held /\ ~NewSides[c].retired /\ ~NewSides[c].neighbour
                         /\ NewSides[c].loop = "none" /\ NewSides[c].recon = "none"
    BY DEF NewSides, NewSide
  <1>5. 0 \notin Conns
    BY ConstantsAssumption DEF Conns
  <1>6. Capped(NewSides, ph)
    <2>1. \A m \in Nodes : Counted(NewSides, ph, m) = {}
      BY <1>4 DEF Counted
    <2>2. Cardinality({}) = 0 /\ Cap \in Nat
      BY FS_EmptySet, ConstantsAssumption, Zenon
    <2> QED
      BY <2>1, <2>2, SMTT(30) DEF Capped
  <1>7. TableOK(NewSides, 0, ph)
    BY <1>4, <1>5, <1>6, Zenon DEF TableOK, Ranked, Fresh, Born, Usable, Unplaced
  <1>8. \A k \in Callers : NewCallers[k].at = "idle"
    BY Zenon DEF NewCallers, NoCaller
  <1>9. SetupOK(n, NewSides, ph, NewCallers)
    BY <1>8 DEF SetupOK, Setup
  <1>10. In(<<>>) = {}
    BY SMTT(30) DEF In
  <1>11. EventsOK(NewSides, <<>>, {})
    BY <1>4, <1>10, Zenon DEF EventsOK
  <1>12. DialsOK(NewCallers, 0, NewResults)
    BY <1>8 DEF DialsOK, Active, NewResults
  <1>13. <<>> \in Seq(Events)
    OBVIOUS
  <1> QED
    BY <1>1, <1>2, <1>3, <1>7, <1>9, <1>11, <1>12, <1>13, Zenon

(* A crash empties one node's table and leaves the other's as it is. *)
LEMMA CrashKeeps ==
  ASSUME IndInv, NEW n \in Nodes, Crash(n)
  PROVE  IndInv'
  <1> DEFINE f(c) == [phys[c] EXCEPT !.st = "half", !.left = Other(n), !.streams = FALSE]
             g(c) == [phys[c] EXCEPT !.st = "down", !.left = "none"]
  <1>0. /\ phys \in Transport /\ side \in [Nodes -> Sides] /\ cur \in [Nodes -> {0} \cup Conns]
        /\ dials \in [Nodes -> {0} \cup Cells] /\ results \in [Nodes -> [Cells -> Outcomes]]
        /\ callers \in [Nodes -> [Callers -> CallerSet]]
        /\ queue \in [Nodes -> Seq(Events)] /\ view \in [Nodes -> SUBSET Conns] /\ use \in Uses
    BY DEF IndInv, Types
  <1>1. /\ phys' = [c \in Conns |->
                     CASE phys[c].st = "up" -> f(c)
                       [] phys[c].st = "half" /\ phys[c].left = n -> g(c)
                       [] OTHER -> phys[c]]
        /\ side' = [side EXCEPT ![n] = NewSides] /\ cur' = [cur EXCEPT ![n] = 0]
        /\ dials' = [dials EXCEPT ![n] = 0] /\ callers' = [callers EXCEPT ![n] = NewCallers]
        /\ queue' = [queue EXCEPT ![n] = <<>>] /\ view' = [view EXCEPT ![n] = {}]
        /\ results' = [results EXCEPT ![n] = NewResults] /\ use' = use
    BY Zenon DEF Crash, NewSides, NewCallers, NewResults
  <1>2. ASSUME NEW c \in Conns
        PROVE  /\ phys[c] \in ConnSet
               /\ f(c) \in ConnSet /\ f(c).st = "half" /\ f(c).dialler = phys[c].dialler
               /\ g(c) \in ConnSet /\ g(c).st = "down" /\ g(c).dialler = phys[c].dialler
    <2>1. phys[c] \in ConnSet /\ Other(n) \in Nodes
      BY <1>0 DEF Transport, Other, Nodes
    <2>2. f(c) \in ConnSet /\ f(c).st = "half" /\ f(c).dialler = phys[c].dialler
      BY <2>1, Zenon DEF ConnSet
    <2>3. g(c) \in ConnSet /\ g(c).st = "down" /\ g(c).dialler = phys[c].dialler
      BY <2>1, Zenon DEF ConnSet
    <2> QED
      BY <2>1, <2>2, <2>3, Zenon
  <1> HIDE DEF f, g
  <1>3. ASSUME NEW c \in Conns
        PROVE  /\ phys'[c] \in ConnSet
               /\ phys[c].st # "none" => phys'[c].st # "none" /\ phys'[c].dialler = phys[c].dialler
    <2>1. phys'[c] = f(c) \/ phys'[c] = g(c) \/ phys'[c] = phys[c]
      BY <1>1
    <2> QED
      BY <1>2, <2>1
  <1>4. phys' \in Transport /\ Moves(phys, phys')
    BY <1>1, <1>3 DEF Transport, Moves
  <1>5. /\ NewSides \in Sides /\ NewCallers \in [Callers -> CallerSet]
        /\ NewResults \in [Cells -> Outcomes] /\ <<>> \in Seq(Events)
        /\ TableOK(NewSides, 0, phys') /\ SetupOK(n, NewSides, phys', NewCallers)
        /\ EventsOK(NewSides, <<>>, {}) /\ DialsOK(NewCallers, 0, NewResults)
    BY EmptyNode
  <1>6. /\ side' \in [Nodes -> Sides] /\ cur' \in [Nodes -> {0} \cup Conns]
        /\ dials' \in [Nodes -> {0} \cup Cells] /\ results' \in [Nodes -> [Cells -> Outcomes]]
        /\ callers' \in [Nodes -> [Callers -> CallerSet]]
        /\ queue' \in [Nodes -> Seq(Events)] /\ view' \in [Nodes -> SUBSET Conns]
    BY <1>0, <1>1, <1>5, Zenon
  <1>7. Types'
    BY <1>0, <1>1, <1>4, <1>6, Zenon DEF Types
  <1>8. /\ side'[n] = NewSides /\ cur'[n] = 0 /\ dials'[n] = 0 /\ results'[n] = NewResults
        /\ callers'[n] = NewCallers /\ queue'[n] = <<>> /\ view'[n] = {}
    BY <1>0, <1>1, Zenon
  <1>9. NodeOK(n)'
    BY <1>5, <1>8, Zenon DEF NodeOK
  <1>10. Elsewhere(n)
    BY <1>0, <1>1 DEF Elsewhere
  <1> QED
    BY <1>4, <1>7, <1>9, <1>10, NodeSteps, Zenon

----------------------------------------------------------------------------
(* The theorems *)

(* The invariant holds when both nodes start. *)
LEMMA InitHolds ==
  ASSUME Init
  PROVE  IndInv
  <1>1. /\ use \in Uses /\ phys = [c \in Conns |-> NoConn]
        /\ side = [n \in Nodes |-> NewSides] /\ cur = [n \in Nodes |-> 0]
        /\ dials = [n \in Nodes |-> 0] /\ results = [n \in Nodes |-> NewResults]
        /\ callers = [n \in Nodes |-> NewCallers]
        /\ queue = [n \in Nodes |-> <<>>] /\ view = [n \in Nodes |-> {}]
    BY Zenon DEF Init, NewSides, NewCallers, NewResults
  <1>2. NoConn \in ConnSet
    BY DEF NoConn, ConnSet, Nodes
  <1>3. phys \in Transport
    BY <1>1, <1>2, Zenon DEF Transport
  <1>4. ASSUME NEW n \in Nodes
        PROVE  /\ NewSides \in Sides /\ NewCallers \in [Callers -> CallerSet]
               /\ NewResults \in [Cells -> Outcomes] /\ <<>> \in Seq(Events)
               /\ TableOK(NewSides, 0, phys) /\ SetupOK(n, NewSides, phys, NewCallers)
               /\ EventsOK(NewSides, <<>>, {}) /\ DialsOK(NewCallers, 0, NewResults)
    BY EmptyNode, Zenon
  <1>5. ASSUME NEW n \in Nodes
        PROVE  NodeOK(n)
    BY <1>1, <1>4, Zenon DEF NodeOK
  <1>6. Types
    BY <1>1, <1>3, <1>4, Zenon DEF Types
  <1> QED
    BY <1>5, <1>6 DEF IndInv

(* A step that changes nothing keeps the invariant. *)
LEMMA StutterKeeps ==
  ASSUME IndInv, UNCHANGED vars
  PROVE  IndInv'
  BY PhysStep, Zenon DEF vars, Moves, IndInv, Types

(* Every step keeps the invariant. *)
LEMMA NextKeeps ==
  ASSUME IndInv, Next
  PROVE  IndInv'
  <1>1. ASSUME NEW n \in Nodes, NEW k \in Callers, Dial(n, k)
        PROVE  IndInv'
    BY <1>1, InitialiseKeeps, DialSetupKeeps, DialFailsKeeps, DialRegisterKeeps, SharesKeeps, Zenon
       DEF Dial
  <1>2. ASSUME NEW n \in Nodes, NEW c \in Conns, Recon(n, c)
        PROVE  IndInv'
    BY <1>2, AcceptKeeps, ReadOpenKeeps, AnnounceKeeps, SendOpenedKeeps, Zenon DEF Recon
  <1>3. ASSUME NEW n \in Nodes, NEW c \in Conns, Loop(n, c)
        PROVE  IndInv'
    BY <1>3, LoopEndsKeep, ForgetKeeps, SendClosedKeeps, Zenon DEF Loop
  <1>4. ASSUME NEW n \in Nodes, NEW k \in Callers, Connect(n, k) \/ CancelDial(n, k)
        PROVE  IndInv'
    BY <1>4, ConnectKeeps, CancelDialKeeps, Zenon
  <1>5. ASSUME NEW n \in Nodes, NEW c \in Conns, Invalidate(n, c) \/ SetNeighbour(n, c)
        PROVE  IndInv'
    BY <1>5, InvalidateKeeps, SetNeighbourKeeps, Zenon
  <1>6. ASSUME NEW n \in Nodes, OpenStream(n)
        PROVE  IndInv'
    <2>1. cur[n] \in Conns
      BY <1>6, NodeFacts DEF OpenStream
    <2> QED
      BY <1>6, <2>1, TransportKeeps, Zenon
  <1>7. ASSUME NEW c \in Conns, EndStream(c) \/ Lose(c)
        PROVE  IndInv'
    BY <1>7, TransportKeeps, Zenon
  <1>8. CASE Step
    BY <1>1, <1>2, <1>3, <1>7, <1>8, HearKeeps, Zenon DEF Step
  <1>9. CASE Others
    BY <1>4, <1>5, <1>6, <1>7, <1>9, CrashKeeps, Zenon DEF Others
  <1> QED
    BY <1>8, <1>9 DEF Next

(* The invariant holds in every state, for any finite set of callers, any     *)
(* number of connections and any cap.                                         *)
THEOREM ConnectionsInvariant == Spec => []IndInv
  <1>1. Init => IndInv
    BY InitHolds
  <1>2. IndInv /\ [Next]_vars => IndInv'
    BY NextKeeps, StutterKeeps, Zenon
  <1> QED
    BY <1>1, <1>2, PTL DEF Spec

(* No node holds more connections in one direction than MAX_CONNECTIONS, its  *)
(* neighbours' not counted (Table::evict): whoever registers over the cap     *)
(* finds another to displace, and nothing that follows holds one more.        *)
THEOREM CapHolds == Spec => []TypeOK
  <1>1. IndInv => TypeOK
    <2> SUFFICES ASSUME IndInv PROVE TypeOK
      BY Zenon
    <2>1. ASSUME NEW n \in Nodes, NEW m \in Nodes
          PROVE  Cardinality({c \in Conns : /\ side[n][c].held /\ ~side[n][c].neighbour
                                            /\ phys[c].dialler = m}) <= Cap
      BY NodeFacts, Zenon DEF TableOK, Capped, Counted
    <2>2. ASSUME NEW n \in Nodes, NEW c \in Conns
          PROVE  side[n][c] \in SideSet /\ phys[c] \in ConnSet
      BY DEF IndInv, Types, Sides, Transport
    <2>3. cur \in [Nodes -> {0} \cup Conns] /\ dials \in [Nodes -> {0} \cup Cells]
      BY Zenon DEF IndInv, Types
    <2> QED
      BY <2>1, <2>2, <2>3 DEF TypeOK, SideSet, ConnSet
  <1> QED
    BY <1>1, ConnectionsInvariant, PTL

(* Streams are opened on the one connection that is held, known and not       *)
(* retired, in every order of ranking, eviction and closing (Table::rank,     *)
(* Table::remove).                                                            *)
THEOREM CurrentKept == Spec => []CurrentIsTheKept
  <1>1. IndInv => CurrentIsTheKept
    BY NodeFacts, ZenonT(30) DEF CurrentIsTheKept, TableOK, Ranked, Usable
  <1> QED
    BY <1>1, ConnectionsInvariant, PTL

(* A connection the service takes to be open is open or its closing is        *)
(* queued, though the two tasks that tell it race (recon, accept_loop).       *)
THEOREM OpenClosed == Spec => []OpenIsClosed
  <1>1. ASSUME IndInv, NEW n \in Nodes, NEW c \in view[n], side[n][c].loop = "done"
        PROVE  \E i \in 1..Len(queue[n]) : queue[n][i] = <<"closed", c>>
    <2>1. <<"closed", c>> \in In(queue[n])
      BY <1>1, NodeFacts DEF EventsOK
    <2> QED
      BY <2>1, Zenon DEF In
  <1>2. IndInv => OpenIsClosed
    BY <1>1, Zenon DEF OpenIsClosed
  <1> QED
    BY <1>2, ConnectionsInvariant, PTL

(* One dial runs at a time, and the one in the map has a caller, whoever is   *)
(* cancelled or comes late (Table::finish, Table::release).                   *)
THEOREM OneDial == Spec => []OneDialAtATime
  <1>1. ASSUME IndInv, NEW n \in Nodes
        PROVE  Cardinality({k \in Callers : callers[n][k].at \in {"init", "setup"}}) <= 1
    <2> DEFINE S == {k \in Callers : callers[n][k].at \in {"init", "setup"}}
    <2>1. \A j, k \in S : j = k
      BY <1>1, NodeFacts, ZenonT(30) DEF DialsOK, Active
    <2> HIDE DEF S
    <2>2. CASE S = {}
      <3>1. Cardinality(S) = 0
        BY <2>2, FS_EmptySet, Zenon
      <3> QED
        BY <3>1 DEF S
    <2>3. CASE S # {}
      <3>1. PICK k \in S : S = {k}
        BY <2>1, <2>3
      <3>2. Cardinality(S) = 1
        BY <3>1, FS_Singleton
      <3> QED
        BY <3>2 DEF S
    <2> QED
      BY <2>2, <2>3, Zenon
  <1>2. ASSUME IndInv, NEW n \in Nodes, dials[n] # 0
        PROVE  Holders(n, dials[n]) # {}
    <2>1. dials[n] \in Cells /\ results[n][dials[n]] # "unused"
      BY <1>2, NodeFacts, ZenonT(30) DEF DialsOK
    <2>2. PICK k \in Callers : callers[n][k].at # "idle" /\ callers[n][k].cell = dials[n]
      BY <1>2, <2>1, NodeFacts, Zenon DEF DialsOK
    <2> QED
      BY <2>2, Zenon DEF Holders
  <1>3. IndInv => OneDialAtATime
    BY <1>1, <1>2, Zenon DEF OneDialAtATime
  <1> QED
    BY <1>3, ConnectionsInvariant, PTL
=============================================================================
