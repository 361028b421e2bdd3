---------------------------- MODULE PeeringProofs ---------------------------
(***************************************************************************)
(* On every peering somebody sends, and whoever is said to send has the    *)
(* evidence for it, through every interleaving of requests, answers,       *)
(* flags, withdrawals, observations and connections of two nodes.          *)
(*                                                                         *)
(* Both hold because of what is on its way.  An acceptance that says its   *)
(* sender will not send answers a request that said the asker will; by the *)
(* time it arrives the asker may have withdrawn and asked again, but what  *)
(* made it send is evidence, and evidence stays, so the second request     *)
(* said the same.                                                          *)
(***************************************************************************)
EXTENDS Peering, TLAPS

PeeringSet ==
    [side : {"idle", "asked", "peered"}, asked : BOOLEAN, mine : FlagSet, theirs : FlagSet,
     refused : SUBSET FlagSet, undefined : SUBSET Definitions, refusedByThem : BOOLEAN,
     presented : SUBSET Proofs]

Frames ==
    [type : {"request"}, flags : FlagSet, invitation : BOOLEAN, credentials : SUBSET Proofs]
        \cup [type : {"accept", "refuse", "flags"}, flags : FlagSet]
        \cup [type : {"unpeer"}]
        \cup [type : {"credential"}, credentials : SUBSET Proofs]

Tables ==
    /\ use \in Uses /\ store \in [Nodes -> StoreSet]
    /\ status \in [Links -> {"unborn", "open", "closed"}]
    /\ peering \in [Nodes -> [Links -> PeeringSet]]
    /\ wire \in [Nodes -> [Links -> Seq(Frames)]]

(* The frames of a queue. *)
In(w) == {w[i] : i \in 1 .. Len(w)}

(* Node n has evidence, in its store or presented on the link, that the    *)
(* other may read.                                                         *)
MayRead(n, s, p) == Admits(n, s, p.presented, "read")

(* ... and has said so if it is waiting for an answer. *)
Firm(n, s, p) == MayRead(n, s, p) /\ (p.side = "asked" => p.mine.send)

SideOK(n, s, p) ==
    /\ p.mine.send => MayRead(n, s, p)
    /\ p.side = "peered" => p.mine.send \/ p.theirs.send

Promise(f) == f.type \in {"request", "accept", "flags"} /\ f.flags.send
Offer(f) == f.type = "request" /\ f.flags.send
Taking(f) == f.type = "accept" /\ ~f.flags.send

(* A frame that node n sent; a frame that is on its way to it. *)
SaidOK(n, s, p, f) == (Promise(f) => MayRead(n, s, p)) /\ (Offer(f) => Firm(n, s, p))
HeardOK(n, s, p, f) == Taking(f) => Firm(n, s, p)

FramesOK(n, l) ==
    /\ \A f \in In(wire[Other(n)][l]) : SaidOK(n, store[n], peering[n][l], f)
    /\ \A f \in In(wire[n][l]) : HeardOK(n, store[n], peering[n][l], f)

TheirsOK(n, l) ==
    /\ status[l] = "open" /\ peering[n][l].theirs.send =>
          MayRead(Other(n), store[Other(n)], peering[Other(n)][l])
    /\ status[l] = "unborn" => ~peering[n][l].theirs.send
    /\ status[l] # "open" => wire[n][l] = <<>>

IndInv ==
    /\ Tables
    /\ \A n \in Nodes, l \in Links :
          SideOK(n, store[n], peering[n][l]) /\ FramesOK(n, l) /\ TheirsOK(n, l)

-----------------------------------------------------------------------------
(* Evidence only arrives: `proofs` and `defs` grow. *)
More(s, t) == s.proofs \subseteq t.proofs /\ s.defs \subseteq t.defs

(* What a handler of node n may do to its side p of a link, having heard   *)
(* frames of F: the evidence grew from s to t.                             *)
Fine(n, s, p, t, r, F) ==
    /\ r.p \in PeeringSet /\ r.out \in Seq(Frames)
    /\ p.presented \subseteq r.p.presented
    /\ r.p.side = "asked" => \/ p.side = "asked" /\ r.p.mine = p.mine
                             \/ MayRead(n, t, r.p) => r.p.mine.send
    /\ SideOK(n, t, r.p)
    /\ r.p.theirs.send => p.theirs.send \/ \E f \in F : Promise(f)
    /\ \A f \in In(r.out) : SaidOK(n, t, r.p, f) /\ (Taking(f) => \E g \in F : Offer(g))

(* There are two nodes. *)
LEMMA OtherFacts ==
    ASSUME NEW n \in Nodes
    PROVE  /\ Other(n) \in Nodes /\ Other(n) # n /\ Nodes = {n, Other(n)}
           /\ Other(Other(n)) = n
  <1>1. PICK m \in Nodes : m # n /\ Nodes = {n, m}
    BY NodesAssumption
  <1>2. Nodes \ {n} = {m} /\ Nodes \ {m} = {n}
    BY <1>1
  <1>3. Other(n) = m /\ Other(m) = n
    BY <1>2 DEF Other
  <1> QED
    BY <1>1, <1>3

(* A peering that ends keeps only what was presented and refused. *)
LEMMA IdledFacts ==
    ASSUME NEW p \in PeeringSet
    PROVE  /\ Idled(p) \in PeeringSet /\ Idled(p).presented = p.presented
           /\ Idled(p).side = "idle" /\ ~Idled(p).mine.send /\ ~Idled(p).theirs.send
  BY Zenon DEF PeeringSet, Idled, Off, FlagSet

(* More evidence admits whoever less did (`flags`, `decide`). *)
LEMMA MayReadKept ==
    ASSUME NEW n, NEW s, NEW t, More(s, t), NEW p, NEW q, p.presented \subseteq q.presented,
           MayRead(n, s, p)
    PROVE  MayRead(n, t, q)
  BY DEF MayRead, Admits, Naming, More

(* What a side has said stays true of it. *)
LEMMA FirmKept ==
    ASSUME NEW n, NEW s, NEW t, More(s, t), NEW p, NEW r, NEW F, Fine(n, s, p, t, r, F)
    PROVE  /\ MayRead(n, s, p) => MayRead(n, t, r.p)
           /\ Firm(n, s, p) => Firm(n, t, r.p)
           /\ \A f : SaidOK(n, s, p, f) => SaidOK(n, t, r.p, f)
           /\ \A f : HeardOK(n, s, p, f) => HeardOK(n, t, r.p, f)
  <1>1. MayRead(n, s, p) => MayRead(n, t, r.p)
    BY MayReadKept DEF Fine
  <1>2. Firm(n, s, p) => Firm(n, t, r.p)
    BY <1>1 DEF Fine, Firm
  <1> QED
    BY <1>1, <1>2 DEF SaidOK, HeardOK

(* Frames of a queue, of what is left of it, and of what is added to it. *)
LEMMA QueueFacts ==
    ASSUME NEW v \in Seq(Frames), NEW w \in Seq(Frames)
    PROVE  /\ In(<<>>) = {}
           /\ v \o w \in Seq(Frames) /\ In(v \o w) \subseteq In(v) \cup In(w)
           /\ v # <<>> => /\ Tail(v) \in Seq(Frames) /\ Head(v) \in Frames
                          /\ Head(v) \in In(v) /\ In(Tail(v)) \subseteq In(v)
  <1>1. In(<<>>) = {}
    BY DEF In
  <1>2. v \o w \in Seq(Frames) /\ In(v \o w) \subseteq In(v) \cup In(w)
    BY DEF In
  <1>3. v # <<>> => /\ Tail(v) \in Seq(Frames) /\ Head(v) \in Frames
                    /\ Head(v) \in In(v) /\ In(Tail(v)) \subseteq In(v)
    BY DEF In
  <1> QED
    BY <1>1, <1>2, <1>3

(* Short queues. *)
LEMMA OutFacts ==
    ASSUME NEW f \in Frames
    PROVE  <<>> \in Seq(Frames) /\ <<f>> \in Seq(Frames) /\ In(<<f>>) = {f} /\ In(<<>>) = {}
  BY DEF In

-----------------------------------------------------------------------------
(* The handlers, one link at a time *)

(* The flags a side states: it sends to those that may read (`flags`). *)
LEMMA FlagsFacts ==
    ASSUME NEW n, NEW s \in StoreSet, NEW p
    PROVE  /\ Flags(n, s, p.presented) \in FlagSet
           /\ Flags(n, s, p.presented).send = MayRead(n, s, p)
           /\ Off \in FlagSet /\ ~Off.send
  BY DEF Flags, FlagSet, MayRead, Off, StoreSet, Admits

(* The frames handlers send. *)
LEMMA FrameFacts ==
    ASSUME NEW flags \in FlagSet, NEW invitation \in BOOLEAN, NEW c \in SUBSET Proofs
    PROVE  /\ Request(flags, invitation, c) \in Frames /\ Credential(c) \in Frames
           /\ Unpeer \in Frames
           /\ \A type \in {"accept", "refuse", "flags"} : Answer(type, flags) \in Frames
  BY DEF Frames, Request, Credential, Unpeer, Answer

(* A side that is left alone, or that gives up its part. *)
LEMMA QuietIsFine ==
    ASSUME NEW n, NEW s \in StoreSet, NEW t \in StoreSet, More(s, t), NEW F,
           NEW p \in PeeringSet, SideOK(n, s, p)
    PROVE  /\ Fine(n, s, p, t, Quietly(p), F)
           /\ Fine(n, s, p, t, Quietly(Idled(p)), F)
  <1>1. SideOK(n, t, p)
    BY MayReadKept DEF SideOK
  <1>2. /\ Idled(p) \in PeeringSet /\ Idled(p).side = "idle" /\ ~Idled(p).mine.send
        /\ Idled(p).presented = p.presented /\ ~Idled(p).theirs.send
    BY Zenon DEF Idled, PeeringSet, Off, FlagSet
  <1>3. <<>> \in Seq(Frames) /\ In(<<>>) = {}
    BY DEF In
  <1> QED
    BY <1>1, <1>2, <1>3 DEF Fine, Quietly, SideOK

(* `ask` states what the evidence says, in the request and in `mine`. *)
LEMMA AskIsFine ==
    ASSUME NEW n, NEW s \in StoreSet, NEW t \in StoreSet, More(s, t), NEW F,
           NEW p \in PeeringSet, SideOK(n, s, p), NEW invitation \in BOOLEAN
    PROVE  Fine(n, s, p, t, Ask(n, t, p, invitation), F)
  <1>1. CASE ~Selected(t) \/ p.side # "idle"
    BY <1>1, QuietIsFine DEF Ask
  <1>2. CASE Selected(t) /\ p.side = "idle"
    <2> DEFINE mine == Flags(n, t, p.presented)
               r == Ask(n, t, p, invitation)
               f == Request(mine, invitation, Credentials(n, t))
    <2>1. mine \in FlagSet /\ mine.send = MayRead(n, t, p)
      BY FlagsFacts
    <2>2. r = [p |-> [p EXCEPT !.side = "asked", !.asked = ~invitation, !.mine = mine,
                               !.refused = IF invitation THEN {} ELSE @,
                               !.undefined = IF invitation THEN {} ELSE @],
               out |-> <<f>>]
      BY <1>2 DEF Ask
    <2> HIDE DEF mine, r
    <2>3. /\ r.p \in PeeringSet /\ r.p.side = "asked" /\ r.p.mine = mine
          /\ r.p.presented = p.presented /\ r.p.theirs = p.theirs
      BY <2>1, <2>2, Zenon DEF PeeringSet
    <2>4. f \in Frames /\ f.type = "request" /\ f.flags = mine
      BY <2>1, FrameFacts DEF Credentials, StoreSet, Request
    <2> HIDE DEF f
    <2>5. r.out \in Seq(Frames) /\ In(r.out) = {f}
      BY <2>2, <2>4, OutFacts
    <2>6. MayRead(n, t, r.p) = MayRead(n, t, p)
      BY <2>3 DEF MayRead
    <2>7. SaidOK(n, t, r.p, f) /\ ~Taking(f)
      BY <2>1, <2>3, <2>4, <2>6 DEF SaidOK, Firm, Promise, Offer, Taking
    <2> QED
      BY <2>1, <2>3, <2>5, <2>6, <2>7 DEF Fine, SideOK, r
  <1> QED
    BY <1>1, <1>2

(* `revisit` keeps a peering only if somebody still sends. *)
LEMMA RevisitIsFine ==
    ASSUME NEW n, NEW s \in StoreSet, NEW t \in StoreSet, More(s, t), NEW F,
           NEW p \in PeeringSet, SideOK(n, s, p), NEW room \in BOOLEAN
    PROVE  Fine(n, s, p, t, Revisit(n, t, p, room), F)
  <1> DEFINE mine == Flags(n, t, p.presented)
             r == Revisit(n, t, p, room)
  <1>0. mine \in FlagSet /\ mine.send = MayRead(n, t, p)
    BY FlagsFacts
  <1>1. CASE p.side = "peered" /\ Selected(t) /\ mine # p.mine
    <2> DEFINE f == Answer("flags", mine)
    <2>1. /\ r.p = IF mine.send \/ p.theirs.send THEN [p EXCEPT !.mine = mine] ELSE Idled(p)
          /\ r.out = <<f>>
      BY <1>1 DEF Revisit
    <2>2. f \in Frames /\ f.type = "flags" /\ f.flags = mine
      BY <1>0, FrameFacts, Zenon DEF Answer
    <2> HIDE DEF f, r, mine
    <2>3. r.out \in Seq(Frames) /\ In(r.out) = {f}
      BY <2>1, <2>2, OutFacts
    <2>4. /\ r.p \in PeeringSet /\ r.p.presented = p.presented /\ r.p.side # "asked"
          /\ r.p.mine.send => mine.send
          /\ r.p.side = "peered" => r.p.mine.send \/ r.p.theirs.send
          /\ r.p.theirs.send => p.theirs.send
      <3>1. CASE mine.send \/ p.theirs.send
        BY <1>0, <1>1, <2>1, <3>1 DEF PeeringSet
      <3>2. CASE ~(mine.send \/ p.theirs.send)
        BY <2>1, <3>2, IdledFacts
      <3> QED
        BY <3>1, <3>2
    <2>5. MayRead(n, t, r.p) = MayRead(n, t, p)
      BY <2>4 DEF MayRead
    <2>6. SaidOK(n, t, r.p, f) /\ ~Taking(f)
      BY <1>0, <2>2, <2>5 DEF SaidOK, Firm, Promise, Offer, Taking
    <2> QED
      BY <1>0, <2>3, <2>4, <2>5, <2>6 DEF Fine, SideOK, r
  <1>2. CASE p.side = "idle" /\ p.refused # {}
    <2> DEFINE theirs == CHOOSE f \in p.refused : TRUE
    <2>1. CASE Accepts(n, t, theirs, p.presented) /\ room
      <3>1. r = Ask(n, t, p, TRUE)
        BY <1>2, <2>1 DEF Revisit
      <3> QED
        BY <3>1, AskIsFine, Zenon
    <2>2. CASE Accepts(n, t, theirs, p.presented) /\ ~room
      <3>1. r = Quietly(p)
        BY <1>2, <2>2 DEF Revisit
      <3> QED
        BY <3>1, QuietIsFine
    <2>3. CASE ~Accepts(n, t, theirs, p.presented)
      <3> DEFINE q == [p EXCEPT !.undefined = Lacking(n, t, theirs, p.presented)]
      <3>1. r = Quietly(q)
        BY <1>2, <2>3 DEF Revisit
      <3>2. Lacking(n, t, theirs, p.presented) \subseteq Definitions
        BY ProofsAssumption DEF Lacking, Undefined, Naming, StoreSet, PeeringSet
      <3>3. /\ q \in PeeringSet /\ q.presented = p.presented /\ q.side = p.side
            /\ q.mine = p.mine /\ q.theirs = p.theirs
        BY <3>2 DEF PeeringSet
      <3> HIDE DEF q
      <3>4. SideOK(n, t, q)
        BY <3>3, MayReadKept DEF SideOK
      <3> QED
        BY <1>2, <3>1, <3>3, <3>4, OutFacts DEF Fine, Quietly, In
    <2> QED
      BY <2>1, <2>2, <2>3
  <1>3. CASE /\ ~(p.side = "peered" /\ Selected(t) /\ mine # p.mine)
             /\ ~(p.side = "idle" /\ p.refused # {})
    <2>1. r = Quietly(p)
      BY <1>3, Zenon DEF Revisit
    <2> QED
      BY <2>1, QuietIsFine
  <1> QED
    BY <1>1, <1>2, <1>3

(* `observe` on one link: a deselection ends what there is, other changes  *)
(* revisit it.                                                             *)
LEMMA ObservedIsFine ==
    ASSUME Tables, NEW n \in Nodes, NEW l \in Links, NEW t \in StoreSet, More(store[n], t),
           NEW F, SideOK(n, store[n], peering[n][l]),
           NEW records \in BOOLEAN, NEW room \in BOOLEAN
    PROVE  Fine(n, store[n], peering[n][l], t, Observed(n, l, store[n], t, records, room), F)
  <1> DEFINE s == store[n]
             p == peering[n][l]
             r == Observed(n, l, s, t, records, room)
  <1>0. s \in StoreSet /\ p \in PeeringSet
    BY DEF Tables
  <1> HIDE DEF s, p
  <1>1. CASE Selected(s) /\ ~Selected(t)
    <2> DEFINE q == [Idled(p) EXCEPT !.refusedByThem = FALSE]
    <2>1. r.p = q /\ r.out \in {<<>>, <<Unpeer>>}
      BY <1>1 DEF Observed, s, p
    <2>2. /\ q \in PeeringSet /\ q.presented = p.presented /\ q.side = "idle"
          /\ ~q.mine.send /\ ~q.theirs.send
      BY <1>0, Zenon DEF PeeringSet, Idled, Off, FlagSet
    <2>3. Unpeer \in Frames /\ Unpeer.type = "unpeer"
      BY DEF Frames, Unpeer
    <2> HIDE DEF q, r
    <2>4. r.out \in Seq(Frames) /\ In(r.out) \subseteq {Unpeer}
      BY <2>1, <2>3, OutFacts, Zenon
    <2> QED
      BY <2>1, <2>2, <2>3, <2>4 DEF Fine, SideOK, SaidOK, Promise, Offer, Taking, r, s, p
  <1>2. CASE ~Selected(s) /\ ~Selected(t)
    <2>1. r = Quietly(p)
      BY <1>2, Zenon DEF Observed, s, p
    <2> QED
      BY <1>0, <2>1, QuietIsFine DEF s, p
  <1>3. CASE Selected(t)
    <2>1. PICK due \in BOOLEAN, told \in BOOLEAN :
             LET visited == IF due THEN Revisit(n, t, p, room) ELSE Quietly(p)
             IN  r = [p |-> visited.p,
                      out |-> visited.out \o
                                 (IF told THEN <<Credential(Credentials(n, t))>> ELSE <<>>)]
      <3> DEFINE known == view[n][l] = "known"
                 changed == ~Selected(s) \/ s.proofs # t.proofs \/ records
                 due == /\ known /\ p # Empty
                        /\ \/ changed
                           \/ s.full # t.full /\ p.side = "peered"
                           \/ p.undefined \cap t.defs # {}
                 visited == IF due THEN Revisit(n, t, p, room) ELSE Quietly(p)
                 told == /\ known /\ Selected(s) /\ Credentials(n, s) # Credentials(n, t)
                         /\ visited.p.side # "idle" \/ visited.p.refusedByThem
      <3>1. r = [p |-> visited.p,
                 out |-> visited.out \o
                            (IF told THEN <<Credential(Credentials(n, t))>> ELSE <<>>)]
        BY <1>3 DEF Observed, Quietly, s, p
      <3>2. due \in BOOLEAN /\ told \in BOOLEAN
        OBVIOUS
      <3> HIDE DEF due, told, r
      <3> QED
        BY <3>1, <3>2, Zenon
    <2> DEFINE visited == IF due THEN Revisit(n, t, p, room) ELSE Quietly(p)
               more == IF told THEN <<Credential(Credentials(n, t))>> ELSE <<>>
    <2>2. Fine(n, s, p, t, visited, F)
      BY <1>0, RevisitIsFine, QuietIsFine DEF s, p
    <2>3. Credential(Credentials(n, t)) \in Frames
      BY FrameFacts DEF Frames, Credential, Credentials, StoreSet
    <2>4. /\ more \in Seq(Frames)
          /\ \A f \in In(more) : f.type = "credential"
      BY <2>3, OutFacts DEF Credential
    <2> HIDE DEF visited, more, r
    <2>5. r.p = visited.p /\ r.out = visited.out \o more
      BY <2>1, Zenon DEF visited, more
    <2>6. r.out \in Seq(Frames) /\ In(r.out) \subseteq In(visited.out) \cup In(more)
      BY <2>2, <2>4, <2>5, QueueFacts DEF Fine
    <2>7. \A f \in In(more) : SaidOK(n, t, r.p, f) /\ ~Taking(f)
      BY <2>4 DEF SaidOK, Promise, Offer, Taking
    <2> QED
      BY <2>2, <2>5, <2>6, <2>7, Zenon DEF Fine, r, s, p
  <1> QED
    BY <1>1, <1>2, <1>3 DEF r, s, p

(* An answer or a notice that is heard.  An acceptance from a side that    *)
(* does not send makes a peering only of a request that says it sends.     *)
LEMMA HearIsFine ==
    ASSUME NEW n, NEW s \in StoreSet, NEW p \in PeeringSet, SideOK(n, s, p),
           NEW f \in Frames, f.type \notin {"request", "credential"}, HeardOK(n, s, p, f),
           NEW F, f \in F
    PROVE  Fine(n, s, p, s, Quietly(Hear(p, f)), F)
  <1> DEFINE q == Hear(p, f)
  <1>0. f.type \in {"accept", "refuse", "flags"} => f.flags \in FlagSet
    BY DEF Frames
  <1>1. /\ q \in PeeringSet /\ q.presented = p.presented
        /\ q.side = "asked" => p.side = "asked" /\ q.mine = p.mine
        /\ q.mine.send => p.mine.send
        /\ q.theirs.send => p.theirs.send \/ Promise(f)
        /\ q.side = "peered" => q.mine.send \/ q.theirs.send
    <2>1. CASE p.side = "asked" /\ f.type = "accept"
      <3>1. q = [p EXCEPT !.side = "peered", !.theirs = f.flags, !.refusedByThem = FALSE]
        BY <2>1 DEF Hear
      <3>2. /\ q \in PeeringSet /\ q.presented = p.presented /\ q.mine = p.mine
            /\ q.side = "peered" /\ q.theirs = f.flags
        BY <1>0, <2>1, <3>1, Zenon DEF PeeringSet
      <3>3. p.mine.send \/ f.flags.send
        BY <2>1 DEF HeardOK, Taking, Firm
      <3> QED
        BY <2>1, <3>2, <3>3 DEF Promise
    <2>2. CASE p.side = "asked" /\ f.type = "refuse"
      <3>1. q = [Idled(p) EXCEPT !.refusedByThem = TRUE]
        BY <2>2 DEF Hear
      <3>2. /\ q \in PeeringSet /\ q.presented = p.presented
            /\ q.side = "idle" /\ ~q.mine.send /\ ~q.theirs.send
        BY <3>1, IdledFacts, Zenon DEF PeeringSet
      <3> QED
        BY <3>2
    <2>3. CASE p.side = "peered" /\ f.type = "flags" /\ (p.mine.send \/ f.flags.send)
      <3>1. q = [p EXCEPT !.theirs = f.flags]
        BY <2>3 DEF Hear
      <3>2. /\ q \in PeeringSet /\ q.presented = p.presented /\ q.mine = p.mine
            /\ q.side = "peered" /\ q.theirs = f.flags
        BY <1>0, <2>3, <3>1 DEF PeeringSet
      <3> QED
        BY <2>3, <3>2 DEF Promise
    <2>4. CASE q = Idled(p)
      BY <2>4, IdledFacts
    <2>5. CASE q = p
      BY <2>5 DEF SideOK
    <2>6. \/ p.side = "asked" /\ f.type = "accept"
          \/ p.side = "asked" /\ f.type = "refuse"
          \/ p.side = "peered" /\ f.type = "flags" /\ (p.mine.send \/ f.flags.send)
          \/ q = Idled(p) \/ q = p
      BY DEF Hear
    <2> QED
      BY <2>1, <2>2, <2>3, <2>4, <2>5, <2>6
  <1> HIDE DEF q
  <1>6. SideOK(n, s, q)
    BY <1>1 DEF SideOK, MayRead
  <1>7. <<>> \in Seq(Frames) /\ In(<<>>) = {}
    BY DEF In
  <1> QED
    BY <1>1, <1>6, <1>7 DEF Fine, Quietly, q

(* Credentials that are kept only add to the evidence (`present`). *)
LEMMA PresentFacts ==
    ASSUME NEW n, NEW s \in StoreSet, NEW p \in PeeringSet, SideOK(n, s, p),
           NEW c \in SUBSET Proofs
    PROVE  /\ Present(n, p, c) \in PeeringSet /\ SideOK(n, s, Present(n, p, c))
           /\ p.presented \subseteq Present(n, p, c).presented
           /\ Present(n, p, c).side = p.side /\ Present(n, p, c).mine = p.mine
           /\ Present(n, p, c).theirs = p.theirs
  <1> DEFINE q == Present(n, p, c)
  <1>1. /\ q \in PeeringSet /\ p.presented \subseteq q.presented
        /\ q.side = p.side /\ q.mine = p.mine /\ q.theirs = p.theirs
    BY DEF Present, PeeringSet
  <1>2. SideOK(n, s, q)
    BY <1>1, MayReadKept DEF SideOK, More
  <1> QED
    BY <1>1, <1>2

(* A handler that first keeps credentials is as good as one that had them. *)
LEMMA PresentedIsFine ==
    ASSUME NEW n, NEW s \in StoreSet, NEW p \in PeeringSet, SideOK(n, s, p),
           NEW c \in SUBSET Proofs, NEW F, NEW r,
           Fine(n, s, Present(n, p, c), s, r, F)
    PROVE  Fine(n, s, p, s, r, F)
  <1> DEFINE q == Present(n, p, c)
  <1>1. /\ p.presented \subseteq q.presented
        /\ q.side = p.side /\ q.mine = p.mine /\ q.theirs = p.theirs
    BY PresentFacts, Zenon
  <1>2. Fine(n, s, q, s, r, F)
    OBVIOUS
  <1> HIDE DEF q
  <1> QED
    BY <1>1, <1>2 DEF Fine

(* `answer`: an acceptance makes a peering on which this side or the asker *)
(* sends, and says which.                                                  *)
LEMMA AnswerIsFine ==
    ASSUME NEW n, NEW s \in StoreSet, NEW p \in PeeringSet, SideOK(n, s, p),
           NEW f \in Frames, f.type = "request", NEW F, f \in F,
           NEW invitation \in BOOLEAN, NEW room \in BOOLEAN
    PROVE  Fine(n, s, p, s, AnswerRequest(n, s, p, f.flags, invitation, room), F)
  <1> DEFINE mine == Flags(n, s, p.presented)
             theirs == f.flags
             r == AnswerRequest(n, s, p, theirs, invitation, room)
  <1>0. mine \in FlagSet /\ mine.send = MayRead(n, s, p) /\ theirs \in FlagSet
    BY FlagsFacts, Zenon DEF Frames
  <1>1. CASE Accepts(n, s, theirs, p.presented) /\ (room \/ p.side = "peered")
    <2> DEFINE g == Answer("accept", mine)
               q == [p EXCEPT !.side = "peered", !.mine = mine, !.theirs = theirs,
                              !.refused = {}, !.undefined = {},
                              !.refusedByThem = IF invitation THEN FALSE ELSE @]
    <2>1. r = [p |-> q, out |-> <<g>>]
      BY <1>1 DEF AnswerRequest
    <2>2. g \in Frames /\ g.type = "accept" /\ g.flags = mine
      BY <1>0, FrameFacts, Zenon DEF Answer
    <2>3. mine.send \/ theirs.send
      BY <1>0, <1>1 DEF Accepts, MayRead
    <2>4. /\ q \in PeeringSet /\ q.side = "peered" /\ q.mine = mine /\ q.theirs = theirs
          /\ q.presented = p.presented
      BY <1>0, Zenon DEF PeeringSet
    <2> HIDE DEF g, q, r, mine, theirs
    <2>5. r.out \in Seq(Frames) /\ In(r.out) = {g} /\ r.p = q
      BY <2>1, <2>2, OutFacts
    <2>6. MayRead(n, s, q) = MayRead(n, s, p)
      BY <2>4 DEF MayRead
    <2>7. SaidOK(n, s, q, g) /\ (Taking(g) => Offer(f))
      BY <1>0, <2>2, <2>3, <2>6 DEF SaidOK, Promise, Offer, Taking, theirs
    <2>8. theirs.send => Promise(f)
      BY Zenon DEF Promise, theirs
    <2> QED
      BY <1>0, <2>3, <2>4, <2>5, <2>6, <2>7, <2>8 DEF Fine, SideOK, r, theirs
  <1>2. CASE ~(Accepts(n, s, theirs, p.presented) /\ (room \/ p.side = "peered"))
    <2> DEFINE g == Answer("refuse", Off)
               u == IF Accepts(n, s, theirs, p.presented) THEN {}
                    ELSE Lacking(n, s, theirs, p.presented)
               o == IF p.side = "peered" THEN Idled(p) ELSE p
               q == [o EXCEPT !.refused = {theirs}, !.undefined = u]
    <2>1. r = [p |-> q, out |-> <<g>>]
      BY <1>2 DEF AnswerRequest
    <2>2. g \in Frames /\ g.type = "refuse"
      BY FrameFacts, FlagsFacts, Zenon DEF Answer
    <2>3. u \subseteq Definitions
      BY ProofsAssumption DEF Lacking, Undefined, Naming, StoreSet, PeeringSet
    <2>4. /\ o \in PeeringSet /\ o.presented = p.presented /\ o.side # "peered"
          /\ o.mine.send => p.mine.send
          /\ o.theirs.send => p.theirs.send
          /\ o.side = "asked" => p.side = "asked" /\ o.mine = p.mine
      BY Zenon DEF PeeringSet, Idled, Off, FlagSet
    <2> HIDE DEF g, r, o, u, theirs
    <2>5. /\ q \in PeeringSet /\ q.presented = p.presented /\ q.side # "peered"
          /\ q.mine = o.mine /\ q.theirs = o.theirs /\ q.side = o.side
      BY <1>0, <2>3, <2>4, Zenon DEF PeeringSet
    <2> HIDE DEF q
    <2>6. r.out \in Seq(Frames) /\ In(r.out) = {g} /\ r.p = q
      BY <2>1, <2>2, OutFacts
    <2>7. SideOK(n, s, q)
      BY <2>4, <2>5 DEF SideOK, MayRead
    <2>8. SaidOK(n, s, q, g) /\ ~Taking(g)
      BY <2>2 DEF SaidOK, Promise, Offer, Taking
    <2> QED
      BY <2>4, <2>5, <2>6, <2>7, <2>8 DEF Fine, r, theirs
  <1> QED
    BY <1>1, <1>2

-----------------------------------------------------------------------------
(* The two nodes *)

(* Nothing is known of a link that closed. *)
LEMMA EmptyFacts ==
    Empty \in PeeringSet /\ Empty.side = "idle" /\ ~Empty.mine.send /\ ~Empty.theirs.send
  BY Zenon DEF Empty, PeeringSet, Off, FlagSet

(* What a handler of n leaves in the queues: its own only lose frames, the *)
(* other node's gain only what r says; a link that is not open has none.   *)
Queued(n, r) ==
    /\ wire' \in [Nodes -> [Links -> Seq(Frames)]]
    /\ \A l \in Links :
          /\ In(wire'[n][l]) \subseteq In(wire[n][l])
          /\ In(wire'[Other(n)][l]) \subseteq In(wire[Other(n)][l]) \cup In(r[l].out)
          /\ \A k \in Nodes : status[l] # "open" => wire'[k][l] = <<>>

(* A handler of node n that does nothing but what is fine on each link,    *)
(* reads frames and sends frames, keeps the invariant of both nodes.       *)
LEMMA HandlerKeeps ==
    ASSUME IndInv, NEW n \in Nodes, NEW t \in StoreSet, More(store[n], t), NEW r,
           \A l \in Links :
              \/ Fine(n, store[n], peering[n][l], t, r[l], In(wire[n][l]))
              \/ status[l] = "closed" /\ r[l] = Quietly(Empty),
           store' = [store EXCEPT ![n] = t],
           peering' = [peering EXCEPT ![n] = [l \in Links |-> r[l].p]],
           Queued(n, r), UNCHANGED <<use, status>>
    PROVE  IndInv'
  <1> DEFINE m == Other(n)
  <1>0. m \in Nodes /\ m # n /\ Nodes = {n, m} /\ Other(m) = n
    BY OtherFacts
  <1> HIDE DEF m
  <1>1. /\ store \in [Nodes -> StoreSet] /\ peering \in [Nodes -> [Links -> PeeringSet]]
        /\ wire \in [Nodes -> [Links -> Seq(Frames)]]
    BY DEF IndInv, Tables
  <1>2. \A l \in Links : r[l].p \in PeeringSet
    BY EmptyFacts DEF Fine, Quietly
  <1>3. Tables'
    BY <1>1, <1>2 DEF IndInv, Tables, Queued
  <1>4. store'[n] = t /\ store'[m] = store[m] /\ peering'[m] = peering[m]
    BY <1>0, <1>1, Zenon
  <1>5. ASSUME NEW l \in Links
        PROVE  /\ SideOK(n, store[n], peering[n][l])' /\ FramesOK(n, l)' /\ TheirsOK(n, l)'
               /\ SideOK(m, store[m], peering[m][l])' /\ FramesOK(m, l)' /\ TheirsOK(m, l)'
    <2> DEFINE s == store[n]
               p == peering[n][l]
               q == r[l].p
               u == store[m]
               v == peering[m][l]
    <2>0. peering'[n][l] = q
      BY <1>1, Zenon
    <2>1. /\ SideOK(n, s, p) /\ SideOK(m, u, v) /\ TheirsOK(n, l) /\ TheirsOK(m, l)
          /\ \A f \in In(wire[m][l]) : SaidOK(n, s, p, f) /\ HeardOK(m, u, v, f)
          /\ \A f \in In(wire[n][l]) : HeardOK(n, s, p, f) /\ SaidOK(m, u, v, f)
      BY <1>0 DEF IndInv, FramesOK, m
    <2>2. /\ In(wire'[n][l]) \subseteq In(wire[n][l])
          /\ In(wire'[m][l]) \subseteq In(wire[m][l]) \cup In(r[l].out)
          /\ status[l] # "open" => wire'[n][l] = <<>> /\ wire'[m][l] = <<>>
      BY <1>0, Zenon DEF m, Queued
    <2>3. CASE Fine(n, s, p, t, r[l], In(wire[n][l]))
      <3>0. More(s, t)
        BY Zenon
      <3>1. /\ MayRead(n, s, p) => MayRead(n, t, q)
            /\ \A f : SaidOK(n, s, p, f) => SaidOK(n, t, q, f)
            /\ \A f : HeardOK(n, s, p, f) => HeardOK(n, t, q, f)
        BY ONLY <2>3, <3>0, FirmKept
      <3>2. /\ SideOK(n, t, q)
            /\ q.theirs.send => p.theirs.send \/ \E f \in In(wire[n][l]) : Promise(f)
            /\ \A f \in In(r[l].out) : /\ SaidOK(n, t, q, f)
                                       /\ Taking(f) => \E g \in In(wire[n][l]) : Offer(g)
        BY ONLY <2>3, Zenon DEF Fine
      <3> HIDE DEF s, p, q, u, v
      <3>3. ASSUME NEW f \in In(wire'[m][l])
            PROVE  SaidOK(n, t, q, f) /\ HeardOK(m, u, v, f)
        <4>1. CASE f \in In(wire[m][l])
          BY <2>1, <3>1, <4>1, Zenon
        <4>2. CASE f \in In(r[l].out)
          BY <2>1, <3>2, <4>2, Zenon DEF HeardOK, SaidOK
        <4> QED
          BY <2>2, <4>1, <4>2, Zenon
      <3>4. ASSUME NEW f \in In(wire'[n][l])
            PROVE  SaidOK(m, u, v, f) /\ HeardOK(n, t, q, f)
        BY <2>1, <2>2, <3>1, Zenon
      <3>5. FramesOK(n, l)' /\ FramesOK(m, l)'
        BY <1>0, <1>4, <2>0, <3>3, <3>4, Zenon DEF FramesOK, m, u, v
      <3>6. status[l] = "open" /\ q.theirs.send => MayRead(m, u, v)
        BY <2>1, <3>2, ZenonT(30) DEF TheirsOK, SaidOK, m, u, v, p
      <3>7. status[l] = "open" /\ v.theirs.send => MayRead(n, t, q)
        BY <1>0, <2>1, <3>1, ZenonT(30) DEF TheirsOK, v, s, p
      <3>8. status[l] = "unborn" => ~q.theirs.send /\ ~v.theirs.send
        <4>1. ASSUME status[l] = "unborn" PROVE In(wire[n][l]) = {}
          BY ONLY <2>1, <4>1 DEF TheirsOK, In
        <4> QED
          BY <2>1, <3>2, <4>1, ZenonT(30) DEF TheirsOK, v, p
      <3>9. TheirsOK(n, l)' /\ TheirsOK(m, l)'
        BY <1>0, <1>4, <2>0, <2>2, <3>6, <3>7, <3>8, Zenon DEF TheirsOK, m, u, v
      <3>10. SideOK(n, store'[n], peering'[n][l]) /\ SideOK(m, store'[m], peering'[m][l])
        BY <1>4, <2>0, <2>1, <3>2, Zenon DEF u, v
      <3> QED
        BY <3>5, <3>9, <3>10, Zenon
    <2>4. CASE status[l] = "closed" /\ r[l] = Quietly(Empty)
      <3>1. q = Empty
        BY ONLY <2>4 DEF Quietly
      <3>2. SideOK(n, t, q) /\ ~q.theirs.send
        BY <3>1, EmptyFacts, Zenon DEF SideOK
      <3>3. In(wire'[n][l]) = {} /\ In(wire'[m][l]) = {} /\ wire'[n][l] = <<>> /\ wire'[m][l] = <<>>
        BY ONLY <2>2, <2>4 DEF In
      <3> HIDE DEF s, p, q, u, v
      <3>4. FramesOK(n, l)' /\ FramesOK(m, l)'
        BY <1>0, <3>3, Zenon DEF FramesOK, m
      <3>5. TheirsOK(n, l)' /\ TheirsOK(m, l)'
        BY <2>4, <3>3 DEF TheirsOK
      <3> QED
        BY <1>4, <2>0, <2>1, <3>2, <3>4, <3>5, Zenon DEF u, v
    <2> QED
      BY <2>3, <2>4, Zenon
  <1> QED
    BY <1>0, <1>3, <1>5 DEF IndInv

(* What `Leave` sends is added to the queues of the links that are open. *)
LEMMA LeaveKeeps ==
    ASSUME IndInv, NEW n \in Nodes, NEW t \in StoreSet, More(store[n], t), NEW r,
           \A l \in Links :
              \/ Fine(n, store[n], peering[n][l], t, r[l], In(wire[n][l]))
              \/ status[l] = "closed" /\ r[l] = Quietly(Empty),
           store' = [store EXCEPT ![n] = t], Leave(n, r), UNCHANGED <<use, status>>
    PROVE  IndInv'
  <1> DEFINE m == Other(n)
  <1>0. m \in Nodes /\ m # n /\ Nodes = {n, m}
    BY OtherFacts
  <1>1. wire \in [Nodes -> [Links -> Seq(Frames)]]
    BY DEF IndInv, Tables
  <1>2. /\ peering' = [peering EXCEPT ![n] = [l \in Links |-> r[l].p]]
        /\ wire' = [wire EXCEPT ![m] =
                       [l \in Links |-> IF l \in Open THEN @[l] \o r[l].out ELSE @[l]]]
    BY Zenon DEF Leave, Become
  <1> HIDE DEF m
  <1>3. ASSUME NEW l \in Links
        PROVE  r[l].out \in Seq(Frames)
    <2>1. CASE Fine(n, store[n], peering[n][l], t, r[l], In(wire[n][l]))
      BY <2>1, Zenon DEF Fine
    <2>2. CASE r[l] = Quietly(Empty)
      BY ONLY <2>2 DEF Quietly
    <2> QED
      BY <2>1, <2>2, Zenon
  <1>4. /\ wire'[n] = wire[n]
        /\ wire'[m] = [l \in Links |-> IF l \in Open THEN wire[m][l] \o r[l].out ELSE wire[m][l]]
    BY <1>0, <1>1, <1>2, Zenon
  <1>5. ASSUME NEW l \in Links
        PROVE  wire'[m][l] \in Seq(Frames) /\ In(wire'[m][l]) \subseteq In(wire[m][l]) \cup In(r[l].out)
    BY <1>0, <1>1, <1>3, <1>4, QueueFacts, SMTT(30)
  <1>6. wire' \in [Nodes -> [Links -> Seq(Frames)]]
    BY <1>0, <1>1, <1>2, <1>4, <1>5, Zenon
  <1>7. ASSUME NEW l \in Links, NEW k \in Nodes, status[l] # "open"
        PROVE  wire'[k][l] = <<>>
    <2>1. wire[k][l] = <<>>
      BY <1>7 DEF IndInv, TheirsOK
    <2> QED
      BY <1>0, <1>4, <1>7, <2>1, Zenon DEF Open
  <1>8. \A l \in Links :
              /\ In(wire'[n][l]) \subseteq In(wire[n][l])
              /\ In(wire'[Other(n)][l]) \subseteq In(wire[Other(n)][l]) \cup In(r[l].out)
              /\ \A k \in Nodes : status[l] # "open" => wire'[k][l] = <<>>
    BY <1>4, <1>5, <1>7, Zenon DEF m
  <1>9. Queued(n, r)
    BY <1>6, <1>8, Zenon DEF Queued
  <1> QED
    BY <1>2, <1>9, HandlerKeeps, Zenon

-----------------------------------------------------------------------------
(* The steps *)

(* What holds of one side of a link, for its handlers. *)
LEMMA LinkFacts ==
    ASSUME IndInv, NEW n \in Nodes, NEW l \in Links
    PROVE  /\ store[n] \in StoreSet /\ peering[n][l] \in PeeringSet
           /\ wire[n][l] \in Seq(Frames) /\ use \in Uses
           /\ SideOK(n, store[n], peering[n][l]) /\ More(store[n], store[n])
           /\ \A f \in In(wire[n][l]) : HeardOK(n, store[n], peering[n][l], f)
           /\ status[l] # "open" => wire[n][l] = <<>>
  BY Zenon DEF IndInv, Tables, FramesOK, TheirsOK, More

(* Rooms are Booleans. *)
LEMMA RoomFacts == Rooms \subseteq BOOLEAN
  BY Zenon DEF Rooms

(* A frame is read and answered (`handle_frame`). *)
LEMMA HandleFrameKeeps ==
    ASSUME IndInv, NEW n \in Nodes, NEW l \in Links, NEW room \in BOOLEAN,
           HandleFrame(n, l, room)
    PROVE  IndInv'
  <1> DEFINE m == Other(n)
             w == wire[n][l]
             f == Head(w)
             s == store[n]
             p == peering[n][l]
             given == Present(n, p, f.credentials)
             r == IF s.interest = "absent"
                  THEN [p |-> p, out |-> IF f.type = "request" THEN <<Answer("refuse", Off)>>
                                         ELSE <<>>]
                  ELSE IF f.type = "request"
                  THEN AnswerRequest(n, s, given, f.flags, f.invitation, room)
                  ELSE IF f.type = "credential" THEN Revisit(n, s, given, room)
                  ELSE Quietly(Hear(p, f))
  <1>0. m \in Nodes /\ m # n /\ Nodes = {n, m}
    BY OtherFacts
  <1>1. /\ status[l] = "open" /\ w # <<>>
        /\ peering' = [peering EXCEPT ![n] = [peering[n] EXCEPT ![l] = r.p]]
        /\ wire' = [wire EXCEPT ![n][l] = Tail(@), ![m][l] = @ \o r.out]
        /\ UNCHANGED <<store, use, status>>
    BY Zenon DEF HandleFrame, Become, net, bounds
  <1>2. /\ s \in StoreSet /\ p \in PeeringSet /\ w \in Seq(Frames) /\ SideOK(n, s, p)
        /\ More(s, s) /\ \A g \in In(w) : HeardOK(n, s, p, g)
    BY LinkFacts, Zenon
  <1>3. f \in Frames /\ f \in In(w) /\ HeardOK(n, s, p, f)
    BY <1>1, <1>2, QueueFacts, ZenonT(30)
  <1> HIDE DEF m, w, f, s, p
  <1>4. Fine(n, s, p, s, r, In(w))
    <2>1. CASE s.interest = "absent" /\ f.type = "request"
      <3> DEFINE g == Answer("refuse", Off)
      <3>1. r = [p |-> p, out |-> <<g>>]
        BY <2>1
      <3>2. g \in Frames /\ g.type = "refuse"
        BY FrameFacts, <1>2, FlagsFacts, Zenon DEF Answer
      <3> HIDE DEF g, r
      <3>3. r.p = p /\ r.out \in Seq(Frames) /\ In(r.out) = {g}
        BY <3>1, <3>2, OutFacts
      <3> QED
        BY <1>2, <3>2, <3>3, Zenon DEF Fine, SaidOK, Promise, Offer, Taking
    <2>2. CASE s.interest = "absent" /\ f.type # "request"
      BY <1>2, <2>2, QuietIsFine, Zenon DEF Quietly
    <2>3. CASE s.interest # "absent" /\ f.type = "request"
      <3>1. f.credentials \in SUBSET Proofs /\ f.invitation \in BOOLEAN
        BY <1>3, <2>3, Zenon DEF Frames
      <3>2. given \in PeeringSet /\ SideOK(n, s, given)
        BY <1>2, <3>1, PresentFacts, Zenon
      <3>3. Fine(n, s, given, s, r, In(w))
        BY <1>2, <1>3, <2>3, <3>1, <3>2, AnswerIsFine, ZenonT(30)
      <3> HIDE DEF r
      <3> QED
        BY <1>2, <3>1, <3>3, PresentedIsFine, Zenon
    <2>4. CASE s.interest # "absent" /\ f.type = "credential"
      <3>1. f.credentials \in SUBSET Proofs
        BY <1>3, <2>4, Zenon DEF Frames
      <3>2. given \in PeeringSet /\ SideOK(n, s, given)
        BY <1>2, <3>1, PresentFacts, ZenonT(30)
      <3>3. Fine(n, s, given, s, r, In(w))
        BY <1>2, <2>4, <3>2, RevisitIsFine, Zenon
      <3> HIDE DEF r
      <3> QED
        BY <1>2, <3>1, <3>3, PresentedIsFine, Zenon
    <2>5. CASE s.interest # "absent" /\ f.type \notin {"request", "credential"}
      BY <1>2, <1>3, <2>5, HearIsFine, Zenon
    <2> QED
      BY <2>1, <2>2, <2>3, <2>4, <2>5, Zenon
  <1> HIDE DEF r
  <1> DEFINE R == [k \in Links |-> IF k = l THEN r ELSE Quietly(peering[n][k])]
  <1>5. \A k \in Links : Fine(n, s, peering[n][k], s, R[k], In(wire[n][k]))
    <2>1. ASSUME NEW k \in Links, k # l
          PROVE  Fine(n, s, peering[n][k], s, R[k], In(wire[n][k]))
      BY <2>1, LinkFacts, QuietIsFine DEF s
    <2> QED
      BY <1>4, <2>1, Zenon DEF p, w
  <1>6. /\ peering \in [Nodes -> [Links -> PeeringSet]]
        /\ wire \in [Nodes -> [Links -> Seq(Frames)]] /\ store \in [Nodes -> StoreSet]
    BY DEF IndInv, Tables
  <1>7. peering' = [peering EXCEPT ![n] = [k \in Links |-> R[k].p]]
    <2>1. [peering[n] EXCEPT ![l] = r.p] = [k \in Links |-> R[k].p]
      BY <1>6, Zenon DEF Quietly
    <2> QED
      BY <1>1, <2>1, Zenon
  <1>8. /\ wire'[n] = [wire[n] EXCEPT ![l] = Tail(w)]
        /\ wire'[m] = [wire[m] EXCEPT ![l] = wire[m][l] \o r.out]
    BY <1>0, <1>1, <1>6, Zenon DEF w
  <1>9. /\ r.out \in Seq(Frames) /\ Tail(w) \in Seq(Frames) /\ In(Tail(w)) \subseteq In(w)
        /\ wire[m][l] \o r.out \in Seq(Frames)
        /\ In(wire[m][l] \o r.out) \subseteq In(wire[m][l]) \cup In(r.out)
    <2>1. r.out \in Seq(Frames)
      BY <1>4, Zenon DEF Fine
    <2>2. wire[m][l] \in Seq(Frames) /\ w \in Seq(Frames) /\ w # <<>>
      BY <1>0, <1>1, <1>2, <1>6
    <2> QED
      BY <2>1, <2>2, QueueFacts, Zenon
  <1>10. wire' \in [Nodes -> [Links -> Seq(Frames)]]
    <2>1. wire'[n] \in [Links -> Seq(Frames)]
      BY <1>6, <1>8, <1>9, SMTT(30)
    <2>2. wire'[m] \in [Links -> Seq(Frames)]
      BY <1>0, <1>6, <1>8, <1>9
    <2>3. wire' = [k \in Nodes |-> wire'[k]]
      BY <1>1, <1>6, Zenon
    <2> QED
      BY <1>0, <2>1, <2>2, <2>3, Zenon
  <1>11. \A k \in Links :
            /\ In(wire'[n][k]) \subseteq In(wire[n][k])
            /\ In(wire'[m][k]) \subseteq In(wire[m][k]) \cup In(R[k].out)
            /\ \A j \in Nodes : status[k] # "open" => wire'[j][k] = <<>>
    <2>1. ASSUME NEW k \in Links, k # l
          PROVE  wire'[n][k] = wire[n][k] /\ wire'[m][k] = wire[m][k]
      BY <1>6, <1>8, <2>1, <1>0, SMTT(30)
    <2>2. wire'[n][l] = Tail(w) /\ wire'[m][l] = wire[m][l] \o r.out /\ R[l] = r
      BY <1>0, <1>6, <1>8
    <2>3. \A k \in Links, j \in Nodes : status[k] # "open" => wire[j][k] = <<>>
      BY LinkFacts, Zenon
    <2> HIDE DEF R
    <2> QED
      BY <1>0, <1>1, <1>9, <2>1, <2>2, <2>3, Zenon DEF w
  <1>12. store' = [store EXCEPT ![n] = s]
    BY <1>1, <1>6 DEF s
  <1> HIDE DEF R
  <1>13. Queued(n, R)
    BY <1>10, <1>11, Zenon DEF Queued, m
  <1> QED
    BY <1>1, <1>2, <1>5, <1>7, <1>12, <1>13, HandlerKeeps, ZenonT(30) DEF s

(* A request that meets a full queue is only taken off its own. *)
LEMMA DropRequestKeeps ==
    ASSUME IndInv, NEW n \in Nodes, NEW l \in Links, DropRequest(n, l)
    PROVE  IndInv'
  <1>0. Other(n) \in Nodes /\ Other(n) # n /\ Nodes = {n, Other(n)}
    BY OtherFacts
  <1>1. /\ peering \in [Nodes -> [Links -> PeeringSet]]
        /\ wire \in [Nodes -> [Links -> Seq(Frames)]] /\ store \in [Nodes -> StoreSet]
    BY DEF IndInv, Tables
  <1>2. /\ status[l] = "open" /\ wire[n][l] # <<>>
        /\ wire' = [wire EXCEPT ![n][l] = Tail(@)]
        /\ UNCHANGED <<store, use, status, peering>>
    BY Zenon DEF DropRequest, net, bounds
  <1> DEFINE R == Stays(n)
  <1>3. \A k \in Links : Fine(n, store[n], peering[n][k], store[n], R[k], In(wire[n][k]))
    BY LinkFacts, QuietIsFine DEF Stays
  <1>4. peering' = [peering EXCEPT ![n] = [k \in Links |-> R[k].p]]
    BY <1>1, <1>2 DEF Stays, Quietly
  <1>5. Tail(wire[n][l]) \in Seq(Frames) /\ In(Tail(wire[n][l])) \subseteq In(wire[n][l])
    BY <1>1, <1>2, QueueFacts
  <1>6. wire' \in [Nodes -> [Links -> Seq(Frames)]]
    BY <1>1, <1>2, <1>5, Zenon
  <1>7. \A k \in Links, j \in Nodes : status[k] # "open" => wire[j][k] = <<>>
    BY LinkFacts, Zenon
  <1>8. \A k \in Links :
            /\ In(wire'[n][k]) \subseteq In(wire[n][k])
            /\ In(wire'[Other(n)][k]) \subseteq In(wire[Other(n)][k]) \cup In(R[k].out)
            /\ \A j \in Nodes : status[k] # "open" => wire'[j][k] = <<>>
    BY <1>0, <1>1, <1>2, <1>5, <1>7
  <1>9. store' = [store EXCEPT ![n] = store[n]] /\ store[n] \in StoreSet /\ More(store[n], store[n])
    BY <1>1, <1>2 DEF More
  <1> HIDE DEF R
  <1>10. Queued(n, R)
    BY <1>6, <1>8, Zenon DEF Queued
  <1> QED
    BY <1>2, <1>3, <1>4, <1>9, <1>10, HandlerKeeps, Zenon

(* A step that leaves peerings, frames and connections alone. *)
LEMMA ElsewhereKeeps ==
    ASSUME IndInv, UNCHANGED <<use, store, status, peering, wire>>
    PROVE  IndInv'
  BY DEF IndInv, Tables, FramesOK, TheirsOK

(* A handler that leaves r on the links, with the evidence it had. *)
LEMMA LeaveNowKeeps ==
    ASSUME IndInv, NEW n \in Nodes, NEW r,
           \A l \in Links :
              \/ Fine(n, store[n], peering[n][l], store[n], r[l], In(wire[n][l]))
              \/ status[l] = "closed" /\ r[l] = Quietly(Empty),
           Leave(n, r), UNCHANGED <<use, store, status>>
    PROVE  IndInv'
  <1>1. store' = [store EXCEPT ![n] = store[n]] /\ store[n] \in StoreSet /\ More(store[n], store[n])
    BY DEF IndInv, Tables, More
  <1> QED
    BY <1>1, LeaveKeeps, Zenon

(* Asking on some links, and leaving the others alone. *)
LEMMA AskingIsFine ==
    ASSUME IndInv, NEW n \in Nodes, NEW targets, NEW l \in Links
    PROVE  Fine(n, store[n], peering[n][l], store[n], Asking(n, Stays(n), targets)[l],
                In(wire[n][l]))
  <1>1. Stays(n)[l].p = peering[n][l] /\ Stays(n)[l] = Quietly(peering[n][l])
    BY Zenon DEF Stays, Quietly
  <1>2. CASE l \in targets
    <2>1. Asking(n, Stays(n), targets)[l] = Ask(n, store[n], peering[n][l], FALSE)
      BY <1>1, <1>2, Zenon DEF Asking
    <2> QED
      BY <2>1, LinkFacts, AskIsFine, Zenon
  <1>3. CASE l \notin targets
    <2>1. Asking(n, Stays(n), targets)[l] = Quietly(peering[n][l])
      BY <1>1, <1>3, Zenon DEF Asking
    <2> QED
      BY <2>1, LinkFacts, QuietIsFine
  <1> QED
    BY <1>2, <1>3

(* A new observation of the store (`observe`). *)
LEMMA ObserveKeeps ==
    ASSUME IndInv, NEW n \in Nodes, NEW t \in Observations(n), NEW records \in BOOLEAN,
           NEW room \in BOOLEAN, Observe(n, t, records, room)
    PROVE  IndInv'
  <1> DEFINE r == [l \in Links |-> Observed(n, l, store[n], t, records, room)]
  <1>1. More(store[n], t) /\ store' = [store EXCEPT ![n] = t] /\ Leave(n, r)
        /\ UNCHANGED <<use, status>>
    BY DEF Observe, More
  <1>2. t \in StoreSet
    <2>1. store[n] \in StoreSet /\ use \in Uses
      BY DEF IndInv, Tables
    <2>2. use.proofs[n] \subseteq Proofs /\ use.definitions[n] \subseteq Definitions
      BY <2>1, UsesAssumption, Zenon
    <2> QED
      BY <2>1, <2>2 DEF Observations, StoreSet
  <1>3. \A l \in Links : Fine(n, store[n], peering[n][l], t, r[l], In(wire[n][l]))
    BY <1>1, <1>2, LinkFacts, ObservedIsFine, ZenonT(30) DEF IndInv
  <1> HIDE DEF r
  <1> QED
    BY <1>1, <1>2, <1>3, LeaveKeeps, Zenon

(* `fill` asks the next candidate or dials it. *)
LEMMA FillKeeps ==
    ASSUME IndInv, NEW n \in Nodes, Fill(n)
    PROVE  IndInv'
  <1>1. PICK targets : Leave(n, Asking(n, Stays(n), targets)) /\ UNCHANGED <<use, store, status>>
    BY Zenon DEF Fill, bounds
  <1> QED
    BY <1>1, AskingIsFine, LeaveNowKeeps, Zenon

(* `ask_dialled` asks the candidate that was dialled. *)
LEMMA AskDialledKeeps ==
    ASSUME IndInv, NEW n \in Nodes, NEW known, AskDialled(n, known),
           UNCHANGED <<use, store, status>>
    PROVE  IndInv'
  <1>1. PICK targets : Leave(n, Asking(n, Stays(n), targets))
    BY Zenon DEF AskDialled
  <1> QED
    BY <1>1, AskingIsFine, LeaveNowKeeps

(* `swap_out` gives up a peering and says so. *)
LEMMA SwapOutKeeps ==
    ASSUME IndInv, NEW n \in Nodes, NEW l \in Links, SwapOut(n, l)
    PROVE  IndInv'
  <1> DEFINE q == Idled(peering[n][l])
             r == [Stays(n) EXCEPT ![l] = [p |-> q, out |-> <<Unpeer>>]]
  <1>1. Leave(n, r) /\ UNCHANGED <<use, store, status>>
    BY Zenon DEF SwapOut, net
  <1>2. \A k \in Links : Fine(n, store[n], peering[n][k], store[n], Quietly(peering[n][k]),
                              In(wire[n][k]))
    BY LinkFacts, QuietIsFine, Zenon
  <1>3. Fine(n, store[n], peering[n][l], store[n], Quietly(q), In(wire[n][l]))
    BY LinkFacts, QuietIsFine
  <1>4. Unpeer \in Frames /\ Unpeer.type = "unpeer"
    BY DEF Frames, Unpeer
  <1>5. <<Unpeer>> \in Seq(Frames) /\ In(<<Unpeer>>) = {Unpeer}
    BY <1>4, OutFacts
  <1> HIDE DEF q
  <1>6. r[l].p = q /\ r[l].out = <<Unpeer>>
    BY DEF Stays
  <1>7. \A k \in Links : k # l => r[k] = Quietly(peering[n][k])
    BY Zenon DEF Stays
  <1> HIDE DEF r
  <1>8. Fine(n, store[n], peering[n][l], store[n], r[l], In(wire[n][l]))
    BY <1>3, <1>4, <1>5, <1>6, ZenonT(30) DEF Fine, Quietly, SaidOK, Promise, Offer, Taking
  <1>9. \A k \in Links : Fine(n, store[n], peering[n][k], store[n], r[k], In(wire[n][k]))
    BY <1>2, <1>7, <1>8, ZenonT(30)
  <1> QED
    BY <1>1, <1>9, LeaveNowKeeps, Zenon

(* A closed connection is forgotten, and its request goes to another. *)
LEMMA HandleClosedKeeps ==
    ASSUME IndInv, NEW n \in Nodes, NEW l \in Links, HandleClosed(n, l)
    PROVE  IndInv'
  <1>1. PICK targets : /\ targets \subseteq Open
                       /\ Leave(n, Asking(n, [Stays(n) EXCEPT ![l] = Quietly(Empty)], targets))
    BY DEF HandleClosed, LinkTo
  <1>2. status[l] = "closed" /\ UNCHANGED <<use, store, status>>
    BY DEF HandleClosed, bounds
  <1> DEFINE r == Asking(n, [Stays(n) EXCEPT ![l] = Quietly(Empty)], targets)
  <1>3. r[l] = Quietly(Empty)
    BY <1>1, <1>2, Zenon DEF Asking, Stays, Open
  <1>4. \A k \in Links : k # l => r[k] = Asking(n, Stays(n), targets)[k]
    BY Zenon DEF Asking, Stays
  <1> HIDE DEF r
  <1>5. ASSUME NEW k \in Links, k # l
        PROVE  Fine(n, store[n], peering[n][k], store[n], r[k], In(wire[n][k]))
    BY <1>4, <1>5, AskingIsFine
  <1> QED
    BY <1>1, <1>2, <1>3, <1>5, LeaveNowKeeps, Zenon DEF r

(* A connection comes up; nothing is known of it, and nothing on its way. *)
LEMMA ConnectKeeps ==
    ASSUME IndInv, NEW l \in Links, Connect(l)
    PROVE  IndInv'
  <1>1. /\ status[l] = "unborn" /\ status' = [status EXCEPT ![l] = "open"]
        /\ UNCHANGED <<use, store, peering, wire>>
    BY DEF Connect, bounds
  <1>2. status \in [Links -> {"unborn", "open", "closed"}]
    BY DEF IndInv, Tables
  <1>3. Tables'
    BY <1>1, <1>2, Zenon DEF IndInv, Tables
  <1>4. ASSUME NEW n \in Nodes, NEW k \in Links
        PROVE  SideOK(n, store[n], peering[n][k])' /\ FramesOK(n, k)' /\ TheirsOK(n, k)'
    <2>1. SideOK(n, store[n], peering[n][k]) /\ FramesOK(n, k) /\ TheirsOK(n, k)
      BY Zenon DEF IndInv
    <2>2. FramesOK(n, k)'
      BY <1>1, <2>1, Zenon DEF FramesOK
    <2>3. TheirsOK(n, k)'
      BY <1>1, <1>2, <2>1 DEF TheirsOK
    <2> QED
      BY <1>1, <2>1, <2>2, <2>3, Zenon
  <1> QED
    BY <1>3, <1>4 DEF IndInv

(* It closes, with the frames on it. *)
LEMMA DisconnectKeeps ==
    ASSUME IndInv, NEW l \in Links, Disconnect(l)
    PROVE  IndInv'
  <1>1. /\ status[l] = "open" /\ status' = [status EXCEPT ![l] = "closed"]
        /\ wire' = [n \in Nodes |-> [wire[n] EXCEPT ![l] = <<>>]]
        /\ UNCHANGED <<use, store, peering>>
    BY DEF Disconnect, bounds
  <1>2. /\ status \in [Links -> {"unborn", "open", "closed"}]
        /\ wire \in [Nodes -> [Links -> Seq(Frames)]]
    BY DEF IndInv, Tables
  <1>3. <<>> \in Seq(Frames) /\ In(<<>>) = {}
    BY DEF In
  <1>4. Tables'
    BY <1>1, <1>2, <1>3, Zenon DEF IndInv, Tables
  <1>5. ASSUME NEW n \in Nodes, NEW k \in Links
        PROVE  SideOK(n, store[n], peering[n][k])' /\ FramesOK(n, k)' /\ TheirsOK(n, k)'
    <2>1. SideOK(n, store[n], peering[n][k]) /\ FramesOK(n, k) /\ TheirsOK(n, k)
      BY DEF IndInv
    <2>2. \A j \in Nodes : wire'[j][k] = IF k = l THEN <<>> ELSE wire[j][k]
      BY <1>1, <1>2
    <2>3. Other(n) \in Nodes
      BY OtherFacts, Zenon
    <2>4. FramesOK(n, k)'
      BY <1>1, <1>3, <2>1, <2>2, <2>3, ZenonT(30) DEF FramesOK
    <2>5. TheirsOK(n, k)'
      BY <1>1, <1>2, <2>1, <2>2, Zenon DEF TheirsOK
    <2> QED
      BY <1>1, <2>1, <2>4, <2>5
  <1> QED
    BY <1>4, <1>5 DEF IndInv

(* Every step keeps the invariant. *)
LEMMA StepKeeps ==
    ASSUME IndInv, [Next]_vars
    PROVE  IndInv'
  <1>1. CASE UNCHANGED vars
    BY <1>1, ElsewhereKeeps DEF vars, net, bounds
  <1>2. ASSUME NEW n \in Nodes, NEW l \in Links, Event(n, l) \/ DropRequest(n, l) \/ SwapOut(n, l)
        PROVE  IndInv'
    <2>1. ASSUME HandleOpened(n, l) PROVE IndInv'
      BY <2>1, ElsewhereKeeps, AskDialledKeeps DEF HandleOpened, bounds
    <2> QED
      BY <1>2, <2>1, RoomFacts, HandleFrameKeeps, HandleClosedKeeps, DropRequestKeeps,
         SwapOutKeeps DEF Event
  <1>3. ASSUME NEW n \in Nodes, NEW l \in Links, Retire(n, l)
        PROVE  IndInv'
    BY <1>3, ElsewhereKeeps DEF Retire, bounds
  <1>4. ASSUME NEW n \in Nodes, Dial(n) PROVE IndInv'
    BY <1>4, ElsewhereKeeps DEF Dial, bounds
  <1>5. ASSUME NEW n \in Nodes, Dialled(n) PROVE IndInv'
    BY <1>5, ElsewhereKeeps, AskDialledKeeps DEF Dialled, bounds
  <1>6. ASSUME NEW n \in Nodes, NEW t \in Observations(n), NEW records \in BOOLEAN,
               NEW room \in Rooms, Observe(n, t, records, room)
        PROVE  IndInv'
    BY <1>6, RoomFacts, ObserveKeeps
  <1> QED
    BY <1>1, <1>2, <1>3, <1>4, <1>5, <1>6, FillKeeps, ConnectKeeps, DisconnectKeeps, Zenon DEF Next

(* Two nodes begin with no connection, no peering and no frame. *)
LEMMA InitHolds == Init => IndInv
  <1> SUFFICES ASSUME Init PROVE IndInv
    OBVIOUS
  <1>1. store \in [Nodes -> StoreSet] /\ use \in Uses
    BY UsesAssumption DEF Init
  <1>2. <<>> \in Seq(Frames) /\ In(<<>>) = {}
    BY DEF In
  <1>3. Tables
    BY <1>1, <1>2, EmptyFacts, Zenon DEF Init, Tables
  <1>4. ASSUME NEW n \in Nodes, NEW l \in Links
        PROVE  SideOK(n, store[n], peering[n][l]) /\ FramesOK(n, l) /\ TheirsOK(n, l)
    <2>1. /\ Other(n) \in Nodes /\ peering[n][l] = Empty /\ status[l] = "unborn"
          /\ wire[n][l] = <<>> /\ wire[Other(n)][l] = <<>>
      BY OtherFacts DEF Init
    <2> QED
      BY <1>2, <2>1, EmptyFacts DEF SideOK, FramesOK, TheirsOK
  <1> QED
    BY <1>3, <1>4 DEF IndInv

(* The inductive invariant holds through every interleaving of frames,     *)
(* observations, dials and connections.                                    *)
THEOREM PeeringInvariant == Spec => []IndInv
  BY InitHolds, StepKeeps, PTL DEF Spec

(* On every peering somebody sends (`decide` accepts nobody that neither   *)
(* reads nor writes, `revisit` ends a peering that became mute, and an     *)
(* answer to a request withdrawn since makes no mute one).                 *)
THEOREM PeeringsCarry == Spec => []SomeoneSends
  <1>1. IndInv => SomeoneSends
    BY Zenon DEF IndInv, SideOK, SomeoneSends
  <1> QED
    BY <1>1, PeeringInvariant, PTL

(* Whoever says it sends has evidence that the other may read, and whoever *)
(* was told so was told by a node that has it.                             *)
THEOREM PromisesBacked == Spec => []PromisesAreBacked
  <1>1. IndInv => PromisesAreBacked
    BY DEF IndInv, SideOK, TheirsOK, MayRead, PromisesAreBacked
  <1> QED
    BY <1>1, PeeringInvariant, PTL

=============================================================================
