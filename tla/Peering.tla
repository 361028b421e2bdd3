------------------------------ MODULE Peering -------------------------------
(***************************************************************************)
(* Two nodes agreeing to sync one collection over the connections between  *)
(* them (triblespace-net/src/peering.rs).  Each node runs one task that    *)
(* takes one event at a time: a frame, a connection opened or closed, a    *)
(* dial that ended, a new observation of its store, or a tick.  Frames on  *)
(* a connection arrive in order; a connection that closes drops them.      *)
(*                                                                         *)
(* Collections share nothing here but the connections, so one is enough.   *)
(* The other nodes appear as slots that are taken (no `room`) and as the   *)
(* candidates a neighbour is swapped for.  Who may read or write is        *)
(* decided as in module Capability; here a proof is one right of one node, *)
(* which counts while the definition it names is resident.                 *)
(***************************************************************************)
EXTENDS Naturals, Sequences, FiniteSets, FiniteSetsExt

CONSTANTS
    Nodes,
    Proofs,        \* [subject, action, definition], action "read" or "write"
    Definitions,
    Links,         \* connection ids, numbers
    QueueLimit,    \* MAX_QUEUED_REPLIES
    Uses           \* how the two begin and what may happen, see Init

(* A use is a record with the nodes' first observations (`stores`), the    *)
(* proofs and definitions that may still reach each, the connections that  *)
(* may come up (`links`) with each node's numbers for them (`id`), the     *)
(* nodes whose candidate order names the other (`asks`), whether others    *)
(* may take the room for inbound peerings (`crowded`), and two bounds:     *)
(* `changes` of selection or replication mode, and `swaps`, the neighbours *)
(* that make room for another candidate.                                   *)

FlagSet == [send : BOOLEAN, full : BOOLEAN]
StoreSet == [interest : {"absent", "held", "selected"}, full : BOOLEAN,
             proofs : SUBSET Proofs, defs : SUBSET Definitions]

ASSUME NodesAssumption == \A n \in Nodes : \E m \in Nodes : m # n /\ Nodes = {n, m}
ASSUME ProofsAssumption ==
    Proofs \subseteq [subject : Nodes, action : {"read", "write"}, definition : Definitions]
ASSUME UsesAssumption ==
    \A u \in Uses : /\ u.stores \in [Nodes -> StoreSet]
                    /\ u.proofs \in [Nodes -> SUBSET Proofs]
                    /\ u.definitions \in [Nodes -> SUBSET Definitions]

VARIABLES
    use,       \* which of the uses this is
    store,     \* node -> its last observation: [interest, full, proofs, defs]
    status,    \* link -> "unborn", "open" or "closed"
    view,      \* node -> link -> "unseen", "known" (in `links`) or "gone"
    retired,   \* node -> links its tie-break has given up
    dialling,  \* node -> the other is a candidate being dialled
    dials,     \* node -> "none", "pending" or "connected", not yet heard of
    peering,   \* node -> link -> see Empty
    wire,      \* node -> link -> frames on their way to the node
    changes, swaps,
    withdrawn, \* <<n, l>>: n withdrew a peering or a request on l
    renewed,   \* links on which a node that withdrew came back
    dropped    \* links on which a request got no answer

net == <<status, view, retired, dialling, dials>>
bounds == <<use, changes, swaps>>
ghosts == <<withdrawn, renewed, dropped>>
vars == <<store, net, peering, wire, bounds, ghosts>>

Other(n) == CHOOSE m \in Nodes \ {n} : TRUE

-----------------------------------------------------------------------------
(* Admission *)

Off == [send |-> FALSE, full |-> FALSE]

(* A collection's state on a link: no request, refusal or credential. *)
Empty == [side |-> "idle", asked |-> FALSE, mine |-> Off, theirs |-> Off,
          refused |-> {}, undefined |-> {}, refusedByThem |-> FALSE, presented |-> {}]

Idled(p) == [p EXCEPT !.side = "idle", !.asked = FALSE, !.mine = Off, !.theirs = Off]

Naming(n, s, presented, action) ==
    {p \in s.proofs \cup presented : p.subject = Other(n) /\ p.action = action}

(* Whether the other may read or write under this side's evidence, and if  *)
(* not the definitions that could change it.                               *)
Admits(n, s, presented, action) ==
    \E p \in Naming(n, s, presented, action) : p.definition \in s.defs
Undefined(n, s, presented, action) ==
    IF Admits(n, s, presented, action) THEN {}
    ELSE {p.definition : p \in Naming(n, s, presented, action)}

(* Mutant of Flags: a side sends to whoever writes too. *)
FlagsToWriters(n, s, presented) ==
    [send |-> Admits(n, s, presented, "read") \/ Admits(n, s, presented, "write"),
     full |-> s.full]

(* `flags`: a side sends exactly to those that may read. *)
Flags(n, s, presented) == [send |-> Admits(n, s, presented, "read"), full |-> s.full]

Selected(s) == s.interest = "selected"

(* Mutant of Accepts: a writer that will not send is accepted. *)
AcceptsAnyWriter(n, s, theirs, presented) ==
    /\ Selected(s)
    /\ Admits(n, s, presented, "read") \/ Admits(n, s, presented, "write")

(* `decide`: a request with these flags is accepted. *)
Accepts(n, s, theirs, presented) ==
    /\ Selected(s)
    /\ Admits(n, s, presented, "read") \/ (theirs.send /\ Admits(n, s, presented, "write"))

(* The definitions whose arrival could admit a refused request. *)
Lacking(n, s, theirs, presented) ==
    IF ~Selected(s) THEN {}
    ELSE Undefined(n, s, presented, "read")
            \cup (IF theirs.send THEN Undefined(n, s, presented, "write") ELSE {})

Credentials(n, s) == {p \in s.proofs : p.subject = n}

-----------------------------------------------------------------------------
(* The parts of handlers that concern one link: the peering they leave     *)
(* (`p`) and the frames they send (`out`).                                 *)

Quietly(p) == [p |-> p, out |-> <<>>]

Request(flags, invitation, credentials) ==
    [type |-> "request", flags |-> flags, invitation |-> invitation,
     credentials |-> credentials]
Answer(type, flags) == [type |-> type, flags |-> flags]
Unpeer == [type |-> "unpeer"]
Credential(credentials) == [type |-> "credential", credentials |-> credentials]

(* `ask`: a request, or an invitation; a peering that stands is left. *)
Ask(n, s, p, invitation) ==
    IF ~Selected(s) \/ p.side # "idle" THEN Quietly(p)
    ELSE LET mine == Flags(n, s, p.presented)
         IN  [p |-> [p EXCEPT !.side = "asked", !.asked = ~invitation, !.mine = mine,
                              !.refused = IF invitation THEN {} ELSE @,
                              !.undefined = IF invitation THEN {} ELSE @],
              out |-> <<Request(mine, invitation, Credentials(n, s))>>]

(* `present`: credentials that name the peer are kept. *)
Present(n, p, credentials) ==
    [p EXCEPT !.presented = @ \cup {c \in credentials : c.subject = Other(n)}]

(* Mutant of AnswerRequest: a refusal also gives up one's own request. *)
AnswerRequestGivesUp(n, s, p, theirs, invitation, room) ==
    LET mine == Flags(n, s, p.presented)
    IN  IF Accepts(n, s, theirs, p.presented) /\ (room \/ p.side = "peered")
        THEN [p |-> [p EXCEPT !.side = "peered", !.mine = mine, !.theirs = theirs,
                              !.refused = {}, !.undefined = {}],
              out |-> <<Answer("accept", mine)>>]
        ELSE [p |-> [Idled(p) EXCEPT !.refused = {theirs}],
              out |-> <<Answer("refuse", Off)>>]

(* Mutant of AnswerRequest: a refusal is not sent. *)
AnswerRequestSilently(n, s, p, theirs, invitation, room) ==
    LET mine == Flags(n, s, p.presented)
    IN  IF Accepts(n, s, theirs, p.presented) /\ (room \/ p.side = "peered")
        THEN [p |-> [p EXCEPT !.side = "peered", !.mine = mine, !.theirs = theirs,
                              !.refused = {}, !.undefined = {}],
              out |-> <<Answer("accept", mine)>>]
        ELSE Quietly([p EXCEPT !.refused = {theirs}])

(* `answer`: an acceptance makes the peering; a refusal ends one, but      *)
(* leaves a request of one's own waiting, and is remembered.               *)
AnswerRequest(n, s, p, theirs, invitation, room) ==
    LET mine == Flags(n, s, p.presented)
    IN  IF Accepts(n, s, theirs, p.presented) /\ (room \/ p.side = "peered")
        THEN [p |-> [p EXCEPT !.side = "peered", !.mine = mine, !.theirs = theirs,
                              !.refused = {}, !.undefined = {},
                              !.refusedByThem = IF invitation THEN FALSE ELSE @],
              out |-> <<Answer("accept", mine)>>]
        ELSE [p |-> [(IF p.side = "peered" THEN Idled(p) ELSE p) EXCEPT
                        !.refused = {theirs},
                        !.undefined =
                            IF Accepts(n, s, theirs, p.presented) THEN {}
                            ELSE Lacking(n, s, theirs, p.presented)],
              out |-> <<Answer("refuse", Off)>>]

(* `revisit`: a peering's flags follow the evidence, a refused request     *)
(* that is now admitted is invited, one that is under way is left alone.   *)
Revisit(n, s, p, room) ==
    LET mine == Flags(n, s, p.presented)
        theirs == CHOOSE f \in p.refused : TRUE
    IN  CASE p.side = "peered" /\ Selected(s) /\ mine # p.mine ->
                [p |-> IF mine.send \/ p.theirs.send THEN [p EXCEPT !.mine = mine]
                       ELSE Idled(p),
                 out |-> <<Answer("flags", mine)>>]
          [] p.side = "idle" /\ p.refused # {} ->
                IF Accepts(n, s, theirs, p.presented)
                THEN IF room THEN Ask(n, s, p, TRUE) ELSE Quietly(p)
                ELSE Quietly([p EXCEPT !.undefined = Lacking(n, s, theirs, p.presented)])
          [] OTHER -> Quietly(p)

(* Frames but requests and credentials. *)
Hear(p, f) ==
    CASE p.side = "asked" /\ f.type = "accept" ->
            [p EXCEPT !.side = "peered", !.theirs = f.flags, !.refusedByThem = FALSE]
      [] p.side = "asked" /\ f.type = "refuse" -> [Idled(p) EXCEPT !.refusedByThem = TRUE]
      [] p.side = "peered" /\ f.type = "flags" ->
            IF p.mine.send \/ f.flags.send THEN [p EXCEPT !.theirs = f.flags] ELSE Idled(p)
      [] f.type = "unpeer" -> Idled(p)
      [] OTHER -> p

-----------------------------------------------------------------------------
Init ==
    /\ use \in Uses
    /\ store = use.stores
    /\ status = [l \in Links |-> "unborn"]
    /\ view = [n \in Nodes |-> [l \in Links |-> "unseen"]]
    /\ retired = [n \in Nodes |-> {}]
    /\ dialling = [n \in Nodes |-> FALSE] /\ dials = [n \in Nodes |-> "none"]
    /\ peering = [n \in Nodes |-> [l \in Links |-> Empty]]
    /\ wire = [n \in Nodes |-> [l \in Links |-> <<>>]]
    /\ changes = 0 /\ swaps = 0 /\ withdrawn = {} /\ renewed = {} /\ dropped = {}

Open == {l \in Links : status[l] = "open"}

(* `link_to` given the links a node knows: none or one. *)
LinkTo(n, known) ==
    LET usable == {l \in known \cap Open : l \notin retired[n]}
    IN  {l \in usable : \A k \in usable : use.id[n][k] <= use.id[n][l]}
Known(n) == {l \in Links : view[n][l] = "known"}

(* Node n's peerings become q. *)
Become(n, q) ==
    /\ peering' = [peering EXCEPT ![n] = q]
    /\ renewed' = renewed \cup {l \in Links : /\ <<n, l>> \in withdrawn
                                             /\ peering[n][l].side = "idle"
                                             /\ q[l].side # "idle"}

(* A handler of node n leaves r[l] on each link. *)
Leave(n, r) ==
    /\ Become(n, [l \in Links |-> r[l].p])
    /\ wire' = [wire EXCEPT ![Other(n)] =
                  [l \in Links |-> IF l \in Open THEN @[l] \o r[l].out ELSE @[l]]]

Stays(n) == [l \in Links |-> Quietly(peering[n][l])]

(* Asking on the links of `targets`. *)
Asking(n, r, targets) ==
    [l \in Links |-> IF l \in targets THEN Ask(n, store[n], r[l].p, FALSE) ELSE r[l]]

(* Room for one more peering that this side did not ask for. *)
Rooms == IF use.crowded THEN BOOLEAN ELSE {TRUE}

(* A frame of the collection arrives. *)
HandleFrame(n, l, room) ==
    /\ status[l] = "open" /\ view[n][l] = "known" /\ wire[n][l] # <<>>
    /\ LET f == Head(wire[n][l])
           s == store[n]
           p == peering[n][l]
           given == Present(n, p, f.credentials)
           r == IF s.interest = "absent"
                THEN [p |-> p, out |-> IF f.type = "request" THEN <<Answer("refuse", Off)>>
                                       ELSE <<>>]
                ELSE IF f.type = "request"
                THEN AnswerRequest(n, s, given, f.flags, f.invitation, room)
                ELSE IF f.type = "credential" THEN Revisit(n, s, given, room)
                ELSE Quietly(Hear(p, f))
       IN  /\ Become(n, [peering[n] EXCEPT ![l] = r.p])
           /\ wire' = [wire EXCEPT ![n][l] = Tail(@), ![Other(n)][l] = @ \o r.out]
    /\ UNCHANGED <<store, net, bounds, withdrawn, dropped>>

(* A request is dropped: too many frames wait on the connection. *)
DropRequest(n, l) ==
    /\ status[l] = "open" /\ view[n][l] = "known" /\ wire[n][l] # <<>>
    /\ Head(wire[n][l]).type = "request"
    /\ Len(wire[Other(n)][l]) >= QueueLimit
    /\ wire' = [wire EXCEPT ![n][l] = Tail(@)]
    /\ dropped' = dropped \cup {l}
    /\ UNCHANGED <<store, net, peering, bounds, withdrawn, renewed>>

-----------------------------------------------------------------------------
(* `observe` for one link: before, after, and whether records came too. *)
Observed(n, l, s, t, records, room) ==
    LET known == view[n][l] = "known"
        ended == IF Selected(s) /\ ~Selected(t)
                 THEN [p |-> [Idled(peering[n][l]) EXCEPT !.refusedByThem = FALSE],
                       out |-> IF known /\ peering[n][l].side # "idle" THEN <<Unpeer>> ELSE <<>>]
                 ELSE Quietly(peering[n][l])
        p == ended.p
        changed == ~Selected(s) \/ s.proofs # t.proofs \/ records
        due == /\ known /\ p # Empty
               /\ \/ changed
                  \/ s.full # t.full /\ p.side = "peered"
                  \/ p.undefined \cap t.defs # {}
        visited == IF due THEN Revisit(n, t, p, room) ELSE Quietly(p)
        told == /\ known /\ Selected(s) /\ Credentials(n, s) # Credentials(n, t)
                /\ visited.p.side # "idle" \/ visited.p.refusedByThem
    IN  IF ~Selected(t) THEN ended
        ELSE [p |-> visited.p,
              out |-> visited.out \o (IF told THEN <<Credential(Credentials(n, t))>> ELSE <<>>)]

(* A new observation of the store.  Proofs and definitions only arrive.    *)
Observe(n, t, records, room) ==
    LET s == store[n]
        change == s.interest # t.interest \/ s.full # t.full
    IN  /\ s.proofs \subseteq t.proofs /\ t.proofs \subseteq use.proofs[n] \cup s.proofs
        /\ s.defs \subseteq t.defs /\ t.defs \subseteq use.definitions[n] \cup s.defs
        /\ s.interest # "absent" => t.interest # "absent"
        /\ change => changes < use.changes
        /\ changes' = IF change THEN changes + 1 ELSE changes
        /\ store' = [store EXCEPT ![n] = t]
        /\ Leave(n, [l \in Links |-> Observed(n, l, s, t, records, room)])
        /\ dialling' = [dialling EXCEPT ![n] = @ /\ ~(Selected(s) /\ ~Selected(t))]
        /\ withdrawn' = IF Selected(s) /\ ~Selected(t)
                        THEN withdrawn \cup {<<n, l>> : l \in {k \in Links : peering[n][k].side # "idle"}}
                        ELSE withdrawn
        /\ UNCHANGED <<status, view, retired, dials, use, swaps, dropped>>

(* The states an observation may find. *)
Observations(n) ==
    [interest : {"absent", "held", "selected"}, full : BOOLEAN,
     proofs : SUBSET (use.proofs[n] \cup store[n].proofs),
     defs : SUBSET (use.definitions[n] \cup store[n].defs)]

(* `fill`: the other is the next candidate, and is asked or dialled. *)
Fill(n) ==
    /\ n \in use.asks /\ Selected(store[n]) /\ ~dialling[n]
    /\ \A l \in Known(n) : peering[n][l].side = "idle" /\ ~peering[n][l].refusedByThem
    /\ LET targets == LinkTo(n, Known(n))
       IN  /\ targets = {} => dials[n] = "none"
           /\ Leave(n, Asking(n, Stays(n), targets))
           /\ dialling' = [dialling EXCEPT ![n] = targets = {}]
           /\ dials' = [dials EXCEPT ![n] = IF targets = {} THEN "pending" ELSE @]
    /\ UNCHANGED <<store, status, view, retired, bounds, withdrawn, dropped>>

(* `swap_out`, and `end_peering` for the reserved slot: a peering this     *)
(* side asked for makes room for another candidate.                        *)
SwapOut(n, l) ==
    /\ swaps < use.swaps /\ swaps' = swaps + 1
    /\ Selected(store[n])
    /\ peering[n][l].side = "peered" /\ peering[n][l].asked
    /\ Leave(n, [Stays(n) EXCEPT ![l] = [p |-> Idled(peering[n][l]), out |-> <<Unpeer>>]])
    /\ withdrawn' = withdrawn \cup {<<n, l>>}
    /\ UNCHANGED <<store, net, use, changes, dropped>>

-----------------------------------------------------------------------------
(* Connections *)

(* A connection comes up; connections are numbered as they do. *)
Connect(l) ==
    /\ status[l] = "unborn" /\ l \in use.links
    /\ \A k \in Links : k < l => status[k] # "unborn"
    /\ status' = [status EXCEPT ![l] = "open"]
    /\ UNCHANGED <<store, view, retired, dialling, dials, peering, wire, bounds, ghosts>>

(* It closes, and what is on its way is lost. *)
Disconnect(l) ==
    /\ status[l] = "open"
    /\ status' = [status EXCEPT ![l] = "closed"]
    /\ wire' = [n \in Nodes |-> [wire[n] EXCEPT ![l] = <<>>]]
    /\ UNCHANGED <<store, view, retired, dialling, dials, peering, bounds, ghosts>>

(* Of two connections a node's tie-break gives up one. *)
Retire(n, l) ==
    /\ l \in Open /\ l \notin retired[n] /\ Cardinality(Open) > 1
    /\ \A m \in Nodes : retired[m] \cap Open \subseteq {l}
    /\ retired' = [retired EXCEPT ![n] = @ \cup {l}]
    /\ UNCHANGED <<store, status, view, dialling, dials, peering, wire, bounds, ghosts>>

(* `ask_dialled`: the other is asked if a dial waits for it. *)
AskDialled(n, known) ==
    LET targets == IF dialling[n] THEN LinkTo(n, known) ELSE {}
    IN  /\ Leave(n, Asking(n, Stays(n), targets))
        /\ dialling' = [dialling EXCEPT ![n] = @ /\ targets = {}]

(* `Opened` *)
HandleOpened(n, l) ==
    /\ status[l] = "open" /\ view[n][l] = "unseen"
    /\ view' = [view EXCEPT ![n][l] = "known"]
    /\ IF l \in retired[n] THEN UNCHANGED <<peering, wire, dialling, renewed>>
       ELSE AskDialled(n, Known(n) \cup {l})
    /\ UNCHANGED <<store, status, retired, dials, bounds, withdrawn, dropped>>

(* `Closed`: what this side asked for on it, it asks for on the one kept;  *)
(* a dial that ended on it asks nobody if there is none.                   *)
HandleClosed(n, l) ==
    /\ status[l] = "closed" /\ view[n][l] # "gone"
    /\ view' = [view EXCEPT ![n][l] = "gone"]
    /\ LET successor == LinkTo(n, Known(n) \ {l})
           targets == IF peering[n][l].asked THEN successor ELSE {}
       IN  /\ Leave(n, Asking(n, [Stays(n) EXCEPT ![l] = Quietly(Empty)], targets))
           /\ dialling' = [dialling EXCEPT ![n] = @ /\ successor # {}]
    /\ UNCHANGED <<store, status, retired, dials, bounds, withdrawn, dropped>>

(* `connect` finds or makes a connection; the task hears of it later. *)
Dial(n) ==
    /\ dials[n] = "pending" /\ Open \ retired[n] # {}
    /\ dials' = [dials EXCEPT ![n] = "connected"]
    /\ UNCHANGED <<store, status, view, retired, dialling, peering, wire, bounds, ghosts>>

(* `dialled`: the dial ended with a connection or failed. *)
Dialled(n) ==
    /\ dials[n] # "none" /\ dials' = [dials EXCEPT ![n] = "none"]
    /\ IF dials[n] = "connected" THEN AskDialled(n, Known(n))
       ELSE dialling' = [dialling EXCEPT ![n] = FALSE] /\ UNCHANGED <<peering, wire, renewed>>
    /\ UNCHANGED <<store, status, view, retired, bounds, withdrawn, dropped>>

Event(n, l) ==
    \/ \E room \in Rooms : HandleFrame(n, l, room)
    \/ HandleOpened(n, l)
    \/ HandleClosed(n, l)

Next ==
    \/ \E n \in Nodes :
          \/ \E l \in Links : Event(n, l) \/ DropRequest(n, l) \/ SwapOut(n, l) \/ Retire(n, l)
          \/ Dial(n) \/ Dialled(n)
          \/ \E t \in Observations(n), records \in BOOLEAN, room \in Rooms :
                Observe(n, t, records, room)
          \/ Fill(n)
    \/ \E l \in Links : Connect(l) \/ Disconnect(l)

Spec == Init /\ [][Next]_vars

(* What a connection holds for the task: an opening, a closing, a frame. *)
Awaits(n, l) ==
    \/ status[l] = "open" /\ view[n][l] = "unseen"
    \/ status[l] = "open" /\ view[n][l] = "known" /\ wire[n][l] # <<>>
    \/ status[l] = "closed" /\ view[n][l] # "gone"

(* The task takes every event and every dial's end: `select!` starves no   *)
(* branch, and dials have a deadline.  Nothing else is promised.  This is  *)
(* weak fairness of Dialled and Event, or less, with their enabling        *)
(* conditions written out.                                                 *)
Fairness ==
    \A n \in Nodes :
        /\ []<>(dials[n] = "none") \/ []<><<dials[n] # "none" /\ dials'[n] = "none">>_vars
        /\ \A l \in Links :
              \/ []<>~Awaits(n, l)
              \/ []<><<view'[n][l] # view[n][l] \/ Len(wire'[n][l]) < Len(wire[n][l])>>_vars

FairSpec == Spec /\ Fairness

-----------------------------------------------------------------------------
(* Peerings have their fields' types, a side remembers at most one refused *)
(* request, waits for definitions only on its behalf, and knows nothing of *)
(* a connection before it opened or after it closed.                       *)
TypeOK ==
    \A n \in Nodes, l \in Links :
        LET p == peering[n][l]
        IN  /\ p.side \in {"idle", "asked", "peered"}
            /\ p.mine \in FlagSet /\ p.theirs \in FlagSet
            /\ p.refused \subseteq FlagSet /\ Cardinality(p.refused) <= 1
            /\ p.undefined \subseteq Definitions /\ p.presented \subseteq Proofs
            /\ p.undefined # {} => p.refused # {}
            /\ view[n][l] # "known" => p = Empty
            /\ status[l] # "open" => wire[n][l] = <<>>
            /\ view[n][l] = "known" => status[l] # "unborn"

(* On every peering somebody sends: no sequence of requests, answers       *)
(* (those to requests withdrawn since included) and flags leaves a side    *)
(* holding a neighbour's slot over which nothing can flow.                 *)
SomeoneSends ==
    \A n \in Nodes, l \in Links :
        peering[n][l].side = "peered" => peering[n][l].mine.send \/ peering[n][l].theirs.send

(* A side that says it sends has evidence that the other may read, and one *)
(* that was told the other sends was told so by evidence the other holds,  *)
(* however late the frame that said so.                                    *)
PromisesAreBacked ==
    \A n \in Nodes, l \in Links :
        LET p == peering[n][l]
            m == Other(n)
        IN  /\ p.mine.send => Admits(n, store[n], p.presented, "read")
            /\ p.theirs.send /\ status[l] = "open" =>
                    Admits(m, store[m], peering[m][l].presented, "read")

Quiet(l) == /\ status[l] = "open"
            /\ \A n \in Nodes : view[n][l] = "known" /\ wire[n][l] = <<>>

(* Once the frames on a connection are read, both sides hold the peering   *)
(* or neither does, through crossing requests, refusals, invitations and   *)
(* withdrawals, unless a side that withdrew came back on this connection:  *)
(* the answers to its earlier request may then still be under way.         *)
PeeringIsMutual ==
    \A l \in Links \ renewed : Quiet(l) =>
        \A n \in Nodes : peering[n][l].side = "peered" => peering[Other(n)][l].side = "peered"

(* A request is answered, withdrawn or lost with its connection, unless it *)
(* met a full queue: a side does not wait for ever, which would keep its   *)
(* slot and leave later evidence unheeded.  Nor does a candidate stay in   *)
(* the course of being dialled: whichever of the dial's end and its        *)
(* connection's opening and closing is heard first, the candidate is asked *)
(* or its place is free again.                                             *)
RequestsEnd ==
    \A n \in Nodes :
        /\ \A l \in Links :
              (peering[n][l].side = "asked") ~> (peering[n][l].side # "asked" \/ l \in dropped)
        /\ dialling[n] ~> ~dialling[n]

(* A peering's send flag follows admission and its full flag the mode, as  *)
(* the comment on `revisit` says.  It does not: nothing revisits a side    *)
(* whose request is under way, and the acceptance keeps the flags it was   *)
(* sent with.                                                              *)
FlagsFollowAdmission ==
    \A n \in Nodes, l \in Links :
        peering[n][l].side = "peered" =>
            peering[n][l].mine = Flags(n, store[n], peering[n][l].presented)

=============================================================================
