----------------------------- MODULE Reconcile -----------------------------
(* The reconciler: it fetches the blobs durable WANTs ask for and the blobs   *)
(* the records of the selected collections name, a bounded window at a time,  *)
(* taking turns between the classes and backing off from what it cannot get.  *)
(*                                                                            *)
(*   src/triblespace-net/src/reconcile.rs                                     *)
(*                                                                            *)
(* Handles are numbers, in the order the code compares them.  A record is     *)
(* modelled by the handle it names.  Generations are only compared, so each   *)
(* observation ranks those in use anew.                                       *)
EXTENDS Naturals, Sequences, FiniteSets, FiniteSetsExt, SequencesExt

CONSTANTS
  Handles,    \* what may be asked for
  Window,     \* EXACT_FETCHES_IN_FLIGHT
  Initial,    \* WANT_BACKOFF_BASE
  Cap,        \* WANT_BACKOFF_CAP
  MaxBypass,  \* how far a ghost counts passes
  MaxMisses,  \* how far a ghost counts misses
  Uses        \* the situations explored: see the MC module

VARIABLES
  use,     \* the situation, chosen once
  store,   \* blobs that can be read, WANTs, and what selected records name
  hydrate, \* mode: whether roots are hydrated
  rec,     \* the reconciler
  tick,    \* the pass under way
  misses,  \* ghost: since a handle is missing: how often and how long ago it was missed
  passed   \* ghost: how often a wanted handle was passed over for another

vars == <<use, store, hydrate, rec, tick, misses, passed>>

NextTurn(t) == CASE t = "wants" -> "fresh" [] t = "fresh" -> "roots" [] t = "roots" -> "wants"

NewState == [tried |-> FALSE, age |-> 0, backoff |-> 0, wanted |-> 0, root |-> 0, first |-> FALSE]
NoMemo == [on |-> FALSE, blobs |-> {}, records |-> {}, roots |-> {}, missing |-> {}]
NoMiss == [count |-> 0, age |-> 0]
NoRound == [gen |-> 0, after |-> 0]
Idle == [on |-> FALSE, turn |-> "none", queue |-> <<>>, flight |-> {}, arrived |-> {},
         wanted |-> {}, due |-> {}]

(* WantState::due *)
Due(s) == ~s.tried \/ s.age >= s.backoff

----------------------------------------------------------------------------
(* Hydration: the roots of one snapshot, advanced to the next.                *)

Derive(v) == [on |-> TRUE, blobs |-> v.blobs, records |-> v.records,
              roots |-> v.records, missing |-> v.records \ v.blobs]

(* Mutant of AdvanceMemo: what left the store is not looked for. *)
AdvanceMemoArrivals(m, v) ==
  IF ~(m.records \subseteq v.records) THEN Derive(v)
  ELSE LET added == v.records \ m.roots
       IN  [m EXCEPT !.blobs = v.blobs, !.records = v.records,
                     !.roots = @ \union added,
                     !.missing = (@ \union added) \ v.blobs]

(* Hydration::advance: a removed record derives it again; otherwise added     *)
(* records, still missing roots and blobs that went away are read.            *)
AdvanceMemo(m, v) ==
  IF ~(m.records \subseteq v.records) THEN Derive(v)
  ELSE LET added == v.records \ m.roots
           roots == m.roots \union added
           still == IF m.blobs = v.blobs THEN m.missing ELSE m.missing \ v.blobs
           gone  == (m.blobs \ v.blobs) \intersect roots
       IN  [m EXCEPT !.blobs = v.blobs, !.records = v.records, !.roots = roots,
                     !.missing = still \union gone \union (added \ v.blobs)]

(* observe_roots *)
ObserveRoots(memo, v) == IF memo.on THEN AdvanceMemo(memo, v) ELSE Derive(v)

----------------------------------------------------------------------------
(* Observing what is missing.                                                 *)

(* Order-preserving ranks of the generations in use. *)
Ranks(r) ==
  LET gens == {0, r.gen, r.want.gen, r.root.gen} \union
              UNION {{r.states[h].wanted, r.states[h].root} : h \in Handles}
      rank(g) == Cardinality({x \in gens : x < g})
  IN  [r EXCEPT !.gen = rank(@), !.want.gen = rank(@), !.root.gen = rank(@),
                !.states = [h \in Handles |-> [r.states[h] EXCEPT !.wanted = rank(@), !.root = rank(@)]]]

(* states.retain and observe_missing: state lasts while its handle is         *)
(* missing, and a handle is stamped when first seen wanted, or as a root.     *)
ObserveMissing(r, wanted, roots) ==
  LET gen == r.gen + 1
      Stamp(h, s) ==
        [s EXCEPT !.wanted = IF h \in wanted /\ @ = 0 THEN gen ELSE @,
                  !.root = IF h \in roots /\ @ = 0 THEN gen ELSE @,
                  !.first = @ \/ (h \in roots /\ s.root = 0)]
  IN  [r EXCEPT !.gen = gen,
                !.states = [h \in Handles |-> IF h \in wanted \union roots
                                              THEN Stamp(h, r.states[h]) ELSE NewState]]

----------------------------------------------------------------------------
(* Choosing what to fetch.                                                    *)

Seen(s, class) == IF class = "wants" THEN s.wanted ELSE s.root

Eligible(r, handles, class, round) ==
  {h \in handles : /\ h > round.after
                   /\ Seen(r.states[h], class) \in 1..round.gen
                   /\ Due(r.states[h])}

(* ExactRound::candidates: the rest of the round, or a new one. *)
Candidates(r, handles, class, round) ==
  LET fresh == [gen |-> r.gen, after |-> 0]
      chosen == IF Eligible(r, handles, class, round) # {} THEN round ELSE fresh
  IN  [round |-> chosen, handles |-> SetToSortSeq(Eligible(r, handles, class, chosen), <)]

(* The roots never tried, the newest first. *)
FreshRoots(r, roots) ==
  SetToSortSeq({h \in roots : r.states[h].first /\ Due(r.states[h])},
               LAMBDA g, h : \/ r.states[g].root > r.states[h].root
                             \/ r.states[g].root = r.states[h].root /\ g < h)

(* Mutant of Turn: a class keeps its turn while it has work. *)
TurnGreedy(r, wanted, roots) ==
  LET t == r.turn
      next == [r EXCEPT !.turn = NextTurn(t)]
      w == Candidates(r, wanted, "wants", r.want)
      o == Candidates(r, roots, "roots", r.root)
  IN  CASE t = "wants" -> [rec |-> [(IF w.handles = <<>> THEN next ELSE r) EXCEPT !.want = w.round],
                           turn |-> t, handles |-> w.handles]
        [] t = "fresh" -> [rec |-> next, turn |-> t, handles |-> FreshRoots(r, roots)]
        [] t = "roots" -> [rec |-> [next EXCEPT !.root = o.round], turn |-> t, handles |-> o.handles]

(* One class's turn. *)
Turn(r, wanted, roots) ==
  LET t == r.turn
      next == [r EXCEPT !.turn = NextTurn(t)]
      w == Candidates(r, wanted, "wants", r.want)
      o == Candidates(r, roots, "roots", r.root)
  IN  CASE t = "wants" -> [rec |-> [next EXCEPT !.want = w.round], turn |-> t, handles |-> w.handles]
        [] t = "fresh" -> [rec |-> next, turn |-> t, handles |-> FreshRoots(r, roots)]
        [] t = "roots" -> [rec |-> [next EXCEPT !.root = o.round], turn |-> t, handles |-> o.handles]

(* next_work: up to three turns, until a class has work. *)
NextWork(r, wanted, roots) ==
  FoldLeft(LAMBDA found, i : IF found.handles # <<>> THEN found
                             ELSE Turn(found.rec, wanted, roots),
           Turn(r, wanted, roots), <<2, 3>>)

(* begin_attempt *)
BeginAttempt(r, turn, h) ==
  LET tried == [r EXCEPT !.states[h].first = FALSE]
  IN  CASE turn = "wants" -> [tried EXCEPT !.want.after = h]
        [] turn = "roots" -> [tried EXCEPT !.root.after = h]
        [] turn = "fresh" -> tried

(* record_unavailable *)
RecordUnavailable(r, h) ==
  [r EXCEPT !.states[h].backoff = IF r.states[h].tried THEN Min({@ * 2, Cap}) ELSE Initial,
            !.states[h].tried = TRUE, !.states[h].age = 0]
----------------------------------------------------------------------------
(* A pass.                                                                    *)

(* Starts fetches, in order, while the window has room. *)
Fill(r, t) ==
  LET n == Min({Len(t.queue), Window - Cardinality(t.flight)})
      begun == SubSeq(t.queue, 1, n)
  IN  [rec |-> FoldLeft(LAMBDA acc, h : BeginAttempt(acc, t.turn, h), r, begun),
       tick |-> [t EXCEPT !.queue = SubSeq(@, n + 1, Len(@)), !.flight = @ \union ToSet(begun)],
       begun |-> ToSet(begun)]

(* Ghost: a wanted handle that was due when a turn of the wants began, and    *)
(* stays due, counts each start of another one.                               *)
Passing(t, begun, wanted) ==
  [h \in Handles |-> [g \in Handles |->
     IF h \in begun \/ h \notin wanted THEN 0
     ELSE IF t.turn = "wants" /\ g \in begun THEN Min({passed[h][g] + 1, MaxBypass + 1})
     ELSE passed[h][g]]]

(* Ghost: handles a pass could not get. *)
Missed(handles) ==
  [h \in Handles |-> IF h \in handles
                     THEN [count |-> Min({misses[h].count + 1, MaxMisses}), age |-> 0]
                     ELSE misses[h]]

(* What the store asks for and does not hold. *)
Missing == (store.wants \union (IF hydrate THEN store.records ELSE {})) \ store.blobs

(* The first part of tick_snapshot: what is missing, whose turn it is, and    *)
(* the first window of fetches.                                               *)
Observed(memo, roots) ==
  LET wanted == store.wants \ store.blobs
      seen == ObserveMissing([rec EXCEPT !.memo = memo], wanted, roots)
      work == NextWork(Ranks(seen), wanted, roots)
      t == [on |-> TRUE, turn |-> IF work.handles = <<>> THEN "none" ELSE work.turn,
            queue |-> work.handles, flight |-> {}, arrived |-> {}, wanted |-> wanted,
            due |-> {h \in wanted \union roots : Due(seen.states[h])}]
      filled == Fill(work.rec, t)
  IN  /\ rec' = filled.rec
      /\ tick' = IF t.turn = "none" THEN [Idle EXCEPT !.due = t.due] ELSE filled.tick
      /\ passed' = Passing(t, filled.begun, wanted \intersect t.due)
      /\ misses' = [h \in Handles |-> IF h \in Missing THEN misses[h] ELSE NoMiss]
      /\ UNCHANGED <<use, store, hydrate>>

(* tick_snapshot begins; a failed record observation leaves no roots. *)
Begin ==
  /\ ~tick.on
  /\ LET memo == IF hydrate THEN ObserveRoots(rec.memo, store) ELSE NoMemo
     IN  Observed(memo, memo.missing)

BeginUnobserved ==
  /\ ~tick.on /\ use.failing /\ hydrate
  /\ Observed(NoMemo, {})

(* A fetch is answered, and what it brought lands or not; the window is       *)
(* filled again.                                                              *)
Complete(h, landed) ==
  /\ tick.on /\ h \in tick.flight
  /\ landed => h \in use.obtainable
  /\ LET after == IF landed THEN [rec EXCEPT !.states[h] = NewState] ELSE RecordUnavailable(rec, h)
         t == [tick EXCEPT !.flight = @ \ {h}, !.arrived = IF landed THEN @ \union {h} ELSE @]
         filled == Fill(after, t)
     IN  /\ rec' = filled.rec
         /\ tick' = IF filled.tick.flight = {} THEN Idle ELSE filled.tick
         /\ passed' = Passing(tick, filled.begun, tick.wanted \intersect tick.due)
  /\ store' = IF landed THEN [store EXCEPT !.blobs = @ \union {h}] ELSE store
  /\ misses' = IF landed THEN [misses EXCEPT ![h] = NoMiss] ELSE Missed({h})
  /\ UNCHANGED <<use, hydrate>>

(* The budget is spent: every request still unfinished is charged once. *)
Expire ==
  /\ tick.on
  /\ rec' = FoldSet(LAMBDA h, r : RecordUnavailable(r, h), rec, tick.flight)
  /\ tick' = Idle
  /\ misses' = Missed(tick.flight)
  /\ UNCHANGED <<use, store, hydrate, passed>>

(* The caller drops the pass: nothing is charged. *)
Cancel ==
  /\ tick.on /\ use.cancels
  /\ tick' = Idle
  /\ UNCHANGED <<use, store, hydrate, rec, misses, passed>>

----------------------------------------------------------------------------
(* The environment: time, the store's other writers, and the caller.          *)

(* Monotonic time; a wait is over after Cap. *)
Elapse ==
  /\ rec' = [rec EXCEPT !.states = [h \in Handles |->
               [rec.states[h] EXCEPT !.age = IF rec.states[h].tried THEN Min({@ + 1, Cap}) ELSE 0]]]
  /\ misses' = [h \in Handles |->
                 [misses[h] EXCEPT !.age = IF misses[h].count > 0 THEN Min({@ + 1, Cap}) ELSE 0]]
  /\ UNCHANGED <<use, store, hydrate, tick, passed>>

Write(s) ==
  /\ store' = s
  /\ UNCHANGED <<use, hydrate, rec, tick, misses, passed>>

Want(h) == h \in use.demand \ store.wants /\ Write([store EXCEPT !.wants = @ \union {h}])
Withdraw(h) == h \in use.demand \intersect store.wants /\ Write([store EXCEPT !.wants = @ \ {h}])
Record(h) == h \in use.authored \ store.records /\ Write([store EXCEPT !.records = @ \union {h}])
Rewrite(h) == h \in use.authored \intersect store.records /\ Write([store EXCEPT !.records = @ \ {h}])
Import(h) == h \in use.moving \ store.blobs /\ Write([store EXCEPT !.blobs = @ \union {h}])
Collect(h) == h \in use.moving \intersect store.blobs /\ Write([store EXCEPT !.blobs = @ \ {h}])

(* set_replication: traversal state of the roots starts over. *)
SetReplication ==
  /\ ~tick.on /\ use.selects
  /\ hydrate' = ~hydrate
  /\ rec' = [rec EXCEPT !.root = NoRound, !.turn = "wants", !.memo = NoMemo,
                        !.states = [h \in Handles |-> [rec.states[h] EXCEPT !.root = 0, !.first = FALSE]]]
  /\ UNCHANGED <<use, store, tick, misses, passed>>

Init ==
  /\ use \in Uses
  /\ store = [blobs |-> {}, wants |-> use.wants, records |-> use.records]
  /\ hydrate = use.hydrate
  /\ rec = [states |-> [h \in Handles |-> NewState], gen |-> 0, want |-> NoRound,
            root |-> NoRound, turn |-> "wants", memo |-> NoMemo]
  /\ tick = Idle
  /\ misses = [h \in Handles |-> NoMiss]
  /\ passed = [h \in Handles |-> [g \in Handles |-> 0]]

Pass == Expire \/ \E h \in Handles, landed \in BOOLEAN : Complete(h, landed)

Others ==
  \E h \in Handles : Want(h) \/ Withdraw(h) \/ Record(h) \/ Rewrite(h) \/ Import(h) \/ Collect(h)

Next == Begin \/ BeginUnobserved \/ Pass \/ Cancel \/ Elapse \/ Others \/ SetReplication

(* The caller ticks again and again, a pass ends by its deadline, and time    *)
(* goes on.  These are the weak fairness of Begin, Pass and Elapse, with      *)
(* ENABLED spelled out: only Begin ends CanBegin while demand stays, and only *)
(* Pass or Cancel ends a pass.                                                *)
CanBegin == ~tick.on /\ \E h \in Missing : Due(rec.states[h])
CanElapse == \E h \in Handles : \/ rec.states[h].tried /\ rec.states[h].age < Cap
                                \/ misses[h].count > 0 /\ misses[h].age < Cap
Fairness ==
  /\ []<>~CanBegin
  /\ []<>~tick.on
  /\ []<>~CanElapse \/ []<><<Elapse>>_vars

Spec == Init /\ [][Next]_vars /\ Fairness

----------------------------------------------------------------------------
(* Types; a backoff never exceeds its cap, and no more fetches are in flight  *)
(* than the window allows.                                                    *)
TypeOK ==
  /\ rec.states \in [Handles -> [tried : BOOLEAN, age : 0..Cap, backoff : 0..Cap,
                                 wanted : Nat, root : Nat, first : BOOLEAN]]
  /\ rec.turn \in {"wants", "fresh", "roots"}
  /\ tick.flight \subseteq Handles /\ Cardinality(tick.flight) <= Window

(* The hydration memo carried from snapshot to snapshot says what deriving it *)
(* from its snapshot would say, whatever records and blobs came and went      *)
(* (Hydration::advance against Hydration::derive).                            *)
MemoIsDerivation == rec.memo.on => rec.memo = Derive(rec.memo)

(* A pass that finds some missing handle due fetches something: no class      *)
(* hides another's work, and a spent round makes place for the next           *)
(* (next_work, ExactRound::candidates).                                       *)
WorkIsFound == ~tick.on => tick.due = {}

(* While a wanted handle stays missing and due, no other wanted handle is     *)
(* started more than twice in the turns of the wants before it is: once in    *)
(* the round under way, once in the next (ExactRound).                        *)
PassedTwiceAtMost == \A h, g \in Handles : passed[h][g] <= 2

(* A handle that stays missing is fetched again only after the wait its       *)
(* misses call for, doubling from the base up to the cap (record_unavailable, *)
(* WantState::due): passes that were dropped or expired included.  Excepted   *)
(* is where the records cannot always be observed.                            *)
Wait(n) == IF n = 0 THEN 0 ELSE Min({Initial * 2^(n - 1), Cap})
Spaced == \A h \in tick'.flight \ tick.flight : misses[h].age >= Wait(misses[h].count)
AttemptsAreSpaced == [][use.failing \/ Spaced]_vars

(* What stays missing is fetched again and again, whatever else is asked for  *)
(* meanwhile and however many passes run out their deadline or are dropped    *)
(* (the turns of next_work).                                                  *)
AttemptsContinue ==
  use.failing \/ \A h \in Handles : []<>(h \notin Missing \/ h \in tick.flight)

=============================================================================
