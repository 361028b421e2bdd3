# A verification project for triblespace

TLA+ models of triblespace, TLC runs over small instances of them, and theorems
about them that TLAPS checks. `PROJECT.json` is the index: components, runs,
mutants, the map from definitions to source lines, findings, hazards, theorems.

To repeat a run: `tlc -config MCPile.cfg MCPile`. To check the proofs:
`tlapm M.tla` for each module `M` whose name ends in `Proofs`.

## 1. The system

Triblespace is a content-addressed knowledge store. Four layers matter here.

**Storage.** A *pile* (`repo/pile.rs`) is one append-only file that several
handles, in one or several processes, replay and append to under a file lock.
A *yard* (`repo/yard.rs`) is a sequence of piles that collects: new content lands
in the young pile, survivors move to older ones, files are rewritten. Other
backends (memory, hybrid, object store) implement the same traits.
State: the file, what of it is synced, and per handle an index and an applied
length; for a yard also live sets, wants and the operation under way.
Hard parts: appends of several handles that interleave, appends that stop short,
crashes and power failures between any two steps, failures inside a compaction.
Correct means: what was reported stored can be read; what was flushed survives;
reading is never confused by an append under way.

**Collections.** A *collection* is named by a descriptor blob; signed records
(COMMIT, DERIVE, MERGE, MAP) attest nodes of its lattice. `coverage.rs` folds
the believed records into an index of what each node stands for and of the
frontier a reader attaches; `covered.rs` carries that index from one snapshot of
the store to the next and decides records one lineage at a time.
State: the published tables and the worklist; the records parked under blobs
and proofs that have not arrived; the memo of every live snapshot.
Hard parts: records, descriptors, capability definitions and proofs arrive in any
order; two snapshots are read at once. Correct means: what a reader sees is a
function of what its snapshot holds.

**Capabilities.** `capability.rs` walks chains of delegations and decides quorums;
a refusal names the definitions whose arrival could turn it.
Correct means: evidence only ever adds authority, and a refusal names its remedy.

**Network** (`triblespace-net`). Peers dial each other (`connection.rs`), agree on
which collections they exchange (`peering.rs`, `recon.rs`), exchange records
(`walk.rs`, `exchange.rs`, `riblt_*`), gossip capability proofs (`grants.rs`),
find providers (`provider.rs`, `routing.rs`), pace themselves (`schedule.rs`,
`wake_schedule.rs`), serve durable wants (`reconcile.rs`) and land what arrives in
the store (`landing.rs`, `channel.rs`). Hard parts: crossed dials, stale
connections, refusals that cross requests, exchanges that are cut on one side
only, receipts that cross values, timers that reports race with. Correct means:
two nodes that may exchange come to hold what they share, and neither relies on
what the other does not hold.

**PATCH** (`patch.rs`, `patch/*`) is the persistent trie the rest uses as a set.
Its branches cache counts, hashes and a representative leaf, and every operation
decides by these caches; its child tables are cuckoo hash tables. Correct means:
after any edits it answers as the set would.

Around these are the query engine, encodings, importers, search indexes, macros
and a command line: data and computation without concurrent control.
`PROJECT.json` lists them all.

## 2. Modules

| module | models | of the code |
|---|---|---|
| `Coverage` | the fold of believed attestations and its worklist | `coverage.rs`: `believe`, `drive`, `advance_frontier` |
| `CoverageProofs` | its theorems | |
| `Capability` | what the evidence admits, as operators | `capability.rs`, `descriptor.rs`, `api.rs` |
| `CapabilityProofs` | its theorems, and those about `Evidence` | |
| `Evidence` | evidence arriving, and the two loops of `capability.rs` | `capability_quorum_decide_if`, `..._authorized_subjects_if` |
| `Covered` | parking, deciding, waking, carrying forward, snapshots | `covered.rs`, `coverage.rs` |
| `Pile` | the file, its handles, locks, appends and failures | `repo/pile.rs` |
| `Retention` | which blobs are owned, as operators | `yard.rs`: `retention_*`; `repo.rs`: `reachable` |
| `RetentionStore` | the abstract store a yard implements | |
| `Yard` | tiers, collection, compaction, rewriting and failures | `repo/yard.rs` |
| `YardProofs`, `PileProofs`, `CoveredProofs`, `PeeringProofs`, `ConnectionsProofs` | the theorems of the module each is named after | |
| `PileRecordProofs` | the theorems about the records in a pile | |
| `Peering` | two nodes agreeing to sync a collection | `peering.rs`, with the connections of `connection.rs` |
| `Connections` | connection tables: dials, tie-break, draining, eviction, events | `connection.rs` |
| `Exchange` | one exchange by prefixes, its two drivers and agreements | `exchange.rs`, `prefix_offer.rs`, `walk.rs` |
| `Cached` | one exchange by a cached code, resumed after a cut | `exchange.rs`, `walk_cached.rs`, `riblt_resume.rs` |
| `Landing` | the task that inserts what exchanges receive | `landing.rs`, `peer.rs` |
| `Replica` | the abstract exchange both implement | head of `walk.rs` |
| `Walks` | the task that runs a node's exchanges | `walk.rs` |
| `Gossip` | the grant exchange on top of it | `grants.rs` |
| `WakeSchedule`, `Schedule` | a collection's timer and what moves it | `wake_schedule.rs`, `schedule.rs` |
| `Reconcile` | the reconciler's plan and passes | `reconcile.rs` |
| `Patch` | the trie and its operations | `patch.rs`, `patch/branch.rs`, `patch/leaf.rs` |
| `ByteTable` | the child table of a branch | `patch/bytetable.rs` |
| `MC*` | small instances; `MCStores`, `MCReplication`, `MCNeighbours` and `MCDemand` each put several components into one run | |

How they fit together: `Pile` says how a file yields a set of records and what a
power failure takes; `Yard` uses a pile as that set. `Covered` shares the
variables of `Evidence`, uses `Capability` to decide and reduces the published half of the index to the set of believed
attestations; that this loses nothing is theorem `RowsAreLeast` of
`CoverageProofs`. `Yard` implements `RetentionStore` (property `FlatSpec`).
`Exchange` and `Cached` share `Landing` and implement `Replica` (property
`Replicates`); `Gossip` extends `Walks`, in which an exchange is one step that
lands the difference or is cut; `Schedule` extends `WakeSchedule`. `Patch` has its
child tables as functions, which is what `ByteTable` shows of them.

### Coverage

One collection, because no attestation reads a row of another. The variables are
the published tables (`rows`, `frontier`, `blocked`, `owners`, `leaves`, `joins`,
`attachments`) and the worklist inside `believe` (`grown`, `edges`). An
attestation is folded only when the worklist is empty (`&mut self`); inside a fold
there is one step per join driven. The edges of a node are visited in digest
order, which is unrelated to the lattice, so the model visits them in any order.

### Capability, Evidence

A proof is a sequence of edges, each with a definition, a delegate and whether its
signature verifies; keys are model values, and those that
`is_valid_capability_principal` accepts are `Principals`. A descriptor that is
resident but unusable binds no policies. `Evidence` walks proofs in id order with
the early exits of the code and compares with the declarative form.

### Covered

A record is its attestation. A snapshot freezes blobs, proofs and records and has
a memo behind one lock, so every action is one critical section. `NextSnapshot`
carries the last memo forward with the difference of the stores; because a
backend's change mask is conservative it may offer older records again and claim
that proofs changed when they did not. Snapshots with equal inputs share a memo
and are one snapshot. A MERGE decided before the descriptor shows its collection
to be attached stays stored; the code documents it and `ReadsAreExact` leaves such
joins out.

### Pile

The file is a sequence of cells; a record has a header cell, which names its length
and a blob's hash, and more. Operations replay first and take the lock the code
takes: small blobs append under the shared lock, everything else under the
exclusive one. A failed replay under the shared lock is repeated under the
exclusive one. A cell from the middle of a record carries no marker and decodes as
`UnsupportedRecord`. A power failure keeps a prefix that contains what is synced.
A snapshot that outlives its handle is a handle that stays open.

### Yard

A pile is the set of items in it and the part that is synced. A compaction takes a
step per tier it looks at and per blob it copies; anchoring and each rewrite are
one step, because before the sync or the rename only unsynced extra items differ.
A rename is atomic and durable once done (the code does not sync the directory; see
the hazards). Records and wants have the blobs they name in `Refs`, the
descriptions of their kinds included. Wants in older files only come from files
found when the yard is first opened (`use.found`). `use.faults` selects which steps
may fail. Two ghosts delimit the known failures of section 6: `safe` drops what a
failed sync left unsynced, and `reopened` marks the files a failed rewrite reopened.

### Peering

Two nodes and one collection: collections share only the connections. A node is one
task that takes one event at a time, so each handler is an action: a frame, a
connection opened or closed, a dial's end, a new observation of the store, a tick
(`Fill`, `SwapOut`). Frames on a connection stay in order and are lost when it
closes, which both ends notice on their own. `peering[n][l]` is the code's
`Peering` on connection `l`, and the pure operators (`Ask`, `AnswerRequest`,
`Revisit`, `Hear`) give what a handler leaves there and what it sends. A proof is
one right of one node and counts while its definition is resident; how chains and
quorums decide that is `Capability`. Other nodes appear as inbound room that may be
taken and as candidates a neighbour is swapped for. An observation may find any
number of new proofs and definitions, and may come with records only. Ghosts:
`withdrawn`, `renewed` and `dropped` name the cases the properties except.

### Exchange, Cached, Landing, Replica

A tree is the set of its keys, a summary is the set below a prefix, and keys are
two digits, so that there are inner nodes and compressed paths. Each side is the
exchange's state, its outbox and its driver; the stream has one queue per direction
with a credit. `Landing` takes the events of a batch in order, inserts, publishes
and acknowledges; insertions may fail. Exchanges follow one another on a connection,
each against the agreement the last one left on that side; between them stores grow.
In `Cached` cells are not computed: the decoder recovers one key of the difference
with every cell after the first.

### Walks, Gossip

Two nodes with a task each, streams that open, join and cross, registrations per
key, the queue of grant walks, the commands and reports between a driver and its
task, listings per connection, walks asked for once per listed root, backoffs that
fall due at any later time, grants that wait for a descriptor, and connections that
are lost and made again. A node may restart with an older store.

### Schedule, WakeSchedule

Times are relative to now. One collection, whose root is the number of its
changes; receives are reported on a queue of their own. `watch` follows one
opportunity that is owed: after a join, after a change, or the gap between two.

### Connections

Two tables, callers that share dials and may be cancelled, the opening frame that
ranks a connection, retired connections that drain, eviction at a cap, and the tasks
of a connection that race to close it and tell the service. A crash leaves the other
end of a connection up.

### Reconcile

The memo of missing roots and how a snapshot advances it, the three classes with
their cursors, a pass with its window of fetches, its expiry and its cancellation,
and the backoff of each handle in ticks.

### Patch, ByteTable

Heads are leaves or branches with the caches of the code; the operators are the
code's recursions. Two tries and the sets they should be are edited side by side. A
hash is the set of keys it is the XOR of, so a stale one shows. `ByteTable` has the
slots of one table under every permutation given, with the displacement plan, the
installation and the doubling.

## 3. Runs and bounds

| run | shows | bounds |
|---|---|---|
| `covered` | a read decides what a fold from nothing would; what is parked waits for absent blobs | a root collection with late policy, descriptor and definition; a derived and an attached one; 2 live snapshots |
| `pile` | indexes are replays; complete appends are readable; inserts stay and are stored once; applied bytes never change; clean handles have nothing to lose; failures reported are real | 2 handles and a prefix reader; three uses: a 2-cell and a 3-cell blob without tears, a blob and a record with 1 torn append, a blob with 1 torn append and 1 power failure. |
| `stores` | a yard is a flat store; flushed is kept; a close persists. A trie answers as its set. A child table finds every byte | 3 tiers, 2 blobs, a record, a want, three uses. Tries of up to 6 keys of 4 bytes in 3 segments, or two of up to 4 keys. A table of up to 8 slots under 2 permutations, 1 retry |
| `replication` | receipts are true, nobody is misjudged, every exchange ends, both kinds implement `Replica`. Rows, blocked marks and frontier are what the believed set denotes; the worklist drains | trees of up to 4 keys; window 1, credit 1–2, 1 request; up to 2 rounds, 1 cut, failing insertions. A root and a derived collection of 5 nodes, 3 foundations, 5 merges incl. a merge of a merge, an absorption and a cycle |
| `neighbours` | somebody sends on every peering; promises are backed by evidence; both hold a peering or neither; requests and dials end. The timer offers in time | 2 nodes, 2 connections, a queue of 2, five uses. Intervals of 4 to 12, 2 neighbours, 2 walks, 2 changes |
| `gossip` | registrations, reports and queues agree; agreements are used on their connection only; both come to hold what they share | 2 nodes, 1–2 resources, 2 grants, 2 connections, up to 2 faults; twelve uses |
| `demand` | the table hands out the connection it keeps; one dial at a time; both settle and every caller returns. The plan follows the store, is fair and keeps trying. Evidence: loops = declarative quorum, audiences, remedies, stability | 2 nodes, 2 callers, 2–3 connections, cap 1; seven uses. 3 handles, window 2, backoff 1–2; seven uses. 5 keys, 5 proofs of 1–3 edges, 4 policies, every subset of the evidence |

A *use* is chosen in the initial state and never changes: it says which items are
stored, what is found at the start and which failures happen. One run thereby
covers several small instances whose product would be too large. In the same way a
run of several components begins with the choice of the one that moves; the others
rest in an initial state, so no interleaving is claimed between them.

Two handles suffice for the pile because a handle sees the others only through the
file and the lock; the third, bounded handle adds a reader that never refreshes.
Records of two and three cells are the smallest with an inside and with an
append that can be overtaken. Two snapshots are the smallest number for which
one's memo is carried from the other while both are read. Three tiers are the
smallest number with a tier that is neither the young nor the last one. Two
changes are what it takes to withdraw and come back. An exchange joins two nodes by
construction; a window and a credit of one put every wait of the protocol at its
limit. Two dials are what it takes to cross, and a third connection to be ranked
against the one that survived.

**Fairness.** `Coverage`: the worklist is a loop of one call, so it is taken while
it is not empty (weak fairness of `Drain`). `Peering`: the events of each
connection and the ends of dials are weakly fair, because `select!` starves no
branch and dials have a deadline; ticks, observations and connections are not.
`Exchange`, `Cached`, `Gossip`: while something can run, something does; their
steps are bounded, so no choice among them is assumed. Stores that grow, cuts and
faults are not forced. `Connections`: weak fairness of the tables' own steps; calls,
losses and crashes are not. `Reconcile`: the host begins passes, a pass ends (its
budget ends), and time passes.

## 4. What is proved

For every value of the constants allowed by the named assumptions:

* `CoverageProofs` — `TypesHold`; `RowsClosed`, `BlockedExact`,
  `NothingIsInjected`, `RowsGrow`; `RowsAreLeast` and `RowsDenote`: between two
  attestations the rows are the least table closed under the believed set, and the
  one its rounds settle in, so they do not depend on the order of arrival;
  `FrontierExact`: the frontier is the unconsumed nodes, and as
  long as the believed merges form no cycle it stands for exactly the believed
  foundations.
* `YardProofs` — `YardInvariant`; `FlushedKept`: what was owned when everything was
  synced is in a synced file ever after; `ClosedDurable`; `YardIsFlat`: a yard of any
  number of tiers, with any budget and reference graph, implements `RetentionStore`
  (the initial states map to initial states, each action to an action or a stutter).
* `PileProofs` — `PileInvariant`; `IndexReplayed`: every index is one replay of the
  file; `CleanDurable`: what a clean handle stored is synced; `BytesArePermanent`: no
  step changes or cuts off a byte that an open handle has applied. For any number of
  handles and records of any sizes.
* `PileRecordProofs` — on top of it `InsertInvariant`, `InsertsAreKept`: a record
  reported inserted is found by every replay, whole and once; `WholeInvariant`,
  `CompleteReadable` and `FailuresReal`: until an append stops short or the power
  fails, what was reported stored is readable and no failure is reported.
* `CoveredProofs` — `CoveredInvariant`, `CoveredTypes`; `ParkedExact`; `ReadsExact`:
  a read through an index that was carried forward decides what a fold of its
  snapshot from nothing would, for any number of live snapshots.
* `PeeringProofs` — `PeeringInvariant`; `PeeringsCarry`: somebody sends on every
  peering; `PromisesBacked`: whoever is said to send is admitted by evidence of the
  node that said so. For any number of connections.
* `ConnectionsProofs` — `ConnectionsInvariant`; `CapHolds`; `CurrentKept`: streams are
  opened on the connection the table keeps; `OpenClosed`: what the service takes to be
  open is open or its closing is queued; `OneDial`. For any number of connections and
  callers and any cap.
* `CapabilityProofs` — `AdmissionKept`: more evidence never takes an admission
  back; `RefusalNamesItsRemedy`: a refused signer stays refused until a definition
  that the refusal names arrives; `HintsExact` and `AdmissionStable`: the same as
  properties of a store whose evidence arrives in any order; `DecisionsExact`: the loops
  of the code compute the quorum and the audience as they are defined, for every set of
  proofs and every policy.

The assumptions say of which kind the constants are. Beyond that: proofs are finitely
many and their ids differ, a policy has finitely many roots and a threshold of at least
one (`Capability`); nodes are finitely many (`Coverage`); blobs and inserted records
are different things and every record has a header and something after it (`Pile`);
there are two nodes (`Peering`), finitely many callers and a cap of at least one
(`Connections`), at least one tier (`Yard`).

**The inductive invariant of the fold.** That the rows are closed is false in the
middle of a fold. `IndInv` adds that every join is *settled* (its support is in its
result's row and it consumes its inputs) unless it is *pending*: it reads a node on
the worklist or is among the edges still to be driven. Each contribution either
leaves a row as it is or pushes its node, so a join it unsettles becomes pending;
a pop turns "reads the popped node" into "is among the edges"; a drive settles. When
the fold is idle nothing is pending. The frontier is accounted for the same way: a
node with a row is on it or is consumed by a join that was driven.

**The rows and their reference.** `RowsAreDenotation` compares the rows with the last
of 2n rounds, n the number of nodes. No round says more than the rows, which are
closed, and by `RowsAreLeast` the rows say no more than any closed table; so it is
enough that the last round is closed. `GrowthEnds` counts: sets that grow inside a set
of n elements, and stay as they are once a step adds nothing, have stopped after n
steps. The nodes that have a row are such sets, so n rounds give every node its row
(`ChainSteady`); from there on so are, for each foundation, the nodes whose row holds
it, and n more rounds complete the rows (`ChainStill`).

**The inductive invariant of the yard.** A recycled file loses its unlisted blobs, so
`FlushedIsKept` needs a second copy. `SafeIsLive` says where: a safe blob is live in a
tier whose file has it synced, except between the move of a tier and the sync of its
target, and nothing is recycled in between. `CopiesArrive` makes the move find
every blob in the target, `WantsAnchored` does for wants what the live sets do for
blobs, and `SafeIsSupported` (safe items are kept by safe records and wants alone)
is what no collection can undo, because `Keep` grows with its arguments
(`KeepGrows`). A failed sync takes from `safe` what it left unsynced *and* what only
that kept (`Supported`). `CleanIsSynced` ties a clean handle to an empty backlog.

**The inductive invariants of the pile.** They come in three layers, each proved on
top of the one before. `IndInv` says that a handle stands at an offset which a replay
of the whole file *visits*, that its index is what the replay finds before that
offset, and that an exclusive lock is alone. A cut is made under the exclusive lock,
where the replay stops; the offset of every other handle is one that this replay
visits, so nothing is cut off that was applied. `InsertInv` adds what is written: the cells of
a collection record lie together, and while an insert is under way the end of the
file is its own, because it has the exclusive lock. `WholeInv`
speaks of files in which nothing was torn: every record found is whole, and only the
one append under way may be cut off at the end. Small blobs are appended under
the shared lock, several handles at a time but each in one write, so the layer
describes the end of the file (`EndsIn`) and does not rely on a lock. `Starts` is a recursive function; the proofs use the
set of offsets a replay visits instead, the least one closed under reading a record,
and `StartsAreFound` shows that both are the same. The first layer is `PileProofs`, the
others are `PileRecordProofs`.

**The inductive invariant of the index.** Follow one attestation of a settled
collection: it is believed, or *fresh* (to be decided by the next read), or parked.
`ParkedRefused` says what being parked means: it was refused with some earlier part
of the blobs, and it waits under every blob that the refusal named. By
`RefusalNamesItsRemedy` it is still refused while none of these has come; when one
comes, carrying forward makes the attestation fresh. Nothing is believed too early
because evidence only arrives (`AdmissionKept`).

**The inductive invariant of peering.** `SomeoneSends` fails to be inductive at one
place: an acceptance that says its sender will not send, and arrives when the asker
has withdrawn and asked again. The invariant therefore speaks of what is on the
wire: such an acceptance answers a request in which the asker said that it will
send, what made it say so is evidence, and evidence stays; so the later request said
the same. Every promise on the wire is backed by evidence of its sender.

**The inductive invariant of the connections.** It is one per node, over three parts
that share only the sides of connections: the table (which ranked connection is
current, and that every other one is retired), the dials (which callers run, wait for
or have left a dial) and the events (an opening that the service has heard of has its
closing queued or still to be sent by a task that is running). The cap needs that a
registration over it finds a connection to displace, which is counted with
`FiniteSetTheorems`.

**The loops of a decision.** `DecisionsExact` is about two recursive functions: the walk
along the edges of a proof, and the pass over the proofs in the order of their ids. For
each a solution that does not recurse is written down: the walk ends at the first edge
that is undefined, exceeds what was delegated or hands over what is asked; and as long as
the threshold is not met, the pass has found the roots that some proof so far supports
and the cuts of those that do not. The function is this solution, because a difference
would have a least place.

`RefusalNamesItsRemedy` follows the first edge at which a newly successful walk
differs from the old one: that edge's definition was absent, the walk was cut there,
and the refusal lists it, unless the root's share had arrived through a proof
with a smaller id, which is why the least such proof is taken.

**Only model-checked**: every liveness property (temporal reasoning about fairness
is beyond the prover); everything about `Exchange`, `Cached`, `Walks`, `Gossip`,
`Schedule`, `Reconcile`, `Patch` and `ByteTable`; of `Peering` that a peering is
mutual. `Patch` and `ByteTable` are recursions over data, for which the library's
induction theorems cannot be used. Where a proof needs an induction it is over numbers
and goes by the least counterexample, which `WellFoundedInduction` provides
(`LeastElement`, `LeastNatural` and `LeastNumber` in the modules that use it).

## 5. Mutants

Every property of every passing run has a mutant: a version of one mapped definition
with a plausible bug (a dropped guard, a missing sync, an off-by-one), defined
before it and marked `Mutant of`, under which TLC finds the property violated.

## 6. Disagreements between code and documentation

1. `covered_unadmitted`: a record held under a definition and under its signer's
   proofs is woken through one of them and believed; the copy under the other is
   still listed by `unadmitted_nodes_in` as a member no proof admits.
2. `pile_torn_duplicate`: a put of a small blob whose earlier put by another handle
   stopped short after the header is acknowledged although no replay finds an
   intact copy.
3. `yard_failed_sync`: if the sync inside a compaction fails, the live sets have
   already moved; the next `reclaim` recycles the source while the only live copy is
   unsynced.
4. `yard_failed_rewrite`: after a failed rewrite the file is reopened through a
   clean handle, and `close` no longer syncs what was appended before.
5. `peering_stale_flags`: `revisit` passes over a side whose request is under way,
   and the acceptance makes a peering with the request's flags, whatever changed
   since. For the same reason a refused peer that is admitted meanwhile is not
   invited until the evidence changes again; and where requests cross, the second
   acceptance, with newer flags, is ignored.

Met while modelling and explored with TLC, without a run of their own:

6. `walk.rs`: the head of the module says a confirmed exchange leaves an agreement
   that is the prior one plus both deltas. A References walk is joined by looking at
   one's own direction only; two sides with the same direction confirm and nothing
   was sent.
7. `schedule.rs`: an append of the node's own while a receive is counted is not
   offered before the receives end; if the last one fails it waits for the timer.
8. `grants.rs`: a grant a walk reports after its connection closed waits in memory
   with no listing to drop it.
9. `reconcile.rs`: a pass that cannot observe the records forgets the backoff of the
   roots, which are then tried again at once.
10. `connection.rs`: while both sides mark a connection as a neighbour's, two
    connections of one pair can be kept for a time.

## 7. Abstractions

Left out of the modelled components: legacy and retired record formats, pins, the
want cutover and reframing (`pile.rs`); `amputate` of a yard, opaque-record
refusals and a failed reopen (`yard.rs`); `retry_collections` and digest-addressed
replay (`covered.rs`); minting of proofs (`capability.rs`); the candidate order, the
provider lookups, timers and the cap on credentials kept (`peering.rs`); request
permits, stream tags, the codec and the order of eviction among equals
(`connection.rs`); a publication that fails after its insertion (`peer.rs`);
malformed frames and the limits that only a misbehaving peer meets (`exchange.rs`,
`walk_cached.rs`); definitions that wait in the grant index, health counters and the
lengths of backoffs (`grants.rs`); corrupt occurrences and statistics
(`reconcile.rs`); sharing and copy on write, archive leaves, the parallel forms,
Merkle views and iterators (`patch.rs`). Hashes do not collide and signatures are
not forged. Not modelled at all, with the reason: section 8 and the components of
`PROJECT.json`.

## 8. Plan

1. *Network*: `Provider` leases, the host's channels (`channel.rs`,
   `collection_activation.rs`), a failed publication in `Landing`.
2. *Collections*: the maintenance carry (`maintenance.rs`) on top of `Coverage`;
   the held-blob index; registers as algebra over bounded inputs.
3. *Proofs*: that both kinds of exchange implement `Replica`, action by action;
   `BasesAreHeld` and `TasksAreSound` of `Walks`; `PlanIsSound` of `Reconcile`.

Not planned: byte formats, the query engine, numeric indexes, importers, macros and
the command line. Their difficulty is in data, for which the repository's own
property tests are the better instrument.
