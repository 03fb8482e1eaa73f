# Matterhorn: a TLA+ development

Matterhorn turns conversations into a ledger of *assertions* about *matters*
and projects that ledger into what is true now, what was true then, and what
changed.  These modules model its core as state machines and pure operators.
TLC checks them on small instances; TLAPS proves the main invariants for every
value of the constants.

Paths below are relative to `src/src/matterhorn/` unless they begin with
`spec/` or `tests/` (of `src/`).

## 1. Inventory

| Component | State | Operations | What is hard | What makes it correct |
|---|---|---|---|---|
| Projection (`projection.py`) | none: a function of assertions and merges | SINGLE, SET, APPEND; weighted `part_of`/`gathers` | out-of-order arrival, human precedence, clears | evidence is kept, humans decide, the walk and its description agree |
| Change events (`engine/events.py`) | table `events` | `derive_change_events` | which assertion caused a change, values that vanish | every change is announced once, an event cites its cause |
| Subject merges (`engine/engine.py`) | table `subject_merges` | merge, unmerge, resolve | order of merges and unmerges | no cycle; merging is undoable |
| Ledger (`engine/engine.py`, `store/sqlite.py`) | `subjects`, `assertions`, `ingested_cards`, `distill_queue`, `intervals`, `projection_stats` | cards, corrections, dream, replay, export/import | what is read before a transaction and used in it, two dreamers, duplicates | one assertion per id, projection always current |
| Task queue (`engine.flush`, tables `tasks`, `record_observations`) | task rows, observations, local state of each flush | add, flush, retry, sweep | overlapping flushes, failures halfway, restarts | one answer per record, completed means done, bounded retries, everything settles |
| Scheduler, service loop (`scheduler.py`, `api/app.py`) | date of the last daily flush, in memory | `tick`, a webhook batch and a mail tick in turn | an exception ends the loop, a slow turn delays the others | flushes, deliveries and syncs keep being started |
| Routing, identity, handles, reviews (`engine/routing.py`, `identity.py`, `handles.py`, `aggregate.py`) | `subjects`, `subject_handles`, `ingested_cards`, `review_queue` | route, commit a chunk, bind, unbind, backfill, resolve | decided outside the transaction that commits | a card has one home that stands, and none is lost |
| Goal graph (`engine/goal_graph.py`, `structure_election.py`) | none: a function of structure assertions; notices in the review queue | admission gates, election | a gate checked before the transaction, merges no gate sees, votes in any order | acyclic, one parent, no human outvoted unheard |
| Mail (`connectors/mail.py`) | sync positions, reports, the configuration file | sync, reset, tick; configure, delete, set up | a crash between delivery and watermark, a folder created anew, several runtimes on one folder | no message is passed over, every message comes in |
| Webhooks (`webhooks.py`) | `webhook_deliveries` | `deliver_pending` | lost answers, retries, restarts | at least once |
| Themes (`engine/theme_converge.py`) | schedule state, theme tasks, proposals | cluster, propose, apply, decide | proposals about an old snapshot, overlapping passes, the order of unions | one open proposal for a matter, one strong core in a cluster |
| Unified loop (`engine/unified_loop.py`) | sessions, in memory | read, search, emit, finalize | merges while a session runs, a restart after an emission | it writes about what it was shown, no window is abandoned |
| Signals, staging, read watermarks (`engine/signals.py`, `engine/engine.py`) | `staged_records`, `signals`, `evidence_sources`, `read_watermarks` | observe, purge, acknowledge, mark as read | an extraction commits what it read before a revocation | nothing settled is taken back |
| Views (`engine/goal_graph.py`, `engine/gather.py`, `matters`, `matter_graph`, `brief`) | none | wall, tree, rollup, gather, brief | merges and cycles under a reader | a goal is shown where it belongs |
| Store (`store/base.py`, `sqlite.py`, `postgres.py`) | all tables | the writing functions; `transaction` | threads on one connection, savepoints, exceptions, a stop between statements | a transaction is atomic and alone |
| Gate, gateways, adapters, the rest of API and CLI, MCP, service, query, render, console, evaluation | little or none | conversion and wiring | — | tested, not modelled |

How they interact: `add` and `add_cards` write a task row and return.  A flush,
started by the scheduler's tick or by a caller that waits, runs the tasks:
records become cards through a model call and are committed chunk by chunk;
cards become assertions; the projection is rebuilt and change events derived
in the same transaction; cards wait in the distillation queue for `dream`, which
asks a model and stores what the gate accepts.  Humans correct and merge at any
time, from other threads.  All state is in one store whose public methods are
serialised by a lock and whose transactions hold that lock
(`store/base.py` `thread_safe_store`, `store/sqlite.py` `transaction`): a
transaction is one action here, and everything between two transactions is a
place where other actions come in.  That this is what the lock and the nested
savepoints amount to is itself checked and proved (`StoreSessions`).

## 2. The modules

```
SubjectMerges, Assertions <- Projection <- ChangeEvents   \
                             Projection <- ProjectionLoop  +- Ledger <- MCLedger
Projection <- GoalGraph;  GoalGraph, ProjectionLoop <- ElectionLoop
GoalGraph <- GoalViews;   ElectionLoop, GoalViews <- MCGoalGraph
TaskContract <- TaskQueue <- MCTaskQueue
SubjectMerges <- Routing <- UnifiedLoop    \
MailSync <- MailAccounts                    |
Outbox, MailSync <- ServiceLoop             +-- MCPipelines
Staging;  Themes;  ThemeClusters            |
AtomicStore, StoreTables <- StoreSessions  /

ProjectionLoop <- ProjectionProofs
Ledger, ProjectionProofs                                <- LedgerProofs
GoalGraph, ProjectionProofs                             <- GoalGraphProofs
GoalViews, ElectionLoop, GoalGraphProofs                <- GoalViewsProofs
TaskQueue                                               <- TaskQueueProofs
UnifiedLoop, ThemeClusters, ProjectionProofs            <- RoutingProofs
ServiceLoop, MailAccounts, Staging, Themes,
  StoreSessions, ProjectionProofs                       <- PipelineProofs
MCPipelines, RoutingProofs, PipelineProofs              <- ScenesProofs
```

**SubjectMerges** – the edges of `subject_merges` as a function from merged-away
subject to target.  `Canonical` is the loop of `_canonical_subject_key`,
described by the sets that are closed under edges so that nothing is recursive;
on a cyclic graph, where the code raises, it is some subject of the cycle, and
`Acyclic` says it never comes to that.

**Assertions** – the identity of an assertion and what `add_assertion` makes of
one that comes again: nothing, or a refusal when the payload differs.

**Projection** – `project_assertions`.  An interval is described by what opens
it (`opener`), what closes it and what supports it, not by the walk that finds
it.  **ProjectionLoop** is the walk as written: over the instants of a group, or over
its assertions in rank order, with the open intervals in hand.  A walk is a fold over
the set: what comes last is taken out and counted on top of all the others.
`ProjectionIsTheWalk` compares the two in every reachable state.

**ChangeEvents** – `derive_change_events` with `_change_trigger`; an event is its
payload, which is what its id hashes.  Merge events leave `recorded_at` out of
their id; `Collides` is the refusal of `add_event`.

**Ledger** – the tables and one action for each operation: `Ingest` (one or two
cards in one transaction), `PrepareCorrection` and `CommitCorrection`,
`ReadQueue`, `FailItem` and `Dream` (queue read and model call, then the
transaction), `Merge`, `Unmerge`, `Replay`, `Import`.  A transaction that raises
is rolled back: its action is not enabled.  Every action that commits ends in
`Rebuild`, which is `_rebuild`.

**GoalGraph** – the structure predicates of one scope, `part_of` and
`spawned_from`.  `Elected` is the weighted election, `Rejected` the gate of
`structure_rejection`, `Notices` the review item for an outvoted human.  Four
writers use them in different ways, and each is an action that models its
transaction whole: a correction is gated before its transaction (`PrepareEdge`,
`CommitEdge`; a correction in flight is `stale` once the tables it read have
changed), an emission of the unified loop (`Emit`) and a theme pass (`ThemePass`)
inside it, and a merge is not gated.  A theme pass gates each member with those that
joined before it; the model gates each by itself, which is the same, as the lemma
`GatedAlike` shows.  **ElectionLoop** is `election_history` and
`_project_elected_single` as written, a fold that takes the latest vote out and counts
it on what the others leave standing, and one over the instants; `ElectionIsTheWalk`
compares them with the reference.  **GoalViews** is what is read off the
graph: the rows of the wall with their rollups, the page of a goal, what a theme
gathers, and the entries of a brief.  Its operators are pure; statuses, blockers,
layers, gathered pairs and read watermarks are constants.  `RootFor` walks up and
`Descendants` walks down, each with its own way of stopping in a cycle, as in the
code: the property is that they agree.

**TaskQueue** – task rows, the observation ledger, accepted cards and the
distillation queue, and for each flusher the local variables of `flush`: the
list read at the start (`todo`), the task in hand, the records left after the
ledger filter (`rest`), the items `dream` listed (`sweep`) and whether one failed
(`bad`).  Each transaction of `flush` is an action.  `Crash` clears the local
variables and leaves the tables.  **TaskContract** is what a task promises its
caller; `TaskQueue` implements it while flushes do not overlap.

**Routing** – the subjects of a scope, merges, handle bindings, filed and held
cards, proposed parents.  A worker stages and extracts a chunk (`Extract`), routes
its cards one by one (`Route`: the ladder of `Recalled`, then `Adjudicated`), and
commits them in one transaction (`CommitChunk`), which observes the records and
applies each plan; `Home` resolves the routed key again at that moment.
Reviewers `Drop`, `Attach` or make new a held card; a proposed parent is accepted in two
steps, `ReadProposal` and `AcceptProposal`, because `_resolve_subgoal_review` reads
and gates before its transaction.  Merges, bindings, unbindings and the offline
backfill come in anywhere.  Which living subjects are open (`open` in `Route`) is free,
because the model has no projected cards.  A hint is followed while its subject is open
and without a model call; otherwise the model is asked about some of the open subjects,
five at most (`Offers`), and a card for which none is offered is new.  Lexical scores and
the answers of the adjudicating model are free within that.

**UnifiedLoop** – extends the scope of Routing with sessions: `Open`, `Look`,
`EmitBatch` (intents validated in order, one transaction), `Finished` or
`Exhausted`, `Finalize`, and `LoseSession` for gateway failures and restarts.  A
subject that is declared by a rejected intent can still be referred to, as in the
code.

**MailSync** – one folder and its position: `Begin` reads the position, `List`
selects and fetches, `Deliver` hands over, `Store` writes the watermark; each is a
place where another runtime, a reset or a failure comes in.  `Recreate` is a new
UIDVALIDITY, which `Refuse` answers.  **MailAccounts** adds the registry of
runtimes, the configuration file with its two writers and the command line, which
syncs without a lock.

**Outbox** – `deliver_pending`: the oldest events without a mark, posts, marks.
**ServiceLoop** composes `Outbox` and `MailSync` as the turns of the background
task, with deaths of the task and restarts of the process.

**Staging** – what an extraction reads before its model call (`Observe`) and
commits after it (`CommitExtraction`), against purges, revocations,
acknowledgements and readers.  The import of a snapshot writes `revoked_at` without
comparing (`put_source_state`), into a scope that must be empty; it is left out.

**ThemeClusters** – `cluster_themes` for every graph of bonds over four matters.
**Themes** – passes with their snapshots, the application of a proposal in its own
transaction, and people who accept, drop, move and complete.

**StoreTables** – what every writing function does to its row and when it raises,
for both stores.  **StoreSessions** – threads, the lock, blocks within blocks,
exceptions caught halfway, stops.  **AtomicStore** – what a store promises of its
transactions; `StoreSessions` implements it with
`rows <- Committed`, the rows that the outermost block began with.

**MCLedger**, **MCGoalGraph**, **MCTaskQueue**, **MCPipelines** – the constants of
the runs.  A behaviour of `MCPipelines` is one *scene*: one of the components above
at work while the others stand still.  They share no table that the model holds, so a
scene loses nothing, and their state spaces add up instead of multiplying; only routing
and the tool loop have the same tables, and of those two a service runs one, because
the loop replaces extraction and routing where it is switched on.  The scenes `mail`,
`service` and `accounts` are about the one mailbox there is; `MaxNews` bounds what comes
in while accounts change.  The components that do interact have a module that composes them (`ServiceLoop`,
`UnifiedLoop`, `MailAccounts`) and a scene of its own.

What the data abstracts: a card carries one predicate and names its subject
(identity rules are in Routing); an object value is its key; instants are
naturals and the clock is strictly increasing, one unit for each recorded
operation; subject types, titles, handles, reviews, memory cards and counters are
absent from the ledger; a model answer is any of a few sequences of candidates; a candidate's
`valid_from` is its card's instant; a chunk is all the pending records of one
conversation; whether a theme pass is due is a free choice; `unified_loop` is
off in the task queue, as by default.  In the goal graph every subject exists and
is open, theme members have no proposal under review, and the order of assertion
ids depends on the key.  In the routing of cards titles, lexical scores and the open
and recent matters are free choices; in the service loop what a tick flushes is
`Emit`; in the store tables rows of different keys are independent, and a row holds
what statements compare or keep.

## 3. The runs

| Run | Instance | Shows |
|---|---|---|
| `Claims` | two matters, a SINGLE, a SET and an APPEND predicate, four cards (one opens a status, one clears it, one repeats it later, one names two blockers), five corrections, two dreamers, one correction in flight, five recorded operations, no merges | `TypeOK`, `OneAssertionPerId`, `EvidenceRetained`, `RedundantIsInvisible`, `EventsTraceable`, `ProjectionIsTheWalk`, `StatusAnnounced` |
| `Merges` | three matters, four cards, two corrections, two merge requests (so that a merge can be undone and redone), six recorded operations | `MergesAcyclic`, `ProjectionCurrent`, `HumanPrecedence`, `MergedSubjectFrozen` |
| `Shared` | two flushers, two message tasks that share a record, two attempts, no restart | `TypeOK`, `OneAnswerPerRecord`, `CompletedIsDone`, `OverrunBounded`, `NothingStranded`, and `Quiesces` under fairness |
| `Retries` | one flusher, a message task, two card tasks with the same card id and different cards, a theme pass, two attempts, one restart | `ImplementsContract` |
| `Tree` | three goals; four corrections (two parents that close a cycle, a field-wide RETRACT, a birthplace), a pair of model votes for another parent, a vote for a third goal, a model RETRACT, a theme pass over two goals, one merge to make and undo; human weight 2, two corrections in flight, the clock up to five; the third goal is a theme that gathers the other two, one goal was read, one asks for the reader | `TypeOK`, `HumanOutweighed`, `ElectionIsTheWalk`, `ElectionMovesForCause`, `OutvotedHumanNoticed`, `CyclesHaveACause`, `ShownWhereItBelongs` |
| `Pipelines` | nine scenes, see below | `TypeOK` and fourteen properties, see below |
| `SilentClear`, `Remerge`, `CycleRace`, `RetryCap`, `Stranded`, `Held` | as the run of the same module | a disagreement between the specification document and the code, see below |

The scenes of `Pipelines`:

| Scene | Instance | Properties |
|---|---|---|
| `routing` | three subjects, two records, five cards (two share a handle, one cites both records and names a subject, one came by mail, one shows nothing that places it and comes twice in its chunk), two workers, two reviewers, one decision of people | `OneHome`, `RoutedToLiving`, `NoCardLost`, `DecidedOnce` |
| `loop` | two windows of one thread, one session at a time, four batches (with declarations, references, a rejected one, edges), three calls, two emissions | `ClosedWorld`, `NoWindowAbandoned` |
| `mail` | two messages, one of them unreadable, two runtimes, a folder created anew, a reset or a failure | `NoMailLost` |
| `accounts` | one message, one account, one request and the command line, two edits of the accounts, a restart | `NoMailLost` |
| `service` | two events in batches of one, the same mailbox, one mishap: a reset, a failed sync, a restart or the death of the loop | `MarkedWasReceived`, `EventsDeliveredWhenServed`, `MailComesInWhenServed`, `NoMailLost` |
| `staging` | two messages, one that alerts, one matter, two extractors, two instants | `NothingTakenBack` |
| `themes` | three matters, two namings of one cluster, two of others, two passes, two decisions | `OneOpenProposal` |
| `clusters` | every graph of strong and weak bonds over four matters (729) | `OneStrongCore` |
| `store` | two threads, two nested blocks, two calls in a transaction, tables empty or used | `TransactionsAreAtomic` |

What they say: a card's claims are stored under one subject, which stands when they
are stored, and observing a chunk leaves none of its cards behind; a proposed
parent is decided once; a session of the loop writes only about what it was shown, resolved
at that moment, and its window ends observed or with a reviewer; what is marked
delivered was received, and every event is marked in the end; no message of a folder is
passed over, and every message comes in, unless the folder was created anew or the
loop died; revocations, acknowledgements and reading are never undone by something
older; a matter is in one open proposal; a cluster holds one strong core; a
transaction is atomic and alone.

Why the bounds are enough: a disagreement of two claims needs two instants and
two origins; an event needs a value before and after; a merge cycle needs two
merges and, to be built by way of an unmerge, three subjects.  `MaxClock` counts
recorded operations: five allow a card, its clear, a correction, a reaffirmation
and a dream.  With a human weight of two, the least the code accepts, a pair of
model votes ties with one human and wins when it is the more recent, and the theme
pass adds a third vote.  In the task queue two attempts tell "may be retried" from "used
up", and two flushers are the scheduler and a waiting caller.  In the scenes every race has two parties:
two workers, two reviewers of one item, two runtimes of one folder, two passes,
two threads; one mishap (`MaxMishaps`) is enough to lose what is in memory at every
place there is, and what follows it is the same code from the same tables.  Four
nodes are the fewest that hold two strong pairs and weak bonds between them.  Three subjects
allow a merge while a third is written about.

`CHECK_DEADLOCK FALSE` is set because the bounded systems stop: the clock of the
ledger reaches `MaxClock`, the tasks of the queue are all settled, the components of
a scene have used up their inputs.

**Fairness** (`FairSpec`): a flush that began runs on, because every model call
returns or raises and every step of `flush` is followed by the next
(`WF(Work(w))`), and the service loop keeps ticking (`WF(Tick)`; `api/app.py`
167-177).  `Tick` starts a flush when a message task is flushable, which
`quiet_scopes` guarantees after the maximum delay; it says nothing for tasks of
cards, so `Quiesces` is about message tasks.  Extraction and distillation may fail every time:
the cap on attempts, not their success, makes the queue quiesce.

In `Pipelines` the fairness is that of the background task: it takes its next step
(`WF` of `LoopStep`; posts, listings and deliveries return or raise), the interval
of the mailbox passes (`WF` of `FallDue`), and a receiver that is posted to time
and again answers once (`SF` of `DispatchAnswered`), without which at-least-once
delivery promises nothing.  A failing sync, a death and a restart are never forced and never
excluded; their number is bounded by `MaxMishaps`.  A dead loop is an outcome the two liveness
properties name, because nothing in the code revives it.

### Disagreements

- `SilentClear`: a status that is retracted at the instant it opened vanishes
  without leaving a closed interval, and no `status_changed` is emitted
  (`engine/events.py` 214; `spec/SPEC.md` 872).
- `Remerge`: a merge undone and made again with the same evidence is refused,
  because its event id is taken by an event with another `recorded_at`
  (`engine/engine.py` 4829, `store/sqlite.py` 2157; `spec/SPEC.md` 459).
- `CycleRace`: two corrections that each pass the cycle gate are stored one after
  the other and close a cycle, because `correct` does not look again inside its
  transaction (`engine/engine.py` 4160; `spec/SPEC.md` 171 and 1975).
  `CyclesHaveACause` lists all the ways a cycle comes about: this one, a merge or
  an unmerge, a RETRACT that gives way to an older edge, and an emission whose second
  intent was gated with a first one that the table does not have as the gate saw it
  (`Misread`: withdrawn before and so not stored again, or recorded at the same
  instant as the second, where ids decide which is the later).  The last is a second
  way round the same rule; it came to light when the theorem was attempted.
- `RetryCap`: of two overlapping flushes one runs a task the other has already
  failed for the last time (`engine/engine.py` 3368; `spec/SPEC.md` 835).
- `Stranded`: after a restart in the middle of a flush the task stays `running`,
  and no flush selects running tasks (`store/sqlite.py` 1990;
  `spec/SPEC.md` 794 and 841).
- `Held`: an extraction that returns a card twice routes both before either is
  committed.  A card without a hint that no rung places is shown to the model beside
  an open subject, once for each copy; when the model says new of one and abstains
  from the other, a card is pending review and its claims are there (`engine/engine.py` 1517; `spec/SPEC.md` 433).

## 4. The proofs

Eight modules hold the theorems: `LedgerProofs`, `GoalGraphProofs`,
`GoalViewsProofs`, `TaskQueueProofs`, `RoutingProofs`, `PipelineProofs` and
`ScenesProofs`; `ProjectionProofs` holds the lemmas about merges, projections and folds
that four of them share.  They assume only the named assumptions of the modules, which
TLC evaluates on every run: the pools of inputs have their types (`InputsAssumption`,
`StructureAssumption`, `CardsAssumption`, `WindowsAssumption`, `ViewsAssumption`), each
predicate has a cardinality (`ProfileAssumption`, `RolesAssumption`), tasks have a kind
and fitting contents (`TasksAssumption`), the members of a theme and the nodes of a graph
are finitely many (`NodesAssumption`), and so are the goals of the views
(`ViewsAssumption`), bounds and windows are natural numbers
(`MailAssumption`, `OutboxAssumption`, `StagingAssumption`, `ThemesAssumption`), the loop
has one of the runtimes (`ServiceAssumption`), there are runtimes enough for the accounts
(`AccountsAssumption`; the code makes one whenever it needs one), `Nil` is no thread
(`SessionsAssumption`), and a scene is one of the nine (`ScenesAssumption`).
`SchedulerKeepsContract` assumes besides that the scheduler is the only flusher.  The
number of subjects, cards, records, workers, people, votes, tasks, flushers, runtimes,
accounts, matters and threads is open everywhere, and so are the bounds of the runs.

Ledger (`LedgerProofs`):

| Theorem | Property | Argument |
|---|---|---|
| `TypeCorrect` | `TypeOK` | inductive as it stands, given the range of `Canonical` |
| `MergesStayAcyclic` | `MergesAcyclic` | `MergeAllowed` asks where the target resolves to: were there a trap after the new edge, the chain of the target would have led to the source before it |
| `AssertionIdsUnique` | `OneAssertionPerId` | every writer excludes a taken id; within one transaction the new ones differ in key or subject |
| `ProjectionStaysCurrent` | `ProjectionCurrent` | every action rebuilds or leaves tables and view alone |
| `StatusIsAnnounced` | `StatusAnnounced` | an action property, from `ProjectionCurrent` and the range of `Derive` |
| `MergedSubjectsStayFrozen` | `MergedSubjectFrozen` | the strengthening `MergesFreeze` adds that stamps lie before the clock, corrections in flight included |
| `EvidenceStays` | `EvidenceRetained` | the invariant `Recorded`: the stored assertions are finitely many, and two with one stamp are siblings of one card.  Then each group has a top assertion at every instant, and each kind of projection gives an interval that the assertion supports |
| `ProjectionIsWalked` | `ProjectionIsTheWalk` | the walks are folds over finite sets, and a fold is the only function with its equation (`FoldUnique`).  From `Recorded` the elements have one order; the open interval and the closed ones after each instant are those the description gives for the assertions up to it |
| `HumansDecide` | `HumanPrecedence` | from `Recorded`: the top of an instant that a human spoke at is a human's |
| `RedundancyShowsNothing` | `RedundantIsInvisible` | from `Recorded`: a later model claim of a current value moves no current value, for each kind |
| `EventsAreTraceable` | `EventsTraceable` | `DerivesCited` says it of the events of one rebuild; assertions are never removed |

Goal graph (`GoalGraphProofs`):

| Theorem | Property | Argument |
|---|---|---|
| `TypeCorrect` | `TypeOK` | with `Shape`: votes are finitely many and recorded before the clock |
| `HumansAreOutweighed` | `HumanOutweighed` | the elected target beats each other one, and a human's weight is `HumanWeight` for each vote; the winner exists because votes are finitely many |
| `ElectionsMoveForCause` | `ElectionMovesForCause` | a target whose votes only lose and one whose votes only gain: the order of the two turns one way (`Less`) |
| `OutvotedHumansAreNoticed` | `OutvotedHumanNoticed` | two votes of one emission are taken one after the other; the first that takes the election away from the human's target, or brings it to the new one, leaves the notice |
| `OnlyGapsCloseCycles` | `CyclesHaveACause` | `TypeOK /\ Shape /\ Gated`, where `Gated` says that merges are acyclic and that a correction which is not stale would pass its gate still.  A step that closes a cycle puts a loop through one new edge; the gate looked at exactly that edge and so saw the loop |

Election walk and views (`GoalViewsProofs`):

| Theorem | Property | Argument |
|---|---|---|
| `ElectionIsWalked` | `ElectionIsTheWalk` | `CountStep`: a vote that comes after all that were counted leaves standing what the description says of them and it; then term by term over the instants, with `FoldUnique` |
| `GoalsAreShown` | `ShownWhereItBelongs` | the walk up stops after as many steps as there are goals, and one that goes on that long has met a goal twice; the walk down adds the children of what it has until nothing is new, and ends in the least set closed under children.  Both find the same sets, so a goal has one root, cycles included; subtrees of different children are disjoint, so what a theme counts adds up |

Task queue (`TaskQueueProofs`):

| Theorem | Property | Argument |
|---|---|---|
| `TaskTypesCorrect` | `TypeOK` | with `LocalsOK`, which ties the task in hand to the place in `flush` |
| `OverrunIsBounded` | `OverrunBounded` | `ChargedInv`: attempts plus the flushers that still hold the task never exceed the cap by more than the other flushers |
| `RecordsAnsweredOnce` | `OneAnswerPerRecord` | `CitedInv`: the records of an extracted card are observed, and a chunk commits only when its own are not |
| `CompletedTasksAreDone` | `CompletedIsDone` | `DoneInv`: what a flusher has not left over of its task is ingested, and no item of it waits for the sweep unless one failed |
| `OnlyRestartsStrand` | `NothingStranded` | a flusher lets go of a running task only by ending its run |
| `SchedulerKeepsContract` | `ImplementsContract` | the refinement of `TaskContract`, step by step, with `AloneInv`: the row of the task in hand is the one that was read |

Routing, tool loop and clusters (`RoutingProofs`):

| Theorem | Property | Argument |
|---|---|---|
| `CardsHaveOneHome` | `OneHome` | `RoutingInv`: the scope is well formed and its merges acyclic, a card is marked exactly when it is filed, a plan that says "duplicate" is about a card dealt with, and each claim of a parent goes with its accepted proposal |
| `ProposalsAreDecidedOnce` | `DecidedOnce` | from `RoutingInv`: the claims of one card are one, and there is one when it was accepted |
| `CardsGoToLiving` | `RoutedToLiving` | `Home` resolves through merges that are acyclic, and the commit does not merge |
| `CardsAreNotLost` | `NoCardLost` | after each plan of a chunk its card is marked or held, and what is dealt with stays so to the end of the chunk |
| `LoopsStayInTheirWorld` | `ClosedWorld` | `LoopInv` with the walk of a batch: what is admitted so far names only what the session was shown and what stands, or what it declares |
| `WindowsAreNotAbandoned` | `NoWindowAbandoned` | `LoopInv`: a session at work has a window, whose pseudo card is a card |
| `ClustersHoldOneCore` | `OneStrongCore` | `ClusterInv`: strong cores are the classes of an equivalence; strong bonds come first and keep components within cores, and a component meets one large core at most |

The types of both (`RoutingTypesCorrect`, `LoopTypesCorrect`) are proved from the same
walks: what an element of a walk leaves has its type when what it found has.

A chunk and a batch of intents are folds over sequences of any length, and what a
fold does for every input would need induction with an operator parameter.  The proofs go
round it: a fold is unfolded to the function it is defined by, which gives a *walk*, the
results after each element (`CommitWalk`, `ValidateWalk`).  Were some element of the walk
to break the invariant, there would be a first one (`MinExists`), and the step
from the one before it keeps the invariant.

Pipelines and store (`PipelineProofs`):

| Theorem | Property | Argument |
|---|---|---|
| `MarksAreEarned` | `MarkedWasReceived` | `BatchReceived`: an acknowledged batch was received whole; deaths and restarts let the batch go |
| `SettledStays` | `NothingTakenBack` | an action property; `StampsInv` gives the order of watermarks |
| `ProposalsAreSingle` | `OneOpenProposal` | a proposal is for a member that is unspoken for in the transaction itself; what the pass remembers does not matter |
| `MailIsNotLost` | `NoMailLost` | `MailInv`: a position, stored or held by a runtime, speaks only of messages dealt with, and what a listed sync does not fetch was dealt with, cannot be parsed, or is outside the window it will waive |
| `ServiceLosesNoMail` | `NoMailLost` | `ServiceInv`: `MailInv` is kept by each turn of the loop, because a turn is a step of a runtime or touches no mail |
| `AccountsLoseNoMail` | `NoMailLost` | `AccountsInv`: `MailInv` with the types of the registry; a registry made anew has runtimes that hold nothing, and the command line keeps what it holds |
| `BlocksMatchDrafts` | – | `SessionsInv`: the rows are the last draft, and each block began with the draft it names; this is what makes a rollback to a savepoint exact |
| `SessionsImplementAtomicStore` | `TransactionsAreAtomic` | the refinement: each step of the sessions is a step of `AtomicStore` or leaves `Committed` and `drafts` alone |

Types, component by component (`RoutingProofs`, `PipelineProofs`), and of all scenes
together (`ScenesProofs`):

| Theorem | Property | What makes it inductive |
|---|---|---|
| `RoutingTypesCorrect`, `LoopTypesCorrect` | the conjuncts of `TypeOK` | `RoutingInv` and `LoopInv`, that a plan is for the card in its place, and that a session shows subjects that are there |
| `ServiceTypesCorrect` | " | `ServiceInv`; a batch of the oldest pending events is as large as it may be, and no larger |
| `AccountTypesCorrect` | " | `RegistryExists`: the choice of runtimes for the accounts of a file has something to choose |
| `StagingTypesCorrect` | " | an extraction at work has a record in hand, so that what it commits is one |
| `ThemeTypesCorrect` | " | what is accepted of a draft is a matter, and its theme is created with the first of them |
| `SessionTypesCorrect` | " | every draft has a row for every table, so that what a block puts back does; each of the writing functions is looked into for it |
| `ScenesTypesCorrect` | `TypeOK` of `MCPipelines` | a step of a scene is one of its component, and the others stand still |

`ScenesKeepInvariants` says the same of the safety invariants: `OneHome`, `DecidedOnce`,
`NoMailLost`, `MarkedWasReceived`, `OneOpenProposal` and `OneStrongCore` hold in every
scene, so also beside the tool loop and in the scenes of the accounts and the service,
which share tables with another scene.

What the attempts showed about the models: the gate of an emission can misread its first
intent (a cause `CyclesHaveACause` did not name); notices had to be stated for the step
that takes the election away, because an emission of two votes may pass through a third
target; guards of a `CASE` that overlap mean nothing in particular outside TLC, which
takes the first, so `Matches` and `AddSubjectHandle` have guards that exclude
each other.  `GatheredOnce` is about themes
alone, because a merge does not look at layers and can make a goal the gatherer of
another, of which the property says nothing.  The walks were
first sequences sorted by rank, about which nothing could be proved; as folds that take
the latest out of a set they need no sorted sequence.

Only model-checked: `Quiesces`, `EventsDeliveredWhenServed` and
`MailComesInWhenServed`, which are liveness under fairness.  Every invariant and every
other action property of the passing runs is a theorem.

## 5. What is left

Parts of modelled components that are left out:

- correction captures and review captures, which are written for evaluation and
  read by nothing;
- how messages are cut into conversations, the patterns of signals and handles,
  lexical scores (text);
- the gathers election and goals in other scopes;
- races between processes on PostgreSQL (check, then insert): the lock that
  `StoreSessions` relies on is one of a process;
- the daily flush with its date in memory, and `flush_quiet`;
- theme merges between snapshot and application, and the title tokens.

Met while modelling, stated by no document and so by no run: a theme proposal that was resolved
and is named again in other words collides with its review and ends every later pass at that
cluster (`Collide`); registry and command line overwrite each other's accounts in
the configuration file (`MailAccounts`); a theme counts merged and nested members
twice (`GatheredOnce` leaves them out); the brief of somebody whom a goal in a `part_of`
cycle names raises (`BriefFails`); a subject that only a rejected intent declared
can be referred to by the next one (`ValidateIntent`).

Not modelled and not planned: adapters, MCP, rendering, console, evaluation,
conformance and capacity runners, the handlers of API and CLI beyond those named
(conversion and wiring), model gateways (their answers are inputs), schema
migration.
