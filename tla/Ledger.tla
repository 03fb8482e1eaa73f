------------------------------- MODULE Ledger -------------------------------
(***************************************************************************)
(* One scope of the store and the engine operations that write it.         *)
(*                                                                         *)
(* Every operation is one store transaction that ends in _rebuild, so each *)
(* is one action; a transaction that raises is rolled back and is simply   *)
(* not enabled.  Two operations do more than their transaction: correct    *)
(* resolves the subject and stamps the assertion before it opens it, and   *)
(* dream reads the distillation queue and asks the model before it stores  *)
(* what the gate accepts.  Other operations may commit in between.         *)
(***************************************************************************)
EXTENDS ChangeEvents, ProjectionLoop, Sequences

CONSTANTS
  Cards,         \* the episode cards callers may submit
  Batches,       \* the pairs of cards submitted together; <<c, c>> is just c
  Corrections,   \* the human corrections callers may submit
  Proposals,     \* what the semantic model may answer about a card: candidates
  Dreamers,      \* the threads that may be running dream
  MergeOps,      \* the (valid_from, source) pairs given to merge and unmerge
  Keys,          \* object keys
  Sources,       \* source references
  CardIds,       \* card ids
  MaxClock,      \* bound: recorded operations
  MaxInflight    \* bound: corrections between preparation and commit

VARIABLES
  subjects,    \* table subjects
  asserts,     \* table assertions
  merges,      \* table subject_merges
  cards,       \* table cards: the accepted cards, for idempotency
  queue,       \* table distill_queue: cards with the subject they resolved to
  intervals,   \* table intervals
  stats,       \* table projection_stats
  events,      \* table events
  clock,       \* the instant the next operation records
  inflight,    \* corrections prepared and not committed yet
  reading      \* the queue item each dreamer read and is asking about

tables == <<subjects, asserts, merges, cards, queue>>
view == <<intervals, stats, events>>
vars == <<tables, view, clock, inflight, reading>>

CardType ==
  [id : CardIds, subj : Subjects, pred : Predicates, keys : SUBSET Keys,
   clears : BOOLEAN, thread : BOOLEAN, vf : Nat, src : Sources]

\* A candidate of the model: about a known subject, or about a child that it
\* asks to create.
CandidateType ==
  [subj : Subjects, child : BOOLEAN, pred : Predicates,
   op : {"ASSERT", "RETRACT"}, key : Keys \cup {Star}]

QueueType == [card : Cards, subj : Subjects]

AssertionType ==
  [subj : Subjects, pred : Predicates, op : {"ASSERT", "RETRACT"},
   key : Keys \cup {Star}, vf : Nat, src : Sources, origin : {"human", "model"},
   rec : Nat, obs : CardIds \cup {None}]

\* A field that a card observes gives values or a clear, never both.
ASSUME InputsAssumption ==
  /\ Cards \subseteq CardType
  /\ \A c \in Cards : IsFiniteSet(c.keys) /\ (c.clears => c.keys = {})
  /\ None \notin Keys \cup {Star}
  /\ Batches \subseteq Cards \X Cards
  /\ Corrections \subseteq
       [subj : Subjects, pred : Predicates, op : {"ASSERT", "RETRACT"},
        key : Keys \cup {Star}, vf : Nat, src : Sources]
  /\ Proposals \subseteq Seq(CandidateType)
  /\ MergeOps \subseteq [vf : Nat, src : Sources]
  /\ MaxClock \in Nat /\ MaxInflight \in Nat

-----------------------------------------------------------------------------
\* Slip: a clear is stored under no key instead of the field-wide one.
ExtractedKeyless(c, s, now) ==
  {[subj |-> s, pred |-> c.pred, op |-> "RETRACT", key |-> None, vf |-> c.vf,
    src |-> c.src, origin |-> "model", rec |-> now, obs |-> None] :
   x \in {y \in {c} : y.clears}}

\* extract_card: one observation of one predicate.
Extracted(c, s, now) ==
  LET Of(op, k) == [subj |-> s, pred |-> c.pred, op |-> op, key |-> k, vf |-> c.vf,
                    src |-> c.src, origin |-> "model", rec |-> now,
                    obs |-> IF c.thread THEN c.id ELSE None]
  IN  {Of("ASSERT", k) : k \in c.keys} \cup
      (IF c.clears THEN {Of("RETRACT", Star)} ELSE {})

\* Slip: a value that was live once counts as live.
RedundantWithPast(stored, a) ==
  /\ a.origin = "model" /\ a.op = "ASSERT"
  /\ \E i \in GroupIntervals(a.subj, a.pred, Group(stored, merges, a.subj, a.pred)) :
       i.key = a.key

\* _model_assertion_is_unchanged
Redundant(stored, a) ==
  /\ a.origin = "model" /\ a.op = "ASSERT"
  /\ \E i \in GroupIntervals(a.subj, a.pred, Group(stored, merges, a.subj, a.pred)) :
       i.key = a.key /\ (Kind[a.pred] = "APPEND" \/ i.to = None)

Admitted(stored, C) == {a \in C : ~ Taken(stored, a) /\ ~ Redundant(stored, a)}

\* The tables a transaction over cards works on.
Store == [subjects |-> subjects, asserts |-> asserts, cards |-> cards,
          queue |-> queue, clock |-> clock]

Accepts(st, c) ==
  \/ c \in st.cards
  \/ /\ \A d \in st.cards : d.id # c.id
     /\ st.clock < MaxClock
     /\ \A a \in Extracted(c, Canonical(merges, c.subj), st.clock) : ~ Clashes(st.asserts, a)

\* Slip: the card is stored under the subject it names, merged away or not.
ApplyUnredirected(st, c) ==
  IF c \in st.cards THEN st
  ELSE [subjects |-> st.subjects \cup {c.subj},
        asserts |-> st.asserts \cup Admitted(st.asserts, Extracted(c, c.subj, st.clock)),
        cards |-> st.cards \cup {c},
        queue |-> st.queue \cup {[card |-> c, subj |-> c.subj]},
        clock |-> st.clock + 1]

Apply(st, c) ==
  LET s == Canonical(merges, c.subj)
  IN  IF c \in st.cards THEN st
      ELSE [subjects |-> st.subjects \cup {s},
            asserts |-> st.asserts \cup Admitted(st.asserts, Extracted(c, s, st.clock)),
            cards |-> st.cards \cup {c},
            queue |-> st.queue \cup {[card |-> c, subj |-> s]},
            clock |-> st.clock + 1]

\* Slip: the edges are the ones read before the transaction wrote its own.
RebuildOnOldEdges(more) ==
  /\ intervals' = Project(asserts', merges)
  /\ stats' = Stats(asserts', merges)
  /\ events' = events \cup Derive(intervals, intervals', asserts', merges) \cup more

\* _rebuild: the view is recomputed from the tables, and what changed in it
\* becomes events.
Rebuild(more) ==
  /\ intervals' = Project(asserts', merges')
  /\ stats' = Stats(asserts', merges')
  /\ events' = events \cup Derive(intervals, intervals', asserts', merges') \cup more

-----------------------------------------------------------------------------
Init ==
  /\ subjects = {} /\ asserts = {} /\ merges = NoEdges /\ cards = {} /\ queue = {}
  /\ intervals = {} /\ stats = [p \in Predicates |-> 0] /\ events = {}
  /\ clock = 1 /\ inflight = {} /\ reading = [w \in Dreamers |-> None]

\* _ingest_cards_sync
Ingest(b) ==
  LET one == Apply(Store, b[1])
      two == Apply(one, b[2])
  IN  /\ Accepts(Store, b[1]) /\ Accepts(one, b[2])
      /\ subjects' = two.subjects /\ asserts' = two.asserts /\ cards' = two.cards
      /\ queue' = two.queue /\ clock' = two.clock
      /\ UNCHANGED <<merges, inflight, reading>>
      /\ Rebuild({})

\* correct, up to its transaction
PrepareCorrection(r) ==
  /\ r.subj \in subjects
  /\ ~ (Kind[r.pred] = "APPEND" /\ r.op = "RETRACT" /\ r.pred \notin Retractable)
  /\ clock < MaxClock /\ Cardinality(inflight) < MaxInflight
  /\ inflight' = inflight \cup
       {[subj |-> Canonical(merges, r.subj), pred |-> r.pred, op |-> r.op,
         key |-> r.key, vf |-> r.vf, src |-> r.src, origin |-> "human",
         rec |-> clock, obs |-> None]}
  /\ clock' = clock + 1
  /\ UNCHANGED <<tables, view, reading>>

CommitCorrection(a) ==
  /\ inflight' = inflight \ {a}
  /\ UNCHANGED <<subjects, merges, cards, queue, clock, reading>>
  /\ IF Clashes(asserts, a)
     THEN UNCHANGED <<asserts, view>>
     ELSE /\ asserts' = IF Taken(asserts, a) THEN asserts ELSE asserts \cup {a}
          /\ Rebuild({})

\* dream lists the queue and asks the model about one item after another: by
\* the time it asks, another dreamer may have finished with the item.
ReadQueue(w, q) ==
  /\ reading[w] = None
  /\ reading' = [reading EXCEPT ![w] = q]
  /\ UNCHANGED <<tables, view, clock, inflight>>

\* The answer raised, could not be parsed into a transaction that commits, or
\* the item failed: it stays in the queue.
FailItem(w) ==
  /\ reading[w] # None
  /\ reading' = [reading EXCEPT ![w] = None]
  /\ UNCHANGED <<tables, view, clock, inflight>>

\* The gate: semantic predicates only, known subjects or children to create.
\* valid_from has to lie in the card's window, here its instant.
GateAccepts(r) == r.pred \in SemanticPredicates /\ (r.child \/ r.subj \in subjects)

\* What the candidate r becomes, stamped now.
Dreamt(q, r, now) ==
  [subj |-> Canonical(merges, r.subj), pred |-> r.pred, op |-> r.op, key |-> r.key,
   vf |-> q.card.vf, src |-> q.card.src, origin |-> "model", rec |-> now, obs |-> None]

\* The accepted candidates are stored one after the other, each with a stamp of
\* its own; a repetition is dropped.
Dream(w, answer) ==
  LET q == reading[w]
      accepted == {n \in DOMAIN answer : GateAccepts(answer[n])}
      Nth(n) == Dreamt(q, answer[n], clock + n - 1)
      new == {n \in accepted :
                /\ ~ Taken(asserts, Nth(n))
                /\ \A m \in accepted : m < n => Identity(Nth(m)) # Identity(Nth(n))}
      stamps == IF accepted = {} THEN 0 ELSE Len(answer)
  IN  /\ q # None
      /\ \A n \in accepted : ~ Clashes(asserts, Nth(n))
      /\ clock + stamps <= MaxClock
      /\ subjects' = subjects \cup {answer[n].subj : n \in {m \in accepted : answer[m].child}}
      /\ asserts' = asserts \cup {Nth(n) : n \in new}
      /\ queue' = queue \ {q}
      /\ clock' = clock + stamps
      /\ reading' = [reading EXCEPT ![w] = None]
      /\ UNCHANGED <<merges, cards, inflight>>
      /\ Rebuild({})

Merge(s, t, m) ==
  LET e == MergeEvent("subject_merged", s, t, m.vf, m.src, clock)
  IN  /\ MergeAllowed(subjects, merges, s, t)
      /\ ~ Collides(events, e)
      /\ clock < MaxClock /\ clock' = clock + 1
      /\ merges' = AddEdge(merges, s, t)
      /\ UNCHANGED <<subjects, asserts, cards, queue, inflight, reading>>
      /\ Rebuild({e})

Unmerge(s, m) ==
  LET e == MergeEvent("subject_unmerged", s, merges[s], m.vf, m.src, clock)
  IN  /\ s \in DOMAIN merges
      /\ ~ Collides(events, e)
      /\ clock < MaxClock /\ clock' = clock + 1
      /\ merges' = DropEdge(merges, s)
      /\ UNCHANGED <<subjects, asserts, cards, queue, inflight, reading>>
      /\ Rebuild({e})

Replay ==
  /\ UNCHANGED <<tables, clock, inflight, reading>>
  /\ Rebuild({})

\* export, then import_snapshot into an empty store: the card table and the
\* distillation queue stay behind, and the rebuild emits nothing.
Import ==
  /\ subjects # {}
  /\ cards' = {} /\ queue' = {} /\ inflight' = {}
  /\ reading' = [w \in Dreamers |-> None]
  /\ intervals' = Project(asserts, merges) /\ stats' = Stats(asserts, merges)
  /\ UNCHANGED <<subjects, asserts, merges, events, clock>>

Next ==
  \/ \E b \in Batches : Ingest(b)
  \/ \E r \in Corrections : PrepareCorrection(r)
  \/ \E a \in inflight : CommitCorrection(a)
  \/ \E w \in Dreamers, q \in queue : ReadQueue(w, q)
  \/ \E w \in Dreamers : FailItem(w)
  \/ \E w \in Dreamers, answer \in Proposals : Dream(w, answer)
  \/ \E s, t \in Subjects, m \in MergeOps : Merge(s, t, m)
  \/ \E s \in Subjects, m \in MergeOps : Unmerge(s, m)
  \/ Replay
  \/ Import

Spec == Init /\ [][Next]_vars

-----------------------------------------------------------------------------
\* Shape of the durable tables (the view is settled by ProjectionCurrent).
TypeOK ==
  /\ subjects \subseteq Subjects
  /\ asserts \subseteq AssertionType /\ inflight \subseteq AssertionType
  /\ merges \in Edges
  /\ cards \subseteq Cards
  /\ queue \subseteq QueueType
  /\ reading \in [Dreamers -> QueueType \cup {None}]
  /\ clock \in Nat

\* The active merges never form a cycle, whatever the order of merges and
\* unmerges, so the loop of _canonical_subject_key ends at a subject.
MergesAcyclic == Acyclic(merges)

\* Every transaction leaves the projection of exactly the assertions and merges
\* it leaves: no operation forgets to rebuild, or rebuilds from what it read
\* before it wrote.
ProjectionCurrent ==
  /\ intervals = Project(asserts, merges)
  /\ stats = Stats(asserts, merges)

\* No two stored assertions share an assertion id: add_assertion drops the
\* repetition, and refuses one that says something else.
OneAssertionPerId ==
  \A a, b \in asserts : Identity(a) = Identity(b) => a = b

\* An ASSERT is found again in the support of an interval of its value, on the
\* subject its own subject resolves to today, unless another value won its
\* instant or a later RETRACT withdrew its point.
EvidenceRetained ==
  \A a \in Asserts(asserts) :
    LET s == Canonical(merges, a.subj)
        A == Group(asserts, merges, s, a.pred)
    IN  \/ Kind[a.pred] = "SINGLE" /\ Decided(A, a.vf) # a.key
        \/ Kind[a.pred] = "APPEND" /\ Withdrawn(a.pred, A, a)
        \/ \E i \in intervals :
             /\ i.subj = s /\ i.pred = a.pred /\ i.key = a.key
             /\ a \in i.support /\ i.from <= a.vf

\* Where a human spoke about a SINGLE value, no interval covers that instant but
\* one whose value a human asserted there: no model assertion, however late it
\* is recorded and whichever merged subject it came through, decides.
HumanPrecedence ==
  \A h \in asserts : h.origin = "human" /\ Kind[h.pred] = "SINGLE" =>
    LET s == Canonical(merges, h.subj)
    IN  \A i \in intervals :
          i.subj = s /\ i.pred = h.pred /\ Within(h.vf, i.from, i.to) =>
            \E g \in Group(asserts, merges, s, h.pred) :
              g.origin = "human" /\ g.vf = h.vf /\ g.op = "ASSERT" /\ g.key = i.key

\* What the change-only rule drops would have changed no current value: with
\* the assertion stored, the same keys would be live (for APPEND, projected).
RedundantIsInvisible ==
  \A c \in Cards :
    \A a \in Extracted(c, Canonical(merges, c.subj), clock) :
      Redundant(asserts, a) =>
        LET Keys0(A) == {i.key : i \in {j \in GroupIntervals(a.subj, a.pred, A) :
                                          Kind[a.pred] = "APPEND" \/ j.to = None}}
            A == Group(asserts, merges, a.subj, a.pred)
        IN  Keys0(A \cup {a}) = Keys0(A)

\* Nothing stored under a merged-away subject was stamped after the merge that
\* is in force, so undoing the merge gives back what the subject had.
MergedSubjectFrozen ==
  \A s \in DOMAIN merges :
    \E e \in events :
      /\ e.type = "subject_merged" /\ e.subj = s /\ e.new = {merges[s]}
      /\ \A a \in asserts : a.subj = s => a.rec < e.rec

\* An event of a SINGLE predicate that reports a value cites a stored assertion
\* of that value: its instants, its origin and its source.
EventsTraceable ==
  \A e \in events :
    e.pred \in Predicates /\ e.new # {} /\ Kind[e.pred] = "SINGLE" =>
      \E a \in asserts :
        /\ a.op = "ASSERT" /\ a.pred = e.pred /\ e.new = {a.key}
        /\ a.vf = e.vf /\ a.rec = e.rec /\ a.origin = e.origin /\ a.src = e.src

\* The table of intervals is what the code walks to from the assertions, group by
\* group and event by event, whatever order they were recorded in
\* (project_assertions, _rebuild).
ProjectionIsTheWalk == intervals = Walk(asserts, merges)

\* A current status that becomes another one is announced with both values, by
\* an event stored in that very step or, when a toggle gives the same id again,
\* before it.
StatusAnnounced ==
  [][\A s \in Subjects, p \in StatusPredicates :
       LET old == LiveKeys(intervals, s, p)
           new == LiveKeys(intervals', s, p)
       IN  old # new /\ new # {} =>
             \E e \in events' : /\ e.type = "status_changed"
                                /\ e.subj = s /\ e.pred = p
                                /\ e.old = old /\ e.new = new]_vars

-----------------------------------------------------------------------------
\* What the documents say and the code does not do.

\* A status that changes to none is announced too (SPEC 11.2: "a changed current
\* SINGLE predicate ... emits status_changed").
StatusLossAnnounced ==
  [][\A s \in Subjects, p \in StatusPredicates :
       LiveKeys(intervals, s, p) # {} /\ LiveKeys(intervals', s, p) = {} =>
         \E e \in events' : /\ e.type = "status_changed" /\ e.subj = s /\ e.new = {}
                            /\ e.old = LiveKeys(intervals, s, p)]_vars

\* A merge that meets every condition of SPEC 5 goes through, a repeated one
\* included ("recorded_at does not participate in this correction-operation ID.
\* Inserting an equal derived event MUST remain idempotent").
MergeNeverRefused ==
  \A s, t \in Subjects, m \in MergeOps :
    MergeAllowed(subjects, merges, s, t) =>
      ~ Collides(events, MergeEvent("subject_merged", s, t, m.vf, m.src, clock))
=============================================================================
