----------------------------- MODULE LedgerProofs -----------------------------
(***************************************************************************)
(* What holds of Ledger for every set of subjects, cards, corrections and  *)
(* answers of the model, and for every bound.                              *)
(***************************************************************************)
EXTENDS Ledger, ProjectionProofs

-----------------------------------------------------------------------------
\* Types.

\* extract_card builds well-formed assertions.
LEMMA ExtractedTyped ==
  ASSUME NEW c \in Cards, NEW s \in Subjects, NEW now \in Nat
  PROVE  Extracted(c, s, now) \subseteq AssertionType
  <1>1. c \in CardType
    BY InputsAssumption
  <1>2. /\ c.pred \in Predicates /\ c.keys \subseteq Keys /\ c.vf \in Nat
        /\ c.src \in Sources /\ c.id \in CardIds
    BY <1>1 DEF CardType
  <1>3. QED
    BY <1>2 DEF Extracted, AssertionType

Typed(st) ==
  /\ st.subjects \subseteq Subjects /\ st.asserts \subseteq AssertionType
  /\ st.cards \subseteq Cards /\ st.queue \subseteq QueueType /\ st.clock \in Nat

\* A card leaves well-formed tables, accepted before or not.
LEMMA ApplyTyped ==
  ASSUME merges \in Edges, NEW st, Typed(st), NEW c \in Cards
  PROVE  Typed(Apply(st, c))
  <1> DEFINE s == Canonical(merges, c.subj)
  <1>1. s \in Subjects
    BY CanonicalInChain, InputsAssumption DEF CardType
  <1>2. Extracted(c, s, st.clock) \subseteq AssertionType
    BY <1>1, ExtractedTyped DEF Typed
  <1>3. Admitted(st.asserts, Extracted(c, s, st.clock)) \subseteq AssertionType
    BY <1>2 DEF Admitted
  <1>4. [card |-> c, subj |-> s] \in QueueType
    BY <1>1 DEF QueueType
  <1>5. CASE c \in st.cards
    BY <1>5 DEF Apply
  <1>6. CASE c \notin st.cards
    <2> DEFINE new == [subjects |-> st.subjects \cup {s},
                       asserts |-> st.asserts
                         \cup Admitted(st.asserts, Extracted(c, s, st.clock)),
                       cards |-> st.cards \cup {c},
                       queue |-> st.queue \cup {[card |-> c, subj |-> s]},
                       clock |-> st.clock + 1]
    <2>1. Apply(st, c) = new
      BY <1>6 DEF Apply
    <2>2. Typed(new)
      BY <1>1, <1>3, <1>4 DEF Typed
    <2>3. QED
      BY <2>1, <2>2
  <1>7. QED
    BY <1>5, <1>6

LEMMA StoreTyped ==
  ASSUME TypeOK
  PROVE  Typed(Store)
  BY DEF TypeOK, Typed, Store

\* A batch of two leaves well-formed tables.
LEMMA BatchTyped ==
  ASSUME TypeOK, NEW b \in Batches
  PROVE  /\ b[1] \in Cards /\ b[2] \in Cards
         /\ Typed(Apply(Store, b[1]))
         /\ Typed(Apply(Apply(Store, b[1]), b[2]))
  <1>1. b[1] \in Cards /\ b[2] \in Cards
    BY InputsAssumption
  <1>2. Typed(Apply(Store, b[1]))
    BY <1>1, StoreTyped, ApplyTyped DEF TypeOK
  <1>3. QED
    BY <1>1, <1>2, ApplyTyped DEF TypeOK

\* The rows a correction prepares and a dream stores.
LEMMA PreparedTyped ==
  ASSUME TypeOK, NEW r \in Corrections
  PROVE  [subj |-> Canonical(merges, r.subj), pred |-> r.pred, op |-> r.op,
          key |-> r.key, vf |-> r.vf, src |-> r.src, origin |-> "human",
          rec |-> clock, obs |-> None] \in AssertionType
  <1>1. r \in [subj : Subjects, pred : Predicates, op : {"ASSERT", "RETRACT"},
               key : Keys \cup {Star}, vf : Nat, src : Sources]
    BY InputsAssumption
  <1>2. Canonical(merges, r.subj) \in Subjects
    BY <1>1, CanonicalInChain DEF TypeOK
  <1>3. QED
    BY <1>1, <1>2 DEF AssertionType, TypeOK

LEMMA DreamtTyped ==
  ASSUME TypeOK, NEW q \in QueueType, NEW answer \in Proposals, NEW n \in DOMAIN answer,
         NEW now \in Nat
  PROVE  /\ Dreamt(q, answer[n], now) \in AssertionType
         /\ answer[n].subj \in Subjects
  <1>1. answer[n] \in CandidateType
    BY InputsAssumption
  <1>2. q.card.vf \in Nat /\ q.card.src \in Sources
    BY InputsAssumption DEF QueueType, CardType
  <1>3. Canonical(merges, answer[n].subj) \in Subjects
    BY <1>1, CanonicalInChain DEF TypeOK, CandidateType
  <1>4. QED
    BY <1>1, <1>2, <1>3 DEF AssertionType, CandidateType, Dreamt

\* What a dream stores: some of the candidates, each with a stamp of its own, no
\* two of the same identity and none that is stored.
LEMMA DreamAdds ==
  ASSUME TypeOK, NEW w \in Dreamers, NEW answer \in Proposals, Dream(w, answer)
  PROVE  LET Nth(n) == Dreamt(reading[w], answer[n], clock + n - 1)
         IN  /\ DOMAIN answer = 1 .. Len(answer) /\ Len(answer) \in Nat
             /\ reading[w] \in QueueType
             /\ subjects' \subseteq subjects \cup {answer[n].subj : n \in DOMAIN answer}
             /\ clock' \in Nat /\ clock <= clock'
             /\ \E new \in SUBSET DOMAIN answer :
                  /\ new # {} => clock' = clock + Len(answer)
                  /\ asserts' = asserts \cup {Nth(n) : n \in new}
                  /\ \A n \in new : ~ Taken(asserts, Nth(n))
                  /\ \A m, n \in new : m < n => Identity(Nth(m)) # Identity(Nth(n))
  <1> DEFINE Nth(n) == Dreamt(reading[w], answer[n], clock + n - 1)
             accepted == {n \in DOMAIN answer : GateAccepts(answer[n])}
             new == {n \in accepted :
                       /\ ~ Taken(asserts, Nth(n))
                       /\ \A m \in accepted : m < n => Identity(Nth(m)) # Identity(Nth(n))}
             stamps == IF accepted = {} THEN 0 ELSE Len(answer)
  <1> HIDE DEF Nth
  <1>1. DOMAIN answer = 1 .. Len(answer) /\ Len(answer) \in Nat
    BY InputsAssumption
  <1>2. /\ reading[w] # None /\ clock' = clock + stamps
        /\ subjects' = subjects \cup {answer[n].subj : n \in {m \in accepted : answer[m].child}}
        /\ asserts' = asserts \cup {Nth(n) : n \in new}
    BY DEF Dream, Nth
  <1>3. reading[w] \in QueueType /\ clock \in Nat
    BY <1>2 DEF TypeOK
  <1>4. clock' \in Nat /\ clock <= clock' /\ (new # {} => clock' = clock + Len(answer))
    BY <1>1, <1>2, <1>3
  <1>5. /\ new \in SUBSET DOMAIN answer
        /\ \A n \in new : ~ Taken(asserts, Nth(n))
        /\ \A m, n \in new : m < n => Identity(Nth(m)) # Identity(Nth(n))
    OBVIOUS
  <1>6. subjects' \subseteq subjects \cup {answer[n].subj : n \in DOMAIN answer}
    BY <1>2
  <1> HIDE DEF new
  <1>7. QED
    BY <1>1, <1>2, <1>3, <1>4, <1>5, <1>6 DEF Nth

\* The operations keep the tables well formed: the steps of TypeCorrect.
LEMMA TypeStep ==
  ASSUME TypeOK, [Next]_vars
  PROVE  TypeOK'
  <1> USE DEF TypeOK
  <1>1. ASSUME NEW b \in Batches, Ingest(b)
        PROVE  TypeOK'
    <2>1. Typed(Apply(Apply(Store, b[1]), b[2]))
      BY BatchTyped
    <2>2. QED
      BY <1>1, <2>1 DEF Ingest, Typed
  <1>2. ASSUME NEW r \in Corrections, PrepareCorrection(r)
        PROVE  TypeOK'
    BY <1>2, PreparedTyped DEF PrepareCorrection, tables, view
  <1>3. ASSUME NEW a \in inflight, CommitCorrection(a)
        PROVE  TypeOK'
    BY <1>3 DEF CommitCorrection, view
  <1>4. ASSUME NEW w \in Dreamers, NEW q \in queue, ReadQueue(w, q)
        PROVE  TypeOK'
    BY <1>4 DEF ReadQueue, tables, view
  <1>5. ASSUME NEW w \in Dreamers, FailItem(w)
        PROVE  TypeOK'
    BY <1>5 DEF FailItem, tables, view
  <1>6. ASSUME NEW w \in Dreamers, NEW answer \in Proposals, Dream(w, answer)
        PROVE  TypeOK'
    <2> DEFINE Nth(n) == Dreamt(reading[w], answer[n], clock + n - 1)
    <2>1. /\ DOMAIN answer = 1 .. Len(answer) /\ reading[w] \in QueueType
          /\ subjects' \subseteq subjects \cup {answer[n].subj : n \in DOMAIN answer}
          /\ clock' \in Nat
          /\ \E new \in SUBSET DOMAIN answer : asserts' = asserts \cup {Nth(n) : n \in new}
      BY <1>6, DreamAdds
    <2>2. \A n \in DOMAIN answer : Nth(n) \in AssertionType /\ answer[n].subj \in Subjects
      BY <2>1, DreamtTyped
    <2> HIDE DEF Nth
    <2>3. subjects' \subseteq Subjects /\ asserts' \subseteq AssertionType
      BY <2>1, <2>2
    <2>4. QED
      BY <1>6, <2>1, <2>3 DEF Dream
  <1>7. ASSUME NEW s \in Subjects, NEW t \in Subjects, NEW m \in MergeOps, Merge(s, t, m)
        PROVE  TypeOK'
    <2>1. AddEdge(merges, s, t) \in Edges
      <3>1. AddEdge(merges, s, t) \in [DOMAIN merges \cup {s} -> Subjects]
        BY EdgesShape DEF AddEdge
      <3>2. QED
        BY <3>1, EdgesShape DEF Edges
    <2>2. QED
      BY <1>7, <2>1 DEF Merge
  <1>8. ASSUME NEW s \in Subjects, NEW m \in MergeOps, Unmerge(s, m)
        PROVE  TypeOK'
    <2>1. DropEdge(merges, s) \in Edges
      <3>1. DropEdge(merges, s) \in [DOMAIN merges \ {s} -> Subjects]
        BY EdgesShape DEF DropEdge
      <3>2. QED
        BY <3>1, EdgesShape DEF Edges
    <2>2. QED
      BY <1>8, <2>1 DEF Unmerge
  <1>9. CASE Replay
    BY <1>9 DEF Replay, tables
  <1>10. CASE Import
    BY <1>10 DEF Import
  <1>11. CASE UNCHANGED vars
    BY <1>11 DEF vars, tables, view
  <1>12. QED
    BY <1>1, <1>2, <1>3, <1>4, <1>5, <1>6, <1>7, <1>8, <1>9, <1>10, <1>11 DEF Next

\* Every reachable state is well formed, whatever callers submit and the model
\* answers.
THEOREM TypeCorrect == Spec => []TypeOK
  <1>1. Init => TypeOK
    BY NoEdgesAcyclic DEF Init, TypeOK
  <1>2. TypeOK /\ [Next]_vars => TypeOK'
    BY TypeStep
  <1>3. QED
    BY <1>1, <1>2, PTL DEF Spec

-----------------------------------------------------------------------------
\* No order of merges and unmerges, through imports or between corrections,
\* closes a cycle: _canonical_subject_key always ends.
THEOREM MergesStayAcyclic == Spec => []MergesAcyclic
  <1>1. Init => MergesAcyclic
    BY NoEdgesAcyclic DEF Init, MergesAcyclic
  <1>2. ASSUME TypeOK, MergesAcyclic, [Next]_vars
        PROVE  MergesAcyclic'
    <2>1. CASE merges' = merges
      BY <1>2, <2>1 DEF MergesAcyclic
    <2>2. ASSUME NEW s \in Subjects, NEW t \in Subjects, NEW m \in MergeOps,
                 Merge(s, t, m)
          PROVE  MergesAcyclic'
      BY <1>2, <2>2, AddEdgeAcyclic DEF Merge, MergesAcyclic, TypeOK
    <2>3. ASSUME NEW s \in Subjects, NEW m \in MergeOps, Unmerge(s, m)
          PROVE  MergesAcyclic'
      BY <1>2, <2>3, DropEdgeAcyclic DEF Unmerge, MergesAcyclic, TypeOK
    <2>4. QED
      BY <1>2, <2>1, <2>2, <2>3
      DEF Next, Ingest, PrepareCorrection, CommitCorrection, ReadQueue, FailItem,
          Dream, Replay, Import, vars, tables
  <1>3. QED
    BY <1>1, <1>2, TypeCorrect, PTL DEF Spec
-----------------------------------------------------------------------------
\* Assertion ids.

Unique(A) == \A a, b \in A : Identity(a) = Identity(b) => a = b

\* add_assertion on one row: stored if its id is new.
LEMMA OneMoreUnique ==
  ASSUME NEW A, Unique(A), NEW C, Unique(C), \A c \in C : ~ Taken(A, c)
  PROVE  Unique(A \cup C)
  BY DEF Unique, Taken

\* The assertions of a card differ in predicate, operation or key.
LEMMA ExtractedUnique ==
  ASSUME NEW c, NEW s, NEW now
  PROVE  Unique(Extracted(c, s, now))
  <1> DEFINE Of(op, k) == [subj |-> s, pred |-> c.pred, op |-> op, key |-> k,
                           vf |-> c.vf, src |-> c.src, origin |-> "model", rec |-> now,
                           obs |-> IF c.thread THEN c.id ELSE None]
  <1>1. ASSUME NEW a \in Extracted(c, s, now)
        PROVE  \E op \in {"ASSERT", "RETRACT"}, k \in c.keys \cup {Star} : a = Of(op, k)
    BY DEF Extracted
  <1>2. ASSUME NEW op1, NEW k1, NEW op2, NEW k2,
               Identity(Of(op1, k1)) = Identity(Of(op2, k2))
        PROVE  op1 = op2 /\ k1 = k2
    <2>1. Identity(Of(op1, k1)).op = op1 /\ Identity(Of(op1, k1)).key = k1
      BY DEF Identity
    <2>2. Identity(Of(op2, k2)).op = op2 /\ Identity(Of(op2, k2)).key = k2
      BY DEF Identity
    <2>3. QED
      BY <1>2, <2>1, <2>2
  <1> HIDE DEF Of
  <1>3. QED
    BY <1>1, <1>2 DEF Unique

LEMMA ApplyUnique ==
  ASSUME NEW st, Unique(st.asserts), NEW c
  PROVE  Unique(Apply(st, c).asserts)
  <1> DEFINE C == Admitted(st.asserts, Extracted(c, Canonical(merges, c.subj), st.clock))
  <1>1. Unique(C) /\ \A a \in C : ~ Taken(st.asserts, a)
    BY ExtractedUnique DEF Admitted, Unique
  <1>2. Unique(st.asserts \cup C)
    BY <1>1, OneMoreUnique
  <1>3. CASE c \in st.cards
    BY <1>3 DEF Apply
  <1>4. CASE c \notin st.cards
    <2>1. Apply(st, c).asserts = st.asserts \cup C
      BY <1>4 DEF Apply
    <2>2. QED
      BY <2>1, <1>2
  <1>5. QED
    BY <1>3, <1>4

\* INV-2: no two stored assertions share an id, though cards, corrections and
\* dreams are accepted concurrently and repeated.
THEOREM AssertionIdsUnique == Spec => []OneAssertionPerId
  <1>1. Init => OneAssertionPerId
    BY DEF Init, OneAssertionPerId
  <1>2. ASSUME TypeOK, OneAssertionPerId, [Next]_vars
        PROVE  OneAssertionPerId'
    <2>0. Unique(asserts)
      BY <1>2 DEF OneAssertionPerId, Unique
    <2>1. CASE asserts' = asserts
      BY <1>2, <2>1 DEF OneAssertionPerId
    <2>2. ASSUME NEW b \in Batches, Ingest(b)
          PROVE  Unique(asserts')
      <3>1. Unique(Apply(Store, b[1]).asserts)
        BY <2>0, ApplyUnique DEF Store
      <3>2. Unique(Apply(Apply(Store, b[1]), b[2]).asserts)
        BY <3>1, ApplyUnique
      <3>3. QED
        BY <2>2, <3>2 DEF Ingest
    <2>3. ASSUME NEW a \in inflight, CommitCorrection(a), asserts' # asserts
          PROVE  Unique(asserts')
      <3>1. asserts' = asserts \cup {a} /\ ~ Taken(asserts, a)
        BY <2>3 DEF CommitCorrection
      <3>2. Unique({a}) /\ \A c \in {a} : ~ Taken(asserts, c)
        BY <3>1 DEF Unique
      <3>3. QED
        BY <2>0, <3>1, <3>2, OneMoreUnique
    <2>4. ASSUME NEW w \in Dreamers, NEW answer \in Proposals, Dream(w, answer)
          PROVE  Unique(asserts')
      <3> DEFINE Nth(n) == Dreamt(reading[w], answer[n], clock + n - 1)
      <3>1. /\ DOMAIN answer = 1 .. Len(answer) /\ Len(answer) \in Nat
            /\ \E new \in SUBSET DOMAIN answer :
                 /\ asserts' = asserts \cup {Nth(n) : n \in new}
                 /\ \A n \in new : ~ Taken(asserts, Nth(n))
                 /\ \A m, n \in new : m < n => Identity(Nth(m)) # Identity(Nth(n))
        BY <1>2, <2>4, DreamAdds
      <3>2. PICK new \in SUBSET DOMAIN answer :
              /\ asserts' = asserts \cup {Nth(n) : n \in new}
              /\ \A n \in new : ~ Taken(asserts, Nth(n))
              /\ \A m, n \in new : m < n => Identity(Nth(m)) # Identity(Nth(n))
        BY <3>1
      <3> HIDE DEF Nth
      <3>3. \A m, n \in new : m = n \/ m < n \/ n < m
        BY <3>1
      <3>4. Unique({Nth(n) : n \in new}) /\ \A c \in {Nth(n) : n \in new} : ~ Taken(asserts, c)
        BY <3>2, <3>3 DEF Unique
      <3>5. QED
        BY <2>0, <3>2, <3>4, OneMoreUnique
    <2>5. CASE Unique(asserts')
      BY <2>5 DEF Unique, OneAssertionPerId
    <2>6. QED
      BY <1>2, <2>1, <2>2, <2>3, <2>4, <2>5
      DEF Next, PrepareCorrection, ReadQueue, FailItem, Merge, Unmerge, Replay, Import,
          vars, tables
  <1>3. QED
    BY <1>1, <1>2, TypeCorrect, PTL DEF Spec
-----------------------------------------------------------------------------
\* The view.

\* Nothing is projected from nothing.
LEMMA EmptyProjection ==
  /\ Project({}, NoEdges) = {}
  /\ Stats({}, NoEdges) = [p \in Predicates |-> 0]
  <1>1. ASSUME NEW s \in Subjects, NEW p \in Predicates
        PROVE  GroupIntervals(s, p, Group({}, NoEdges, s, p)) = {}
    <2>1. Group({}, NoEdges, s, p) = {}
      BY DEF Group
    <2>2. SingleIntervals(s, p, {}) = {}
      BY DEF SingleIntervals, Instants
    <2>3. SetIntervals(s, p, {}) = {}
      BY DEF SetIntervals, Asserts
    <2>4. AppendIntervals(s, p, {}) = {}
      BY DEF AppendIntervals, Asserts
    <2>5. Kind[p] \in {"SINGLE", "SET", "APPEND"}
      BY ProfileAssumption
    <2>6. QED
      BY <2>1, <2>2, <2>3, <2>4, <2>5 DEF GroupIntervals
  <1>2. Project({}, NoEdges) = {}
    BY <1>1 DEF Project
  <1>3. ASSUME NEW p \in Predicates
        PROVE  Stats({}, NoEdges)[p] = 0
    <2> DEFINE claims == {a \in Asserts({}) : a.pred = p}
    <2>1. claims = {}
      BY DEF Asserts
    <2>2. /\ {<<Canonical(NoEdges, a.subj), a.vf, a.key>> : a \in claims} = {}
          /\ {<<Canonical(NoEdges, a.subj), a.vf>> : a \in claims} = {}
      BY <2>1
    <2>3. Cardinality({}) = 0
      BY FS_EmptySet
    <2>4. QED
      BY <2>2, <2>3 DEF Stats
  <1>4. Stats({}, NoEdges) = [p \in Predicates |-> 0]
    BY <1>3 DEF Stats
  <1>5. QED
    BY <1>2, <1>4

\* INV-3: in every state between two transactions the stored intervals and
\* statistics are those of the stored assertions and edges.
THEOREM ProjectionStaysCurrent == Spec => []ProjectionCurrent
  <1>1. Init => ProjectionCurrent
    BY EmptyProjection DEF Init, ProjectionCurrent
  <1>2. ASSUME ProjectionCurrent, [Next]_vars
        PROVE  ProjectionCurrent'
    <2>1. CASE UNCHANGED <<asserts, merges, view>>
      BY <1>2, <2>1 DEF ProjectionCurrent, view
    <2>2. CASE \E more : Rebuild(more)
      BY <2>2 DEF Rebuild, ProjectionCurrent
    <2>3. CASE Import
      BY <2>3 DEF Import, ProjectionCurrent
    <2>4. QED
      BY <1>2, <2>1, <2>2, <2>3
      DEF Next, Ingest, PrepareCorrection, CommitCorrection, ReadQueue, FailItem,
          Dream, Merge, Unmerge, Replay, vars, tables
  <1>3. QED
    BY <1>1, <1>2, PTL DEF Spec

\* A rebuild stores a status_changed event for every status that became another.
LEMMA RebuildAnnounces ==
  ASSUME NEW more, Rebuild(more), NEW s \in Subjects, NEW p \in StatusPredicates,
         LiveKeys(intervals, s, p) # LiveKeys(intervals', s, p),
         LiveKeys(intervals', s, p) # {}
  PROVE  \E e \in events' : /\ e.type = "status_changed" /\ e.subj = s /\ e.pred = p
                            /\ e.old = LiveKeys(intervals, s, p)
                            /\ e.new = LiveKeys(intervals', s, p)
  <1> DEFINE old == LiveKeys(intervals, s, p)
             new == LiveKeys(intervals', s, p)
             triggers == Triggers(intervals, intervals', asserts', merges', s, p)
  <1>1. p \in Predicates
    BY RolesAssumption
  <1>2. Live(intervals', s, p) # {}
    BY DEF LiveKeys
  <1>3. PICK g : g \in triggers
    BY <1>2 DEF Triggers
  <1>4. "status_changed" \in TypesOf(p, old, new, g)
    BY DEF TypesOf
  <1> DEFINE e == Event("status_changed", s, p, old, new, g)
  <1>5. e \in Changes(intervals, intervals', asserts', merges', s, p)
    BY <1>3, <1>4 DEF Changes
  <1>6. e \in events'
    BY <1>1, <1>5 DEF Rebuild, Derive
  <1>7. /\ e.type = "status_changed" /\ e.subj = s /\ e.pred = p
        /\ e.old = old /\ e.new = new
    BY DEF Event
  <1>8. QED
    BY <1>6, <1>7

\* SPEC 11.2: no operation replaces a current status in silence; an import may
\* skip the events because it leaves the view as it found it.
THEOREM StatusIsAnnounced == Spec => StatusAnnounced
  <1> DEFINE Announces ==
        \A s \in Subjects, p \in StatusPredicates :
          LET old == LiveKeys(intervals, s, p)
              new == LiveKeys(intervals', s, p)
          IN  old # new /\ new # {} =>
                \E e \in events' : /\ e.type = "status_changed"
                                   /\ e.subj = s /\ e.pred = p
                                   /\ e.old = old /\ e.new = new
  <1>1. ASSUME ProjectionCurrent, [Next]_vars
        PROVE  [Announces]_vars
    <2>1. CASE UNCHANGED intervals
      BY <2>1
    <2>2. CASE \E more : Rebuild(more)
      BY <2>2, RebuildAnnounces
    <2>3. CASE Import
      BY <1>1, <2>3, <2>1 DEF Import, ProjectionCurrent
    <2>4. QED
      BY <1>1, <2>1, <2>2, <2>3
      DEF Next, Ingest, PrepareCorrection, CommitCorrection, ReadQueue, FailItem,
          Dream, Merge, Unmerge, Replay, vars, view
  <1>2. QED
    BY <1>1, ProjectionStaysCurrent, PTL DEF Spec, StatusAnnounced
-----------------------------------------------------------------------------
\* What a merge freezes.  Corrections that are prepared and not committed have
\* their stamp already, so the invariant speaks of them too.
Claimed == asserts \cup inflight

StampedBefore == \A c \in Claimed : c.rec \in 0 .. clock - 1

FrozenAt(e, s) ==
  /\ e.type = "subject_merged" /\ e.subj = s /\ e.new = {merges[s]}
  /\ \A c \in Claimed : c.subj = s => c.rec < e.rec

MergesFreeze ==
  /\ StampedBefore
  /\ \A s \in DOMAIN merges : \E e \in events : FrozenAt(e, s)

\* A card's assertions go to the subject its own resolves to, with its stamp.
LEMMA ApplyStamps ==
  ASSUME NEW st, st.clock \in Nat, NEW c
  PROVE  /\ Apply(st, c).clock \in Nat /\ st.clock <= Apply(st, c).clock
         /\ \A a \in Apply(st, c).asserts :
              a \in st.asserts \/ (a.subj = Canonical(merges, c.subj)
                                  /\ a.rec \in st.clock .. Apply(st, c).clock - 1)
  <1> DEFINE s == Canonical(merges, c.subj)
  <1>1. CASE c \in st.cards
    BY <1>1 DEF Apply
  <1>2. CASE c \notin st.cards
    <2>1. /\ Apply(st, c).asserts
               = st.asserts \cup Admitted(st.asserts, Extracted(c, s, st.clock))
          /\ Apply(st, c).clock = st.clock + 1
      BY <1>2 DEF Apply
    <2>2. \A a \in Extracted(c, s, st.clock) : a.subj = s /\ a.rec = st.clock
      BY DEF Extracted
    <2>3. QED
      BY <2>1, <2>2 DEF Admitted
  <1>3. QED
    BY <1>1, <1>2

\* A step that leaves the edges alone keeps them frozen if what it adds is
\* stamped now and goes to subjects that are not merged away.
LEMMA StillFrozen ==
  ASSUME MergesFreeze, merges' = merges, events \subseteq events',
         clock \in Nat, clock' \in Nat, clock <= clock',
         \A a \in Claimed' : \/ a \in Claimed
                             \/ a.subj \notin DOMAIN merges /\ a.rec \in clock .. clock' - 1
  PROVE  MergesFreeze'
  <1>1. ASSUME NEW a \in Claimed
        PROVE  a.rec \in 0 .. clock' - 1
    BY DEF MergesFreeze, StampedBefore
  <1>2. StampedBefore'
    BY <1>1 DEF StampedBefore
  <1>3. ASSUME NEW s \in DOMAIN merges
        PROVE  \E e \in events' : FrozenAt(e, s)'
    <2>1. PICK e \in events : FrozenAt(e, s)
      BY DEF MergesFreeze
    <2>2. FrozenAt(e, s)'
      BY <2>1 DEF FrozenAt
    <2>3. QED
      BY <2>1, <2>2
  <1>4. QED
    BY <1>2, <1>3 DEF MergesFreeze
\* So undoing a merge finds under the subject what it had when it was merged.
THEOREM MergedSubjectsStayFrozen == Spec => []MergedSubjectFrozen
  <1>1. Init => MergesFreeze
    BY DEF Init, MergesFreeze, StampedBefore, Claimed, NoEdges
  <1>2. ASSUME TypeOK, MergesAcyclic, MergesFreeze, [Next]_vars
        PROVE  MergesFreeze'
    <2>1. ASSUME NEW s \in Subjects
          PROVE  Canonical(merges, s) \notin DOMAIN merges
      BY <1>2, CanonicalEnds DEF TypeOK, MergesAcyclic
    <2>2. CASE UNCHANGED <<asserts, merges, events, clock, inflight>>
      BY <1>2, <2>2, StillFrozen DEF Claimed, TypeOK
    <2>3. ASSUME NEW b \in Batches, Ingest(b)
          PROVE  MergesFreeze'
      <3> DEFINE one == Apply(Store, b[1])
                 two == Apply(one, b[2])
      <3>1. b[1].subj \in Subjects /\ b[2].subj \in Subjects
        BY InputsAssumption DEF CardType
      <3>2. Store.asserts = asserts /\ Store.clock = clock
        BY DEF Store
      <3>3. /\ one.clock \in Nat /\ clock <= one.clock
            /\ \A c \in one.asserts :
                 c \in asserts \/ (c.subj = Canonical(merges, b[1].subj)
                                  /\ c.rec \in clock .. one.clock - 1)
        BY <1>2, <3>2, ApplyStamps DEF TypeOK
      <3>4. /\ two.clock \in Nat /\ one.clock <= two.clock
            /\ \A c \in two.asserts :
                 c \in one.asserts \/ (c.subj = Canonical(merges, b[2].subj)
                                      /\ c.rec \in one.clock .. two.clock - 1)
        BY <3>3, ApplyStamps
      <3>5. /\ asserts' = two.asserts /\ clock' = two.clock
            /\ merges' = merges /\ inflight' = inflight /\ events \subseteq events'
        BY <2>3 DEF Ingest, Rebuild
      <3> HIDE DEF one, two
      <3>6. clock \in Nat
        BY <1>2 DEF TypeOK
      <3>7. \A c \in two.asserts :
              \/ c \in asserts
              \/ c.subj \notin DOMAIN merges /\ c.rec \in clock .. two.clock - 1
        BY <2>1, <3>1, <3>3, <3>4, <3>6
      <3>8. QED
        BY <1>2, <3>4, <3>3, <3>5, <3>6, <3>7, StillFrozen DEF Claimed
    <2>4. ASSUME NEW r \in Corrections, PrepareCorrection(r)
          PROVE  MergesFreeze'
      <3>1. r.subj \in Subjects
        BY InputsAssumption
      <3>2. /\ clock' = clock + 1 /\ UNCHANGED <<asserts, merges, events>>
            /\ \A c \in inflight' :
                 c \in inflight \/ (c.subj = Canonical(merges, r.subj) /\ c.rec = clock)
        BY <2>4 DEF PrepareCorrection, tables, view
      <3>3. QED
        BY <1>2, <2>1, <3>1, <3>2, StillFrozen DEF Claimed, TypeOK
    <2>5. ASSUME NEW a \in inflight, CommitCorrection(a)
          PROVE  MergesFreeze'
      <3>1. /\ clock' = clock /\ merges' = merges /\ events \subseteq events'
            /\ inflight' \subseteq inflight /\ asserts' \subseteq asserts \cup {a}
        BY <2>5 DEF CommitCorrection, Rebuild, view
      <3>2. QED
        BY <1>2, <3>1, StillFrozen DEF Claimed, TypeOK
    <2>6. ASSUME NEW w \in Dreamers, NEW answer \in Proposals, Dream(w, answer)
          PROVE  MergesFreeze'
      <3> DEFINE Nth(n) == Dreamt(reading[w], answer[n], clock + n - 1)
      <3>1. merges' = merges /\ inflight' = inflight /\ events \subseteq events'
        BY <2>6 DEF Dream, Rebuild
      <3>2. /\ DOMAIN answer = 1 .. Len(answer) /\ Len(answer) \in Nat
            /\ reading[w] \in QueueType /\ clock' \in Nat /\ clock <= clock'
            /\ \E new \in SUBSET DOMAIN answer :
                 /\ new # {} => clock' = clock + Len(answer)
                 /\ asserts' = asserts \cup {Nth(n) : n \in new}
        BY <1>2, <2>6, DreamAdds
      <3>3. PICK new \in SUBSET DOMAIN answer :
              /\ new # {} => clock' = clock + Len(answer)
              /\ asserts' = asserts \cup {Nth(n) : n \in new}
        BY <3>2
      <3>4. clock \in Nat
        BY <1>2 DEF TypeOK
      <3>5. ASSUME NEW n \in new
            PROVE  Nth(n).subj \notin DOMAIN merges /\ Nth(n).rec \in clock .. clock' - 1
        <4>1. answer[n].subj \in Subjects
          BY <1>2, <3>2, <3>4, DreamtTyped
        <4>2. Nth(n).subj = Canonical(merges, answer[n].subj) /\ Nth(n).rec = clock + n - 1
          BY DEF Dreamt
        <4>3. clock + n - 1 \in clock .. clock' - 1
          BY <3>2, <3>3, <3>4
        <4>4. QED
          BY <2>1, <4>1, <4>2, <4>3
      <3> HIDE DEF Nth
      <3>6. QED
        BY <1>2, <3>1, <3>2, <3>3, <3>4, <3>5, StillFrozen DEF Claimed
    <2>7. ASSUME NEW s \in Subjects, NEW t \in Subjects, NEW m \in MergeOps,
                 Merge(s, t, m)
          PROVE  MergesFreeze'
      <3>1. /\ clock' = clock + 1 /\ UNCHANGED <<asserts, inflight>>
            /\ merges' = AddEdge(merges, s, t) /\ events \subseteq events'
            /\ MergeEvent("subject_merged", s, t, m.vf, m.src, clock) \in events'
        BY <2>7 DEF Merge, Rebuild
      <3>2. /\ DOMAIN merges' = DOMAIN merges \cup {s} /\ merges'[s] = t
            /\ \A x \in DOMAIN merges : x # s => merges'[x] = merges[x]
        BY <3>1 DEF AddEdge
      <3>3. PICK e \in events' : /\ e.type = "subject_merged" /\ e.subj = s
                                 /\ e.new = {t} /\ e.rec = clock
        BY <3>1 DEF MergeEvent
      <3>4. StampedBefore'
        BY <1>2, <3>1 DEF StampedBefore, MergesFreeze, Claimed, TypeOK
      <3>5. FrozenAt(e, s)'
        BY <1>2, <3>1, <3>2, <3>3 DEF FrozenAt, MergesFreeze, StampedBefore, Claimed, TypeOK
      <3>6. ASSUME NEW x \in DOMAIN merges, x # s
            PROVE  \E f \in events' : FrozenAt(f, x)'
        BY <1>2, <3>1, <3>2, <3>6 DEF FrozenAt, MergesFreeze, Claimed
      <3>7. QED
        BY <3>1, <3>2, <3>4, <3>5, <3>6 DEF MergesFreeze
    <2>8. ASSUME NEW s \in Subjects, NEW m \in MergeOps, Unmerge(s, m)
          PROVE  MergesFreeze'
      <3>1. /\ clock' = clock + 1 /\ UNCHANGED <<asserts, inflight>>
            /\ merges' = DropEdge(merges, s) /\ events \subseteq events'
        BY <2>8 DEF Unmerge, Rebuild
      <3>2. /\ DOMAIN merges' \subseteq DOMAIN merges
            /\ \A x \in DOMAIN merges' : merges'[x] = merges[x]
        BY <3>1 DEF DropEdge
      <3>3. StampedBefore'
        BY <1>2, <3>1 DEF StampedBefore, MergesFreeze, Claimed, TypeOK
      <3>4. QED
        BY <1>2, <3>1, <3>2, <3>3 DEF FrozenAt, MergesFreeze, Claimed
    <2>9. CASE Import
      <3>1. /\ UNCHANGED <<asserts, merges, events, clock>> /\ inflight' = {}
        BY <2>9 DEF Import
      <3>2. QED
        BY <1>2, <3>1, StillFrozen DEF Claimed, TypeOK
    <2>10. CASE Replay
      <3>1. UNCHANGED <<asserts, merges, clock, inflight>> /\ events \subseteq events'
        BY <2>10 DEF Replay, Rebuild, tables
      <3>2. QED
        BY <1>2, <3>1, StillFrozen DEF Claimed, TypeOK
    <2>11. QED
      BY <1>2, <2>2, <2>3, <2>4, <2>5, <2>6, <2>7, <2>8, <2>9, <2>10
      DEF Next, ReadQueue, FailItem, vars, tables, view
  <1>3. TypeOK /\ MergesFreeze => MergedSubjectFrozen
    BY DEF MergesFreeze, FrozenAt, MergedSubjectFrozen, Claimed
  <1>4. QED
    BY <1>1, <1>2, <1>3, TypeCorrect, MergesStayAcyclic, PTL DEF Spec
-----------------------------------------------------------------------------
\* What the projection's lemmas ask of the assertions of a group.

ApartBefore(S, now) == (\A c \in S : c.rec \in 0 .. now - 1) /\ Apart(S)

\* Two assertions recorded together belong to one card, whether stored or still
\* in a correction that has its stamp.
Recorded == IsFiniteSet(asserts) /\ ApartBefore(Claimed, clock)

LEMMA MoreApart ==
  ASSUME NEW S, NEW now \in Nat, ApartBefore(S, now), NEW later \in Nat, now <= later,
         NEW C, Apart(C), \A c \in C : c.rec \in now .. later - 1
  PROVE  ApartBefore(S \cup C, later)
  <1>1. \A c \in S : c.rec \in Nat /\ c.rec < now
    BY DEF ApartBefore
  <1>2. \A c \in C : c.rec \in Nat /\ c.rec >= now /\ c.rec \in 0 .. later - 1
    OBVIOUS
  <1>3. \A c \in S : c.rec \in 0 .. later - 1
    BY <1>1
  <1>4. Apart(S \cup C)
    BY <1>1, <1>2 DEF Apart, ApartBefore
  <1>5. QED
    BY <1>2, <1>3, <1>4 DEF ApartBefore

LEMMA FewerApart ==
  ASSUME NEW S, NEW now, ApartBefore(S, now), NEW T \in SUBSET S
  PROVE  ApartBefore(T, now)
  BY DEF ApartBefore, Apart

\* A card is a finite number of values of one field, or its clear.
LEMMA ExtractedApart ==
  ASSUME NEW c \in Cards, NEW s, NEW now
  PROVE  /\ IsFiniteSet(Extracted(c, s, now)) /\ Apart(Extracted(c, s, now))
         /\ \A a \in Extracted(c, s, now) : a.rec = now
  <1> DEFINE Of(op, k) == [subj |-> s, pred |-> c.pred, op |-> op, key |-> k,
                           vf |-> c.vf, src |-> c.src, origin |-> "model", rec |-> now,
                           obs |-> IF c.thread THEN c.id ELSE None]
             values == {Of("ASSERT", k) : k \in c.keys}
  <1>0. IsFiniteSet(c.keys) /\ (c.clears => c.keys = {}) /\ c.clears \in BOOLEAN
    BY InputsAssumption DEF CardType
  <1>1. Extracted(c, s, now) = values \cup (IF c.clears THEN {Of("RETRACT", Star)} ELSE {})
    BY DEF Extracted
  <1>2. \A a \in values : a.op = "ASSERT" /\ a.origin = "model" /\ a.rec = now
    OBVIOUS
  <1>3. \A a, b \in values : a = b \/ a.key # b.key
    OBVIOUS
  <1>4. Of("RETRACT", Star).rec = now
    OBVIOUS
  <1>5. IsFiniteSet(values)
    <2> DEFINE f == [k \in c.keys |-> Of("ASSERT", k)]
    <2>1. DOMAIN f = c.keys /\ values = {f[k] : k \in DOMAIN f}
      OBVIOUS
    <2> HIDE DEF f, values
    <2>2. QED
      BY <1>0, <2>1, FiniteImage
  <1> HIDE DEF Of, values
  <1>6. CASE c.clears
    <2>1. values = {}
      BY <1>0, <1>6 DEF values
    <2>2. Extracted(c, s, now) = {Of("RETRACT", Star)}
      BY <1>1, <1>6, <2>1
    <2>3. QED
      BY <1>4, <2>2, FS_Singleton DEF Apart
  <1>7. CASE ~ c.clears
    <2>1. Extracted(c, s, now) = values
      BY <1>1, <1>7
    <2>2. QED
      BY <1>2, <1>3, <1>5, <2>1 DEF Apart, Siblings
  <1>8. QED
    BY <1>6, <1>7

LEMMA ApplyRecorded ==
  ASSUME NEW st, st.clock \in Nat, NEW c \in Cards, NEW I,
         IsFiniteSet(st.asserts), ApartBefore(st.asserts \cup I, st.clock)
  PROVE  /\ Apply(st, c).clock \in Nat
         /\ IsFiniteSet(Apply(st, c).asserts)
         /\ ApartBefore(Apply(st, c).asserts \cup I, Apply(st, c).clock)
  <1> DEFINE C == Admitted(st.asserts, Extracted(c, Canonical(merges, c.subj), st.clock))
  <1>1. CASE c \in st.cards
    BY <1>1 DEF Apply
  <1>2. CASE c \notin st.cards
    <2>1. Apply(st, c).asserts = st.asserts \cup C /\ Apply(st, c).clock = st.clock + 1
      BY <1>2 DEF Apply
    <2>2. C \in SUBSET Extracted(c, Canonical(merges, c.subj), st.clock)
      BY DEF Admitted
    <2> HIDE DEF C
    <2>3. IsFiniteSet(C) /\ Apart(C) /\ \A a \in C : a.rec = st.clock
      BY <2>2, ExtractedApart, FS_Subset DEF Apart
    <2>4. IsFiniteSet(st.asserts \cup C)
      BY <2>3, FS_Union
    <2>5. ApartBefore((st.asserts \cup I) \cup C, st.clock + 1)
      BY <2>3, MoreApart
    <2>6. ApartBefore((st.asserts \cup C) \cup I, st.clock + 1)
      <3>1. (st.asserts \cup I) \cup C = (st.asserts \cup C) \cup I
        OBVIOUS
      <3>2. QED
        BY <2>5, <3>1
    <2>7. st.clock + 1 \in Nat
      OBVIOUS
    <2>8. QED
      BY <2>1, <2>4, <2>6, <2>7
  <1>3. QED
    BY <1>1, <1>2

LEMMA RecordedStep ==
  ASSUME TypeOK, TypeOK', Recorded, [Next]_vars
  PROVE  Recorded'
  <1>0. clock \in Nat /\ clock' \in Nat
    BY DEF TypeOK
  <1>1. ASSUME asserts' = asserts, clock' \in {clock, clock + 1}, inflight' \subseteq inflight
        PROVE  Recorded'
    <2>1. Claimed' \in SUBSET Claimed
      BY <1>1 DEF Claimed
    <2>2. ApartBefore(Claimed', clock)
      BY <2>1, FewerApart DEF Recorded
    <2>3. ApartBefore(Claimed', clock')
      BY <1>0, <1>1, <2>2 DEF ApartBefore
    <2>4. QED
      BY <1>1, <2>3 DEF Recorded
  <1>2. ASSUME NEW b \in Batches, Ingest(b)
        PROVE  Recorded'
    <2> DEFINE one == Apply(Store, b[1])
               two == Apply(one, b[2])
    <2>1. b[1] \in Cards /\ b[2] \in Cards
      BY InputsAssumption
    <2>2. Store.asserts = asserts /\ Store.clock = clock
      BY DEF Store
    <2>3. /\ one.clock \in Nat /\ IsFiniteSet(one.asserts)
          /\ ApartBefore(one.asserts \cup inflight, one.clock)
      BY <1>0, <2>1, <2>2, ApplyRecorded DEF Recorded, Claimed
    <2> HIDE DEF one
    <2>4. /\ IsFiniteSet(two.asserts)
          /\ ApartBefore(two.asserts \cup inflight, two.clock)
      BY <2>1, <2>3, ApplyRecorded
    <2>5. asserts' = two.asserts /\ clock' = two.clock /\ inflight' = inflight
      BY <1>2 DEF Ingest, one
    <2> HIDE DEF two
    <2>6. QED
      BY <2>4, <2>5 DEF Recorded, Claimed
  <1>3. ASSUME NEW r \in Corrections, PrepareCorrection(r)
        PROVE  Recorded'
    <2> DEFINE a == [subj |-> Canonical(merges, r.subj), pred |-> r.pred, op |-> r.op,
                     key |-> r.key, vf |-> r.vf, src |-> r.src, origin |-> "human",
                     rec |-> clock, obs |-> None]
    <2>1. inflight' = inflight \cup {a} /\ asserts' = asserts /\ clock' = clock + 1
      BY <1>3 DEF PrepareCorrection, tables
    <2>2. Apart({a}) /\ \A c \in {a} : c.rec \in clock .. clock' - 1
      BY <1>0, <2>1 DEF Apart
    <2> HIDE DEF a
    <2>3. ApartBefore(Claimed \cup {a}, clock')
      BY <1>0, <2>1, <2>2, MoreApart DEF Recorded
    <2>4. Claimed' = Claimed \cup {a}
      BY <2>1 DEF Claimed
    <2>5. QED
      BY <2>1, <2>3, <2>4 DEF Recorded
  <1>4. ASSUME NEW a \in inflight, CommitCorrection(a)
        PROVE  Recorded'
    <2>1. /\ clock' = clock /\ inflight' \subseteq inflight
          /\ asserts' = asserts \/ asserts' = asserts \cup {a}
      BY <1>4 DEF CommitCorrection
    <2>2. Claimed' \in SUBSET Claimed
      BY <2>1 DEF Claimed
    <2>3. IsFiniteSet(asserts')
      BY <2>1, FS_AddElement DEF Recorded
    <2>4. QED
      BY <2>1, <2>2, <2>3, FewerApart DEF Recorded
  <1>5. ASSUME NEW w \in Dreamers, NEW answer \in Proposals, Dream(w, answer)
        PROVE  Recorded'
    <2> DEFINE Nth(n) == Dreamt(reading[w], answer[n], clock + n - 1)
    <2>1. /\ DOMAIN answer = 1 .. Len(answer) /\ Len(answer) \in Nat
          /\ clock <= clock'
          /\ \E new \in SUBSET DOMAIN answer :
               /\ new # {} => clock' = clock + Len(answer)
               /\ asserts' = asserts \cup {Nth(n) : n \in new}
      BY <1>5, DreamAdds
    <2>2. PICK new \in SUBSET DOMAIN answer :
            /\ new # {} => clock' = clock + Len(answer)
            /\ asserts' = asserts \cup {Nth(n) : n \in new}
      BY <2>1
    <2>3. \A n : Nth(n).rec = clock + n - 1
      BY DEF Dreamt
    <2> HIDE DEF Nth
    <2>4. \A n \in new : n \in 1 .. Len(answer) /\ clock' = clock + Len(answer)
      BY <2>1, <2>2
    <2>5. Apart({Nth(n) : n \in new})
      BY <1>0, <2>1, <2>3, <2>4 DEF Apart
    <2>6. \A c \in {Nth(n) : n \in new} : c.rec \in clock .. clock' - 1
      BY <1>0, <2>1, <2>3, <2>4
    <2>7. ApartBefore(Claimed \cup {Nth(n) : n \in new}, clock')
      BY <1>0, <2>1, <2>5, <2>6, MoreApart DEF Recorded
    <2>8. inflight' = inflight
      BY <1>5 DEF Dream
    <2>9. Claimed' = Claimed \cup {Nth(n) : n \in new}
      BY <2>2, <2>8 DEF Claimed
    <2>10. IsFiniteSet({Nth(n) : n \in new})
      <3>1. IsFiniteSet(new)
        <4>1. IsFiniteSet(1 .. Len(answer))
          BY <2>1, FS_Interval
        <4>2. QED
          BY <2>1, <4>1, FS_Subset
      <3> DEFINE f == [n \in new |-> Nth(n)]
      <3>2. DOMAIN f = new /\ {Nth(n) : n \in new} = {f[n] : n \in DOMAIN f}
        OBVIOUS
      <3> HIDE DEF f
      <3>3. QED
        BY <3>1, <3>2, FiniteImage
    <2>11. IsFiniteSet(asserts')
      BY <2>2, <2>10, FS_Union DEF Recorded
    <2>12. QED
      BY <2>7, <2>9, <2>11 DEF Recorded
  <1>6. QED
    BY <1>1, <1>2, <1>3, <1>4, <1>5
    DEF Next, ReadQueue, FailItem, Merge, Unmerge, Replay, Import, vars, tables

LEMMA RecordedApart == Spec => []Recorded
  <1>1. Init => Recorded
    BY FS_EmptySet DEF Init, Recorded, ApartBefore, Apart, Claimed
  <1>2. QED
    BY <1>1, RecordedStep, TypeCorrect, PTL DEF Spec

\* So the lemmas of ProjectionProofs apply to every group.
LEMMA GroupRanked ==
  ASSUME TypeOK, Recorded, NEW s, NEW p
  PROVE  Ranked(Group(asserts, merges, s, p))
  <1> DEFINE A == Group(asserts, merges, s, p)
  <1>1. A \in SUBSET asserts
    BY DEF Group
  <1> HIDE DEF A
  <1>2. IsFiniteSet(A) /\ Apart(A)
    BY <1>1, FS_Subset DEF Recorded, ApartBefore, Claimed, Apart
  <1>3. \A a \in A : Shaped(a)
    BY <1>1, InputsAssumption DEF TypeOK, AssertionType, Shaped
  <1>4. QED
    BY <1>2, <1>3 DEF Ranked, A

\* The intervals of a projection that bear a subject and a predicate are those
\* of their group.
LEMMA IntervalFields ==
  ASSUME NEW s, NEW p \in Predicates, NEW A
  PROVE  \A i \in GroupIntervals(s, p, A) : i.subj = s /\ i.pred = p
  <1>1. \A i \in SingleIntervals(s, p, A) : i.subj = s /\ i.pred = p
    BY DEF SingleIntervals
  <1>2. \A i \in SetIntervals(s, p, A) : i.subj = s /\ i.pred = p
    BY DEF SetIntervals, MemberInterval
  <1>3. \A i \in AppendIntervals(s, p, A) : i.subj = s /\ i.pred = p
    BY DEF AppendIntervals
  <1>4. QED
    BY <1>1, <1>2, <1>3, ProfileAssumption DEF GroupIntervals

LEMMA ProjectGroup ==
  ASSUME NEW A, NEW edges, NEW s \in Subjects, NEW p \in Predicates
  PROVE  {i \in Project(A, edges) : i.subj = s /\ i.pred = p}
           = GroupIntervals(s, p, Group(A, edges, s, p))
  BY IntervalFields DEF Project

-----------------------------------------------------------------------------
\* The walks of projection.py.

\* Every group of the stored assertions is ranked, so its walk ends with the
\* intervals the projection describes.
LEMMA WalksProject ==
  ASSUME TypeOK, Recorded, ProjectionCurrent
  PROVE  ProjectionIsTheWalk
  <1>1. \A s \in Subjects, p \in Predicates :
          WalkGroup(s, p, Group(asserts, merges, s, p))
            = GroupIntervals(s, p, Group(asserts, merges, s, p))
    BY GroupRanked, GroupWalked
  <1>2. Walk(asserts, merges) = Project(asserts, merges)
    BY <1>1 DEF Walk, Project
  <1>3. QED
    BY <1>2 DEF ProjectionCurrent, ProjectionIsTheWalk

\* The stored intervals are the ones the loops of the code produce, event by
\* event in rank order, for every set of assertions that can be stored.
THEOREM ProjectionIsWalked == Spec => []ProjectionIsTheWalk
  BY WalksProject, TypeCorrect, RecordedApart, ProjectionStaysCurrent, PTL

-----------------------------------------------------------------------------
\* What the projection shows of what is stored.

\* An ASSERT is found again: the group's lemmas, one kind after the other.
LEMMA Retained ==
  ASSUME TypeOK, Recorded, ProjectionCurrent
  PROVE  EvidenceRetained
  <1> SUFFICES ASSUME NEW a \in Asserts(asserts)
               PROVE  LET s == Canonical(merges, a.subj)
                          A == Group(asserts, merges, s, a.pred)
                      IN  \/ Kind[a.pred] = "SINGLE" /\ Decided(A, a.vf) # a.key
                          \/ Kind[a.pred] = "APPEND" /\ Withdrawn(a.pred, A, a)
                          \/ \E i \in intervals :
                               /\ i.subj = s /\ i.pred = a.pred /\ i.key = a.key
                               /\ a \in i.support /\ i.from <= a.vf
    BY DEF EvidenceRetained
  <1> DEFINE s == Canonical(merges, a.subj)
             p == a.pred
             A == Group(asserts, merges, s, p)
             Found(i) == /\ i.subj = s /\ i.pred = p /\ i.key = a.key
                         /\ a \in i.support /\ i.from <= a.vf
  <1>1. a \in asserts /\ a.op = "ASSERT" /\ a \in AssertionType
    BY DEF Asserts, TypeOK
  <1>2. p \in Predicates /\ s \in Subjects /\ a.vf \in Nat
    BY <1>1, CanonicalInChain DEF TypeOK, AssertionType
  <1>3. a \in A /\ Ranked(A)
    BY <1>1, GroupRanked DEF Group
  <1>4. GroupIntervals(s, p, A) \subseteq intervals
    BY <1>2, ProjectGroup DEF ProjectionCurrent
  <1> HIDE DEF A, s, p
  <1>5. CASE Kind[p] = "SINGLE"
    <2>1. SUFFICES ASSUME Decided(A, a.vf) = a.key
                   PROVE  \E i \in intervals : Found(i)
      BY <1>5 DEF A, s, p
    <2>2. PICK i \in SingleIntervals(s, p, A) : Found(i)
      BY <1>1, <1>3, <2>1, SingleSupports
    <2>3. QED
      BY <1>4, <1>5, <2>2 DEF GroupIntervals
  <1>6. CASE Kind[p] = "SET"
    <2>1. PICK e \in Affecting(A, a.key) :
            /\ OpensMember(A, a.key, e) /\ e.vf <= a.vf
            /\ a \in MemberInterval(s, p, A, a.key, e).support
      BY <1>1, <1>3, SetSupports
    <2>2. MemberInterval(s, p, A, a.key, e) \in SetIntervals(s, p, A)
      BY <1>1, <1>3, <2>1, MemberIntervalIn
    <2>3. Found(MemberInterval(s, p, A, a.key, e))
      <3>1. /\ MemberInterval(s, p, A, a.key, e).subj = s
            /\ MemberInterval(s, p, A, a.key, e).pred = p
            /\ MemberInterval(s, p, A, a.key, e).key = a.key
            /\ MemberInterval(s, p, A, a.key, e).from = e.vf
        BY DEF MemberInterval
      <3>2. QED
        BY <2>1, <3>1
    <2>4. \E i \in intervals : Found(i)
      <3> HIDE DEF Found
      <3>1. QED
        BY <1>4, <1>6, <2>2, <2>3 DEF GroupIntervals
    <2>5. QED
      BY <2>4 DEF A, s, p
  <1>7. CASE Kind[p] = "APPEND"
    <2>1. SUFFICES ASSUME ~ Withdrawn(p, A, a)
                   PROVE  \E i \in intervals : Found(i)
      BY <1>7 DEF A, s, p
    <2> DEFINE i == [subj |-> s, pred |-> p, key |-> a.key, from |-> a.vf, to |-> a.vf,
                     opener |-> a, support |-> {a}]
    <2>2. i \in AppendIntervals(s, p, A)
      BY <1>1, <1>3, <2>1 DEF AppendIntervals, Asserts
    <2>3. Found(i)
      BY <1>2
    <2> HIDE DEF i, Found
    <2>4. QED
      BY <1>4, <1>7, <2>2, <2>3 DEF GroupIntervals
  <1>8. QED
    BY <1>2, <1>5, <1>6, <1>7, ProfileAssumption

\* INV-1: no assertion that is stored is lost to the projection.
THEOREM EvidenceStays == Spec => []EvidenceRetained
  BY Retained, TypeCorrect, RecordedApart, ProjectionStaysCurrent, PTL

LEMMA HumansFirst ==
  ASSUME TypeOK, Recorded, ProjectionCurrent
  PROVE  HumanPrecedence
  <1> SUFFICES ASSUME NEW h \in asserts, h.origin = "human", Kind[h.pred] = "SINGLE",
                      NEW i \in intervals,
                      i.subj = Canonical(merges, h.subj), i.pred = h.pred,
                      Within(h.vf, i.from, i.to)
               PROVE  \E g \in Group(asserts, merges, Canonical(merges, h.subj), h.pred) :
                        g.origin = "human" /\ g.vf = h.vf /\ g.op = "ASSERT" /\ g.key = i.key
    BY DEF HumanPrecedence
  <1> DEFINE s == Canonical(merges, h.subj)
             A == Group(asserts, merges, s, h.pred)
  <1>1. h.pred \in Predicates /\ s \in Subjects
    BY CanonicalInChain DEF TypeOK, AssertionType
  <1>2. h \in A /\ Ranked(A)
    BY GroupRanked DEF Group
  <1>3. i \in GroupIntervals(s, h.pred, A)
    BY <1>1, ProjectGroup DEF ProjectionCurrent
  <1> HIDE DEF A, s
  <1>4. i \in SingleIntervals(s, h.pred, A)
    BY <1>3 DEF GroupIntervals
  <1>5. \E g \in A : g.origin = "human" /\ g.vf = h.vf /\ g.op = "ASSERT" /\ g.key = i.key
    BY <1>2, <1>4, HumanDecides
  <1>6. QED
    BY <1>5 DEF A, s

\* A human decides every instant that a human spoke about, whatever the model
\* records afterwards and through whichever merged subject it comes.
THEOREM HumansDecide == Spec => []HumanPrecedence
  BY HumansFirst, TypeCorrect, RecordedApart, ProjectionStaysCurrent, PTL

LEMMA Invisible ==
  ASSUME TypeOK, Recorded
  PROVE  RedundantIsInvisible
  <1> SUFFICES ASSUME NEW c \in Cards,
                      NEW a \in Extracted(c, Canonical(merges, c.subj), clock),
                      Redundant(asserts, a)
               PROVE  LET Keys0(A) == {i.key : i \in {j \in GroupIntervals(a.subj, a.pred, A) :
                                          Kind[a.pred] = "APPEND" \/ j.to = None}}
                          A == Group(asserts, merges, a.subj, a.pred)
                      IN  Keys0(A \cup {a}) = Keys0(A)
    BY DEF RedundantIsInvisible
  <1> DEFINE A == Group(asserts, merges, a.subj, a.pred)
  <1>1. Canonical(merges, c.subj) \in Subjects
    BY CanonicalInChain, InputsAssumption DEF TypeOK, CardType
  <1>2. a \in AssertionType /\ a.rec = clock /\ clock \in Nat
    BY <1>1, ExtractedTyped, ExtractedApart DEF TypeOK
  <1>3. Shaped(a) /\ a.pred \in Predicates
    BY <1>2, InputsAssumption DEF AssertionType, Shaped
  <1>4. \A b \in asserts : b.rec < a.rec
    BY <1>2 DEF Recorded, ApartBefore, Claimed
  <1>5. Ranked(A) /\ \A b \in A : b.rec < a.rec
    BY <1>4, GroupRanked DEF Group
  <1>6. a.op = "ASSERT" /\ a.origin = "model" /\ a.key \in CurrentKeys(a.subj, a.pred, A)
    BY DEF Redundant, CurrentKeys
  <1> HIDE DEF A
  <1>7. CurrentKeys(a.subj, a.pred, A \cup {a}) = CurrentKeys(a.subj, a.pred, A)
    BY <1>3, <1>5, <1>6, CurrentUnmoved
  <1>8. QED
    BY <1>7 DEF CurrentKeys, A

\* The change-only rule drops nothing that would have shown.
THEOREM RedundancyShowsNothing == Spec => []RedundantIsInvisible
  BY Invisible, TypeCorrect, RecordedApart, PTL

-----------------------------------------------------------------------------
\* Events.

\* What an event of a value cites.
Cited(e, A) ==
  \E a \in A :
    /\ a.op = "ASSERT" /\ a.pred = e.pred /\ e.new = {a.key}
    /\ a.vf = e.vf /\ a.rec = e.rec /\ a.origin = e.origin /\ a.src = e.src

\* The assertion that opened an interval of a SINGLE predicate.
LEMMA OpenerOf ==
  ASSUME TypeOK, Recorded, NEW s, NEW p \in Predicates, Kind[p] = "SINGLE",
         NEW i \in GroupIntervals(s, p, Group(asserts, merges, s, p))
  PROVE  /\ i.opener \in asserts /\ i.opener.op = "ASSERT" /\ i.opener.pred = p
         /\ i.opener.key = i.key /\ i.opener.vf = i.from
         /\ i.from \in Instants(Group(asserts, merges, s, p))
  <1> DEFINE A == Group(asserts, merges, s, p)
  <1>1. Ranked(A)
    BY GroupRanked
  <1>2. \A a \in A : a \in asserts /\ a.pred = p
    BY DEF Group
  <1> HIDE DEF A
  <1>3. PICK t \in Instants(A) : /\ Decided(A, t) # None /\ i.key = Decided(A, t)
                                 /\ i.from = t /\ i.opener = Top(At(A, t))
    BY DEF GroupIntervals, SingleIntervals, A
  <1> DEFINE w == Top(At(A, t))
  <1>4. w \in A /\ w.vf = t /\ w.op = "ASSERT" /\ w.key = Decided(A, t)
    BY <1>1, <1>3, Decider
  <1> HIDE DEF w
  <1>5. QED
    BY <1>2, <1>3, <1>4 DEF w, A

\* Every interval begins at an instant.
LEMMA FromNat ==
  ASSUME TypeOK, Recorded, NEW i \in Project(asserts, merges)
  PROVE  i.from \in Nat /\ i.subj \in Subjects /\ i.pred \in Predicates
         /\ i \in GroupIntervals(i.subj, i.pred, Group(asserts, merges, i.subj, i.pred))
  <1>1. PICK s \in Subjects, p \in Predicates :
          i \in GroupIntervals(s, p, Group(asserts, merges, s, p))
    BY DEF Project
  <1> DEFINE A == Group(asserts, merges, s, p)
  <1>2. Ranked(A)
    BY GroupRanked
  <1>3. i.subj = s /\ i.pred = p
    BY <1>1, IntervalFields
  <1> HIDE DEF A
  <1>4. CASE Kind[p] = "SINGLE"
    BY <1>1, <1>2, <1>4, InstantsNat DEF GroupIntervals, SingleIntervals, A
  <1>5. CASE Kind[p] = "SET"
    <2>1. i \in SetIntervals(s, p, A)
      BY <1>1, <1>5 DEF GroupIntervals, A
    <2>2. PICK e \in A : \E k : i = MemberInterval(s, p, A, k, e)
      BY <2>1 DEF SetIntervals, Affecting
    <2>3. i.from = e.vf
      BY <2>2 DEF MemberInterval
    <2>4. QED
      BY <1>1, <1>2, <1>3, <2>3 DEF Ranked, Shaped
  <1>6. CASE Kind[p] = "APPEND"
    <2>1. i \in AppendIntervals(s, p, A)
      BY <1>1, <1>6 DEF GroupIntervals, A
    <2>2. PICK e \in A : i.from = e.vf
      BY <2>1 DEF AppendIntervals, Asserts
    <2>3. QED
      BY <1>1, <1>2, <1>3, <2>2 DEF Ranked, Shaped
  <1>7. QED
    BY <1>1, <1>3, <1>4, <1>5, <1>6, ProfileAssumption

LEMMA EarliestIn ==
  ASSUME NEW I, I # {}, \A i \in I : i.from \in Nat
  PROVE  Earliest(I) \in I
  <1> DEFINE T == {i.from : i \in I}
  <1>1. T \in SUBSET Nat /\ T # {}
    OBVIOUS
  <1>2. Min(T) \in T /\ \A t \in T : Min(T) <= t
    BY <1>1, MinExists
  <1>3. \E i \in I : \A j \in I : i.from <= j.from
    BY <1>2
  <1>4. QED
    BY <1>3 DEF Earliest

\* The latest of some intervals of a group.
LEMMA LatestIn ==
  ASSUME NEW A, Ranked(A), NEW I, I # {}, \A i \in I : i.from \in Instants(A)
  PROVE  Latest(I) \in I
  <1> DEFINE E == {a \in A : \E i \in I : i.from = a.vf}
  <1>1. Ranked(E)
    BY RankedSubset
  <1>2. Instants(E) = {i.from : i \in I}
    BY DEF Instants
  <1>3. E # {}
    BY <1>2 DEF Instants
  <1>4. Max(Instants(E)) \in Instants(E) /\ \A u \in Instants(E) : u <= Max(Instants(E))
    BY <1>1, <1>3, LastInstant
  <1>5. PICK i \in I : i.from = Max(Instants(E))
    BY <1>2, <1>4
  <1>6. \A j \in I : j.from <= i.from
    BY <1>2, <1>4, <1>5
  <1>7. QED
    BY <1>6 DEF Latest

\* An event that cites an interval of a SINGLE predicate and reports its value.
LEMMA IntervalCited ==
  ASSUME TypeOK, Recorded, NEW s, NEW p \in Predicates, Kind[p] = "SINGLE",
         NEW i \in GroupIntervals(s, p, Group(asserts, merges, s, p)),
         NEW type, NEW subj, NEW old
  PROVE  Cited(Event(type, subj, p, old, {i.key}, OfInterval(i)), asserts)
  <1> DEFINE e == Event(type, subj, p, old, {i.key}, OfInterval(i))
             a == i.opener
  <1>1. a \in asserts /\ a.op = "ASSERT" /\ a.pred = p /\ a.key = i.key /\ a.vf = i.from
    BY OpenerOf
  <1>2. /\ e.pred = p /\ e.new = {i.key} /\ e.vf = i.from /\ e.rec = a.rec
        /\ e.origin = a.origin /\ e.src = a.src
    BY DEF Event, OfInterval
  <1> HIDE DEF e, a
  <1>3. QED
    BY <1>1, <1>2 DEF Cited, e

\* The current value of a SINGLE predicate is one value at most.
LEMMA OneLiveKey ==
  ASSUME TypeOK, Recorded, NEW s \in Subjects, NEW p \in Predicates, Kind[p] = "SINGLE",
         NEW i \in Live(Project(asserts, merges), s, p)
  PROVE  LiveKeys(Project(asserts, merges), s, p) = {i.key}
  <1> DEFINE A == Group(asserts, merges, s, p)
             I == GroupIntervals(s, p, A)
  <1>1. Ranked(A)
    BY GroupRanked
  <1>2. Live(Project(asserts, merges), s, p) = {j \in I : j.to = None}
    BY ProjectGroup DEF Live
  <1> HIDE DEF A
  <1>3. I = SingleIntervals(s, p, A)
    BY DEF GroupIntervals
  <1>4. A # {}
    <2>1. i \in SingleIntervals(s, p, A)
      BY <1>2, <1>3
    <2>2. QED
      BY <2>1 DEF SingleIntervals, Instants
  <1>5. {j.key : j \in {k \in I : k.to = None}} = {Decided(A, Max(Instants(A)))} \ {None}
    BY <1>1, <1>3, <1>4, LiveSingle
  <1> HIDE DEF I
  <1>6. i.key \in {j.key : j \in {k \in I : k.to = None}}
    BY <1>2
  <1>7. {j.key : j \in {k \in I : k.to = None}} = {i.key}
    BY <1>5, <1>6
  <1>8. QED
    BY <1>2, <1>7 DEF LiveKeys

\* What a rebuild derives, whatever the view was before it.
LEMMA DerivedCited ==
  ASSUME TypeOK, Recorded, NEW prev,
         NEW e \in Derive(prev, Project(asserts, merges), asserts, merges),
         e.pred \in Predicates, e.new # {}, Kind[e.pred] = "SINGLE"
  PROVE  Cited(e, asserts)
  <1> DEFINE cur == Project(asserts, merges)
  <1>1. CASE e \in Created(prev, cur)
    <2>1. PICK s \in {i.subj : i \in cur} :
            LET i == Earliest({j \in cur : j.subj = s})
            IN  e = Event("matter_created", s, i.pred, {}, {i.key}, OfInterval(i))
      BY <1>1 DEF Created
    <2> DEFINE I == {j \in cur : j.subj = s}
               i == Earliest(I)
    <2>2. I # {} /\ \A j \in I : j.from \in Nat
      BY FromNat
    <2>3. i \in I
      BY <2>2, EarliestIn
    <2>4. e = Event("matter_created", s, i.pred, {}, {i.key}, OfInterval(i))
      BY <2>1
    <2> HIDE DEF i
    <2>5. /\ i \in GroupIntervals(i.subj, i.pred, Group(asserts, merges, i.subj, i.pred))
          /\ i.pred \in Predicates
      BY <2>3, FromNat
    <2>6. e.pred = i.pred
      BY <2>4 DEF Event
    <2>7. QED
      BY <2>4, <2>5, <2>6, IntervalCited
  <1>2. CASE e \in Adopted(prev, cur)
    <2>1. PICK i \in cur :
            e = Event("decision_adopted", i.subj, i.pred, LiveKeys(prev, i.subj, i.pred),
                      {i.key}, OfInterval(i))
      BY <1>2 DEF Adopted
    <2>2. /\ i \in GroupIntervals(i.subj, i.pred, Group(asserts, merges, i.subj, i.pred))
          /\ i.pred \in Predicates
      BY FromNat
    <2>3. e.pred = i.pred
      BY <2>1 DEF Event
    <2>4. QED
      BY <2>1, <2>2, <2>3, IntervalCited
  <1>3. ASSUME NEW s \in Subjects, NEW p \in Predicates,
               e \in Changes(prev, cur, asserts, merges, s, p)
        PROVE  Cited(e, asserts)
    <2> DEFINE live == Live(cur, s, p)
               new == LiveKeys(cur, s, p)
               changed == {i \in live : IntervalId(i) \notin Ids(Live(prev, s, p))}
               cited == IF changed # {} THEN changed ELSE live
               A == Group(asserts, merges, s, p)
    <2>0. PICK g \in Triggers(prev, cur, asserts, merges, s, p) :
            \E type : e = Event(type, s, p, LiveKeys(prev, s, p), new, g)
      BY <1>3 DEF Changes
    <2>1. PICK type : e = Event(type, s, p, LiveKeys(prev, s, p), new, g)
      BY <2>0
    <2>2. e.pred = p /\ e.new = new
      BY <2>1 DEF Event
    <2>3. Kind[p] = "SINGLE" /\ new # {}
      BY <2>2
    <2>4. live # {} /\ cited # {} /\ cited \in SUBSET live
      BY <2>3 DEF LiveKeys
    <2>5. g = OfInterval(Latest(cited))
      BY <2>0, <2>4 DEF Triggers
    <2>6. \A i \in live : i \in GroupIntervals(s, p, A)
      BY ProjectGroup DEF Live
    <2> HIDE DEF cited, live
    <2>7. Ranked(A) /\ \A i \in cited : i.from \in Instants(A)
      BY <2>3, <2>4, <2>6, GroupRanked, OpenerOf
    <2>8. Latest(cited) \in cited
      <3> HIDE DEF A
      <3>1. QED
        BY <2>4, <2>7, LatestIn
    <2>9. PICK i \in live : i = Latest(cited)
      BY <2>4, <2>8
    <2>10. new = {i.key}
      BY <2>3, OneLiveKey DEF live
    <2>11. e = Event(type, s, p, LiveKeys(prev, s, p), {i.key}, OfInterval(i))
      BY <2>1, <2>5, <2>9, <2>10
    <2>12. QED
      BY <2>3, <2>6, <2>11, IntervalCited
  <1>4. QED
    BY <1>1, <1>2, <1>3 DEF Derive

DerivesCited ==
  \A prev :
    \A e \in Derive(prev, Project(asserts, merges), asserts, merges) :
      e.pred \in Predicates /\ e.new # {} /\ Kind[e.pred] = "SINGLE" => Cited(e, asserts)

LEMMA AlwaysDerivesCited == Spec => []DerivesCited
  <1>1. TypeOK /\ Recorded => DerivesCited
    BY DerivedCited DEF DerivesCited
  <1>2. QED
    BY <1>1, TypeCorrect, RecordedApart, PTL

\* INV-1: the events of a value can be followed to the assertion that gave it,
\* and that assertion is never removed.
THEOREM EventsAreTraceable == Spec => []EventsTraceable
  <1>1. Init => EventsTraceable
    BY DEF Init, EventsTraceable
  <1>2. ASSUME DerivesCited', EventsTraceable, [Next]_vars
        PROVE  EventsTraceable'
    <2>1. asserts \subseteq asserts'
      <3>1. ASSUME NEW b \in Batches, Ingest(b)
            PROVE  asserts \subseteq asserts'
        <4>1. \A st, c : st.asserts \subseteq Apply(st, c).asserts
          BY DEF Apply
        <4>2. QED
          BY <3>1, <4>1 DEF Ingest, Store
      <3>2. QED
        BY <1>2, <3>1
        DEF Next, PrepareCorrection, CommitCorrection, ReadQueue, FailItem, Dream, Merge,
            Unmerge, Replay, Import, vars, tables
    <2>2. ASSUME \A e \in events' :
                    \/ e \in events \/ e.pred = "subject_merge"
                    \/ e \in Derive(intervals, Project(asserts', merges'), asserts', merges')
          PROVE  EventsTraceable'
      <3>1. ASSUME NEW e \in events', e.pred \in Predicates, e.new # {},
                   Kind[e.pred] = "SINGLE"
            PROVE  Cited(e, asserts')
        <4>1. CASE e \in events
          BY <1>2, <2>1, <3>1, <4>1 DEF EventsTraceable, Cited
        <4>2. CASE e \in Derive(intervals, Project(asserts', merges'), asserts', merges')
          BY <1>2, <3>1, <4>2 DEF DerivesCited
        <4>3. QED
          BY <2>2, <3>1, <4>1, <4>2, RolesAssumption
      <3>2. QED
        BY <3>1 DEF EventsTraceable, Cited
    <2>3. CASE UNCHANGED events
      BY <1>2, <2>1, <2>3 DEF EventsTraceable
    <2>4. ASSUME NEW s \in Subjects, NEW t \in Subjects, NEW m \in MergeOps, Merge(s, t, m)
          PROVE  EventsTraceable'
      <3>1. \A e \in events' :
              \/ e \in events \/ e.pred = "subject_merge"
              \/ e \in Derive(intervals, Project(asserts', merges'), asserts', merges')
        BY <2>4 DEF Merge, MergeEvent, Rebuild
      <3>2. QED
        BY <2>2, <3>1
    <2>5. ASSUME NEW s \in Subjects, NEW m \in MergeOps, Unmerge(s, m)
          PROVE  EventsTraceable'
      <3>1. \A e \in events' :
              \/ e \in events \/ e.pred = "subject_merge"
              \/ e \in Derive(intervals, Project(asserts', merges'), asserts', merges')
        BY <2>5 DEF Unmerge, MergeEvent, Rebuild
      <3>2. QED
        BY <2>2, <3>1
    <2>6. CASE Rebuild({})
      BY <2>2, <2>6 DEF Rebuild
    <2>7. QED
      BY <1>2, <2>3, <2>4, <2>5, <2>6
      DEF Next, Ingest, PrepareCorrection, CommitCorrection, ReadQueue, FailItem, Dream,
          Replay, Import, vars, view
  <1>3. QED
    BY <1>1, <1>2, AlwaysDerivesCited, PTL DEF Spec
=============================================================================
