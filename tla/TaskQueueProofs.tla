--------------------------- MODULE TaskQueueProofs ---------------------------
(***************************************************************************)
(* What holds of TaskQueue for every set of tasks, records and flushers    *)
(* and every cap of attempts.                                              *)
(***************************************************************************)
EXTENDS TaskQueue, FiniteSetTheorems, TLAPS

-----------------------------------------------------------------------------
\* A flusher's local variables follow from where it is in flush: it runs a
\* task of its own list, and what is left to commit is that task's.
LocalsOK ==
  \A w \in Flushers :
    LET f == flush[w]
    IN  /\ f.task # None => f.task \in f.todo /\ f.at \in {"plan", "work", "dream"}
        /\ f.at = "plan" => f.task # None
        /\ f.rest # {} => f.task # None /\ f.rest \subseteq Content[f.task]

TypedInv == TypeOK /\ LocalsOK

LEMMA IdleTyped == Idle \in FlushType
  BY DEF Idle, FlushType

LEMMA EndTyped ==
  ASSUME TypedInv, NEW w \in Flushers, NEW failed \in BOOLEAN, flush[w].task # None,
         End(w, failed), UNCHANGED <<created, ledger, crashes>>
  PROVE  TypedInv'
  <1>1. flush[w].task \in Tasks /\ flush[w].todo \subseteq Tasks
    BY DEF TypedInv, TypeOK, FlushType
  <1>2. flush' \in [Flushers -> FlushType]
    BY <1>1 DEF TypedInv, TypeOK, FlushType, End, Step, Idle
  <1>3. status' \in [Tasks -> {"absent", "pending", "running", "failed", "completed"}]
    BY <1>1 DEF TypedInv, TypeOK, End
  <1>4. attempts' \in [Tasks -> Nat]
    BY <1>1 DEF TypedInv, TypeOK, End
  <1>5. TypeOK'
    BY <1>2, <1>3, <1>4 DEF TypedInv, TypeOK, ledger
  <1>6. LocalsOK'
    BY DEF TypedInv, LocalsOK, TypeOK, End, Step, Idle
  <1>7. QED
    BY <1>5, <1>6 DEF TypedInv

LEMMA CreateTyped ==
  ASSUME TypeOK, NEW t \in Tasks, Create(t)
  PROVE  /\ status' \in [Tasks -> {"absent", "pending", "running", "failed", "completed"}]
         /\ attempts' \in [Tasks -> Nat] /\ created' \in [Tasks -> Nat]
  <1>1. Cardinality({u \in Tasks : status[u] # "absent"}) \in Nat
    BY FS_Subset, FS_CardinalityType, TasksAssumption
  <1>2. QED
    BY <1>1 DEF TypeOK, Create

LEMMA WorkTyped ==
  ASSUME TypedInv, NEW w \in Flushers, Work(w)
  PROVE  TypedInv'
  <1> USE DEF TypedInv
  <1>0. /\ flush[w] \in FlushType
        /\ \A f \in FlushType : flush' = [flush EXCEPT ![w] = f] =>
             flush' \in [Flushers -> FlushType]
    BY DEF TypeOK
  <1>1. ASSUME NEW t \in Tasks, MarkRunning(w, t)
        PROVE  TypedInv'
    <2>1. [flush[w] EXCEPT !.at = "plan", !.task = t] \in FlushType
      BY <1>0 DEF FlushType
    <2>2. flush' \in [Flushers -> FlushType]
      BY <1>0, <1>1, <2>1 DEF MarkRunning, Step
    <2>3. TypeOK'
      BY <1>1, <2>2 DEF TypeOK, MarkRunning, ledger
    <2>4. flush[w].rest = {}
      BY <1>1, TasksAssumption DEF LocalsOK, MarkRunning
    <2>5. LocalsOK'
      BY <1>1, <2>2, <2>4, TasksAssumption DEF LocalsOK, TypeOK, FlushType, MarkRunning, Step
    <2>6. QED
      BY <2>3, <2>5
  <1>2. CASE Plan(w)
    <2>1. flush[w].task \in Tasks
      BY <1>0, <1>2 DEF LocalsOK, Plan, FlushType
    <2>2. Content[flush[w].task] \subseteq Records \cup GivenCards
      <3>1. CASE Kind[flush[w].task] = "messages"
        BY <3>1, <2>1, TasksAssumption
      <3>2. CASE Kind[flush[w].task] = "cards"
        BY <3>2, <2>1 DEF GivenCards
      <3>3. CASE Kind[flush[w].task] = "themes"
        BY <3>3, <2>1, TasksAssumption
      <3>4. QED
        BY <2>1, <3>1, <3>2, <3>3, TasksAssumption
    <2>3. [flush[w] EXCEPT !.at = "work", !.rest = Content[flush[w].task] \ observed]
             \in FlushType
      BY <1>0, <2>2 DEF FlushType
    <2>4. flush' \in [Flushers -> FlushType]
      BY <1>0, <1>2, <2>3 DEF Plan, Step
    <2>5. TypeOK'
      BY <1>2, <2>4 DEF TypeOK, Plan, ledger, rows
    <2>6. LocalsOK'
      BY <1>2, <2>1, <2>4 DEF LocalsOK, TypeOK, FlushType, Plan, Step
    <2>7. QED
      BY <2>5, <2>6
  <1>3. ASSUME NEW k, NEW answer \in Answers \cup {None}, CommitChunk(w, k, answer)
        PROVE  TypedInv'
    <2> DEFINE chunk == {r \in flush[w].rest : Container[r] = k}
               new == IF answer = None THEN {} ELSE {[id |-> <<chunk, answer>>, says |-> answer]}
    <2>1. flush[w].task \in Tasks /\ Kind[flush[w].task] = "messages"
      BY <1>0, <1>3 DEF CommitChunk, Runs, FlushType
    <2>2. chunk \subseteq Records
      BY <2>1, TasksAssumption DEF LocalsOK
    <2>3. new \subseteq AllCards
      BY <2>2 DEF AllCards, ExtractedCards
    <2>4. [flush[w] EXCEPT !.rest = @ \ chunk] \in FlushType
      BY <1>0 DEF FlushType
    <2>5. /\ cards' = cards \cup new /\ distill' = distill \cup (new \ cards)
          /\ observed' = observed \cup chunk
          /\ flush' = [flush EXCEPT ![w] = [flush[w] EXCEPT !.rest = @ \ chunk]]
          /\ UNCHANGED <<status, attempts, created, crashes>>
      BY <1>3 DEF CommitChunk, Accept, Step, rows
    <2> HIDE DEF new
    <2>6. flush' \in [Flushers -> FlushType]
      BY <1>0, <2>4, <2>5
    <2>7. TypeOK'
      BY <2>2, <2>3, <2>5, <2>6 DEF TypeOK
    <2>8. LocalsOK'
      BY <2>5, <2>6 DEF LocalsOK, TypeOK, FlushType
    <2>9. QED
      BY <2>7, <2>8
  <1>4. CASE IngestCards(w)
    <2>1. flush[w].task \in Tasks /\ Kind[flush[w].task] = "cards"
      BY <1>0, <1>4 DEF IngestCards, Runs, FlushType
    <2>2. flush[w].rest \subseteq AllCards
      BY <1>4, <2>1 DEF LocalsOK, IngestCards, AllCards, GivenCards
    <2>3. [flush[w] EXCEPT !.rest = {}] \in FlushType
      BY <1>0 DEF FlushType
    <2>4. flush' \in [Flushers -> FlushType]
      BY <1>0, <1>4, <2>3 DEF IngestCards, Step
    <2>5. TypeOK'
      BY <1>4, <2>2, <2>4 DEF TypeOK, IngestCards, Accept, rows
    <2>6. LocalsOK'
      BY <1>4, <2>4 DEF LocalsOK, TypeOK, FlushType, IngestCards, Step
    <2>7. QED
      BY <2>5, <2>6
  <1>5. CASE FailRun(w)
    BY <1>5, EndTyped DEF FailRun
  <1>6. CASE FinishThemes(w)
    BY <1>6, EndTyped DEF FinishThemes, Runs
  <1>7. CASE ListQueue(w)
    <2>1. [flush[w] EXCEPT !.at = "dream", !.sweep = distill] \in FlushType
      BY <1>0 DEF FlushType, TypeOK
    <2>2. flush' \in [Flushers -> FlushType]
      BY <1>0, <1>7, <2>1 DEF ListQueue, Step
    <2>3. TypeOK'
      BY <1>7, <2>2 DEF TypeOK, ListQueue, ledger, rows
    <2>4. LocalsOK'
      BY <1>7, <2>2 DEF LocalsOK, TypeOK, FlushType, ListQueue, Step
    <2>5. QED
      BY <2>3, <2>4
  <1>8. ASSUME NEW c \in flush[w].sweep, NEW ok \in BOOLEAN, DreamItem(w, c, ok)
        PROVE  TypedInv'
    <2>1. [flush[w] EXCEPT !.sweep = @ \ {c}, !.bad = @ \/ ~ ok] \in FlushType
      BY <1>0 DEF FlushType
    <2>2. flush' \in [Flushers -> FlushType]
      BY <1>0, <1>8, <2>1 DEF DreamItem, Step
    <2>3. TypeOK'
      BY <1>8, <2>2 DEF TypeOK, DreamItem, rows
    <2>4. LocalsOK'
      BY <1>8, <2>2 DEF LocalsOK, TypeOK, FlushType, DreamItem, Step
    <2>5. QED
      BY <2>3, <2>4
  <1>9. CASE Finish(w)
    <2>1. flush[w].bad \in BOOLEAN
      BY <1>0 DEF FlushType
    <2>2. QED
      BY <1>9, <2>1, EndTyped DEF Finish
  <1>10. CASE FinishSweep(w)
    <2>1. [Idle EXCEPT !.at = "end"] \in FlushType
      BY DEF Idle, FlushType
    <2>2. flush' \in [Flushers -> FlushType]
      BY <1>0, <1>10, <2>1 DEF FinishSweep, Step
    <2>3. TypeOK'
      BY <1>10, <2>2 DEF TypeOK, FinishSweep, ledger, rows
    <2>4. LocalsOK'
      BY <1>10, <2>2 DEF LocalsOK, TypeOK, FlushType, FinishSweep, Step, Idle
    <2>5. QED
      BY <2>3, <2>4
  <1>11. ASSUME NEW t \in Tasks, EnqueueThemes(w, t)
         PROVE  TypedInv'
    <2>1. flush' \in [Flushers -> FlushType]
      BY <1>0, <1>11, IdleTyped DEF EnqueueThemes, Step
    <2>2. TypeOK'
      BY <1>11, <2>1, CreateTyped DEF TypeOK, EnqueueThemes, ledger
    <2>3. LocalsOK'
      BY <1>11, <2>1 DEF LocalsOK, TypeOK, FlushType, EnqueueThemes, Step, Idle
    <2>4. QED
      BY <2>2, <2>3
  <1>12. CASE Return(w)
    <2>1. flush' \in [Flushers -> FlushType]
      BY <1>0, <1>12, IdleTyped DEF Return, Step
    <2>2. TypeOK'
      BY <1>12, <2>1 DEF TypeOK, Return, ledger, rows
    <2>3. LocalsOK'
      BY <1>12, <2>1 DEF LocalsOK, TypeOK, FlushType, Return, Step, Idle
    <2>4. QED
      BY <2>2, <2>3
  <1>13. QED
    BY <1>1, <1>2, <1>3, <1>4, <1>5, <1>6, <1>7, <1>8, <1>9, <1>10, <1>11, <1>12 DEF Work

LEMMA TypedStep == TypedInv /\ [Next]_vars => TypedInv'
  <1> SUFFICES ASSUME TypedInv, [Next]_vars
               PROVE  TypedInv'
    OBVIOUS
  <1>1. ASSUME NEW t \in Tasks, Add(t)
        PROVE  TypedInv'
    BY <1>1, CreateTyped DEF TypedInv, TypeOK, LocalsOK, Add, ledger
  <1>2. ASSUME NEW w \in Flushers, Start(w)
        PROVE  TypedInv'
    <2>1. /\ [Idle EXCEPT !.at = "take", !.todo = Ready] \in FlushType
          /\ [Idle EXCEPT !.at = "work"] \in FlushType
      BY DEF Idle, FlushType, Ready
    <2>2. flush' \in [Flushers -> FlushType]
      BY <1>2, <2>1 DEF TypedInv, TypeOK, Start, Step
    <2>3. TypeOK'
      BY <1>2, <2>2 DEF TypedInv, TypeOK, Start, ledger, rows
    <2>4. /\ flush'[w].task = None /\ flush'[w].rest = {} /\ flush'[w].at # "plan"
          /\ \A v \in Flushers \ {w} : flush'[v] = flush[v]
      BY <1>2, <2>2 DEF TypedInv, TypeOK, Start, Step, Idle
    <2>5. LocalsOK'
      BY <2>4 DEF TypedInv, LocalsOK
    <2>6. QED
      BY <2>3, <2>5 DEF TypedInv
  <1>3. CASE Crash
    <2>1. crashes' \in Nat /\ flush' = [w \in Flushers |-> Idle] /\ UNCHANGED <<rows, ledger>>
      BY <1>3 DEF TypedInv, TypeOK, Crash
    <2>2. TypeOK'
      BY <2>1, IdleTyped DEF TypedInv, TypeOK, rows, ledger
    <2>3. LocalsOK'
      BY <2>1 DEF LocalsOK, Idle
    <2>4. QED
      BY <2>2, <2>3 DEF TypedInv
  <1>4. CASE UNCHANGED vars
    BY <1>4 DEF TypedInv, TypeOK, LocalsOK, vars, rows, ledger
  <1>5. QED
    BY <1>1, <1>2, <1>3, <1>4, WorkTyped DEF Next

LEMMA TypedInit == Init => TypedInv
  BY IdleTyped DEF Init, TypedInv, TypeOK, LocalsOK, Idle

LEMMA TypedAlways == Spec => []TypedInv
  BY TypedInit, TypedStep, PTL DEF Spec

\* The task rows, the ledger and the flushers' locals keep their types.
THEOREM TaskTypesCorrect == Spec => []TypeOK
  <1>1. TypedInv => TypeOK
    BY DEF TypedInv
  <1>2. QED
    BY <1>1, TypedAlways, PTL

-----------------------------------------------------------------------------
\* The attempts a task can still be charged: those it has, and one for every
\* flusher that has it on its list.
Holders(t) == {w \in Flushers : t \in flush[w].todo}

ChargedInv ==
  \A t \in Tasks :
    /\ status[t] \in {"absent", "pending"} => attempts[t] = 0
    /\ attempts[t] + Cardinality(Holders(t)) <= MaxAttempts + Cardinality(Flushers) - 1

LEMMA HoldersFinite ==
  ASSUME NEW t \in Tasks
  PROVE  /\ IsFiniteSet(Holders(t)) /\ Cardinality(Holders(t)) \in Nat
         /\ Cardinality(Holders(t)) <= Cardinality(Flushers)
         /\ Cardinality(Flushers) \in Nat
  <1>1. Holders(t) \subseteq Flushers
    BY DEF Holders
  <1>2. QED
    BY <1>1, FS_Subset, FS_CardinalityType, TasksAssumption

\* No list grows and no task is charged or goes back to pending.
LEMMA NotCharged ==
  ASSUME TypedInv, ChargedInv, UNCHANGED attempts, flush' \in [Flushers -> FlushType],
         \A w \in Flushers : flush'[w].todo \subseteq flush[w].todo,
         \A t \in Tasks : status'[t] \in {"absent", "pending"} =>
                           status[t] \in {"absent", "pending"}
  PROVE  ChargedInv'
  <1> SUFFICES ASSUME NEW t \in Tasks
               PROVE  attempts[t] + Cardinality(Holders(t)') <= MaxAttempts + Cardinality(Flushers) - 1
    BY DEF ChargedInv
  <1>1. Holders(t)' \subseteq Holders(t)
    BY DEF Holders
  <1>2. /\ Cardinality(Holders(t)') <= Cardinality(Holders(t))
        /\ Cardinality(Holders(t)') \in Nat
    BY <1>1, HoldersFinite, FS_Subset, FS_CardinalityType
  <1>3. attempts[t] \in Nat
    BY DEF TypedInv, TypeOK
  <1>4. QED
    BY <1>2, <1>3, HoldersFinite, TasksAssumption DEF ChargedInv

\* A run that ends charges its task at most once, and takes it off the list.
LEMMA EndCharges ==
  ASSUME TypedInv, ChargedInv, NEW w \in Flushers, NEW failed \in BOOLEAN,
         flush[w].task # None, End(w, failed)
  PROVE  ChargedInv'
  <1>1. PICK t \in Tasks : t = flush[w].task /\ t \in flush[w].todo
    BY DEF TypedInv, TypeOK, LocalsOK, FlushType
  <1>2. flush'[w].todo = flush[w].todo \ {t} /\ \A v \in Flushers \ {w} : flush'[v] = flush[v]
    BY <1>1 DEF TypedInv, TypeOK, End, Step, Idle
  <1>3. Holders(t)' = Holders(t) \ {w} /\ w \in Holders(t)
    BY <1>1, <1>2 DEF Holders
  <1>4. Cardinality(Holders(t)') = Cardinality(Holders(t)) - 1
    BY <1>1, <1>3, HoldersFinite, FS_RemoveElement
  <1>5. attempts'[t] <= attempts[t] + 1 /\ attempts[t] \in Nat /\ attempts'[t] \in Nat
    BY <1>1 DEF TypedInv, TypeOK, End
  <1>6. ASSUME NEW u \in Tasks \ {t}
        PROVE  Holders(u)' = Holders(u) /\ attempts'[u] = attempts[u] /\ status'[u] = status[u]
    BY <1>1, <1>2 DEF TypedInv, TypeOK, End, Holders
  <1>7. status'[t] \notin {"absent", "pending"}
    BY <1>1 DEF TypedInv, TypeOK, End
  <1>8. attempts'[t] + Cardinality(Holders(t)') <= MaxAttempts + Cardinality(Flushers) - 1
    BY <1>1, <1>4, <1>5, HoldersFinite, TasksAssumption DEF ChargedInv
  <1>9. QED
    BY <1>6, <1>7, <1>8 DEF ChargedInv

LEMMA ChargedStep == TypedInv /\ TypedInv' /\ ChargedInv /\ [Next]_vars => ChargedInv'
  <1> SUFFICES ASSUME TypedInv, TypedInv', ChargedInv, [Next]_vars
               PROVE  ChargedInv'
    OBVIOUS
  <1>0. flush \in [Flushers -> FlushType] /\ flush' \in [Flushers -> FlushType]
    BY DEF TypedInv, TypeOK
  <1>1. ASSUME NEW t \in Tasks, Add(t)
        PROVE  ChargedInv'
    BY <1>0, <1>1, NotCharged DEF TypedInv, TypeOK, Add, Create
  <1>2. ASSUME NEW w \in Flushers, Start(w)
        PROVE  ChargedInv'
    <2> SUFFICES ASSUME NEW t \in Tasks
                 PROVE  attempts[t] + Cardinality(Holders(t)') <= MaxAttempts + Cardinality(Flushers) - 1
      BY <1>2 DEF ChargedInv, Start, rows
    <2>1. attempts[t] \in Nat
      BY DEF TypedInv, TypeOK
    <2>2. /\ IsFiniteSet(Holders(t)') /\ Cardinality(Holders(t)') \in Nat
          /\ Cardinality(Holders(t)') <= Cardinality(Flushers)
      <3>1. Holders(t)' \subseteq Flushers
        BY DEF Holders
      <3>2. QED
        BY <3>1, FS_Subset, FS_CardinalityType, TasksAssumption
    <2>3. CASE Flushable(t)
      <3>1. attempts[t] < MaxAttempts
        BY <2>1, <2>3, TasksAssumption DEF Flushable, ChargedInv
      <3>2. QED
        BY <2>1, <2>2, <3>1, HoldersFinite, TasksAssumption
    <2>4. CASE ~ Flushable(t)
      <3>1. t \notin flush'[w].todo /\ \A v \in Flushers \ {w} : flush'[v] = flush[v]
        BY <1>0, <1>2, <2>4 DEF Start, Step, Idle, Ready
      <3>2. Holders(t)' \subseteq Holders(t)
        BY <3>1 DEF Holders
      <3>3. Cardinality(Holders(t)') <= Cardinality(Holders(t))
        BY <3>2, HoldersFinite, FS_Subset
      <3>4. QED
        BY <2>1, <2>2, <3>3, HoldersFinite, TasksAssumption DEF ChargedInv
    <2>5. QED
      BY <2>3, <2>4
  <1>3. ASSUME NEW w \in Flushers, Work(w)
        PROVE  ChargedInv'
    <2>1. CASE \E failed \in BOOLEAN : flush[w].task # None /\ End(w, failed)
      BY <2>1, EndCharges
    <2>2. CASE \E t \in Tasks : MarkRunning(w, t)
      BY <1>0, <2>2, NotCharged DEF TypedInv, TypeOK, FlushType, MarkRunning, Step
    <2>3. CASE \E t \in Tasks : EnqueueThemes(w, t)
      <3>1. \A v \in Flushers : flush'[v].todo \subseteq flush[v].todo
        BY <1>0, <2>3 DEF EnqueueThemes, Step, Idle
      <3>2. QED
        BY <1>0, <2>3, <3>1, NotCharged DEF TypedInv, TypeOK, EnqueueThemes, Create
    <2>4. CASE /\ UNCHANGED <<status, attempts>>
               /\ \A v \in Flushers : flush'[v].todo \subseteq flush[v].todo
      BY <1>0, <2>4, NotCharged
    <2>5. QED
      <3>1. flush[w].bad \in BOOLEAN
        BY <1>0 DEF FlushType
      <3>2. CASE Plan(w) \/ IngestCards(w) \/ ListQueue(w)
        <4>1. CASE Plan(w)
          BY <1>0, <2>4, <4>1 DEF Plan, Step, rows
        <4>2. CASE IngestCards(w)
          BY <1>0, <2>4, <4>2 DEF IngestCards, Step, rows
        <4>3. CASE ListQueue(w)
          BY <1>0, <2>4, <4>3 DEF ListQueue, Step, rows
        <4>4. QED
          BY <3>2, <4>1, <4>2, <4>3
      <3>7. CASE FinishSweep(w) \/ Return(w)
        BY <1>0, <2>4, <3>7 DEF FinishSweep, Return, Step, Idle, rows
      <3>3. CASE \E k : \E answer \in Answers \cup {None} : CommitChunk(w, k, answer)
        BY <1>0, <2>4, <3>3 DEF CommitChunk, Step, rows
      <3>4. CASE \E c \in flush[w].sweep, ok \in BOOLEAN : DreamItem(w, c, ok)
        BY <1>0, <2>4, <3>4 DEF DreamItem, Step, rows
      <3>5. CASE FailRun(w) \/ FinishThemes(w) \/ Finish(w)
        BY <2>1, <3>1, <3>5 DEF FailRun, FinishThemes, Finish, Runs
      <3>6. QED
        BY <1>3, <2>2, <2>3, <3>2, <3>7, <3>3, <3>4, <3>5 DEF Work
  <1>4. CASE Crash
    BY <1>0, <1>4, NotCharged DEF Crash, Idle, rows
  <1>5. CASE UNCHANGED vars
    BY <1>0, <1>5, NotCharged DEF vars, rows
  <1>6. QED
    BY <1>1, <1>2, <1>3, <1>4, <1>5 DEF Next

LEMMA ChargedInit == Init => ChargedInv
  <1> SUFFICES ASSUME Init, NEW t \in Tasks
               PROVE  attempts[t] + Cardinality(Holders(t)) <= MaxAttempts + Cardinality(Flushers) - 1
    BY DEF Init, ChargedInv
  <1>1. attempts[t] = 0 /\ Holders(t) = {}
    BY DEF Init, Holders, Idle
  <1>2. Cardinality(Flushers) \in Nat \ {0}
    BY TasksAssumption, FS_CardinalityType, FS_EmptySet
  <1>3. QED
    BY <1>1, <1>2, TasksAssumption, FS_EmptySet

\* Overlapping flushes charge a task at most one attempt each beyond its cap,
\* however many of them overlap and whenever the process restarts.
THEOREM OverrunIsBounded == Spec => []OverrunBounded
  <1>1. TypedInv /\ ChargedInv => OverrunBounded
    <2> SUFFICES ASSUME TypedInv, ChargedInv, NEW t \in Tasks
                 PROVE  attempts[t] <= MaxAttempts + Cardinality(Flushers) - 1
      BY DEF OverrunBounded
    <2>1. attempts[t] \in Nat
      BY DEF TypedInv, TypeOK
    <2>2. QED
      BY <2>1, HoldersFinite, TasksAssumption DEF ChargedInv
  <1>2. QED
    BY <1>1, TypedAlways, ChargedInit, ChargedStep, PTL DEF Spec
-----------------------------------------------------------------------------
\* The cards an extraction wrote cite records that are observed, so a chunk of
\* records that are not cannot be answered again.
CitedInv == \A c \in cards \ GivenCards : c.id[1] \subseteq observed

AnsweredInv == CitedInv /\ OneAnswerPerRecord

\* What a commit of a chunk writes.
LEMMA CommitWrites ==
  ASSUME TypedInv, NEW w \in Flushers, NEW k, NEW answer \in Answers \cup {None},
         CommitChunk(w, k, answer)
  PROVE  \E chunk \in SUBSET (flush[w].rest \cap Records) : \E new :
           /\ chunk # {} /\ chunk \cap observed = {} /\ Kind[flush[w].task] = "messages"
           /\ new = {} \/ \E n : new = {n} /\ n.id[1] = chunk
           /\ observed' = observed \cup chunk
           /\ cards' = cards \cup new /\ distill' = distill \cup (new \ cards)
           /\ flush' = [flush EXCEPT ![w] = [flush[w] EXCEPT !.rest = @ \ chunk]]
           /\ status' = status /\ flush[w].at = "work"
  <1> DEFINE chunk == {r \in flush[w].rest : Container[r] = k}
             n == [id |-> <<chunk, answer>>, says |-> answer]
             new == IF answer = None THEN {} ELSE {n}
  <1>1. flush[w].task \in Tasks /\ Kind[flush[w].task] = "messages"
    BY DEF TypedInv, TypeOK, CommitChunk, Runs, FlushType
  <1>2. chunk \subseteq flush[w].rest \cap Records
    BY <1>1, TasksAssumption DEF TypedInv, LocalsOK
  <1>3. n.id[1] = chunk
    OBVIOUS
  <1>4. /\ cards' = cards \cup new /\ distill' = distill \cup (new \ cards)
        /\ observed' = observed \cup chunk /\ chunk # {} /\ chunk \cap observed = {}
        /\ flush' = [flush EXCEPT ![w] = [flush[w] EXCEPT !.rest = @ \ chunk]]
        /\ status' = status /\ flush[w].at = "work"
    BY DEF CommitChunk, Accept, Step, rows, Fresh
  <1>5. new = {} \/ (new = {n} /\ n.id[1] = chunk)
    BY <1>3
  <1> HIDE DEF chunk, n, new
  <1>6. QED
    BY <1>1, <1>2, <1>4, <1>5

\* What a task of cards writes: cards that were given.
LEMMA IngestWrites ==
  ASSUME TypedInv, NEW w \in Flushers, IngestCards(w)
  PROVE  /\ flush[w].task \in Tasks /\ Kind[flush[w].task] = "cards"
         /\ flush[w].rest \subseteq Content[flush[w].task] /\ flush[w].rest \subseteq GivenCards
         /\ cards' = cards \cup flush[w].rest
         /\ distill' = distill \cup (flush[w].rest \ cards)
         /\ flush' = [flush EXCEPT ![w] = [flush[w] EXCEPT !.rest = {}]]
         /\ UNCHANGED <<status, observed>> /\ flush[w].at = "work"
  <1>1. flush[w].task \in Tasks /\ Kind[flush[w].task] = "cards"
    BY DEF TypedInv, TypeOK, IngestCards, Runs, FlushType
  <1>2. flush[w].rest \subseteq Content[flush[w].task] /\ flush[w].rest \subseteq GivenCards
    BY <1>1 DEF TypedInv, LocalsOK, IngestCards, GivenCards
  <1>3. QED
    BY <1>1, <1>2 DEF IngestCards, Accept, Step, rows

\* Every other step leaves the records and the cards alone.
LEMMA LedgerKept ==
  ASSUME [Next]_vars,
         ~ \E w \in Flushers : IngestCards(w),
         ~ \E w \in Flushers, k \in {Container[r] : r \in Records},
              answer \in Answers \cup {None} : CommitChunk(w, k, answer)
  PROVE  UNCHANGED <<observed, cards>>
  <1>1. ASSUME NEW w \in Flushers, Work(w)
        PROVE  UNCHANGED <<observed, cards>>
    <2>1. CASE Plan(w) \/ ListQueue(w)
      BY <2>1 DEF Plan, ListQueue, ledger
    <2>2. CASE FailRun(w) \/ FinishThemes(w) \/ Finish(w) \/ FinishSweep(w) \/ Return(w)
      BY <2>2 DEF FailRun, FinishThemes, Finish, FinishSweep, Return, ledger
    <2>3. CASE \E t \in Tasks : MarkRunning(w, t) \/ EnqueueThemes(w, t)
      BY <2>3 DEF MarkRunning, EnqueueThemes, ledger
    <2>4. CASE \E c \in flush[w].sweep, ok \in BOOLEAN : DreamItem(w, c, ok)
      BY <2>4 DEF DreamItem
    <2>5. QED
      BY <1>1, <2>1, <2>2, <2>3, <2>4 DEF Work
  <1>2. QED
    BY <1>1 DEF Next, Add, Start, Crash, vars, ledger

LEMMA AnsweredStep == TypedInv /\ AnsweredInv /\ [Next]_vars => AnsweredInv'
  <1> SUFFICES ASSUME TypedInv, AnsweredInv, [Next]_vars
               PROVE  AnsweredInv'
    OBVIOUS
  <1>1. ASSUME NEW w \in Flushers, NEW k, NEW answer \in Answers \cup {None},
               CommitChunk(w, k, answer)
        PROVE  AnsweredInv'
    <2> DEFINE Writes(chunk, new) ==
                 /\ chunk # {} /\ chunk \cap observed = {}
                 /\ new = {} \/ \E n : new = {n} /\ n.id[1] = chunk
                 /\ observed' = observed \cup chunk /\ cards' = cards \cup new
    <2>0. PICK chunk \in SUBSET (flush[w].rest \cap Records) : \E new : Writes(chunk, new)
      BY <1>1, CommitWrites
    <2>1. PICK new : Writes(chunk, new)
      BY <2>0
    <2>2. \A c \in new : c.id[1] = chunk
      BY <2>1
    <2>3. \A c, d \in new : c = d
      BY <2>1
    <2>4. CitedInv'
      BY <2>1, <2>2 DEF AnsweredInv, CitedInv, GivenCards
    <2>5. OneAnswerPerRecord'
      BY <2>1, <2>2, <2>3 DEF AnsweredInv, CitedInv, OneAnswerPerRecord, GivenCards
    <2>6. QED
      BY <2>4, <2>5 DEF AnsweredInv
  <1>2. ASSUME NEW w \in Flushers, IngestCards(w)
        PROVE  AnsweredInv'
    <2>1. cards' \ GivenCards = cards \ GivenCards /\ observed' = observed
      BY <1>2, IngestWrites
    <2>2. QED
      BY <2>1 DEF AnsweredInv, CitedInv, OneAnswerPerRecord, GivenCards
  <1>3. CASE UNCHANGED <<observed, cards>>
    BY <1>3 DEF AnsweredInv, CitedInv, OneAnswerPerRecord, GivenCards
  <1>4. QED
    BY <1>1, <1>2, <1>3, LedgerKept

LEMMA AnsweredInit == Init => AnsweredInv
  BY DEF Init, AnsweredInv, CitedInv, OneAnswerPerRecord

LEMMA AnsweredAlways == Spec => []AnsweredInv
  BY AnsweredInit, AnsweredStep, TypedAlways, PTL DEF Spec

\* However flushes overlap and whenever the process restarts, two extracted
\* cards never cite the same record observation.
THEOREM RecordsAnsweredOnce == Spec => []OneAnswerPerRecord
  <1>1. AnsweredInv => OneAnswerPerRecord
    BY DEF AnsweredInv
  <1>2. QED
    BY <1>1, AnsweredAlways, PTL

-----------------------------------------------------------------------------
\* What is left in a flusher's hands covers what its task is still short of:
\* what it put aside is in the ledger, and what waits for distillation is in its
\* sweep, unless an item failed.
Ingested(t, done) ==
  /\ Kind[t] = "messages" => done \subseteq observed
  /\ Kind[t] = "cards" => done \subseteq cards

Owns(t, c) ==
  \/ Kind[t] = "messages" /\ c \notin GivenCards /\ c.id[1] \cap Content[t] # {}
  \/ Kind[t] = "cards" /\ c \in Content[t]

Covered(f) ==
  f.task # None =>
    /\ f.at \in {"work", "dream"} => Ingested(f.task, Content[f.task] \ f.rest)
    /\ f.at = "dream" =>
         /\ f.rest = {} /\ Kind[f.task] # "themes"
         /\ f.bad \/ \A c \in distill : Owns(f.task, c) => c \in f.sweep

Done(t) == Ingested(t, Content[t]) /\ \A c \in distill : ~ Owns(t, c)

DoneInv ==
  /\ \A w \in Flushers : Covered(flush[w])
  /\ \A t \in Tasks : status[t] = "completed" => Kind[t] = "themes" \/ Done(t)

\* The ledger only grows, and what is queued anew belongs to no task whose
\* content is in it.
LEMMA LedgerGrows ==
  ASSUME TypedInv, [Next]_vars
  PROVE  /\ observed \subseteq observed' /\ cards \subseteq cards'
         /\ \A t \in Tasks : Ingested(t, Content[t]) =>
              \A c \in distill' \ distill : ~ Owns(t, c)
  <1>1. ASSUME NEW w \in Flushers, NEW k, NEW answer \in Answers \cup {None},
               CommitChunk(w, k, answer)
        PROVE  /\ observed \subseteq observed' /\ cards \subseteq cards'
               /\ \A t \in Tasks : Ingested(t, Content[t]) =>
                    \A c \in distill' \ distill : ~ Owns(t, c)
    <2> DEFINE Writes(chunk, new) ==
                 /\ chunk \cap observed = {}
                 /\ new = {} \/ \E n : new = {n} /\ n.id[1] = chunk
                 /\ observed' = observed \cup chunk
                 /\ cards' = cards \cup new /\ distill' = distill \cup (new \ cards)
    <2>0. PICK chunk \in SUBSET (flush[w].rest \cap Records) : \E new : Writes(chunk, new)
      BY <1>1, CommitWrites
    <2>1. PICK new : Writes(chunk, new)
      BY <2>0
    <2>2. \A c \in new : c.id[1] \cap observed = {}
      BY <2>1
    <2>3. ASSUME NEW t \in Tasks, Ingested(t, Content[t]), NEW c \in distill' \ distill
          PROVE  ~ Owns(t, c)
      <3>1. c \in new /\ c \notin cards /\ c.id[1] \cap observed = {}
        BY <2>1, <2>2, <2>3
      <3>2. QED
        BY <2>3, <3>1 DEF Owns, Ingested
    <2>4. QED
      BY <2>1, <2>3
  <1>2. ASSUME NEW w \in Flushers, IngestCards(w)
        PROVE  /\ observed \subseteq observed' /\ cards \subseteq cards'
               /\ \A t \in Tasks : Ingested(t, Content[t]) =>
                    \A c \in distill' \ distill : ~ Owns(t, c)
    BY <1>2, IngestWrites DEF Owns, Ingested
  <1>3. ASSUME ~ \E w \in Flushers : IngestCards(w),
               ~ \E w \in Flushers, k \in {Container[r] : r \in Records},
                    answer \in Answers \cup {None} : CommitChunk(w, k, answer)
        PROVE  UNCHANGED <<observed, cards>> /\ distill' \subseteq distill
    <2>1. UNCHANGED <<observed, cards>>
      BY <1>3, LedgerKept
    <2>2. ASSUME NEW w \in Flushers, Work(w)
          PROVE  distill' \subseteq distill
      <3>1. CASE Plan(w) \/ ListQueue(w)
        BY <3>1 DEF Plan, ListQueue, ledger
      <3>2. CASE FailRun(w) \/ FinishThemes(w) \/ Finish(w) \/ FinishSweep(w) \/ Return(w)
        BY <3>2 DEF FailRun, FinishThemes, Finish, FinishSweep, Return, ledger
      <3>3. CASE \E t \in Tasks : MarkRunning(w, t) \/ EnqueueThemes(w, t)
        BY <3>3 DEF MarkRunning, EnqueueThemes, ledger
      <3>4. CASE \E c \in flush[w].sweep, ok \in BOOLEAN : DreamItem(w, c, ok)
        BY <3>4 DEF DreamItem
      <3>5. QED
        BY <1>3, <2>2, <3>1, <3>2, <3>3, <3>4 DEF Work
    <2>3. distill' \subseteq distill
      BY <2>2 DEF Next, Add, Start, Crash, vars, ledger
    <2>4. QED
      BY <2>1, <2>3
  <1>4. QED
    BY <1>1, <1>2, <1>3

\* A step that does not touch a flusher's locals, or a task's row, leaves them
\* covered.
LEMMA CoverKept ==
  ASSUME TypedInv, DoneInv, [Next]_vars
  PROVE  /\ \A w \in Flushers : flush'[w] = flush[w] => Covered(flush[w])'
         /\ \A t \in Tasks : status[t] = "completed" => Kind[t] = "themes" \/ Done(t)'
  <1>1. ASSUME NEW w \in Flushers, flush'[w] = flush[w]
        PROVE  Covered(flush[w])'
    <2>1. flush[w].task # None => flush[w].task \in Tasks
      BY DEF TypedInv, TypeOK, FlushType
    <2>2. flush[w].rest = {} => Content[flush[w].task] \ flush[w].rest = Content[flush[w].task]
      OBVIOUS
    <2>3. QED
      BY <1>1, <2>1, <2>2, LedgerGrows DEF DoneInv, Covered, Ingested, Owns, GivenCards
  <1>2. ASSUME NEW t \in Tasks, status[t] = "completed", Kind[t] # "themes"
        PROVE  Done(t)'
    BY <1>2, LedgerGrows DEF DoneInv, Done, Ingested, Owns, GivenCards
  <1>3. QED
    BY <1>1, <1>2

LEMMA DoneStep == TypedInv /\ DoneInv /\ [Next]_vars => DoneInv'
  <1> SUFFICES ASSUME TypedInv, DoneInv, [Next]_vars
               PROVE  DoneInv'
    OBVIOUS
  <1>0. flush \in [Flushers -> FlushType] /\ status \in [Tasks -> {"absent", "pending",
          "running", "failed", "completed"}]
    BY DEF TypedInv, TypeOK
  \* It is enough to look at the flusher that moved and at a task that completed.
  <1>1. ASSUME NEW w \in Flushers,
               \A v \in Flushers \ {w} : flush'[v] = flush[v],
               Covered(flush[w])',
               \A t \in Tasks : status'[t] = "completed" =>
                 status[t] = "completed" \/ Kind[t] = "themes" \/ Done(t)'
        PROVE  DoneInv'
    <2>1. \A v \in Flushers : Covered(flush[v])'
      BY <1>1, CoverKept
    <2>2. \A t \in Tasks : status'[t] = "completed" => Kind[t] = "themes" \/ Done(t)'
      BY <1>1, CoverKept
    <2>3. QED
      BY <2>1, <2>2 DEF DoneInv, Done, Ingested, Owns, Covered
  <1>2. ASSUME NEW t \in Tasks, Add(t)
        PROVE  DoneInv'
    <2>1. \A v \in Flushers : flush'[v] = flush[v]
      BY <1>2 DEF Add
    <2>2. \A u \in Tasks : status'[u] = "completed" => status[u] = "completed"
      BY <1>0, <1>2 DEF Add, Create
    <2>3. QED
      BY <2>1, <2>2, CoverKept, TasksAssumption, <1>1
  <1>3. ASSUME NEW w \in Flushers, Start(w)
        PROVE  DoneInv'
    <2>1. flush'[w].task = None /\ \A v \in Flushers \ {w} : flush'[v] = flush[v]
      BY <1>0, <1>3 DEF Start, Step, Idle
    <2>2. QED
      BY <1>1, <1>3, <2>1 DEF Covered, Start, rows
  <1>4. ASSUME NEW w \in Flushers, Work(w)
        PROVE  DoneInv'
    <2>0. flush[w] \in FlushType
      BY <1>0
    <2>1. ASSUME NEW t \in Tasks, MarkRunning(w, t)
          PROVE  DoneInv'
      <3>1. flush'[w].at = "plan" /\ \A v \in Flushers \ {w} : flush'[v] = flush[v]
        BY <1>0, <2>0, <2>1 DEF MarkRunning, Step, FlushType
      <3>2. \A u \in Tasks : status'[u] = "completed" => status[u] = "completed"
        BY <1>0, <2>1 DEF MarkRunning
      <3>3. QED
        BY <1>1, <3>1, <3>2 DEF Covered
    <2>2. CASE Plan(w)
      <3>1. PICK t \in Tasks : t = flush[w].task
        BY <2>0, <2>2 DEF TypedInv, LocalsOK, Plan, FlushType
      <3>2. /\ flush'[w] = [flush[w] EXCEPT !.at = "work", !.rest = Content[t] \ observed]
            /\ \A v \in Flushers \ {w} : flush'[v] = flush[v]
        BY <1>0, <2>2, <3>1 DEF Plan, Step
      <3>3. Content[t] \ (Content[t] \ observed) = Content[t] \cap observed
        OBVIOUS
      <3>4. Kind[t] = "cards" => Content[t] \cap observed = {}
        BY TasksAssumption DEF TypedInv, TypeOK
      <3>5. Ingested(t, Content[t] \cap observed)'
        BY <2>2, <3>4 DEF Ingested, Plan, ledger
      <3>6. /\ flush'[w].task = t /\ flush'[w].rest = Content[t] \ observed
            /\ flush'[w].at = "work"
        BY <2>0, <3>1, <3>2 DEF FlushType
      <3>7. Covered(flush[w])'
        BY <2>2, <3>3, <3>5, <3>6 DEF Covered, Ingested, Plan, ledger
      <3>8. QED
        BY <1>1, <2>2, <3>2, <3>7 DEF Plan, rows
    <2>3. ASSUME NEW k, NEW answer \in Answers \cup {None}, CommitChunk(w, k, answer)
          PROVE  DoneInv'
      <3>1. PICK chunk \in SUBSET (flush[w].rest \cap Records) :
              /\ Kind[flush[w].task] = "messages" /\ observed' = observed \cup chunk
              /\ flush' = [flush EXCEPT ![w] = [flush[w] EXCEPT !.rest = @ \ chunk]]
              /\ status' = status /\ flush[w].at = "work"
        BY <2>3, CommitWrites
      <3>2. /\ flush'[w] = [flush[w] EXCEPT !.rest = @ \ chunk]
            /\ \A v \in Flushers \ {w} : flush'[v] = flush[v]
        BY <1>0, <3>1
      <3>3. flush[w].task # None =>
              Ingested(flush[w].task, Content[flush[w].task] \ flush[w].rest)
        BY <3>1 DEF DoneInv, Covered
      <3>4. flush[w].task # None =>
              Ingested(flush[w].task, Content[flush[w].task] \ (flush[w].rest \ chunk))'
        BY <3>1, <3>3 DEF Ingested
      <3>5. /\ flush'[w].task = flush[w].task /\ flush'[w].at = "work"
            /\ flush'[w].rest = flush[w].rest \ chunk
        BY <2>0, <3>1, <3>2 DEF FlushType
      <3>6. Covered(flush[w])'
        BY <3>4, <3>5 DEF Covered, Ingested
      <3>7. QED
        BY <1>1, <3>1, <3>2, <3>6
    <2>4. CASE IngestCards(w)
      <3>1. /\ Kind[flush[w].task] = "cards" /\ cards' = cards \cup flush[w].rest
            /\ flush' = [flush EXCEPT ![w] = [flush[w] EXCEPT !.rest = {}]]
            /\ status' = status /\ flush[w].at = "work"
        BY <2>4, IngestWrites
      <3>2. /\ flush'[w] = [flush[w] EXCEPT !.rest = {}]
            /\ \A v \in Flushers \ {w} : flush'[v] = flush[v]
        BY <1>0, <3>1
      <3>3. flush[w].task # None =>
              Ingested(flush[w].task, Content[flush[w].task] \ flush[w].rest)
        BY <3>1 DEF DoneInv, Covered
      <3>4. flush[w].task # None => Ingested(flush[w].task, Content[flush[w].task] \ {})'
        BY <3>1, <3>3 DEF Ingested
      <3>5. /\ flush'[w].task = flush[w].task /\ flush'[w].at = "work"
            /\ flush'[w].rest = {}
        BY <2>0, <3>1, <3>2 DEF FlushType
      <3>6. Covered(flush[w])'
        BY <3>4, <3>5 DEF Covered, Ingested
      <3>7. QED
        BY <1>1, <3>1, <3>2, <3>6
    <2>5. CASE ListQueue(w)
      <3>1. /\ flush'[w] = [flush[w] EXCEPT !.at = "dream", !.sweep = distill]
            /\ \A v \in Flushers \ {w} : flush'[v] = flush[v]
        BY <1>0, <2>5 DEF ListQueue, Step
      <3>2. Covered(flush[w])'
        BY <2>0, <2>5, <3>1 DEF DoneInv, Covered, Ingested, Owns, ListQueue, FlushType, Runs, ledger
      <3>3. QED
        BY <1>1, <2>5, <3>1, <3>2 DEF ListQueue, rows
    <2>6. ASSUME NEW c \in flush[w].sweep, NEW ok \in BOOLEAN, DreamItem(w, c, ok)
          PROVE  DoneInv'
      <3>1. /\ flush'[w] = [flush[w] EXCEPT !.sweep = @ \ {c}, !.bad = @ \/ ~ ok]
            /\ \A v \in Flushers \ {w} : flush'[v] = flush[v]
            /\ distill' = IF ok THEN distill \ {c} ELSE distill
            /\ UNCHANGED <<status, observed, cards>> /\ flush[w].at = "dream"
        BY <1>0, <2>6 DEF DreamItem, Step, rows
      <3>2. /\ flush'[w].task = flush[w].task /\ flush'[w].rest = flush[w].rest
            /\ flush'[w].at = "dream" /\ flush'[w].sweep = flush[w].sweep \ {c}
            /\ flush'[w].bad = (flush[w].bad \/ ~ ok)
        BY <2>0, <3>1 DEF FlushType
      <3>3. Covered(flush[w])
        BY DEF DoneInv
      <3>4. ASSUME flush[w].task # None
            PROVE  Covered(flush[w])'
        <4>1. CASE ok
          BY <3>1, <3>2, <3>3, <3>4, <4>1 DEF Covered, Ingested, Owns
        <4>2. CASE ~ ok
          BY <3>1, <3>2, <3>3, <3>4, <4>2 DEF Covered, Ingested, Owns
        <4>3. QED
          BY <4>1, <4>2
      <3>5. Covered(flush[w])'
        BY <3>2, <3>4 DEF Covered
      <3>6. QED
        BY <1>1, <3>1, <3>5
    <2>7. ASSUME NEW failed \in BOOLEAN, flush[w].task # None, End(w, failed),
                 UNCHANGED ledger,
                 failed \/ Kind[flush[w].task] = "themes" \/ Done(flush[w].task)
          PROVE  DoneInv'
      <3>1. PICK t \in Tasks : t = flush[w].task
        BY <2>0, <2>7 DEF FlushType
      <3>2. flush'[w].task = None /\ \A v \in Flushers \ {w} : flush'[v] = flush[v]
        BY <1>0, <2>7 DEF End, Step, Idle
      <3>3. \A u \in Tasks : status'[u] = "completed" =>
              status[u] = "completed" \/ (u = t /\ ~ failed)
        BY <1>0, <2>7, <3>1 DEF End
      <3>4. Done(t) => Done(t)'
        BY <2>7 DEF Done, Ingested, Owns, ledger
      <3>5. failed \/ Kind[t] = "themes" \/ Done(t)
        BY <2>7, <3>1
      <3>6. Covered(flush[w])'
        BY <3>2 DEF Covered
      <3>7. QED
        BY <1>1, <3>2, <3>3, <3>4, <3>5, <3>6
    <2>8. CASE FailRun(w)
      BY <2>7, <2>8 DEF FailRun
    <2>9. CASE FinishThemes(w)
      BY <2>7, <2>9 DEF FinishThemes, Runs
    <2>10. CASE Finish(w)
      <3>1. flush[w].bad \in BOOLEAN
        BY <2>0 DEF FlushType
      <3>2. flush[w].bad \/ Done(flush[w].task)
        BY <2>10 DEF DoneInv, Covered, Done, Ingested, Finish
      <3>3. QED
        BY <2>7, <2>10, <3>1, <3>2 DEF Finish
    <2>11. CASE FinishSweep(w) \/ Return(w)
      <3>1. flush'[w].task = None /\ \A v \in Flushers \ {w} : flush'[v] = flush[v]
        BY <1>0, <2>11 DEF FinishSweep, Return, Step, Idle
      <3>2. QED
        BY <1>1, <2>11, <3>1 DEF Covered, FinishSweep, Return, rows
    <2>12. ASSUME NEW t \in Tasks, EnqueueThemes(w, t)
           PROVE  DoneInv'
      <3>1. flush'[w].task = None /\ \A v \in Flushers \ {w} : flush'[v] = flush[v]
        BY <1>0, <2>12 DEF EnqueueThemes, Step, Idle
      <3>2. \A u \in Tasks : status'[u] = "completed" => status[u] = "completed"
        BY <1>0, <2>12 DEF EnqueueThemes, Create
      <3>3. QED
        BY <1>1, <3>1, <3>2 DEF Covered
    <2>13. QED
      BY <1>4, <2>1, <2>2, <2>3, <2>4, <2>5, <2>6, <2>8, <2>9, <2>10, <2>11, <2>12 DEF Work
  <1>5. CASE Crash
    <2>1. \A w \in Flushers : flush'[w].task = None
      BY <1>5 DEF Crash, Idle
    <2>2. UNCHANGED <<status, observed, cards, distill>>
      BY <1>5 DEF Crash, rows, ledger
    <2>3. QED
      BY <2>1, <2>2 DEF DoneInv, Covered, Done, Ingested, Owns
  <1>6. CASE UNCHANGED vars
    BY <1>6 DEF DoneInv, Covered, Done, Ingested, Owns, vars, rows, ledger
  <1>7. QED
    BY <1>2, <1>3, <1>4, <1>5, <1>6 DEF Next

LEMMA DoneInit == Init => DoneInv
  BY DEF Init, DoneInv, Covered, Idle

\* A task that completed is done, whichever flusher completed it and whatever
\* the others and later restarts did to the ledger and the queue meanwhile.
THEOREM CompletedTasksAreDone == Spec => []CompletedIsDone
  <1>1. TypedInv /\ DoneInv => CompletedIsDone
    BY DEF TypedInv, DoneInv, CompletedIsDone, Done, Ingested, Owns
  <1>2. QED
    BY <1>1, TypedAlways, DoneInit, DoneStep, PTL DEF Spec

-----------------------------------------------------------------------------
\* Until the process is restarted for the first time, a task is marked running
\* by a flusher that is running it: what End and MarkRunning write over is never
\* the row of a task that is in nobody's hands.
THEOREM OnlyRestartsStrand == Spec => [](crashes = 0 => NothingStranded)
  <1> DEFINE Inv == crashes = 0 => NothingStranded
  <1>1. Init => Inv
    BY DEF Init, NothingStranded
  <1>2. TypedInv /\ Inv /\ [Next]_vars => Inv'
    <2> SUFFICES ASSUME TypedInv, crashes = 0 => NothingStranded, [Next]_vars, crashes' = 0
                 PROVE  NothingStranded'
      OBVIOUS
    <2>0. /\ flush \in [Flushers -> FlushType]
          /\ status \in [Tasks -> {"absent", "pending", "running", "failed", "completed"}]
          /\ crashes \in Nat
      BY DEF TypedInv, TypeOK
    \* A flusher lets go of a task only by ending its run.
    <2>1. ASSUME NEW w \in Flushers, NothingStranded,
                 \A v \in Flushers \ {w} : flush'[v] = flush[v],
                 \/ flush[w].task = None
                 \/ flush'[w].task = flush[w].task /\ flush'[w].at \in {"plan", "work", "dream"}
                 \/ status'[flush[w].task] # "running",
                 \A t \in Tasks : status'[t] = "running" =>
                   \/ status[t] = "running"
                   \/ flush'[w].at \in {"plan", "work", "dream"} /\ flush'[w].task = t
          PROVE  NothingStranded'
      <3> SUFFICES ASSUME NEW t \in Tasks, status'[t] = "running"
                   PROVE  \E v \in Flushers :
                            flush'[v].at \in {"plan", "work", "dream"} /\ flush'[v].task = t
        BY DEF NothingStranded
      <3>1. CASE status[t] = "running"
        <4>1. PICK v \in Flushers : flush[v].at \in {"plan", "work", "dream"} /\ flush[v].task = t
          BY <2>1, <3>1 DEF NothingStranded
        <4>2. CASE v # w
          BY <2>1, <4>1, <4>2
        <4>3. CASE v = w
          BY <2>1, <4>1, <4>3, TasksAssumption
        <4>4. QED
          BY <4>2, <4>3
      <3>2. QED
        BY <2>1, <3>1
    <2>2. crashes = 0 /\ ~ Crash
      <3>1. CASE Crash
        BY <2>0, <3>1 DEF Crash
      <3>2. ASSUME NEW w \in Flushers, Work(w)
            PROVE  crashes' = crashes
        <4>1. CASE Plan(w) \/ IngestCards(w) \/ ListQueue(w)
          BY <4>1 DEF Plan, IngestCards, ListQueue
        <4>2. CASE \E k : \E answer \in Answers \cup {None} : CommitChunk(w, k, answer)
          BY <4>2 DEF CommitChunk
        <4>3. CASE \E c \in flush[w].sweep, ok \in BOOLEAN : DreamItem(w, c, ok)
          BY <4>3 DEF DreamItem
        <4>4. CASE FailRun(w) \/ FinishThemes(w) \/ Finish(w) \/ FinishSweep(w) \/ Return(w)
          BY <4>4 DEF FailRun, FinishThemes, Finish, FinishSweep, Return
        <4>5. CASE \E t \in Tasks : MarkRunning(w, t) \/ EnqueueThemes(w, t)
          BY <4>5 DEF MarkRunning, EnqueueThemes
        <4>6. QED
          BY <3>2, <4>1, <4>2, <4>3, <4>4, <4>5 DEF Work
      <3>3. QED
        BY <3>1, <3>2 DEF Next, Add, Start, vars
    <2>3. ASSUME NEW t \in Tasks, Add(t)
          PROVE  NothingStranded'
      BY <2>0, <2>2, <2>3 DEF Add, Create, NothingStranded
    <2>4. ASSUME NEW w \in Flushers, Start(w)
          PROVE  NothingStranded'
      <3>1. flush[w].task = None /\ \A v \in Flushers \ {w} : flush'[v] = flush[v]
        BY <2>0, <2>4 DEF Start, Step, TypedInv, LocalsOK
      <3>2. QED
        BY <2>1, <2>2, <2>4, <3>1 DEF Start, rows
    <2>5. ASSUME NEW w \in Flushers, Work(w)
          PROVE  NothingStranded'
      <3>0. flush[w] \in FlushType /\ \A v \in Flushers \ {w} : \A f :
              Step(w, f) => flush'[v] = flush[v] /\ flush'[w] = f
        BY <2>0 DEF Step
      <3>1. ASSUME NEW t \in Tasks, MarkRunning(w, t)
            PROVE  NothingStranded'
        <4>1. /\ flush'[w].at = "plan" /\ flush'[w].task = t /\ flush[w].task = None
              /\ \A v \in Flushers \ {w} : flush'[v] = flush[v]
          BY <2>0, <3>0, <3>1 DEF MarkRunning, Step, FlushType, TypedInv, LocalsOK
        <4>2. QED
          BY <2>0, <2>1, <2>2, <3>1, <4>1 DEF MarkRunning
      <3>2. ASSUME \/ Plan(w) \/ IngestCards(w) \/ ListQueue(w)
                   \/ \E k : \E answer \in Answers \cup {None} : CommitChunk(w, k, answer)
                   \/ \E c \in flush[w].sweep, ok \in BOOLEAN : DreamItem(w, c, ok)
            PROVE  /\ flush'[w].task = flush[w].task
                   /\ flush'[w].at \in {"plan", "work", "dream"}
                   /\ \A v \in Flushers \ {w} : flush'[v] = flush[v]
                   /\ status' = status
        <4>1. CASE Plan(w) \/ IngestCards(w) \/ ListQueue(w)
          <5>1. CASE Plan(w)
            BY <2>0, <3>0, <5>1 DEF Plan, Step, rows, FlushType
          <5>2. CASE IngestCards(w)
            BY <2>0, <3>0, <5>2 DEF IngestCards, Step, rows, FlushType
          <5>3. CASE ListQueue(w)
            BY <2>0, <3>0, <5>3 DEF ListQueue, Step, rows, FlushType
          <5>4. QED
            BY <4>1, <5>1, <5>2, <5>3
        <4>2. CASE \E k : \E answer \in Answers \cup {None} : CommitChunk(w, k, answer)
          BY <2>0, <3>0, <4>2 DEF CommitChunk, Step, rows, FlushType
        <4>3. CASE \E c \in flush[w].sweep, ok \in BOOLEAN : DreamItem(w, c, ok)
          BY <2>0, <3>0, <4>3 DEF DreamItem, Step, rows, FlushType
        <4>4. QED
          BY <3>2, <4>1, <4>2, <4>3
      <3>3. CASE \E failed \in BOOLEAN : flush[w].task # None /\ End(w, failed)
        <4>1. flush[w].task \in Tasks /\ \A v \in Flushers \ {w} : flush'[v] = flush[v]
          BY <2>0, <3>0, <3>3 DEF End, Step, FlushType
        <4>2. status'[flush[w].task] # "running" /\
              \A t \in Tasks : status'[t] = "running" => status[t] = "running"
          BY <2>0, <3>3, <4>1 DEF End
        <4>3. QED
          BY <2>1, <2>2, <4>1, <4>2
      <3>4. CASE FailRun(w) \/ FinishThemes(w) \/ Finish(w)
        BY <3>0, <3>3, <3>4 DEF FailRun, FinishThemes, Finish, Runs, FlushType
      <3>5. CASE FinishSweep(w) \/ Return(w)
        <4>1. flush[w].task = None /\ \A v \in Flushers \ {w} : flush'[v] = flush[v]
          BY <2>0, <3>5 DEF FinishSweep, Return, Step, TypedInv, LocalsOK
        <4>2. QED
          BY <2>1, <2>2, <3>5, <4>1 DEF FinishSweep, Return, rows
      <3>6. ASSUME NEW t \in Tasks, EnqueueThemes(w, t)
            PROVE  NothingStranded'
        <4>1. flush[w].task = None /\ \A v \in Flushers \ {w} : flush'[v] = flush[v]
          BY <2>0, <3>6 DEF EnqueueThemes, Step, TypedInv, LocalsOK
        <4>2. \A u \in Tasks : status'[u] = "running" => status[u] = "running"
          BY <2>0, <3>6 DEF EnqueueThemes, Create
        <4>3. QED
          BY <2>1, <2>2, <4>1, <4>2
      <3>7. QED
        BY <2>1, <2>2, <2>5, <3>1, <3>2, <3>4, <3>5, <3>6 DEF Work
    <2>6. CASE UNCHANGED vars
      BY <2>2, <2>6 DEF vars, rows, NothingStranded
    <2>7. QED
      BY <2>2, <2>3, <2>4, <2>5, <2>6 DEF Next
  <1>3. QED
    BY <1>1, <1>2, TypedAlways, PTL DEF Spec

-----------------------------------------------------------------------------
\* A single flusher: its list holds flushable tasks, and the row of the one it
\* runs says so.
AloneInv ==
  \A w \in Flushers :
    /\ \A t \in flush[w].todo \ {flush[w].task} : Flushable(t)
    /\ flush[w].task # None => status[flush[w].task] = "running"

\* A run that ends takes its task from running to completed or failed.
LEMMA EndAlone ==
  ASSUME TypedInv, AloneInv, Flushers = {Scheduler}, NEW w \in Flushers,
         NEW failed \in BOOLEAN, flush[w].task # None, End(w, failed)
  PROVE  AloneInv' /\ Contract!Next
  <1>1. PICK t \in Tasks : t = flush[w].task /\ status[t] = "running"
    BY DEF TypedInv, TypeOK, FlushType, AloneInv
  <1>2. flush'[w].todo = flush[w].todo \ {t} /\ flush'[w].task = None
    BY <1>1 DEF TypedInv, TypeOK, End, Step, Idle
  <1>3. \A u \in Tasks \ {t} : status'[u] = status[u] /\ attempts'[u] = attempts[u]
    BY <1>1 DEF TypedInv, TypeOK, End
  <1>4. flush[w].todo \subseteq Tasks /\ \A v \in Flushers : v = w
    BY DEF TypedInv, TypeOK, FlushType
  <1>5. AloneInv'
    BY <1>1, <1>2, <1>3, <1>4 DEF AloneInv, Flushable
  <1>6. Contract!Complete(t) \/ Contract!Fail(t)
    <2>1. CASE failed
      BY <1>1, <2>1 DEF End, Contract!Fail, Contract!Becomes
    <2>2. CASE ~ failed
      <3>1. attempts' = attempts
        BY <1>1, <2>2 DEF TypedInv, TypeOK, End
      <3>2. QED
        BY <1>1, <2>2, <3>1 DEF End, Contract!Complete, Contract!Becomes
    <2>3. QED
      BY <2>1, <2>2
  <1>7. QED
    BY <1>5, <1>6 DEF Contract!Next

LEMMA CreateAlone ==
  ASSUME TypedInv, AloneInv, NEW t \in Tasks, Create(t),
         \A w \in Flushers : flush'[w] = flush[w] \/ flush'[w] = Idle
  PROVE  AloneInv' /\ Contract!Next
  <1>1. AloneInv'
    BY DEF TypedInv, TypeOK, FlushType, AloneInv, Create, Flushable, Idle
  <1>2. Contract!Submit(t)
    BY DEF Create, Contract!Submit, Contract!Becomes
  <1>3. QED
    BY <1>1, <1>2 DEF Contract!Next

LEMMA AloneStep ==
  ASSUME Flushers = {Scheduler}, TypedInv, AloneInv, [Next]_vars
  PROVE  AloneInv' /\ [Contract!Next]_<<status, attempts>>
  <1>0. flush \in [Flushers -> FlushType]
    BY DEF TypedInv, TypeOK
  <1>1. ASSUME NEW t \in Tasks, Add(t)
        PROVE  AloneInv' /\ [Contract!Next]_<<status, attempts>>
    BY <1>1, CreateAlone DEF Add
  <1>2. ASSUME NEW w \in Flushers, Start(w)
        PROVE  AloneInv' /\ UNCHANGED <<status, attempts>>
    <2>1. flush'[w].task = None /\ flush'[w].todo \subseteq Ready /\ \A v \in Flushers : v = w
      BY <1>0, <1>2 DEF Start, Step, Idle
    <2>2. UNCHANGED <<status, attempts>>
      BY <1>2 DEF Start, rows
    <2>3. QED
      BY <2>1, <2>2 DEF AloneInv, Ready, Flushable
  <1>3. ASSUME NEW w \in Flushers, Work(w)
        PROVE  AloneInv' /\ [Contract!Next]_<<status, attempts>>
    <2>0. flush[w] \in FlushType /\ \A v \in Flushers : v = w
      BY <1>0
    \* The other steps of a run keep its task and its list.
    <2>1. ASSUME UNCHANGED <<status, attempts>>,
                 \/ flush'[w].todo = flush[w].todo /\ flush'[w].task = flush[w].task
                 \/ flush'[w].todo = {} /\ flush'[w].task = None
          PROVE  AloneInv' /\ [Contract!Next]_<<status, attempts>>
      BY <2>0, <2>1 DEF AloneInv, Flushable
    <2>2. ASSUME NEW t \in Tasks, MarkRunning(w, t)
          PROVE  AloneInv' /\ [Contract!Next]_<<status, attempts>>
      <3>1. flush[w].task = None /\ t \in flush[w].todo
        BY <2>0, <2>2 DEF MarkRunning, TypedInv, LocalsOK
      <3>2. Flushable(t)
        BY <3>1, TasksAssumption DEF AloneInv
      <3>3. flush'[w].todo = flush[w].todo /\ flush'[w].task = t
        BY <1>0, <2>0, <2>2 DEF MarkRunning, Step, FlushType
      <3>4. status'[t] = "running" /\ \A u \in Tasks \ {t} : status'[u] = status[u]
        BY <2>2 DEF MarkRunning, TypedInv, TypeOK
      <3>5. AloneInv'
        BY <2>0, <2>2, <3>1, <3>3, <3>4, TasksAssumption
           DEF AloneInv, Flushable, FlushType, MarkRunning
      <3>6. Contract!Run(t)
        BY <2>2, <3>2 DEF MarkRunning, Flushable, Contract!Run, Contract!Becomes
      <3>7. QED
        BY <3>5, <3>6 DEF Contract!Next
    <2>3. CASE Plan(w) \/ IngestCards(w) \/ ListQueue(w)
      <3>1. CASE Plan(w)
        BY <1>0, <2>0, <2>1, <3>1 DEF Plan, Step, rows, FlushType
      <3>2. CASE IngestCards(w)
        BY <1>0, <2>0, <2>1, <3>2 DEF IngestCards, Step, rows, FlushType
      <3>3. CASE ListQueue(w)
        BY <1>0, <2>0, <2>1, <3>3 DEF ListQueue, Step, rows, FlushType
      <3>4. QED
        BY <2>3, <3>1, <3>2, <3>3
    <2>4. CASE \E k : \E answer \in Answers \cup {None} : CommitChunk(w, k, answer)
      BY <1>0, <2>0, <2>1, <2>4 DEF CommitChunk, Step, rows, FlushType
    <2>5. CASE \E c \in flush[w].sweep, ok \in BOOLEAN : DreamItem(w, c, ok)
      BY <1>0, <2>0, <2>1, <2>5 DEF DreamItem, Step, rows, FlushType
    <2>6. CASE FinishSweep(w) \/ Return(w)
      BY <1>0, <2>1, <2>6 DEF FinishSweep, Return, Step, Idle, rows
    <2>7. CASE FailRun(w) \/ FinishThemes(w) \/ Finish(w)
      BY <2>0, <2>7, EndAlone DEF FailRun, FinishThemes, Finish, Runs, FlushType
    <2>8. ASSUME NEW t \in Tasks, EnqueueThemes(w, t)
          PROVE  AloneInv' /\ [Contract!Next]_<<status, attempts>>
      BY <1>0, <2>0, <2>8, CreateAlone DEF EnqueueThemes, Step
    <2>9. QED
      BY <1>3, <2>2, <2>3, <2>4, <2>5, <2>6, <2>7, <2>8 DEF Work
  <1>4. CASE Crash
    BY <1>4 DEF Crash, Idle, AloneInv, Flushable, rows
  <1>5. CASE UNCHANGED vars
    BY <1>5 DEF vars, rows, AloneInv, Flushable
  <1>6. QED
    BY <1>1, <1>2, <1>3, <1>4, <1>5 DEF Next

\* When all flushes are the scheduler's, the queue keeps the tasks' contract:
\* accepted once, completed for good, run again only below the cap, however often
\* the process restarts.
THEOREM SchedulerKeepsContract ==
  ASSUME Flushers = {Scheduler}
  PROVE  Spec => ImplementsContract
  <1>1. Init => AloneInv
    BY DEF Init, AloneInv, Idle
  <1>2. TypedInv /\ AloneInv /\ [Next]_vars => AloneInv'
    BY AloneStep
  <1>3. TypedInv /\ AloneInv /\ [Next]_vars => [Contract!Next]_<<status, attempts>>
    BY AloneStep
  <1>4. Init => Contract!Init
    BY DEF Init, Contract!Init
  <1>5. QED
    BY <1>1, <1>2, <1>3, <1>4, TypedAlways, PTL DEF Spec, ImplementsContract, Contract!Spec
=============================================================================
