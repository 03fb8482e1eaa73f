------------------------------ MODULE TaskQueue ------------------------------
(***************************************************************************)
(* The persistent tasks of one scope and the flushes that work them off.   *)
(*                                                                         *)
(* A flush takes the list of flushable tasks once and runs one after the   *)
(* other: it marks the task running, filters the records that were already *)
(* observed, extracts and commits the rest chunk by chunk, sweeps the      *)
(* whole distillation queue and records how the task ended.  Each of these *)
(* is a transaction, or a model call outside any, and nothing but the      *)
(* store's lock orders two flushes: the scheduler's and those of callers   *)
(* that wait for their task run in threads of one process.                 *)
(***************************************************************************)
EXTENDS Naturals, FiniteSets

CONSTANTS
  Tasks,        \* task ids
  Kind,         \* task -> "messages", "cards" or "themes"
  Content,      \* task -> its records, or the cards it was given
  Records,      \* record observations
  Container,    \* record -> the conversation it is extracted with
  Answers,      \* what the extractor may say of a chunk
  Flushers,     \* threads that may be inside flush
  Scheduler,    \* the one of them the service loop runs in
  MaxAttempts,  \* MAX_TASK_ATTEMPTS
  MaxCrashes,   \* bound: restarts of the process
  None          \* no task, no card

VARIABLES
  status,    \* tasks.status, or "absent"
  attempts,  \* tasks.attempts
  created,   \* tasks.created_at, as the place in the order of creation
  observed,  \* table record_observations
  cards,     \* table ingested_cards
  distill,   \* table distill_queue
  flush,     \* what each flusher holds in its local variables
  crashes    \* restarts so far

rows == <<status, attempts, created>>
ledger == <<observed, cards, distill>>
vars == <<rows, ledger, flush, crashes>>

\* An extracted card's id hashes the cited records and the answer.
ExtractedCards == [id : (SUBSET Records) \X Answers, says : Answers]
GivenCards == UNION {Content[t] : t \in {u \in Tasks : Kind[u] = "cards"}}
AllCards == ExtractedCards \cup GivenCards

ASSUME TasksAssumption ==
  /\ Kind \in [Tasks -> {"messages", "cards", "themes"}]
  /\ DOMAIN Content = Tasks
  /\ \A t \in Tasks : Kind[t] = "messages" => Content[t] \subseteq Records
  /\ \A t \in Tasks : Kind[t] = "themes" => Content[t] = {}
  /\ DOMAIN Container = Records
  /\ \A t \in Tasks : Kind[t] = "cards" => Content[t] \cap Records = {}
  /\ None \notin Tasks /\ IsFiniteSet(Tasks)
  /\ Scheduler \in Flushers /\ IsFiniteSet(Flushers)
  /\ MaxAttempts \in Nat \ {0} /\ MaxCrashes \in Nat

-----------------------------------------------------------------------------
\* Slip: the cap lets one more attempt through.
FlushableAtCap(t) ==
  status[t] = "pending" \/ (status[t] = "failed" /\ attempts[t] <= MaxAttempts)

\* Slip: what failed is left to its caller.
FlushablePending(t) == status[t] = "pending"

\* flushable_tasks
Flushable(t) ==
  status[t] = "pending" \/ (status[t] = "failed" /\ attempts[t] < MaxAttempts)

Ready == {t \in Tasks : Flushable(t)}

\* task is None in the sweep of a flush that found no task.
Idle ==
  [at |-> "idle", todo |-> {}, task |-> None, rest |-> {}, sweep |-> {}, bad |-> FALSE]

Runs(w, k) == flush[w].task # None /\ Kind[flush[w].task] = k

\* Slip: the insert tolerates a row that is there.
FreshOrNot(chunk) == TRUE

\* The primary key of record_observations: a chunk whose records another flush
\* committed meanwhile does not commit.
Fresh(chunk) == chunk \cap observed = {}

\* _ingest_cards_sync raises on an id that was used for another card.
Reused(C) == \E c \in C, d \in cards : c.id = d.id /\ c # d

\* Slip: the card is queued for distillation and not marked.
AcceptUnmarked(C) == cards' = cards /\ distill' = distill \cup (C \ cards)

\* The cards mark_card and enqueue_distill write: a known card is a no-op.
Accept(C) ==
  /\ cards' = cards \cup C
  /\ distill' = distill \cup (C \ cards)

Step(w, f) == flush' = [flush EXCEPT ![w] = f]

\* Slip: an exception leaves flush before the row is written.
EndEscaped(w, failed) ==
  LET t == flush[w].task
      more == flush[w].todo \ {t}
  IN  /\ status' = IF failed THEN status ELSE [status EXCEPT ![t] = "completed"]
      /\ attempts' = attempts
      /\ Step(w, [Idle EXCEPT !.at = IF more = {} THEN "end" ELSE "take", !.todo = more])

\* update_task at the end of a run: it writes over whatever status is there.
End(w, failed) ==
  LET t == flush[w].task
      more == flush[w].todo \ {t}
  IN  /\ status' = [status EXCEPT ![t] = IF failed THEN "failed" ELSE "completed"]
      /\ attempts' = [attempts EXCEPT ![t] = IF failed THEN @ + 1 ELSE @]
      /\ Step(w, [Idle EXCEPT !.at = IF more = {} THEN "end" ELSE "take", !.todo = more])

-----------------------------------------------------------------------------
Init ==
  /\ status = [t \in Tasks |-> "absent"] /\ attempts = [t \in Tasks |-> 0]
  /\ created = [t \in Tasks |-> 0]
  /\ observed = {} /\ cards = {} /\ distill = {}
  /\ flush = [w \in Flushers |-> Idle]
  /\ crashes = 0

\* _enqueue_task, create_task
Create(t) ==
  /\ status[t] = "absent"
  /\ status' = [status EXCEPT ![t] = "pending"]
  /\ created' = [created EXCEPT ![t] = Cardinality({u \in Tasks : status[u] # "absent"}) + 1]
  /\ UNCHANGED attempts

\* add, add_cards
Add(t) ==
  /\ Kind[t] # "themes"
  /\ Create(t)
  /\ UNCHANGED <<ledger, flush, crashes>>

\* flush lists the flushable tasks, once; with none, it sweeps what a failed
\* distillation left behind.
Start(w) ==
  /\ flush[w].at = "idle"
  /\ \/ Ready # {} /\ Step(w, [Idle EXCEPT !.at = "take", !.todo = Ready])
     \/ Ready = {} /\ distill # {} /\ Step(w, [Idle EXCEPT !.at = "work"])
  /\ UNCHANGED <<rows, ledger, crashes>>

\* The next task in the order of creation, whatever has become of it since.
MarkRunning(w, t) ==
  /\ flush[w].at = "take" /\ t \in flush[w].todo
  /\ \A u \in flush[w].todo : created[t] <= created[u]
  /\ status' = [status EXCEPT ![t] = "running"]
  /\ Step(w, [flush[w] EXCEPT !.at = "plan", !.task = t])
  /\ UNCHANGED <<attempts, created, ledger, crashes>>

\* add_records drops what the observation ledger has, before any model call.
Plan(w) ==
  /\ flush[w].at = "plan"
  /\ Step(w, [flush[w] EXCEPT !.at = "work", !.rest = Content[flush[w].task] \ observed])
  /\ UNCHANGED <<rows, ledger, crashes>>

\* One chunk: the extractor answered outside the transaction; answer None is a
\* chunk without a card, or one whose card went to review.
CommitChunk(w, k, answer) ==
  LET chunk == {r \in flush[w].rest : Container[r] = k}
  IN  /\ flush[w].at = "work" /\ Runs(w, "messages")
      /\ chunk # {} /\ Fresh(chunk)
      /\ observed' = observed \cup chunk
      /\ Accept(IF answer = None THEN {} ELSE {[id |-> <<chunk, answer>>, says |-> answer]})
      /\ Step(w, [flush[w] EXCEPT !.rest = @ \ chunk])
      /\ UNCHANGED <<rows, crashes>>

\* A task of cards is one transaction.
IngestCards(w) ==
  /\ flush[w].at = "work" /\ Runs(w, "cards") /\ flush[w].rest # {}
  /\ ~ Reused(flush[w].rest)
  /\ Accept(flush[w].rest)
  /\ Step(w, [flush[w] EXCEPT !.rest = {}])
  /\ UNCHANGED <<rows, observed, crashes>>

\* The extractor, the database or the theme pass raised.
FailRun(w) ==
  /\ flush[w].at \in {"plan", "work"} /\ flush[w].task # None
  /\ End(w, TRUE)
  /\ UNCHANGED <<created, ledger, crashes>>

FinishThemes(w) ==
  /\ flush[w].at = "work" /\ Runs(w, "themes")
  /\ End(w, FALSE)
  /\ UNCHANGED <<created, ledger, crashes>>

\* dream lists the queue ...
ListQueue(w) ==
  /\ flush[w].at = "work" /\ flush[w].rest = {}
  /\ ~ Runs(w, "themes")
  /\ Step(w, [flush[w] EXCEPT !.at = "dream", !.sweep = distill])
  /\ UNCHANGED <<rows, ledger, crashes>>

\* ... and handles every item: a failed one stays.
DreamItem(w, c, ok) ==
  /\ flush[w].at = "dream" /\ c \in flush[w].sweep
  /\ distill' = IF ok THEN distill \ {c} ELSE distill
  /\ Step(w, [flush[w] EXCEPT !.sweep = @ \ {c}, !.bad = @ \/ ~ ok])
  /\ UNCHANGED <<rows, observed, cards, crashes>>

\* Slip: the failures of the distillation are not the task's.
FinishRegardless(w) ==
  /\ flush[w].at = "dream" /\ flush[w].sweep = {} /\ flush[w].task # None
  /\ End(w, FALSE)
  /\ UNCHANGED <<created, ledger, crashes>>

Finish(w) ==
  /\ flush[w].at = "dream" /\ flush[w].sweep = {} /\ flush[w].task # None
  /\ End(w, flush[w].bad)
  /\ UNCHANGED <<created, ledger, crashes>>

\* The sweep of a flush without tasks reports to nobody.
FinishSweep(w) ==
  /\ flush[w].at = "dream" /\ flush[w].sweep = {} /\ flush[w].task = None
  /\ Step(w, [Idle EXCEPT !.at = "end"])
  /\ UNCHANGED <<rows, ledger, crashes>>

\* enqueue_theme_pass_if_due, at the end of every flush: whether a pass is due
\* depends on the backlog and the clock.  The list it looks at holds no running
\* task.
EnqueueThemes(w, t) ==
  /\ flush[w].at = "end" /\ Kind[t] = "themes"
  /\ \A u \in Tasks : Kind[u] = "themes" => ~ Flushable(u)
  /\ Create(t)
  /\ Step(w, Idle)
  /\ UNCHANGED <<ledger, crashes>>

Return(w) ==
  /\ flush[w].at = "end"
  /\ Step(w, Idle)
  /\ UNCHANGED <<rows, ledger, crashes>>

\* The process dies; what was committed is what the next one finds.
Crash ==
  /\ crashes < MaxCrashes /\ crashes' = crashes + 1
  /\ flush' = [w \in Flushers |-> Idle]
  /\ UNCHANGED <<rows, ledger>>

Work(w) ==
  \/ \E t \in Tasks : MarkRunning(w, t)
  \/ Plan(w)
  \/ \E k \in {Container[r] : r \in Records}, answer \in Answers \cup {None} :
       CommitChunk(w, k, answer)
  \/ IngestCards(w)
  \/ FailRun(w)
  \/ FinishThemes(w)
  \/ ListQueue(w)
  \/ \E c \in flush[w].sweep, ok \in BOOLEAN : DreamItem(w, c, ok)
  \/ Finish(w)
  \/ FinishSweep(w)
  \/ \E t \in Tasks : EnqueueThemes(w, t)
  \/ Return(w)

Next ==
  \/ \E t \in Tasks : Add(t)
  \/ \E w \in Flushers : Start(w)
  \/ \E w \in Flushers : Work(w)
  \/ Crash

Spec == Init /\ [][Next]_vars

\* quiet_scopes: the scheduler starts a flush, at the latest when the oldest
\* flushable message task has waited for the maximum delay.
Tick ==
  /\ \E t \in Tasks : Kind[t] = "messages" /\ Flushable(t)
  /\ Start(Scheduler)

\* A flush that began runs on (the model calls return or raise), and the
\* service loop keeps ticking.
FairSpec == Spec /\ WF_vars(Tick) /\ \A w \in Flushers : WF_vars(Work(w))

-----------------------------------------------------------------------------
FlushType ==
  [at : {"idle", "take", "plan", "work", "dream", "end"}, todo : SUBSET Tasks,
   task : Tasks \cup {None}, rest : SUBSET (Records \cup GivenCards),
   sweep : SUBSET AllCards, bad : BOOLEAN]

TypeOK ==
  /\ status \in [Tasks -> {"absent", "pending", "running", "failed", "completed"}]
  /\ attempts \in [Tasks -> Nat]
  /\ created \in [Tasks -> Nat]
  /\ observed \subseteq Records
  /\ cards \subseteq AllCards /\ distill \subseteq cards
  /\ flush \in [Flushers -> FlushType]
  /\ crashes \in Nat

\* Nobody works on t any more, or will: it completed or used up its attempts.
Settled(t) ==
  status[t] = "completed" \/ (status[t] = "failed" /\ attempts[t] >= MaxAttempts)

\* A record observation is turned into a card by one extraction only, whoever
\* flushed it and however often it was delivered, retried or interrupted.
OneAnswerPerRecord ==
  \A c, d \in cards \ GivenCards :
    c.id[1] \cap d.id[1] # {} => c = d

\* A completed task is done: its records are observed, its cards accepted, and
\* no card that cites them waits for distillation.
CompletedIsDone ==
  \A t \in Tasks : status[t] = "completed" =>
    /\ Kind[t] = "messages" =>
         /\ Content[t] \subseteq observed
         /\ \A c \in distill \ GivenCards : c.id[1] \cap Content[t] = {}
    /\ Kind[t] = "cards" => Content[t] \subseteq cards \ distill

\* Flushes that overlap can carry a task over its cap, each by one attempt at
\* most: the flushes that still hold it in a list taken before the cap was met.
OverrunBounded ==
  \A t \in Tasks : attempts[t] <= MaxAttempts + Cardinality(Flushers) - 1

\* As long as the process lives, a task marked running is being run.
NothingStranded ==
  \A t \in Tasks : status[t] = "running" =>
    \E w \in Flushers : flush[w].at \in {"plan", "work", "dream"} /\ flush[w].task = t

\* Message tasks are worked off: from some point on each one is settled.
Quiesces ==
  <>[](\A t \in Tasks : Kind[t] = "messages" => status[t] = "absent" \/ Settled(t))

\* One flusher at a time keeps the tasks' contract, restarts included.
Contract == INSTANCE TaskContract
  WITH Tasks <- Tasks, MaxAttempts <- MaxAttempts, status <- status, attempts <- attempts
ImplementsContract == Contract!Spec

-----------------------------------------------------------------------------
\* What the documents say and the code does not do.

\* A failed task with five attempts remains failed (SPEC 11.1).
FailedForGood ==
  [][\A t \in Tasks :
       status[t] = "failed" /\ attempts[t] >= MaxAttempts => status'[t] = "failed"]_vars

\* No message waits longer than the deadline (SPEC 11.1), a restart included.
NoMessageStranded ==
  \A t \in Tasks : Kind[t] = "messages" => status[t] = "pending" ~> Settled(t)
=============================================================================
