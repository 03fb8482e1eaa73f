--------------------------- MODULE StoreSessions ---------------------------
(***************************************************************************)
(* The threads of a process at one store: a single connection behind a     *)
(* reentrant lock, transactions that nest as savepoints, and exceptions.   *)
(*                                                                         *)
(* Every public function takes the lock, and a transaction holds it from   *)
(* BEGIN to COMMIT.  Statements change the rows at once.  A transaction    *)
(* block that an exception leaves puts back what its rows were, and the    *)
(* block around it may catch the exception and go on.  The process may     *)
(* stop between any two statements.                                        *)
(*                                                                         *)
(* A behaviour is about the functions that touch one row, and clear_scope. *)
(***************************************************************************)
EXTENDS StoreTables, Sequences, FiniteSets

CONSTANTS
  Threads,
  MaxNesting,  \* bound: transaction blocks within each other
  MaxCalls,    \* bound: calls of one transaction
  MaxCount     \* bound: what the counters of the rows reach

ASSUME SessionsAssumption ==
  Nil \notin Threads /\ MaxNesting \in Nat \ {0} /\ MaxCalls \in Nat

VARIABLES
  db,       \* the rows as the connection shows them
  blocks,   \* the open blocks: the rows each began with, the drafts till then
  holder,   \* the thread that holds the lock for a transaction
  raising,  \* an exception is leaving the innermost block
  drafts,   \* history: the rows after each standing call of the transaction
  group     \* the functions the behaviour is about

sessionVars == <<db, blocks, holder, raising, drafts, group>>

SessionsTypeOK ==
  /\ DOMAIN db = Tables
  /\ Len(blocks) <= MaxNesting /\ Len(drafts) <= MaxCalls + 1
  /\ holder \in Threads \cup {Nil} /\ (holder = Nil <=> blocks = <<>>)
  /\ raising \in BOOLEAN /\ (blocks = <<>> => ~ raising /\ drafts = <<>>)
  /\ group \in Companions

\* A store that was written to before: every table has its row.
UsedStore ==
  [t \in Tables |->
     CASE t = "subject_handles" -> [active |-> Nil, revoked |-> {1}]
       [] t = "gate_stats" -> 1
       [] t = "evidence_sources" -> [uri |-> Nil, revoked |-> 2]
       [] t = "sync_positions" -> [watermark |-> 2, cursor |-> 1, uid |-> 1]
       [] t = "names" -> [name |-> 2, seen |-> 2]
       [] t = "subjects" -> [title |-> 2, evidence |-> 1]
       [] t \in {"assertions", "events"} -> [payload |-> 1]
       [] t = "review_queue" -> [payload |-> 1, status |-> "open"]
       [] t = "correction_captures" -> [status |-> "pending"]
       [] t = "tasks" -> [status |-> "failed", attempts |-> 1]
       [] t = "theme_schedule_state" -> [enqueued |-> 2, run |-> Nil]
       [] t = "distill_queue" -> 0
       [] t = "read_watermarks" -> 2
       [] t = "signals" -> "open"
       [] t \in {"staged_records", "projection", "mail_runtime_reports"} -> 1
       [] t = "ingested_cards" -> "marked"
       [] t = "record_observations" -> "observed"
       [] t = "subject_merges" -> "merged"
       [] t = "webhook_deliveries" -> "delivered"]

SessionsInit ==
  /\ db \in {EmptyStore, UsedStore}
  /\ blocks = <<>> /\ holder = Nil /\ raising = FALSE /\ drafts = <<>>
  /\ group \in Companions

Countable(rows) ==
  /\ rows["gate_stats"] <= MaxCount
  /\ rows["distill_queue"] \in 0..MaxCount \cup {Nil}
  /\ IF rows["tasks"] = Nil THEN TRUE ELSE rows["tasks"].attempts <= MaxCount

\* The calls that a behaviour may make now.
Callable == {c \in CallsOf(group) : Countable(Effect(db, c).db)}

Innermost == blocks[Len(blocks)]
Outermost == Len(blocks) = 1
Around == SubSeq(blocks, 1, Len(blocks) - 1)

\* BEGIN takes the lock, SAVEPOINT is within it.
BeginTransaction(s) ==
  /\ holder = Nil
  /\ blocks' = <<[db |-> db, at |-> 1]>>
  /\ holder' = s
  /\ drafts' = <<db>>
  /\ UNCHANGED <<db, raising, group>>
Savepoint(s) ==
  /\ holder = s /\ ~ raising /\ Len(blocks) < MaxNesting
  /\ blocks' = Append(blocks, [db |-> db, at |-> Len(drafts)])
  /\ UNCHANGED <<db, holder, raising, drafts, group>>

\* A statement within a transaction returns or raises.
CallWithin(s) ==
  /\ holder = s /\ ~ raising /\ Len(drafts) <= MaxCalls
  /\ \E c \in Callable :
       /\ Effect(db, c).ok
       /\ db' = Effect(db, c).db
       /\ drafts' = Append(drafts, Effect(db, c).db)
  /\ UNCHANGED <<blocks, holder, raising, group>>

\* A statement or the code of the block raises.
RaiseWithin(s) ==
  /\ holder = s /\ ~ raising /\ raising' = TRUE
  /\ UNCHANGED <<db, blocks, holder, drafts, group>>

\* A statement on its own; one that raises changes nothing.
CallAlone ==
  /\ holder = Nil
  /\ \E c \in Callable : Effect(db, c).ok /\ db' = Effect(db, c).db
  /\ UNCHANGED <<blocks, holder, raising, drafts, group>>

\* Slip: the rows stay as they are when the exception is caught.
KeptRows == db

PutBack == Innermost.db

\* ROLLBACK: the exception leaves the transaction.
Rollback(s) ==
  /\ holder = s /\ raising /\ Outermost
  /\ db' = PutBack
  /\ blocks' = <<>> /\ holder' = Nil /\ raising' = FALSE /\ drafts' = <<>>
  /\ UNCHANGED group

\* ROLLBACK TO and RELEASE: the block around catches the exception or not.
RollbackTo(s) ==
  /\ holder = s /\ raising /\ ~ Outermost
  /\ db' = PutBack
  /\ drafts' = SubSeq(drafts, 1, Innermost.at)
  /\ blocks' = Around
  /\ raising' \in BOOLEAN
  /\ UNCHANGED <<holder, group>>

Release(s) ==
  /\ holder = s /\ ~ raising /\ ~ Outermost
  /\ blocks' = Around
  /\ UNCHANGED <<db, holder, raising, drafts, group>>

Commit(s) ==
  /\ holder = s /\ ~ raising /\ Outermost
  /\ blocks' = <<>> /\ holder' = Nil /\ drafts' = <<>>
  /\ UNCHANGED <<db, raising, group>>

\* What was committed: the rows the outermost block began with.
Committed == IF blocks = <<>> THEN db ELSE blocks[1].db

\* The database forgets an open transaction with its connection.
Stop ==
  /\ blocks # <<>>
  /\ db' = Committed
  /\ blocks' = <<>> /\ holder' = Nil /\ raising' = FALSE /\ drafts' = <<>>
  /\ UNCHANGED group

SessionsNext ==
  \/ \E s \in Threads :
       \/ BeginTransaction(s) \/ Savepoint(s) \/ CallWithin(s) \/ RaiseWithin(s)
       \/ Rollback(s) \/ RollbackTo(s) \/ Release(s) \/ Commit(s)
  \/ CallAlone \/ Stop

SessionsSpec == SessionsInit /\ [][SessionsNext]_sessionVars

-----------------------------------------------------------------------------

\* The open blocks and the drafts agree: the rows are the last draft, the
\* outermost block began with the first, every block with the draft it names,
\* and a block within another began no earlier.
Elements(q) == {q[i] : i \in 1..Len(q)}
SessionsInv ==
  /\ blocks \in Seq(Elements(blocks)) /\ drafts \in Seq(Elements(drafts))
  /\ (holder = Nil <=> blocks = <<>>) /\ (blocks = <<>> <=> drafts = <<>>)
  /\ blocks # <<>> => drafts[Len(drafts)] = db /\ blocks[1].at = 1
  /\ \A i \in 1..Len(blocks) :
       /\ blocks[i].at \in 1..Len(drafts)
       /\ blocks[i].db = drafts[blocks[i].at]
       /\ \A j \in i..Len(blocks) : blocks[i].at <= blocks[j].at

Atomic == INSTANCE AtomicStore WITH rows <- Committed

\* A transaction is atomic and alone: whatever other threads call meanwhile,
\* whichever exception is caught inside and wherever the process stops, what
\* is committed is what its standing calls make, one after the other, of what
\* was committed before (SQLiteStore.transaction, thread_safe_store).
TransactionsAreAtomic == Atomic!AtomicSpec
=============================================================================
