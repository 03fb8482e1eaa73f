------------------------------- MODULE Outbox -------------------------------
(***************************************************************************)
(* Change events on their way to the webhook.  The dispatcher takes the    *)
(* oldest events without a delivery mark, posts them in one batch, posts   *)
(* again while the receiver fails, and marks the batch in a transaction    *)
(* when an answer came.  What has no mark is sent again: by the next batch *)
(* or after a restart.                                                     *)
(***************************************************************************)
EXTENDS Integers, FiniteSets

CONSTANTS
  MaxEvents,   \* bound: the events are 1..MaxEvents in the order of the query
  BatchSize,   \* batch_size
  MaxAttempts  \* max_attempts

ASSUME OutboxAssumption == {MaxEvents, BatchSize, MaxAttempts} \subseteq Nat

VARIABLES
  emitted,     \* the rows of events
  marked,      \* the rows of webhook_deliveries
  received,    \* what the receiver has seen, however it answered
  batch,       \* the events the dispatcher holds
  attempt,     \* posts of this batch so far
  answered     \* the receiver has acknowledged the batch

boxRows == <<emitted, marked>>
outboxVars == <<boxRows, received, batch, attempt, answered>>

OutboxTypeOK ==
  /\ marked \cup received \cup batch \subseteq emitted
  /\ emitted \subseteq 1..MaxEvents
  /\ Cardinality(batch) <= BatchSize
  /\ attempt \in 0..MaxAttempts
  /\ answered \in BOOLEAN /\ (answered => batch # {})

OutboxInit ==
  /\ emitted = {} /\ marked = {} /\ received = {} /\ batch = {}
  /\ attempt = 0 /\ answered = FALSE

\* A transaction records an event.  The order is by the time it was recorded,
\* which the writer took before, so that an event may come before another that
\* was there already.
Emit ==
  /\ \E e \in (1..MaxEvents) \ emitted : emitted' = emitted \cup {e}
  /\ UNCHANGED <<marked, received, batch, attempt, answered>>

\* Slip: what comes after the last event that was delivered.
PendingSince == {e \in emitted : \A m \in marked : m < e}

Pending == emitted \ marked
\* Slip: the query has no limit.
Unlimited(S) == S

Oldest(S) == {e \in S : Cardinality({x \in S : x < e}) < BatchSize}

TakeBatch ==
  /\ Pending # {}
  /\ batch' = Oldest(Pending)
  /\ attempt' = 0 /\ answered' = FALSE
  /\ UNCHANGED <<boxRows, received>>

Posting == batch # {} /\ ~ answered /\ attempt < MaxAttempts

\* The receiver takes the batch and its answer arrives.
PostAnswered ==
  /\ Posting
  /\ received' = received \cup batch
  /\ attempt' = attempt + 1 /\ answered' = TRUE
  /\ UNCHANGED <<boxRows, batch>>

\* The post or its answer is lost, or the receiver says it failed.
PostFailed ==
  /\ Posting
  /\ received' \in {received, received \cup batch}
  /\ attempt' = attempt + 1
  /\ UNCHANGED <<boxRows, batch, answered>>

LetGo == batch' = {} /\ attempt' = 0 /\ answered' = FALSE

\* Marks are inserted or ignored.
MarkDelivered ==
  /\ answered
  /\ marked' = marked \cup batch
  /\ LetGo
  /\ UNCHANGED <<emitted, received>>

\* Slip: what was tried often enough is marked.
GiveUpForGood ==
  /\ batch # {} /\ ~ answered /\ attempt = MaxAttempts
  /\ LetGo
  /\ marked' = marked \cup batch
  /\ UNCHANGED <<emitted, received>>

\* The batch is tried again when its turn comes next.
GiveUp ==
  /\ batch # {} /\ ~ answered /\ attempt = MaxAttempts
  /\ LetGo
  /\ UNCHANGED <<boxRows, received>>

-----------------------------------------------------------------------------

\* At least once: an event that will not be sent again was received, whatever
\* was lost on the way and wherever the process stopped
\* (WebhookDispatcher.deliver_pending).
MarkedWasReceived == marked \subseteq received
=============================================================================
