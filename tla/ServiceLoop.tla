----------------------------- MODULE ServiceLoop -----------------------------
(***************************************************************************)
(* The background loop of the service: the scheduler's tick, the webhook   *)
(* batch and the mail tick take turns in one task, each to its end.        *)
(*                                                                         *)
(* Requests run beside it: they emit events and reset the mailbox.  Syncs  *)
(* of another runtime are in MailSync alone.  An exception that neither    *)
(* turn expects ends the task, silently; nothing but a restart brings it   *)
(* back.                                                                   *)
(***************************************************************************)
EXTENDS Outbox, MailSync

CONSTANTS
  Loop,         \* the runtime whose turns the loop takes
  MaxRestarts   \* bound: restarts of the process and deaths of the loop

ASSUME ServiceAssumption == Loop \in Runtimes /\ MaxRestarts \in Nat

VARIABLES
  at,           \* whose turn it is: "scheduler", "webhook", "mail" or "dead"
  due,          \* next_run_at of the loop's mailbox has passed
  restarts

serviceVars == <<outboxVars, mailVars, at, due, restarts>>

ServiceTypeOK ==
  /\ OutboxTypeOK /\ MailTypeOK
  /\ at \in {"scheduler", "webhook", "mail", "dead"} /\ due \in BOOLEAN
  /\ restarts \in 0..MaxRestarts

ServiceInit ==
  /\ OutboxInit /\ MailInit
  /\ at = "scheduler" /\ due = FALSE /\ restarts = 0

\* The tick flushes what is quiet or due for the day; what that emits is Emit.
SchedulerTick ==
  /\ at = "scheduler" /\ at' = "webhook"
  /\ UNCHANGED <<outboxVars, mailVars, due, restarts>>

WebhookTurn(A) ==
  /\ at = "webhook" /\ A
  /\ UNCHANGED <<mailVars, at, due, restarts>>
DispatchBatch == batch = {} /\ WebhookTurn(TakeBatch)
DispatchAnswered == WebhookTurn(PostAnswered)
DispatchFailed == WebhookTurn(PostFailed)

\* One batch a turn, delivered or given up.
WebhookDone(A) ==
  /\ at = "webhook" /\ A /\ at' = "mail"
  /\ UNCHANGED <<mailVars, due, restarts>>
DispatchNothing == WebhookDone(Pending = {} /\ batch = {} /\ UNCHANGED outboxVars)
DispatchMarked == WebhookDone(MarkDelivered)
DispatchGivenUp == WebhookDone(GiveUp)

\* The interval of the mailbox passes.
FallDue ==
  /\ ~ due /\ due' = TRUE
  /\ UNCHANGED <<outboxVars, mailVars, at, restarts>>

MailNotDue ==
  /\ at = "mail" /\ ~ due /\ sync[Loop].pc = "idle" /\ at' = "scheduler"
  /\ UNCHANGED <<outboxVars, mailVars, due, restarts>>
MailBegins ==
  /\ at = "mail" /\ due
  /\ Begin(Loop, FALSE)
  /\ UNCHANGED <<outboxVars, at, due, restarts>>
MailGoesOn ==
  /\ at = "mail"
  /\ List(Loop) \/ Deliver(Loop)
  /\ UNCHANGED <<outboxVars, at, due, restarts>>

\* A sync that succeeded, was refused or failed is scheduled anew.
MailEnds(A) ==
  /\ at = "mail" /\ A
  /\ at' = "scheduler" /\ due' = FALSE
  /\ UNCHANGED <<outboxVars, restarts>>
MailStored == MailEnds(Store(Loop))
MailRefused == MailEnds(Refuse(Loop))
MailFailed == MailEnds(Fail(Loop))

\* The turn of the loop is lost and with it what it held in memory.
LoseTurn(where) ==
  /\ restarts < MaxRestarts
  /\ restarts' = restarts + 1
  /\ at' = where /\ due' = FALSE
  /\ LetGo
  /\ sync' = [sync EXCEPT ![Loop] = Idle]
  /\ UNCHANGED <<boxRows, received, boxVars, delivered, waived, position, resets, failures>>
Restart == LoseTurn("scheduler")
Die == at # "dead" /\ LoseTurn("dead")

\* What goes on beside the loop.
Beside ==
  /\ \/ Emit /\ UNCHANGED mailVars
     \/ (NewMail \/ Recreate \/ Reset(Loop)) /\ UNCHANGED outboxVars
  /\ UNCHANGED <<at, due, restarts>>

LoopStep ==
  \/ SchedulerTick
  \/ DispatchBatch \/ DispatchFailed \/ DispatchNothing \/ DispatchMarked
  \/ DispatchGivenUp
  \/ MailNotDue \/ MailBegins \/ MailGoesOn \/ MailStored \/ MailRefused

ServiceNext ==
  \/ LoopStep \/ DispatchAnswered \/ FallDue
  \/ MailFailed \/ Restart \/ Die \/ Beside

ServiceSpec == ServiceInit /\ [][ServiceNext]_serviceVars

-----------------------------------------------------------------------------

\* An event is marked in the end unless the loop died, if the receiver answers
\* time and again (WebhookDispatcher.deliver_pending).
EventsDelivered ==
  \A e \in 1..MaxEvents : e \in emitted ~> e \in marked \/ at = "dead"

\* A message comes in, although the same task waits for the receiver of the
\* webhook, unless the mailbox was created anew, the loop died, or a person has
\* to say whether to go on with another mailbox (MailRuntime.tick).
MailComesIn ==
  \A u \in 1..MaxUid \ Unparsed, v \in 1..MaxValidity :
    u <= top /\ validity = v ~>
      \/ <<v, u>> \in delivered \cup waived
      \/ validity # v \/ position.cursor \notin {Null, validity}
      \/ at = "dead"
=============================================================================
