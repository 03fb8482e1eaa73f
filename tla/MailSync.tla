------------------------------ MODULE MailSync ------------------------------
(***************************************************************************)
(* The mail connector: one mailbox folder pulled into the engine, and the  *)
(* stored position that says how far.                                      *)
(*                                                                         *)
(* A sync reads the position, then connects, lists the UIDs above it,      *)
(* hands the messages to the engine and, when all are in and distilled,    *)
(* stores the new position.  Messages are handed over before the position  *)
(* is stored, and the mailbox may be created anew at any time, with another *)
(* UIDVALIDITY and UIDs that start over.  A runtime admits one sync at a   *)
(* time; the command line, or an account removed and added again, is       *)
(* another runtime with a lock of its own.                                 *)
(***************************************************************************)
EXTENDS Integers, FiniteSets

CONSTANTS
  Runtimes,       \* whoever may sync the folder
  InitialWindow,  \* config.initial_window
  Unparsed,       \* UIDs whose message cannot be parsed or is filtered out
  MaxUid,         \* bound: messages a mailbox holds
  MaxValidity,    \* bound: mailboxes created under the folder's name
  MaxResets,      \* bound: positions people delete
  MaxFailures     \* bound: syncs that fail

ASSUME MailAssumption ==
  /\ InitialWindow \in Nat /\ MaxValidity \in Nat \ {0}
  /\ {MaxUid, MaxResets, MaxFailures} \subseteq Nat

VARIABLES
  validity,   \* UIDVALIDITY of the mailbox that is there now
  top,        \* its messages have the UIDs 1..top
  delivered,  \* <<validity, uid>>: observed by the engine
  waived,     \* <<validity, uid>>: left out by the window of a first sync
  position,   \* the row of sync_positions, or NoPosition
  sync,       \* what the sync of each runtime holds
  resets,
  failures

boxVars == <<validity, top>>
mailVars == <<boxVars, delivered, waived, position, sync, resets, failures>>

Null == -1
NoPosition == [cursor |-> Null, uid |-> Null]
Idle == [pc |-> "idle", backfill |-> FALSE, was |-> NoPosition, validity |-> Null,
         top |-> 0, todo |-> {}]

Positions == [cursor : {Null} \cup 1..MaxValidity, uid : {Null} \cup 0..MaxUid]
Syncs ==
  [pc : {"idle", "read", "listed"}, backfill : BOOLEAN, was : Positions,
   validity : {Null} \cup 1..MaxValidity, top : 0..MaxUid, todo : SUBSET (1..MaxUid)]
MailTypeOK ==
  /\ validity \in 1..MaxValidity /\ top \in 0..MaxUid
  /\ delivered \cup waived \subseteq (1..validity) \X (1..MaxUid)
  /\ position \in Positions
  /\ sync \in [Runtimes -> Syncs]
  /\ resets \in 0..MaxResets /\ failures \in 0..MaxFailures

MailInit ==
  /\ validity = 1 /\ top = 0
  /\ delivered = {} /\ waived = {}
  /\ position = NoPosition
  /\ sync = [r \in Runtimes |-> Idle]
  /\ resets = 0 /\ failures = 0

NewMail ==
  /\ top < MaxUid
  /\ top' = top + 1
  /\ UNCHANGED <<validity, delivered, waived, position, sync, resets, failures>>

Recreate ==
  /\ validity < MaxValidity
  /\ validity' = validity + 1
  /\ top' \in 0..MaxUid
  /\ UNCHANGED <<delivered, waived, position, sync, resets, failures>>

\* The position is read before the connection is made.
Begin(r, backfill) ==
  /\ sync[r].pc = "idle"
  /\ sync' = [sync EXCEPT ![r] =
       [Idle EXCEPT !.pc = "read", !.backfill = backfill, !.was = position]]
  /\ UNCHANGED <<boxVars, delivered, waived, position, resets, failures>>

\* Slip: the two are not compared.
NeverRecreated(r) == FALSE

\* The mailbox is another one than the position is about.
Recreated(r) == sync[r].was.cursor # Null /\ sync[r].was.cursor # validity

\* Without a person's word a sync of another mailbox goes no further.
Refuse(r) ==
  /\ sync[r].pc = "read"
  /\ Recreated(r) /\ ~ sync[r].backfill
  /\ sync' = [sync EXCEPT ![r] = Idle]
  /\ UNCHANGED <<boxVars, delivered, waived, position, resets, failures>>

First(r) == sync[r].was.uid = Null /\ ~ sync[r].backfill
Window == {u \in 1..top : u > top - InitialWindow}

\* Slip: a sync after the first takes the window as well.
WindowAlways(r) == IF sync[r].backfill THEN 1..top ELSE Window

\* The UIDs a sync will fetch.
Wanted(r) ==
  CASE sync[r].backfill -> 1..top
    [] First(r) -> Window
    [] OTHER -> {u \in 1..top : u > sync[r].was.uid}

\* A message that cannot be parsed is dropped, and the rest go on.
List(r) ==
  /\ sync[r].pc = "read"
  /\ ~ Recreated(r) \/ sync[r].backfill
  /\ sync' = [sync EXCEPT ![r].pc = "listed", ![r].validity = validity,
                          ![r].top = top, ![r].todo = Wanted(r) \ Unparsed]
  /\ UNCHANGED <<boxVars, delivered, waived, position, resets, failures>>

\* The engine takes the messages chunk by chunk.  The first one puts down a
\* position of the container that says nothing of UIDs.
Deliver(r) ==
  /\ sync[r].pc = "listed"
  /\ \E u \in sync[r].todo :
       /\ delivered' = delivered \cup {<<sync[r].validity, u>>}
       /\ sync' = [sync EXCEPT ![r].todo = @ \ {u}]
  /\ UNCHANGED <<boxVars, waived, position, resets, failures>>

\* The watermark is the greatest UID listed, or what it was before.
Watermark(r) ==
  IF sync[r].backfill \/ sync[r].was.uid < sync[r].top
  THEN sync[r].top ELSE sync[r].was.uid

\* The queue is distilled and the position written over whatever is there.
Store(r) ==
  /\ sync[r].pc = "listed" /\ sync[r].todo = {}
  /\ position' = [cursor |-> sync[r].validity, uid |-> Watermark(r)]
  /\ waived' = IF First(r)
               THEN waived \cup {<<sync[r].validity, u>> :
                                   u \in {x \in 1..sync[r].top :
                                            x <= sync[r].top - InitialWindow}}
               ELSE waived
  /\ sync' = [sync EXCEPT ![r] = Idle]
  /\ UNCHANGED <<boxVars, delivered, resets, failures>>

\* The server, the extractor or the database fails, the queue keeps an item
\* that cannot be distilled, or the process ends.
Fail(r) ==
  /\ sync[r].pc # "idle" /\ failures < MaxFailures
  /\ failures' = failures + 1
  /\ sync' = [sync EXCEPT ![r] = Idle]
  /\ UNCHANGED <<boxVars, delivered, waived, position, resets>>

\* A person deletes the position; the lock of a runtime keeps out its own sync.
Reset(r) ==
  /\ sync[r].pc = "idle" /\ resets < MaxResets
  /\ resets' = resets + 1
  /\ position' = NoPosition
  /\ UNCHANGED <<boxVars, delivered, waived, sync, failures>>

SyncStep(r) == Refuse(r) \/ List(r) \/ Deliver(r) \/ Store(r)
MailNext ==
  \/ NewMail \/ Recreate
  \/ \E r \in Runtimes :
       \/ \E backfill \in BOOLEAN : Begin(r, backfill)
       \/ SyncStep(r) \/ Fail(r) \/ Reset(r)

MailSpec == MailInit /\ [][MailNext]_mailVars

-----------------------------------------------------------------------------

\* No message is passed over: when the position is about the mailbox that is
\* there, each message up to it was observed, or was outside the window of a
\* first sync, or cannot be parsed - whatever crashed, ran side by side, was
\* reset or was created anew (MailConnector.sync).
NoMailLost ==
  position.cursor = validity =>
    \A u \in 1..position.uid :
      <<validity, u>> \in delivered \cup waived \/ u \in Unparsed
=============================================================================
