---------------------------- MODULE AtomicStore ----------------------------
(***************************************************************************)
(* What a store promises of its transactions.  A transaction drafts: each  *)
(* of its calls is made on what the one before it left, and the first on   *)
(* what is committed.  When it ends the last draft is what is committed,   *)
(* if nothing else was committed meanwhile.  The calls of a part that was  *)
(* given up, of a transaction that failed and of one that the process did  *)
(* not survive take no effect.                                             *)
(***************************************************************************)
EXTENDS Integers, Sequences

CONSTANTS
  Calls,         \* the calls of a store's writing functions
  Effect(_, _)   \* what a call does to the rows: [db, ok]

VARIABLES
  rows,   \* what is committed
  drafts  \* the rows as the open transaction has them, call by call

storeVars == <<rows, drafts>>

Latest == drafts[Len(drafts)]

Open == drafts = <<>> /\ drafts' = <<rows>> /\ UNCHANGED rows
Ask ==
  /\ drafts # <<>> /\ Len(drafts') = Len(drafts) + 1
  /\ \E c \in Calls :
       Effect(Latest, c).ok /\ drafts' = Append(drafts, Effect(Latest, c).db)
  /\ UNCHANGED rows
GiveUpPart ==
  /\ \E n \in 1..Len(drafts) : drafts' = SubSeq(drafts, 1, n)
  /\ UNCHANGED rows
Abandon == drafts' = <<>> /\ UNCHANGED rows
Commit ==
  /\ drafts # <<>> /\ drafts[1] = rows
  /\ rows' = Latest
  /\ drafts' = <<>>
\* A call outside of a transaction is one of its own.
Alone ==
  /\ rows' # rows
  /\ \E c \in Calls : Effect(rows, c).ok /\ rows' = Effect(rows, c).db
  /\ UNCHANGED drafts

AtomicInit == drafts = <<>>
AtomicNext == Open \/ Ask \/ GiveUpPart \/ Abandon \/ Commit \/ Alone
AtomicSpec == AtomicInit /\ [][AtomicNext]_storeVars
=============================================================================
