---------------------------- MODULE MailAccounts ----------------------------
(***************************************************************************)
(* Who syncs a mailbox folder: the registry of the service, the file the   *)
(* accounts are saved in, and the command line beside the service.         *)
(*                                                                         *)
(* Every account has a runtime with a lock of its own, so the lock keeps   *)
(* apart two syncs of one runtime and no others: two accounts may be about *)
(* one folder, an account that is removed and added again has another      *)
(* runtime while the old one goes on, and the command line has none.  No   *)
(* lock is held over the registry and the file.  The position outlives     *)
(* them all.                                                               *)
(***************************************************************************)
EXTENDS MailSync

CONSTANTS
  Accounts,   \* account ids, all of the folder at hand
  Command,    \* the runtime that stands for the command line
  Nobody,     \* no runtime
  Editors,    \* requests that change the accounts
  MaxEdits    \* bound: changes of the accounts

\* The runtimes there are suffice for the accounts there may be.
ASSUME AccountsAssumption ==
  /\ Command \in Runtimes /\ Nobody \notin Runtimes /\ MaxEdits \in Nat
  /\ \E own \in [Accounts -> Runtimes \ {Command}] :
       \A a, b \in Accounts : own[a] = own[b] => a = b

VARIABLES
  listed,     \* the registry: the runtime of each account, or Nobody
  saved,      \* the accounts in the file
  edit,       \* where each editor, the command line included, is with the file
  edits

registryVars == <<listed, saved, edit, edits>>
accountsVars == <<mailVars, registryVars>>

NoEdit == [pc |-> "done", accounts |-> {}]

MailAccountsTypeOK ==
  /\ MailTypeOK
  /\ listed \in [Accounts -> (Runtimes \ {Command}) \cup {Nobody}]
  /\ saved \subseteq Accounts
  /\ edit \in [Editors \cup {Command} ->
       [pc : {"done", "write"}, accounts : SUBSET Accounts]]
  /\ edits \in 0..MaxEdits

InUse(runtimes) == {a \in Accounts : runtimes[a] # Nobody}

\* The service starts: every account of the file is given a runtime of its own,
\* and it makes no difference which.
Registry(accounts) ==
  CHOOSE runtimes \in [Accounts -> (Runtimes \ {Command}) \cup {Nobody}] :
    /\ InUse(runtimes) = accounts
    /\ \A a, b \in accounts : runtimes[a] = runtimes[b] => a = b

MailAccountsInit ==
  /\ MailInit
  /\ saved \in SUBSET Accounts /\ listed = Registry(saved)
  /\ edit = [e \in Editors \cup {Command} |-> NoEdit]
  /\ edits = 0

\* Runtimes a new object may stand for: nothing refers to them any longer.
Fresh ==
  {r \in Runtimes \ {Command} :
     sync[r].pc = "idle" /\ \A a \in Accounts : listed[a] # r}

\* An editor holds the accounts it will write to the file.
BeginEdit(e, accounts) ==
  /\ edit[e] = NoEdit /\ edits < MaxEdits
  /\ edits' = edits + 1
  /\ edit' = [edit EXCEPT ![e] = [pc |-> "write", accounts |-> accounts]]

\* A request saves the accounts of the registry, not those of the file.
EditListed(e, runtimes) ==
  /\ listed' = runtimes
  /\ BeginEdit(e, InUse(runtimes))

\* An account keeps its runtime, whose settings change also while it syncs, or
\* is given one.
Configure(e, a) ==
  /\ \/ listed[a] # Nobody /\ EditListed(e, listed)
     \/ /\ listed[a] = Nobody /\ Fresh # {}
        /\ EditListed(e, [listed EXCEPT ![a] = CHOOSE r \in Fresh : TRUE])
  /\ UNCHANGED <<mailVars, saved>>

\* The runtime is taken from the list; a sync of it goes on, and the position
\* of the folder stays.
Delete(e, a) ==
  /\ listed[a] # Nobody
  /\ EditListed(e, [listed EXCEPT ![a] = Nobody])
  /\ UNCHANGED <<mailVars, saved>>

\* The command line adds an account to those of the file.
SetUp(a) ==
  /\ BeginEdit(Command, saved \cup {a})
  /\ UNCHANGED <<mailVars, listed, saved>>

WriteFile(e) ==
  /\ edit[e].pc = "write"
  /\ saved' = edit[e].accounts
  /\ edit' = [edit EXCEPT ![e] = NoEdit]
  /\ UNCHANGED <<mailVars, listed, edits>>

\* A request or the tick looks the runtime of an account up and takes its lock;
\* one that was looked up before it was removed is as one that began before.
AccountSync(a) ==
  /\ listed[a] # Nobody
  /\ \E backfill \in BOOLEAN : Begin(listed[a], backfill)
  /\ UNCHANGED registryVars
AccountReset(a) == listed[a] # Nobody /\ Reset(listed[a]) /\ UNCHANGED registryVars

\* The command line reads the file and takes no lock.
CommandSync ==
  /\ saved # {}
  /\ \E backfill \in BOOLEAN : Begin(Command, backfill)
  /\ UNCHANGED registryVars
CommandReset == saved # {} /\ Reset(Command) /\ UNCHANGED registryVars

\* The service starts anew: the registry is read from the file, every account
\* has another runtime, and the passwords people gave are forgotten.
StartAnew ==
  /\ failures < MaxFailures
  /\ failures' = failures + 1
  /\ sync' = [r \in Runtimes |-> IF r = Command THEN sync[r] ELSE Idle]
  /\ listed' = Registry(saved)
  /\ edit' = [e \in DOMAIN edit |-> IF e = Command THEN edit[e] ELSE NoEdit]
  /\ UNCHANGED <<boxVars, delivered, waived, position, resets, saved, edits>>

MailAccountsNext ==
  \/ /\ \/ NewMail \/ Recreate
        \/ \E r \in Runtimes : SyncStep(r) \/ Fail(r)
     /\ UNCHANGED registryVars
  \/ \E e \in Editors, a \in Accounts : Configure(e, a) \/ Delete(e, a)
  \/ \E e \in Editors \cup {Command} : WriteFile(e)
  \/ \E a \in Accounts : SetUp(a) \/ AccountSync(a) \/ AccountReset(a)
  \/ CommandSync \/ CommandReset \/ StartAnew

MailAccountsSpec == MailAccountsInit /\ [][MailAccountsNext]_accountsVars
=============================================================================
