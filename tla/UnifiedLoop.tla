---------------------------- MODULE UnifiedLoop ----------------------------
(***************************************************************************)
(* The tool loop that replaces extraction and routing when it is switched  *)
(* on.  A session serves one window of records: the model reads subjects,  *)
(* searches for them, and emits batches of assertion intents.  Each batch  *)
(* is validated and committed in one transaction; the window is finalized  *)
(* in another when the session ends, so that a restart in between makes    *)
(* the next session meet its own earlier claims.                           *)
(*                                                                         *)
(* The state is the scope of Routing: its subjects, merges, observations   *)
(* and reviews, people and reviewers acting on them as there.  The review  *)
(* a session leaves behind is that of the pseudo card of its window.       *)
(***************************************************************************)
EXTENDS Routing

CONSTANTS
  Loopers,       \* callers of add_records with the loop switched on
  WindowCard,    \* [windows, sets of records -> the pseudo card of a window]
  DeclaredKey,   \* [windows -> the key of the subject a session may declare]
  Batches,       \* the sequences of intents a model may emit
  MaxToolCalls,  \* MAX_TOOL_CALLS
  MaxEmissions   \* MAX_EMISSIONS

\* How an intent names a subject or an object: a key, the subject it declares,
\* a reference to what an earlier intent of the batch declared, or nothing.
New == "new"
Ref == "$new"
Names == Subjects \cup {New, Ref, NoKey}

ASSUME WindowsAssumption ==
  /\ WindowCard \in [DOMAIN WindowCard -> Cards]
  /\ DOMAIN WindowCard \subseteq SUBSET Records
  /\ DeclaredKey \in [DOMAIN WindowCard -> Subjects]
  /\ {MaxToolCalls, MaxEmissions} \subseteq Nat
  /\ Batches \subseteq Seq([subject : Subjects \cup {New, Ref}, object : Names,
                            good : BOOLEAN])

VARIABLES
  session,       \* what each caller's session has seen and done
  claims         \* [subject, object, window]: what emissions have stored

loopVars == <<routingVars, session, claims>>

NoSession ==
  [pc |-> "idle", window |-> {}, shown |-> {}, calls |-> 0, emissions |-> 0]

LoopTypeOK ==
  /\ \A w \in Loopers :
       /\ session[w].pc \in {"idle", "loop", "ended", "exhausted"}
       /\ session[w].window \subseteq given
       /\ session[w].shown \subseteq DOMAIN subjects
       /\ session[w].calls \in 0..MaxToolCalls
       /\ session[w].emissions \in 0..MaxEmissions
  /\ claims \subseteq [subject : Subjects, object : Subjects \cup {NoKey},
                       window : SUBSET Records]

LoopInit == RoutingInit /\ session = [w \in Loopers |-> NoSession] /\ claims = {}

\* What deterministic routing finds for the window: at most one subject.
PreRoutes(c) == IF Matches(c) = {} THEN {{}} ELSE {{s} : s \in Matches(c)}

Open(w) ==
  /\ session[w].pc = "idle"
  /\ \E K \in DOMAIN WindowCard :
       /\ K \cap observed = {}
       /\ given' = given \cup K
       /\ \E shown \in PreRoutes(WindowCard[K]) :
            session' = [session EXCEPT ![w] =
              [NoSession EXCEPT !.pc = "loop", !.window = K, !.shown = shown]]
  /\ UNCHANGED <<tables, merged, parents, observed, chunk, desk, human, claims>>

Calling(w) == session[w].pc = "loop" /\ session[w].calls < MaxToolCalls

\* read_neighborhood adds what the keys resolve to, search_candidates the
\* subjects that recall finds; both may come back empty.
Look(w) ==
  /\ Calling(w)
  /\ \E keys \in SUBSET DOMAIN subjects :
       session' = [session EXCEPT
         ![w].calls = @ + 1,
         ![w].shown = @ \cup {Canonical(merged, s) : s \in keys}]
  /\ UNCHANGED <<routingVars, claims>>

\* Validation goes through the batch in order.  declared holds the subject a
\* session has declared so far, declared also by an intent that is rejected itself.
Validation == [declared |-> {}, creates |-> {}, accepted |-> {}]

\* Slip: the closed world is asked before merges are resolved.
UnresolvedSubject(name, w, declared) ==
  CASE name = New -> {DeclaredKey[session[w].window]}
    [] name = Ref -> declared
    [] OTHER -> {name} \cap session[w].shown

\* The subjects a name may stand for: none when the intent is to be rejected.
SubjectOf(name, w, declared) ==
  CASE name = New -> {DeclaredKey[session[w].window]}
    [] name = Ref -> declared
    [] OTHER -> {Canonical(merged, name)} \cap session[w].shown

Objects(name, w, declared) ==
  IF name = NoKey THEN {NoKey} ELSE SubjectOf(name, w, declared)

\* The structure gate: an edge leads to another subject.  That it closes no
\* cycle is in GoalGraph.
EdgeAllowed(s, o) ==
  o = NoKey \/ Canonical(merged, s) # Canonical(merged, o)

\* good stands for the gates on predicate, evidence, value, person and window.
ValidateIntent(v, intent, w) ==
  LET declared == IF intent.subject = New
                  THEN {DeclaredKey[session[w].window]} ELSE v.declared
      stored == {[subject |-> s, object |-> o, window |-> session[w].window] :
                   s \in SubjectOf(intent.subject, w, declared),
                   o \in Objects(intent.object, w, declared)}
      kept == {a \in stored : intent.good /\ EdgeAllowed(a.subject, a.object)}
  IN [declared |-> declared,
      creates |-> v.creates \cup
        (IF intent.subject = New THEN {a.subject : a \in kept} ELSE {}),
      accepted |-> v.accepted \cup kept]

\* The subjects declared by accepted intents get a row, the sources of the
\* window join the row of every claim's subject, and the claims are stored.
EmissionRows(v, w) ==
  LET K == session[w].window
      told == {a.subject : a \in v.accepted} \cap (DOMAIN subjects \cup v.creates)
  IN [s \in DOMAIN subjects \cup v.creates |->
        IF s \notin DOMAIN subjects
        THEN [threads |-> {Thread[WindowCard[K]]}, sources |-> K]
        ELSE [subjects[s] EXCEPT !.sources = IF s \in told THEN @ \cup K ELSE @]]

EmitBatch(w) ==
  /\ Calling(w)
  /\ session[w].emissions < MaxEmissions
  /\ \E batch \in Batches :
       LET step(v, intent) == ValidateIntent(v, intent, w)
           v == FoldLeft(step, Validation, batch)
       IN /\ claims' = claims \cup v.accepted
          /\ subjects' = EmissionRows(v, w)
  /\ session' = [session EXCEPT ![w].calls = @ + 1, ![w].emissions = @ + 1]
  /\ UNCHANGED <<merged, bound, filed, ingested, held, proposal, parents, given,
                 observed, chunk, desk, human>>

\* The model has no more to say.
Finished(w) ==
  /\ session[w].pc = "loop"
  /\ session' = [session EXCEPT ![w].pc = "ended"]
  /\ UNCHANGED <<routingVars, claims>>

\* The model asks for one call or one emission too many.
Exhausted(w) ==
  /\ session[w].pc = "loop"
  /\ session[w].calls = MaxToolCalls \/ session[w].emissions = MaxEmissions
  /\ session' = [session EXCEPT ![w].pc = "exhausted"]
  /\ UNCHANGED <<routingVars, claims>>

\* Slip: the rest of an exhausted window is let go.
LeaveUnreviewed(w) == held

\* The review of an exhausted window, kept as it is when it is there already.
LeaveForReview(w) ==
  LET c == WindowCard[session[w].window]
  IN IF session[w].pc = "exhausted" /\ held[c] = "none"
     THEN [held EXCEPT ![c] = "open"] ELSE held

\* The window is observed; an observation that is there fails the transaction.
Finalize(w) ==
  /\ session[w].pc \in {"ended", "exhausted"}
  /\ session[w].window \cap observed = {}
  /\ observed' = observed \cup session[w].window
  /\ held' = LeaveForReview(w)
  /\ session' = [session EXCEPT ![w] = NoSession]
  /\ UNCHANGED <<subjects, merged, bound, filed, ingested, proposal, parents, given,
                 chunk, desk, human, claims>>

\* The gateway fails, the finalizing transaction does, or the process restarts:
\* what was emitted stays, the window is not observed and will be served again.
LoseSession(w) ==
  /\ session[w].pc # "idle"
  /\ session' = [session EXCEPT ![w] = NoSession]
  /\ UNCHANGED <<routingVars, claims>>

LoopNext ==
  \/ \E w \in Loopers :
       \/ Open(w) \/ Look(w) \/ EmitBatch(w) \/ Finished(w) \/ Exhausted(w)
       \/ Finalize(w) \/ LoseSession(w)
  \/ /\ \/ \E c \in Cards : Drop(c) \/ Attach(c) \/ AsNew(c)
        \/ MergeMatters \/ UnmergeMatters
     /\ UNCHANGED <<session, claims>>

LoopSpec == LoopInit /\ [][LoopNext]_loopVars

-----------------------------------------------------------------------------

\* Whatever was merged since a subject was shown, a claim that an emission
\* stores is about a subject that the session was shown and that stands for
\* itself at that moment, or about the one it declares itself
\* (UnifiedLoopSession._validate_intent).
ClosedWorld ==
  [][\A a \in claims' \ claims :
       \E w \in Loopers :
         /\ a.window = session[w].window
         /\ \A s \in {a.subject, a.object} \ {NoKey, DeclaredKey[a.window]} :
              s \in session[w].shown \ DOMAIN merged]_loopVars

\* A window becomes observed only by the end of a session of its own, and when
\* that session ran into its bounds a review of the window exists.
NoWindowAbandoned ==
  [][\A w \in Loopers :
       observed' # observed /\ session'[w] # session[w] =>
         /\ session[w].pc # "loop"
         /\ session[w].pc = "exhausted" =>
              held'[WindowCard[session[w].window]] # "none"]_loopVars
=============================================================================
