------------------------------ MODULE Routing ------------------------------
(***************************************************************************)
(* Where the cards of a record chunk go: recall and adjudication of each   *)
(* card, the commit of the whole chunk, the handle registry, and the       *)
(* review queue with its resolutions.                                      *)
(*                                                                         *)
(* A card is routed in a short transaction of its own and committed in a   *)
(* later one, after every other card of its chunk was routed and after     *)
(* model calls that hold no lock.  In between, other workers, reviewers    *)
(* and people who merge subjects or bind handles change what it was        *)
(* routed by.  A restart forgets the chunks in flight and nothing else.    *)
(*                                                                         *)
(* A card is its identity and what routing reads of it: the records it     *)
(* cites, its thread boundary, the handles found in it, the key it was     *)
(* given by the extractor.  Which living subjects are open, which of those *)
(* lexical scores offer and what the adjudicating model answers are free.  *)
(***************************************************************************)
EXTENDS SubjectMerges, Integers, Sequences, FiniteSets, FiniteSetsExt,
  Functions, SequencesExt

CONSTANTS
  Records,      \* natural numbers, in the order the records were sent
  Cards,
  Cites,        \* [Cards -> the records a card cites]
  Thread,       \* [Cards -> its thread boundary]
  Marks,        \* [Cards -> the structured handles found in it]
  Hint,         \* [Cards -> the subject key it was given, or NoKey]
  Mailed,       \* the cards whose key a connector derived ("mail:...")
  OwnKey,       \* [Cards -> the key new_subject derives for it]
  Replies,      \* the sequences of cards an extraction may come back with
  NoKey,
  MinShared,    \* identity.merge_evidence.min_shared_sources
  SharePercent, \* identity.merge_evidence.or_share_ratio
  Workers,      \* callers of add_records
  Clerks,       \* people who accept a proposed parent
  MaxHuman      \* bound: merges, bindings and unbindings by people

ASSUME CardsAssumption ==
  /\ OwnKey \in [Cards -> Subjects] /\ Cites \in [Cards -> SUBSET Records]
  /\ Hint \in [Cards -> Subjects \cup {NoKey}]
  /\ Replies \subseteq Seq(Cards)
  /\ NoKey \notin Cards \cup Subjects /\ MaxHuman \in Nat

VARIABLES
  subjects,     \* the rows of subjects: key -> [threads, sources]
  merged,       \* the active merge edges
  bound,        \* the active handle bindings: handle -> subject
  filed,        \* <<card, subject>>: where a card's claims were stored
  ingested,     \* the cards of ingested_cards
  held,         \* the review of a card: none, open or how it was resolved
  proposal,     \* the parent suggestion of a card: [status, child, parent]
  parents,      \* <<card, clerk>>: part_of claims accepted proposals wrote
  given,        \* the records staged so far
  observed,     \* the rows of record_observations
  chunk,        \* what each worker has in hand
  desk,         \* the proposal each clerk has read and not yet resolved
  human         \* decisions people have taken so far

tables == <<subjects, filed, ingested, held, proposal, bound>>
routingVars == <<subjects, merged, bound, filed, ingested, held, proposal, parents,
                 given, observed, chunk, desk, human>>

Nothing == [pc |-> "idle", records |-> {}, cards |-> <<>>, plans |-> <<>>]
NoProposal == [status |-> "none", child |-> NoKey, parent |-> NoKey]

Boundaries == {Thread[c] : c \in Cards}
Handles == UNION {Marks[c] : c \in Cards}

PlanType ==
  [card : Cards, key : Subjects \cup {NoKey},
   route : {"duplicate", "trusted", "handle", "thread", "evidence", "model",
            "new", "review"}]
RoutingTypeOK ==
  /\ DOMAIN subjects \subseteq Subjects
  /\ \A s \in DOMAIN subjects :
       subjects[s] \in [threads : SUBSET Boundaries, sources : SUBSET Records]
  /\ merged \in Edges /\ DOMAIN merged \subseteq DOMAIN subjects
  /\ DOMAIN bound \subseteq Handles
  /\ \A h \in DOMAIN bound : bound[h] \in DOMAIN subjects
  /\ filed \subseteq Cards \X DOMAIN subjects
  /\ ingested \subseteq Cards
  /\ held \in [Cards -> {"none", "open", "drop", "attach", "new"}]
  /\ \A c \in Cards : proposal[c] = NoProposal \/
       /\ proposal[c].status \in {"open", "drop", "attach_subgoal"}
       /\ {proposal[c].child, proposal[c].parent} \subseteq DOMAIN subjects
  /\ parents \subseteq Cards \X Clerks
  /\ observed \subseteq given /\ given \subseteq Records
  /\ \A w \in Workers :
       /\ chunk[w].pc \in {"idle", "extracted"}
       /\ chunk[w].records \subseteq given
       /\ \A i \in DOMAIN chunk[w].plans :
            /\ chunk[w].plans[i] \in PlanType
            /\ chunk[w].plans[i].card = chunk[w].cards[i]
  /\ desk \in [Clerks -> Cards \cup {NoKey}]
  /\ human \in 0..MaxHuman

\* What a canonical subject stands for: itself and all that were merged into it.
Members(s) == {x \in DOMAIN subjects : Canonical(merged, x) = s}
Living == {s \in DOMAIN subjects : s \notin DOMAIN merged}
SourcesOf(s) == UNION {subjects[x].sources : x \in Members(s)}
ThreadsOf(s) == UNION {subjects[x].threads : x \in Members(s)}

\* The subjects that the handles of a card name.
HandleTargets(c) ==
  {Canonical(merged, bound[h]) : h \in Marks[c] \cap DOMAIN bound}

\* Subject keys are digests: which of several matches has the least key is
\* not known, and any of them may be it.
ThreadMatches(c) == {s \in Living : Thread[c] \in ThreadsOf(s)}

Shared(c, s) == Cardinality(Cites[c] \cap SourcesOf(s))
EvidenceMatches(c) ==
  LET enough == {s \in Living :
        /\ Shared(c, s) >= 2
        /\ \/ Shared(c, s) >= MinShared
           \/ 100 * Shared(c, s) >= SharePercent * Cardinality(Cites[c])}
  IN {s \in enough : \A x \in enough : Shared(c, x) <= Shared(c, s)}

\* The hint of a card counts when its subject is open.  A subject is open until
\* its projected card shows it completed: open is any choice of living subjects.
Suggested(c, open) ==
  {Canonical(merged, s) : s \in {Hint[c]} \cap DOMAIN subjects} \cap open

Plan(c, route, key) == [card |-> c, route |-> route, key |-> key]

\* The rung that places a card by what it shows, and the subjects found there.
Rung(c) ==
  IF Cardinality(HandleTargets(c)) = 1 THEN "handle"
  ELSE IF ThreadMatches(c) # {} THEN "thread" ELSE "evidence"
Matches(c) ==
  CASE Rung(c) = "handle" -> HandleTargets(c)
    [] Rung(c) = "thread" -> ThreadMatches(c)
    [] Rung(c) = "evidence" -> EvidenceMatches(c)

\* The plans the ladder comes to by itself, first hit; none when every rung
\* misses.  A hint is the last rung, and is followed without asking the model.
Recalled(c, open) ==
  IF c \in ingested \/ held[c] # "none" THEN {Plan(c, "duplicate", NoKey)}
  ELSE IF c \in Mailed THEN {Plan(c, "trusted", Hint[c])}
  ELSE IF Matches(c) # {} THEN {Plan(c, Rung(c), s) : s \in Matches(c)}
  ELSE {Plan(c, "model", s) : s \in Suggested(c, open)}

\* What the model may be shown: five candidates at most, all of them open.  Which
\* ones, and whether any, lexical scores decide.
Offers(open) == {offered \in SUBSET open : Cardinality(offered) <= 5}

\* What the model answers: a decision or nothing that parses, a subject, the
\* sources it cites, and whether it is confident enough.
Answers ==
  [decision : {"attach", "new", "abstain", "malformed"}, key : Subjects,
   cites : {"own", "none", "foreign"}, sure : BOOLEAN]

\* gate_adjudication: what cannot be followed is left to a reviewer.
Adjudicated(c, offered, answer) ==
  CASE answer.decision = "new" /\ answer.cites # "foreign" -> Plan(c, "new", NoKey)
    [] /\ answer.decision = "attach" /\ answer.cites = "own" /\ answer.sure
       /\ answer.key \in offered -> Plan(c, "model", answer.key)
    [] OTHER -> Plan(c, "review", NoKey)

\* A card that misses every rung is new when there is nothing to offer; otherwise
\* the model is asked.
Judged(c, offered) ==
  IF offered = {} THEN {Plan(c, "new", NoKey)}
  ELSE {Adjudicated(c, offered, a) : a \in Answers}

\* The plans routing may come to while the subjects in open are open.
Plans(c, open) ==
  IF Recalled(c, open) # {} THEN Recalled(c, open)
  ELSE UNION {Judged(c, offered) : offered \in Offers(open)}

RoutingInit ==
  /\ subjects = [s \in {} |-> s]
  /\ merged = NoEdges
  /\ bound = [h \in {} |-> h]
  /\ filed = {} /\ ingested = {} /\ parents = {}
  /\ held = [c \in Cards |-> "none"]
  /\ proposal = [c \in Cards |-> NoProposal]
  /\ given = {} /\ observed = {}
  /\ chunk = [w \in Workers |-> Nothing]
  /\ desk = [k \in Clerks |-> NoKey]
  /\ human = 0

\* Earlier staged records of the conversation are shown to the extractor.
Context(K) == {r \in given : \A x \in K : r < x}

\* A worker stages the records it was given and extracts those not observed
\* yet.  A hint other than a connector's survives when it names an anchor.
Extract(w) ==
  /\ chunk[w].pc = "idle"
  /\ \E K \in SUBSET (Records \ observed) \ {{}}, cards \in Replies :
       /\ \A c \in Range(cards) :
            /\ Cites[c] \subseteq K \cup Context(K)
            /\ Hint[c] = NoKey \/ c \in Mailed \/ Hint[c] \in Living
       /\ given' = given \cup K
       /\ chunk' = [chunk EXCEPT ![w] =
            [pc |-> "extracted", records |-> K, cards |-> cards, plans |-> <<>>]]
  /\ UNCHANGED <<tables, merged, parents, observed, desk, human>>

\* The next card of the chunk is recalled, adjudicated and gated.
Route(w) ==
  LET i == Len(chunk[w].plans) + 1
  IN /\ i <= Len(chunk[w].cards)
     /\ \E open \in SUBSET Living : \E p \in Plans(chunk[w].cards[i], open) :
          chunk' = [chunk EXCEPT ![w].plans = Append(@, p)]
     /\ UNCHANGED <<tables, merged, parents, given, observed, desk, human>>

Rows ==
  [subjects |-> subjects, bound |-> bound, filed |-> filed, ingested |-> ingested,
   held |-> held, proposal |-> proposal, clash |-> {}]

\* Slip: the routed key is taken as it was when the card was routed.
StaleHome(c, key) == IF key = NoKey THEN OwnKey[c] ELSE key

\* The subject a card goes to: its key is new, given or routed, and resolved
\* through the merges that stand when the chunk commits.
Home(c, key) ==
  Canonical(merged, IF key = NoKey THEN OwnKey[c] ELSE key)

\* The row of subject s with the evidence of card c, and of the row of the key
\* that was merged into it.
WithEvidence(rows, c, s, key) ==
  LET from == {s, key} \cap DOMAIN rows
  IN [threads |-> {Thread[c]} \cup UNION {rows[x].threads : x \in from},
      sources |-> Cites[c] \cup UNION {rows[x].sources : x \in from}]

PutRow(rows, s, row) == [x \in DOMAIN rows \cup {s} |-> IF x = s THEN row ELSE rows[x]]

\* A handle that is bound keeps its subject, whichever that is: the second
\* binding is there already or a conflict, and conflicts are counted only.
BindOne(bindings, h, s) ==
  IF h \in DOMAIN bindings THEN bindings
  ELSE [x \in DOMAIN bindings \cup {h} |-> IF x = h THEN s ELSE bindings[x]]

\* The handles of a card bind to its subject, those that are free.
BindAll(bindings, c, s) ==
  [x \in DOMAIN bindings \cup Marks[c] |->
     IF x \in DOMAIN bindings THEN bindings[x] ELSE s]

\* The one open matter of the conversation without a parent: a new matter may
\* be a part of it.  Which matters are open and recent is not modelled.
ParentCandidates(db, s, open) ==
  ({Canonical(merged, f[2]) : f \in db.filed} \cap open)
    \ ({s} \cup {Canonical(merged, db.proposal[f[1]].child) : f \in parents})
Suggestion(db, s, open) ==
  LET candidates == ParentCandidates(db, s, open)
  IN IF Cardinality(candidates) # 1 THEN NoProposal
     ELSE [status |-> "open", child |-> s, parent |-> CHOOSE x \in candidates : TRUE]

\* Slip: the mark is inserted or ignored.
FileAgain(db, c, s, row) ==
  [db EXCEPT !.subjects = row,
             !.filed = @ \cup {<<c, s>>},
             !.bound = BindAll(@, c, s),
             !.ingested = @ \cup {c}]

\* Claims, queue row, handles and mark of a card stored under subject s.
\* mark_card inserts, and a card that is marked already, a clash, fails the
\* transaction.
File(db, c, s, row) ==
  [db EXCEPT !.subjects = row,
             !.filed = @ \cup {<<c, s>>},
             !.bound = BindAll(@, c, s),
             !.ingested = @ \cup {c},
             !.clash = @ \cup ({c} \cap db.ingested)]

\* Slip: a card nobody could place is let go.
LetCardGo(db, c) == db

\* The card waits for a reviewer; a review of it that is there is left as it is.
Hold(db, c) == [db EXCEPT !.held[c] = IF @ = "none" THEN "open" ELSE @]

\* One planned card joins the transaction of its chunk.  quiet are the cards
\* that tell nothing their subject does not hold already.
CommitPlan(db, p, quiet, open) ==
  LET c == p.card
      key == IF p.key = NoKey THEN OwnKey[c] ELSE p.key
      s == Home(c, p.key)
      known == s \in DOMAIN db.subjects
      row == IF known /\ c \in quiet THEN db.subjects
             ELSE PutRow(db.subjects, s, WithEvidence(db.subjects, c, s, key))
      done == File(db, c, s, row)
  IN CASE p.route = "duplicate" -> db
       [] p.route = "review" -> Hold(db, c)
       [] OTHER -> IF known THEN done
                   ELSE [done EXCEPT !.proposal[c] = Suggestion(done, s, open)]

Planned(w) ==
  /\ chunk[w].pc = "extracted"
  /\ Len(chunk[w].plans) = Len(chunk[w].cards)

SetRows(db) ==
  /\ subjects' = db.subjects /\ bound' = db.bound /\ filed' = db.filed
  /\ ingested' = db.ingested /\ held' = db.held /\ proposal' = db.proposal

\* The chunk commits: its records are observed and its plans take effect, or
\* an observation or a mark is there already and nothing does.
CommitChunk(w) ==
  /\ Planned(w)
  /\ chunk[w].records \cap observed = {}
  /\ \E quiet \in SUBSET Range(chunk[w].cards), open \in SUBSET Subjects :
       LET commit(db, p) == CommitPlan(db, p, quiet, open)
           db == FoldLeft(commit, Rows, chunk[w].plans)
       IN db.clash = {} /\ SetRows(db)
  /\ observed' = observed \cup chunk[w].records
  /\ chunk' = [chunk EXCEPT ![w] = Nothing]
  /\ UNCHANGED <<merged, parents, given, desk, human>>

\* The chunk is given up: a row was there already, the model could not be
\* reached, or the process restarted.
LoseChunk(w) ==
  /\ chunk[w].pc = "extracted"
  /\ chunk' = [chunk EXCEPT ![w] = Nothing]
  /\ UNCHANGED <<tables, merged, parents, given, observed, desk, human>>

Drop(c) ==
  /\ held[c] = "open"
  /\ held' = [held EXCEPT ![c] = "drop"]
  /\ UNCHANGED <<subjects, merged, bound, filed, ingested, proposal, parents, given,
                 observed, chunk, desk, human>>

\* A reviewer attaches a held card to a subject or makes a new one of it.  The
\* claims are stored although they tell nothing new, and no parent is proposed.
Settle(c, action, key) ==
  /\ held[c] = "open"
  /\ LET s == Home(c, key)
         own == IF key = NoKey THEN OwnKey[c] ELSE key
         db == File(Rows, c, s,
                    PutRow(subjects, s, WithEvidence(subjects, c, s, own)))
     IN /\ db.clash = {}
        /\ SetRows([db EXCEPT !.held[c] = action])
  /\ UNCHANGED <<merged, parents, given, observed, chunk, desk, human>>
Attach(c) == \E s \in DOMAIN subjects : Settle(c, "attach", s)
AsNew(c) == Settle(c, "new", NoKey)

DropProposal(c) ==
  /\ proposal[c].status = "open"
  /\ proposal' = [proposal EXCEPT ![c].status = "drop"]
  /\ UNCHANGED <<subjects, merged, bound, filed, ingested, held, parents, given,
                 observed, chunk, desk, human>>

\* A proposed parent is accepted in two steps: the item is read and its edge
\* gated outside of a transaction, then the claim and the resolution commit.
ReadProposal(k) ==
  /\ desk[k] = NoKey
  /\ \E c \in Cards : /\ proposal[c].status = "open"
                      /\ desk' = [desk EXCEPT ![k] = c]
  /\ UNCHANGED <<tables, merged, parents, given, observed, chunk, human>>

\* Slip: the row is updated whatever it holds.
AnyState(c) == proposal[c].status # "none"

\* The update of the review row is guarded by its being unresolved: the claim
\* of the one who comes second is rolled back with it.
StillOpen(c) == proposal[c].status = "open"
AcceptProposal(k) ==
  /\ desk[k] # NoKey
  /\ LET c == desk[k]
     IN IF StillOpen(c)
        THEN /\ proposal' = [proposal EXCEPT ![c].status = "attach_subgoal"]
             /\ parents' = parents \cup {<<c, k>>}
        ELSE UNCHANGED <<proposal, parents>>
  /\ desk' = [desk EXCEPT ![k] = NoKey]
  /\ UNCHANGED <<subjects, merged, bound, filed, ingested, held, given, observed,
                 chunk, human>>

Decide == human < MaxHuman /\ human' = human + 1

MergeMatters ==
  /\ Decide
  /\ \E s, t \in DOMAIN subjects :
       /\ MergeAllowed(DOMAIN subjects, merged, s, t)
       /\ merged' = AddEdge(merged, s, t)
  /\ UNCHANGED <<tables, parents, given, observed, chunk, desk>>

UnmergeMatters ==
  /\ \E s \in DOMAIN merged : merged' = DropEdge(merged, s)
  /\ UNCHANGED <<tables, parents, given, observed, chunk, desk, human>>

Rebind(bindings) ==
  /\ bound' = bindings
  /\ UNCHANGED <<subjects, merged, filed, ingested, held, proposal, parents, given,
                 observed, chunk, desk>>

\* A person binds a handle; one that is bound elsewhere refuses.
BindHandle ==
  /\ Decide
  /\ \E h \in Handles \ DOMAIN bound, s \in DOMAIN subjects :
       Rebind(BindOne(bound, h, Canonical(merged, s)))
UnbindHandle ==
  /\ Decide
  /\ \E h \in DOMAIN bound : Rebind([x \in DOMAIN bound \ {h} |-> bound[x]])

\* The offline backfill binds handles to the subjects whose claims show them.
\* It reads the claims before its transaction and may miss the latest.
BackfillHandles ==
  LET showing(h) == {f[2] : f \in {g \in filed : h \in Marks[g[1]]}}
  IN /\ \E D \in SUBSET (Handles \ DOMAIN bound) \ {{}} :
          \E owner \in [D -> DOMAIN subjects] :
            /\ \A h \in D : owner[h] \in showing(h)
            /\ Rebind([h \in DOMAIN bound \cup D |->
                         IF h \in D THEN owner[h] ELSE bound[h]])
     /\ UNCHANGED human

RoutingNext ==
  \/ \E w \in Workers : Extract(w) \/ Route(w) \/ CommitChunk(w) \/ LoseChunk(w)
  \/ \E c \in Cards : Drop(c) \/ Attach(c) \/ AsNew(c) \/ DropProposal(c)
  \/ \E k \in Clerks : ReadProposal(k) \/ AcceptProposal(k)
  \/ MergeMatters \/ UnmergeMatters
  \/ BindHandle \/ UnbindHandle \/ BackfillHandles

RoutingSpec == RoutingInit /\ [][RoutingNext]_routingVars

-----------------------------------------------------------------------------

\* A card has one home: whatever the order of routes, retries and reviews, its
\* claims are stored under one subject, and it is marked when and only when
\* they are (Engine._commit_routing_outcome, Engine.resolve_review).
OneHome ==
  /\ \A f, g \in filed : f[1] = g[1] => f[2] = g[2]
  /\ ingested = {f[1] : f \in filed}
  /\ \A c \in Cards : held[c] \in {"attach", "new"} => c \in ingested

\* A card is stored under a subject that exists and is not merged away at that
\* moment, although it was routed against older subjects and merges.
RoutedToLiving ==
  [][\A f \in filed' \ filed :
       f[2] \in DOMAIN subjects' /\ f[2] \notin DOMAIN merged']_routingVars

\* When the records of a chunk become observed, which keeps them from being
\* extracted again, every card made of them is stored or waits for a reviewer.
NoCardLost ==
  [][\A w \in Workers : observed' # observed /\ chunk'[w] # chunk[w] =>
       \A c \in Range(chunk[w].cards) : c \in ingested' \/ held'[c] # "none"
    ]_routingVars

\* A proposed parent is decided once: however many people read it, one claim is
\* written when it is accepted and none when it is dropped.
DecidedOnce ==
  \A c \in Cards :
    Cardinality({f \in parents : f[1] = c}) =
      IF proposal[c].status = "attach_subgoal" THEN 1 ELSE 0

\* SPEC 433: a held card is not persisted as a claim or queue item before it
\* is resolved.
HeldCardsAreHeld == \A c \in Cards : held[c] = "open" => c \notin ingested
=============================================================================
