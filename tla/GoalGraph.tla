------------------------------ MODULE GoalGraph ------------------------------
(***************************************************************************)
(* The structure predicates of one scope: part_of, whose target is elected *)
(* by weight, and spawned_from, whose latest value counts.  Together they  *)
(* are the goal graph, which the admission gate keeps free of cycles.      *)
(*                                                                         *)
(* A correction passes the gate before it opens its transaction; the       *)
(* emissions of the unified loop and the theme pass are gated inside       *)
(* theirs; merges are not gated at all.  Every subject has been seeded by  *)
(* a card.                                                                 *)
(***************************************************************************)
EXTENDS Projection

CONSTANTS
  HumanWeight,   \* human_edge_weight
  Sources,       \* what a vote may cite; a theme pass cites "theme"
  IdRank,        \* the order of assertion ids, which depends on the key
  Edits,         \* the structure corrections callers may submit
  Emissions,     \* the pairs of intents a loop may emit; <<i, i>> is just i
  Themes,        \* the (root, members) a theme pass may propose
  MergePairs,    \* the (source, target) pairs callers may merge
  MaxClock,      \* bound: recorded operations
  MaxInflight    \* bound: corrections between their gate and their commit

VARIABLES
  votes,      \* table assertions: the structure predicates
  merges,     \* table subject_merges
  notices,    \* table review_queue: the election notices
  clock,      \* the instant the next operation records
  inflight    \* corrections past the gate; stale when the tables have changed since

vars == <<votes, merges, notices, clock, inflight>>

VoteType ==
  [subj : Subjects, pred : Predicates, op : {"ASSERT", "RETRACT"},
   key : Subjects \cup {Star}, vf : Nat, src : Sources, origin : {"human", "model"},
   rec : Nat]

\* What callers and loops ask for: only a RETRACT can be field-wide.
EdgeType ==
  {r \in [subj : Subjects, pred : Predicates, op : {"ASSERT", "RETRACT"},
          key : Subjects \cup {Star}, vf : Nat, src : Sources] :
     r.op = "ASSERT" => r.key # Star}

ASSUME StructureAssumption ==
  /\ Predicates = {"part_of", "spawned_from"}
  /\ \A p \in Predicates : Kind[p] = "SINGLE"
  /\ HumanWeight \in Nat /\ HumanWeight >= 2
  /\ IdRank \in [Subjects \cup {Star} -> Nat] /\ Star \notin Subjects
  /\ \A j, k \in Subjects \cup {Star} : IdRank[j] = IdRank[k] => j = k
  /\ None \notin Subjects /\ "theme" \in Sources
  /\ Edits \subseteq EdgeType /\ Emissions \subseteq EdgeType \X EdgeType
  /\ Themes \subseteq [root : Subjects, members : SUBSET Subjects]
  /\ \A h \in Themes : IsFiniteSet(h.members)
  /\ MergePairs \subseteq Subjects \X Subjects
  /\ MaxClock \in Nat

-----------------------------------------------------------------------------
\* canonicalize_graph_assertions: both ends of an edge are resolved.
End1(edges, a) == Canonical(edges, a.subj)
End2(edges, a) == IF a.key = Star THEN Star ELSE Canonical(edges, a.key)

\* The votes of one predicate on one canonical subject.
Ballot(stored, edges, s, p) == {a \in stored : a.pred = p /\ End1(edges, a) = s}

\* _assertion_recency
Later(a, b) ==
  \/ a.vf > b.vf
  \/ a.vf = b.vf /\ a.rec > b.rec
  \/ a.vf = b.vf /\ a.rec = b.rec /\ IdRank[a.key] > IdRank[b.key]

\* Slip: a RETRACT withdraws what either origin contributed.
RetractsAnyone(edges, r, a) ==
  /\ r.op = "RETRACT" /\ Later(r, a)
  /\ End2(edges, r) \in {End2(edges, a), Star}

\* Slip: a RETRACT withdraws every contribution of its origin.
RetractsField(edges, r, a) ==
  r.op = "RETRACT" /\ Later(r, a) /\ r.origin = a.origin

\* _retracts: a RETRACT withdraws the earlier contributions of its own origin.
Retracts(edges, r, a) ==
  /\ r.op = "RETRACT" /\ Later(r, a) /\ r.origin = a.origin
  /\ End2(edges, r) \in {End2(edges, a), Star}

\* The contributions of a ballot that count once its votes up to instant t do.
Standing(edges, A, t) ==
  {a \in Asserts(A) : a.vf <= t /\ \A r \in A : r.vf <= t => ~ Retracts(edges, r, a)}

For(edges, S, k) == {a \in S : End2(edges, a) = k}
HumanVotes(edges, S, k) == {a \in For(edges, S, k) : a.origin = "human"}
ModelVotes(edges, S, k) == {a \in For(edges, S, k) : a.origin = "model"}

Weight(edges, S, k) ==
  HumanWeight * Cardinality(HumanVotes(edges, S, k)) + Cardinality(ModelVotes(edges, S, k))

LatestFor(edges, S, k) ==
  CHOOSE a \in For(edges, S, k) : \A b \in For(edges, S, k) : ~ Later(b, a)

\* Slip: the most recent contribution wins, whatever the weights.
BeatsByRecency(edges, S, k, j) == Later(LatestFor(edges, S, k), LatestFor(edges, S, j))

\* The greater weight wins, the more recent contribution breaks the tie.
Beats(edges, S, k, j) ==
  \/ Weight(edges, S, k) > Weight(edges, S, j)
  \/ /\ Weight(edges, S, k) = Weight(edges, S, j)
     /\ Later(LatestFor(edges, S, k), LatestFor(edges, S, j))

\* _elect
Elected(edges, S) ==
  LET targets == {End2(edges, a) : a \in S}
  IN  IF S = {} THEN None
      ELSE CHOOSE k \in targets : \A j \in targets \ {k} : Beats(edges, S, k, j)

ElectedAt(edges, A, t) == Elected(edges, Standing(edges, A, t))

\* elected_part_of: the outcome at the last instant of the ballot.
Parent(stored, edges, s) ==
  LET A == Ballot(stored, edges, s, "part_of")
  IN  IF A = {} THEN None ELSE ElectedAt(edges, A, Max(Instants(A)))

\* spawned_from is an ordinary SINGLE value.
Birthplace(stored, edges, s) ==
  LET A == {[a EXCEPT !.subj = s, !.key = End2(edges, a)] :
              a \in Ballot(stored, edges, s, "spawned_from")}
  IN  IF A = {} THEN None ELSE Decided(A, Max(Instants(A)))

Active(stored, edges, s) ==
  {Parent(stored, edges, s), Birthplace(stored, edges, s)} \ {None}

\* _has_cycle: some subjects in which every one leads back among them.
Cyclic(stored, edges) ==
  \E S \in SUBSET (Subjects \ DOMAIN edges) :
    S # {} /\ \A s \in S : Active(stored, edges, s) \cap S # {}

\* Slip: the graph is searched as it is before the edge.
RejectedTooLate(stored, edges, a) ==
  a.op = "ASSERT" /\ (End1(edges, a) = End2(edges, a) \/ Cyclic(stored, edges))

\* a repeats a contribution that counts until a is reached: it counts once.
Repeats(stored, edges, a) ==
  /\ a.pred = "part_of"
  /\ \E b \in stored :
       /\ Identity(b) = Identity(a)
       /\ \A r \in Ballot(stored, edges, End1(edges, a), a.pred) :
            Later(a, r) => ~ Retracts(edges, r, b)

\* What a gate counts: the stored votes and the proposed ones.
With(stored, edges, P) == stored \cup {a \in P : ~ Repeats(stored, edges, a)}

\* structure_rejection: the graph with the edge in it has to be acyclic.
Rejected(stored, edges, a) ==
  /\ a.op = "ASSERT"
  /\ \/ End1(edges, a) = End2(edges, a)
     \/ Cyclic(With(stored, edges, {a}), edges)

\* _model_assertion_is_unchanged
Unchanged(stored, edges, a) ==
  /\ a.op = "ASSERT"
  /\ a.key = IF a.pred = "part_of" THEN Parent(stored, edges, a.subj)
             ELSE Birthplace(stored, edges, a.subj)

-----------------------------------------------------------------------------
\* The elected intervals of a subject: one for each run of instants that elect
\* the same target, with the contributions it stood on at the last of them.
ElectedIntervals(edges, s, A) ==
  LET chosen(t) == ElectedAt(edges, A, t)
      before(t) == {u \in Instants(A) : u < t}
      ends(t)   == {u \in Instants(A) : u > t /\ chosen(u) # chosen(t)}
      last(t)   == {u \in Instants(A) : t <= u /\ \A e \in ends(t) : u < e}
  IN  {[subj |-> s, key |-> chosen(t), from |-> t,
        to |-> IF ends(t) = {} THEN None ELSE Min(ends(t)),
        support |-> For(edges, Standing(edges, A, Max(last(t))), chosen(t))] :
       t \in {u \in Instants(A) :
                /\ chosen(u) # None
                /\ before(u) # {} => chosen(Max(before(u))) # chosen(u)}}

\* Slip: the outvoted human is told when the model is far ahead only.
OutvotedByFar(edges, S, old, new) ==
  /\ HumanVotes(edges, S, old) # {}
  /\ Cardinality(ModelVotes(edges, S, new)) > HumanWeight

\* The model has outvoted a human who stands by the old target.
Outvoted(edges, S, old, new) ==
  /\ HumanVotes(edges, S, old) # {}
  /\ Cardinality(ModelVotes(edges, S, new)) >= HumanWeight

\* _enqueue_election_notice: what a vote that was stored gives rise to.
Notices(before, edges, a) ==
  LET s   == End1(edges, a)
      A   == Ballot(before \cup {a}, edges, s, "part_of")
      old == Parent(before, edges, s)
      new == Parent(before \cup {a}, edges, s)
  IN  {n \in {[subj |-> s, old |-> old, new |-> new, by |-> Identity(a)]} :
         /\ a.pred = "part_of" /\ None \notin {old, new} /\ old # new
         /\ Outvoted(edges, Standing(edges, A, Max(Instants(A))), old, new)}

\* _add_assertion: the table and the notices after it.
Added(st, a) ==
  IF Taken(st.votes, a) THEN st
  ELSE [votes |-> st.votes \cup {a},
        notices |-> st.notices \cup Notices(st.votes, merges, a)]

Touched(S) == {[p EXCEPT !.stale = TRUE] : p \in S}

-----------------------------------------------------------------------------
Init ==
  /\ votes = {} /\ merges = NoEdges /\ notices = {} /\ clock = 1 /\ inflight = {}

\* correct, up to its transaction
PrepareEdge(r) ==
  LET a == [subj |-> Canonical(merges, r.subj), pred |-> r.pred, op |-> r.op,
            key |-> r.key, vf |-> r.vf, src |-> r.src, origin |-> "human",
            rec |-> clock]
  IN  /\ clock < MaxClock /\ Cardinality(inflight) < MaxInflight
      /\ ~ Rejected(votes, merges, a)
      /\ inflight' = inflight \cup {[vote |-> a, stale |-> FALSE]}
      /\ clock' = clock + 1
      /\ UNCHANGED <<votes, merges, notices>>

\* The transaction of correct; a clash of ids raises and stores nothing.
CommitEdge(p) ==
  LET st == IF Clashes(votes, p.vote) THEN [votes |-> votes, notices |-> notices]
            ELSE Added([votes |-> votes, notices |-> notices], p.vote)
  IN  /\ votes' = st.votes /\ notices' = st.notices
      /\ inflight' = IF votes' = votes THEN inflight \ {p} ELSE Touched(inflight \ {p})
      /\ UNCHANGED <<merges, clock>>

\* _validate_intent: one intent, against what is stored and already proposed, as
\* if it were recorded last.
Proposed(known, i) ==
  LET a == [subj |-> Canonical(merges, i.subj), pred |-> i.pred, op |-> i.op,
            key |-> IF i.key = Star THEN Star ELSE Canonical(merges, i.key),
            vf |-> i.vf, src |-> i.src, origin |-> "model", rec |-> MaxClock + 2]
  IN  IF Rejected(known, merges, a) \/ Unchanged(known, merges, a) THEN {} ELSE {a}

\* Slip: the proposals are stored as they were gated, recorded last of all.
StampedNever(P, n) == P

Stamped(P, n) == {[a EXCEPT !.rec = n] : a \in P}

\* _emit: the intents are gated one after the other and stored together.
Emit(e) ==
  LET first  == Proposed(votes, e[1])
      second == Proposed(With(votes, merges, first), e[2])
      Store(st, P) == IF P = {} THEN st ELSE Added(st, CHOOSE a \in P : TRUE)
      one == Store([votes |-> votes, notices |-> notices], Stamped(first, clock))
      two == Store(one, Stamped(second, clock + 1))
  IN  /\ clock < MaxClock
      /\ first \cup second # {}
      /\ \A a \in first \cup second : ~ Clashes(votes, a)
      /\ votes' = two.votes /\ notices' = two.notices
      /\ clock' = clock + 2
      /\ inflight' = IF votes' = votes THEN inflight ELSE Touched(inflight)
      /\ UNCHANGED merges

\* _apply_proposal: the members that have no parent by now, each gated; one vote
\* whose id clashes undoes the pass.  The code gates a member with those that
\* joined before it counted in: they lead to the root only, so that it comes to
\* the same (GatedAlike in GoalGraphProofs).
ThemePass(h) ==
  LET Vote(m) == [subj |-> m, pred |-> "part_of", op |-> "ASSERT", key |-> h.root,
                  vf |-> clock, src |-> "theme", origin |-> "model", rec |-> clock]
      joining == {m \in h.members \ (DOMAIN merges \cup {h.root}) :
                    /\ Parent(votes, merges, m) = None
                    /\ ~ Rejected(votes, merges, Vote(m))}
  IN  /\ clock < MaxClock
      /\ joining # {}
      /\ \A m \in joining : ~ Clashes(votes, Vote(m))
      /\ votes' = votes \cup {Vote(m) : m \in {x \in joining : ~ Taken(votes, Vote(x))}}
      /\ clock' = clock + 1
      /\ inflight' = IF votes' = votes THEN inflight ELSE Touched(inflight)
      /\ UNCHANGED <<merges, notices>>

Merge(s, t) ==
  /\ MergeAllowed(Subjects, merges, s, t)
  /\ merges' = AddEdge(merges, s, t)
  /\ inflight' = Touched(inflight)
  /\ UNCHANGED <<votes, notices, clock>>

Unmerge(s) ==
  /\ s \in DOMAIN merges
  /\ merges' = DropEdge(merges, s)
  /\ inflight' = Touched(inflight)
  /\ UNCHANGED <<votes, notices, clock>>

Next ==
  \/ \E r \in Edits : PrepareEdge(r)
  \/ \E p \in inflight : CommitEdge(p)
  \/ \E e \in Emissions : Emit(e)
  \/ \E h \in Themes : ThemePass(h)
  \/ \E m \in MergePairs : Merge(m[1], m[2])
  \/ \E s \in Subjects : Unmerge(s)

Spec == Init /\ [][Next]_vars

-----------------------------------------------------------------------------
\* Shape of the tables; nothing is recorded in the future.
TypeOK ==
  /\ votes \subseteq VoteType /\ {p.vote : p \in inflight} \subseteq VoteType
  /\ \A a \in votes \cup {p.vote : p \in inflight} : a.rec < clock
  /\ merges \in Edges
  /\ \A n \in notices : {n.subj, n.old, n.new} \subseteq Subjects
  /\ clock \in Nat

StandingNow(stored, edges, s) ==
  LET A == Ballot(stored, edges, s, "part_of")
  IN  IF A = {} THEN {} ELSE Standing(edges, A, Max(Instants(A)))

\* The model out-votes a human placement only by as many standing contributions
\* as the humans behind it weigh (SPEC INV-22), whichever way they got there.
HumanOutweighed ==
  \A s \in Subjects :
    LET S == StandingNow(votes, merges, s)
        e == Parent(votes, merges, s)
    IN  \A a \in S : a.origin = "human" /\ HumanVotes(merges, S, e) = {} =>
          Cardinality(ModelVotes(merges, S, e)) >=
            HumanWeight * Cardinality(HumanVotes(merges, S, End2(merges, a)))

\* An election moves for a cause: a new vote for the new target, or a new
\* RETRACT against the old one.  No vote makes a third target win.
ElectionMovesForCause ==
  [][merges' = merges =>
       \A s \in Subjects :
         LET old == Parent(votes, merges, s)
             new == Parent(votes', merges, s)
         IN  old # new =>
               \E a \in Ballot(votes' \ votes, merges, s, "part_of") :
                 \/ a.op = "ASSERT" /\ End2(merges, a) = new
                 \/ a.op = "RETRACT" /\ End2(merges, a) \in {old, Star}]_vars

\* Model votes that turn the election against a human who stands by the old
\* target, for one that no human stands by, leave a notice of it: one that names
\* both, or the step out of or into a target in between.
OutvotedHumanNoticed ==
  [][merges' = merges =>
       \A s \in Subjects :
         LET old == Parent(votes, merges, s)
             new == Parent(votes', merges, s)
             S   == StandingNow(votes', merges, s)
         IN  /\ None \notin {old, new} /\ old # new
             /\ HumanVotes(merges, S, old) # {} /\ HumanVotes(merges, S, new) = {}
             /\ \A a \in votes' \ votes : a.op = "ASSERT"
             => \E n \in notices', a \in votes' \ votes :
                  /\ n.by = Identity(a) /\ n.subj = s
                  /\ n.old = old \/ n.new = new]_vars

\* The gate of the second intent saw the first where the tables do not have it:
\* as a vote, though add_assertion drops it as one that was withdrawn, or as
\* recorded at the same instant, where the ids decide which of two edges of one
\* goal is the later.
Misread(e) ==
  LET first == Proposed(votes, e[1])
  IN  \E a \in first, b \in Proposed(With(votes, merges, first), e[2]) :
        \/ Taken(votes, a) /\ ~ Repeats(votes, merges, a)
        \/ a.pred = b.pred /\ a.subj = b.subj /\ a.vf = b.vf

\* The goal graph becomes cyclic for one of four reasons only: subjects were
\* merged or unmerged, a RETRACT gave way to an older edge, a correction was
\* stored after the tables that its gate had read changed, or the gate misread
\* the first of two intents.
CyclesHaveACause ==
  [][Cyclic(votes', merges') /\ ~ Cyclic(votes, merges) =>
       \/ merges' # merges
       \/ \E a \in votes' \ votes : a.op = "RETRACT"
       \/ \E p \in inflight \ inflight' : p.stale /\ p.vote \in votes'
       \/ \E e \in Emissions : Emit(e) /\ Misread(e)]_vars

-----------------------------------------------------------------------------
\* What the documents say and the code does not do.

\* Admission rejects any edge that would create a cycle (SPEC INV-19).
AdmissionKeepsAcyclic ==
  [][merges' = merges /\ (\A a \in votes' \ votes : a.op = "ASSERT") =>
       (Cyclic(votes', merges') => Cyclic(votes, merges))]_vars
=============================================================================
