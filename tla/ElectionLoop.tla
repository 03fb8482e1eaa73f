---------------------------- MODULE ElectionLoop ----------------------------
(***************************************************************************)
(* election_history and _project_elected_single as they are written: over  *)
(* the instants of a ballot, and at each over its votes by recency, with   *)
(* the live contributions and the open interval in hand.  A walk is a fold *)
(* that takes the latest out of a set: it is counted on top of the others. *)
(***************************************************************************)
EXTENDS GoalGraph, ProjectionLoop

Latest(A) == CHOOSE a \in A : \A b \in A : ~ Later(b, a)

\* election_history: one vote.
CountVote(edges, live, a) ==
  IF a.op = "ASSERT" THEN live \cup {a}
  ELSE {c \in live : ~ (c.origin = a.origin /\ End2(edges, a) \in {End2(edges, c), Star})}

\* election_history: the votes of one instant by recency.
CountVotes(edges, live, A) ==
  MapThenFoldSet(LAMBDA a, l : CountVote(edges, l, a), live, LAMBDA a : a, Latest, A)

\* _election_interval
Reign(edges, s, S, from) ==
  [subj |-> s, key |-> Elected(edges, S), from |-> from, to |-> None,
   support |-> For(edges, S, Elected(edges, S))]

\* election_history and _project_elected_single: the votes of one instant, then
\* the election.
ElectionStep(edges, s, A, walk, t) ==
  LET live   == CountVotes(edges, walk.live, At(A, t))
      winner == Elected(edges, live)
      kept   == {i \in walk.active : i.key = winner}
      froms  == IF kept = {} THEN {t} ELSE {i.from : i \in kept}
  IN  [live |-> live,
       active |-> IF winner = None THEN {} ELSE {Reign(edges, s, live, f) : f \in froms},
       done |-> IF kept # {} THEN walk.done
                ELSE walk.done \cup {ClosedAt(i, t) : i \in walk.active}]

Unelected == [live |-> {}, active |-> {}, done |-> {}]

ElectionWalk(edges, s, A) ==
  LET end == MapThenFoldSet(LAMBDA t, w : ElectionStep(edges, s, A, w, t), Unelected,
                            LAMBDA t : t, Max, Instants(A))
  IN  end.active \cup end.done

-----------------------------------------------------------------------------
\* The elected intervals are the ones the code walks: the contributions that
\* stand, the winners and their runs come out the same vote by vote, in
\* whatever order the votes were stored (election_history, _project_elected_single).
ElectionIsTheWalk ==
  \A s \in Subjects :
    LET A == Ballot(votes, merges, s, "part_of")
    IN  ElectedIntervals(merges, s, A) = ElectionWalk(merges, s, A)
=============================================================================
