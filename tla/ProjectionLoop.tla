--------------------------- MODULE ProjectionLoop ---------------------------
(***************************************************************************)
(* The walks of projection.py as they are written: over the instants of a  *)
(* SINGLE group with one open interval in hand, and over the events of a   *)
(* SET or APPEND group in rank order.  A walk is a fold that takes what    *)
(* comes last out of a set: it is counted on top of all the others.        *)
(***************************************************************************)
EXTENDS Projection

Opened(s, p, a, support) ==
  [subj |-> s, pred |-> p, key |-> a.key, from |-> a.vf, to |-> None,
   opener |-> a, support |-> support]

ClosedAt(i, t) == [i EXCEPT !.to = t]
Backed(i, more) == [i EXCEPT !.support = @ \cup more]

\* _project_single: what is in hand after the events at t, and what was closed.
WalkInstant(s, p, A, walk, t) ==
  LET winner == Top(At(A, t))
      backing == {a \in At(A, t) : a.op = "ASSERT" /\ a.key = winner.key}
      closed == {ClosedAt(i, t) : i \in walk.active}
      same   == \E i \in walk.active : i.key = winner.key
  IN  IF winner.op = "RETRACT" THEN [active |-> {}, done |-> walk.done \cup closed]
      ELSE IF same
      THEN [active |-> {Backed(i, backing) : i \in walk.active}, done |-> walk.done]
      ELSE [active |-> {Opened(s, p, winner, backing)}, done |-> walk.done \cup closed]

\* _project_set: one event of the instant's ranked events.
WalkEvent(s, p, walk, e) ==
  LET hit == {i \in walk.active :
                i.key = e.key \/ (e.op = "RETRACT" /\ e.key = Star)}
  IN  IF e.op = "RETRACT"
      THEN [active |-> walk.active \ hit,
            done |-> walk.done \cup {ClosedAt(i, e.vf) : i \in hit}]
      ELSE IF hit = {}
      THEN [active |-> walk.active \cup {Opened(s, p, e, {e})}, done |-> walk.done]
      ELSE [active |-> (walk.active \ hit) \cup {Backed(i, {e}) : i \in hit},
            done |-> walk.done]

\* _project_append: points, and the RETRACTs of a retractable predicate.
WalkPoint(s, p, active, e) ==
  IF e.op = "ASSERT"
  THEN active \cup {ClosedAt(Opened(s, p, e, {e}), e.vf)}
  ELSE IF p \in Retractable
  THEN {i \in active : e.key # Star /\ i.key # e.key}
  ELSE active

Unwalked == [active |-> {}, done |-> {}]

\* The instants in order.
WalkSingle(s, p, A) ==
  MapThenFoldSet(LAMBDA t, w : WalkInstant(s, p, A, w, t), Unwalked,
                 LAMBDA t : t, Max, Instants(A))

\* The events in rank order.
WalkSet(s, p, A) ==
  MapThenFoldSet(LAMBDA e, w : WalkEvent(s, p, w, e), Unwalked,
                 LAMBDA e : e, Top, A)

WalkAppend(s, p, A) ==
  MapThenFoldSet(LAMBDA e, w : WalkPoint(s, p, w, e), {}, LAMBDA e : e, Top, A)

WalkGroup(s, p, A) ==
  CASE Kind[p] = "SINGLE" -> WalkSingle(s, p, A).active \cup WalkSingle(s, p, A).done
    [] Kind[p] = "SET"    -> WalkSet(s, p, A).active \cup WalkSet(s, p, A).done
    [] Kind[p] = "APPEND" -> WalkAppend(s, p, A)

\* project_assertions
Walk(asserts, edges) ==
  UNION {WalkGroup(s, p, Group(asserts, edges, s, p)) :
         s \in Subjects, p \in Predicates}
=============================================================================
