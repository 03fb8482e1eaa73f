----------------------------- MODULE Projection -----------------------------
(***************************************************************************)
(* projection.py: from the assertions of a scope to its value intervals.   *)
(*                                                                         *)
(* The code walks each group of assertions (same canonical subject, same   *)
(* predicate) instant by instant with one open interval in hand.  Here an  *)
(* interval is described by what opens it, what closes it and what         *)
(* supports it; ProjectionLoop states the walk itself and the runs compare *)
(* the two.  The weighted projection of part_of and gathers is not here.   *)
(***************************************************************************)
EXTENDS SubjectMerges, Assertions, FiniteSets, FiniteSetsExt

CONSTANTS
  Predicates,    \* the predicates of the profile
  Kind,          \* predicate -> "SINGLE", "SET" or "APPEND"
  Retractable,   \* the APPEND predicates a RETRACT applies to
  Star           \* the object key of a field-wide RETRACT

ASSUME ProfileAssumption ==
  /\ Kind \in [Predicates -> {"SINGLE", "SET", "APPEND"}]
  /\ Retractable \subseteq {p \in Predicates : Kind[p] = "APPEND"}
  /\ None \notin Nat

\* Slip: the origin has no rank.
HumanUnranked(a) == 0

Human(a) == IF a.origin = "human" THEN 1 ELSE 0

\* a comes after b in rank order.  assertion_id breaks the last ties of the
\* code; here two assertions of a group that are recorded together differ in
\* key only and belong to one card, and their order shows in no interval.
Outranks(a, b) ==
  \/ a.vf > b.vf
  \/ a.vf = b.vf /\ Human(a) > Human(b)
  \/ a.vf = b.vf /\ Human(a) = Human(b) /\ a.rec > b.rec

Top(A) == CHOOSE w \in A : \A o \in A : ~ Outranks(o, w)

Instants(A) == {a.vf : a \in A}
At(A, t) == {a \in A : a.vf = t}
Asserts(A) == {a \in A : a.op = "ASSERT"}

\* The value in force from instant t on, None when a RETRACT wins there.
Decided(A, t) ==
  LET w == Top(At(A, t)) IN IF w.op = "ASSERT" THEN w.key ELSE None

\* Slip: a RETRACT does not end the value in hand.
HeldThroughRetract(A, t) ==
  LET earlier == {u \in Instants(A) : u < t /\ Decided(A, u) # None}
  IN  IF earlier = {} THEN None ELSE Decided(A, Max(earlier))

\* The value in force just before t.
Held(A, t) ==
  LET earlier == {u \in Instants(A) : u < t}
  IN  IF earlier = {} THEN None ELSE Decided(A, Max(earlier))

\* Slip: every later instant closes the interval.
EndAtNextInstant(A, t) ==
  LET later == {u \in Instants(A) : u > t} IN IF later = {} THEN None ELSE Min(later)

\* Where a value decided at t stops: the next instant that decides otherwise.
End(A, t) ==
  LET later == {u \in Instants(A) : u > t /\ Decided(A, u) # Decided(A, t)}
  IN  IF later = {} THEN None ELSE Min(later)

Within(u, from, to) == from <= u /\ (to = None \/ u < to)

SingleIntervals(s, p, A) ==
  {[subj |-> s, pred |-> p, key |-> Decided(A, t), from |-> t, to |-> End(A, t),
    opener |-> Top(At(A, t)),
    support |-> {a \in Asserts(A) : /\ a.key = Decided(A, t)
                                    /\ Within(a.vf, t, End(A, t))}] :
   t \in {u \in Instants(A) : Decided(A, u) \notin {None, Held(A, u)}}}

-----------------------------------------------------------------------------
\* What a SET member k goes through: its own ASSERTs, the RETRACTs that name
\* it and the field-wide ones, ordered by rank.
Affecting(A, k) == {a \in A : a.key = k \/ (a.op = "RETRACT" /\ a.key = Star)}

Before(A, k, e) == {a \in Affecting(A, k) : Outranks(e, a)}
After(A, k, e) == {a \in Affecting(A, k) : Outranks(a, e)}

\* e finds k closed.
OpensMember(A, k, e) ==
  /\ e.op = "ASSERT"
  /\ \/ Before(A, k, e) = {}
     \/ Top(Before(A, k, e)).op = "RETRACT"

\* The RETRACTs that come after e and before every other one that does.
Closers(A, k, e) ==
  LET later == {r \in After(A, k, e) : r.op = "RETRACT"}
  IN  {r \in later : \A o \in later : ~ Outranks(r, o)}

MemberInterval(s, p, A, k, e) ==
  LET closers == Closers(A, k, e)
  IN  [subj |-> s, pred |-> p, key |-> k, from |-> e.vf,
       to |-> IF closers = {} THEN None ELSE (CHOOSE r \in closers : TRUE).vf,
       opener |-> e,
       support |-> {e} \cup
         {a \in Asserts(After(A, k, e)) : \A r \in closers : Outranks(r, a)}]

SetIntervals(s, p, A) ==
  UNION {{MemberInterval(s, p, A, k, e) :
            e \in {a \in Affecting(A, k) : OpensMember(A, k, a)}} :
         k \in {a.key : a \in Asserts(A)}}

\* An APPEND point stays unless a later RETRACT of a retractable predicate
\* names it.
Withdrawn(p, A, e) ==
  /\ p \in Retractable
  /\ \E r \in After(A, e.key, e) : r.op = "RETRACT"

AppendIntervals(s, p, A) ==
  {[subj |-> s, pred |-> p, key |-> e.key, from |-> e.vf, to |-> e.vf,
    opener |-> e, support |-> {e}] :
   e \in {a \in Asserts(A) : ~ Withdrawn(p, A, a)}}

-----------------------------------------------------------------------------
\* The assertions projected together: those whose subject resolves to s.
Group(asserts, edges, s, p) ==
  {a \in asserts : a.pred = p /\ Canonical(edges, a.subj) = s}

GroupIntervals(s, p, A) ==
  CASE Kind[p] = "SINGLE" -> SingleIntervals(s, p, A)
    [] Kind[p] = "SET"    -> SetIntervals(s, p, A)
    [] Kind[p] = "APPEND" -> AppendIntervals(s, p, A)

Project(asserts, edges) ==
  UNION {GroupIntervals(s, p, Group(asserts, edges, s, p)) :
         s \in Subjects, p \in Predicates}

\* conflicts_resolved: over the SINGLE groups, the distinct values asserted at
\* an instant, less the one each instant is entitled to.
Stats(asserts, edges) ==
  [p \in Predicates |->
     LET claims == {a \in Asserts(asserts) : a.pred = p}
     IN  IF Kind[p] # "SINGLE" THEN 0
         ELSE Cardinality({<<Canonical(edges, a.subj), a.vf, a.key>> : a \in claims})
                - Cardinality({<<Canonical(edges, a.subj), a.vf>> : a \in claims})]

Live(intervals, s, p) ==
  {i \in intervals : i.subj = s /\ i.pred = p /\ i.to = None}

LiveKeys(intervals, s, p) == {i.key : i \in Live(intervals, s, p)}
=============================================================================
