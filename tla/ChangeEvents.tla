---------------------------- MODULE ChangeEvents ----------------------------
(***************************************************************************)
(* events.py: the change events derived from two successive interval sets. *)
(*                                                                         *)
(* An event is its payload, which is what its event_id hashes; the event   *)
(* table is a set.  Values are sets of object keys, {} for null: a SINGLE  *)
(* value is at most a singleton.  Merge and unmerge events, whose id       *)
(* leaves recorded_at out, are derived here too.                           *)
(***************************************************************************)
EXTENDS Projection

CONSTANTS
  StatusPredicates,     \* SINGLE predicates read from the field "status"
  BlockerPredicates,    \* predicates read from the field "blocker"
  SemanticPredicates,   \* predicates with semantic extraction
  CompletionPredicate,  \* the predicate that says a matter is complete, or None
  CompletedValues       \* the values of it that do

ASSUME RolesAssumption ==
  /\ StatusPredicates \subseteq {p \in Predicates : Kind[p] = "SINGLE"}
  /\ BlockerPredicates \cup SemanticPredicates \subseteq Predicates
  /\ "subject_merge" \notin Predicates   \* the predicate of merge events

IntervalId(i) == [i EXCEPT !.to = None, !.support = {}]
Ids(I) == {IntervalId(i) : i \in I}

\* The code breaks a tie of instants on object_key and assertion_id: any fixed
\* choice, as CHOOSE makes one.
Latest(I) == CHOOSE i \in I : \A j \in I : j.from <= i.from
Earliest(I) == CHOOSE i \in I : \A j \in I : i.from <= j.from

\* A trigger is the assertion an event cites and the instant it cites.
OfInterval(i) == [by |-> i.opener, vf |-> i.from]

Event(type, s, p, old, new, trigger) ==
  [type |-> type, subj |-> s, pred |-> p, old |-> old, new |-> new,
   vf |-> trigger.vf, rec |-> trigger.by.rec, origin |-> trigger.by.origin,
   src |-> trigger.by.src]

\* The intervals open before that the new set shows closed.
Ended(prev, cur, s, p) ==
  {i \in cur : /\ i.subj = s /\ i.pred = p /\ i.to # None
               /\ IntervalId(i) \in Ids(Live(prev, s, p))}

\* Slip: an interval that ended is cited before the one that opened.
EndedFirst(prev, cur, asserts, edges, s, p) ==
  LET ended == Ended(prev, cur, s, p)
      live  == Live(cur, s, p)
  IN  IF ended # {} THEN {OfInterval(Latest(ended))}
      ELSE IF live # {} THEN {OfInterval(Latest(live))} ELSE {}

\* _change_trigger: at most one trigger, none when the value vanished without
\* leaving a closed interval behind.
Triggers(prev, cur, asserts, edges, s, p) ==
  LET live    == Live(cur, s, p)
      changed == {i \in live : IntervalId(i) \notin Ids(Live(prev, s, p))}
      ended   == Ended(prev, cur, s, p)
      retractions ==
        {a \in Group(asserts, edges, s, p) :
           a.op = "RETRACT" /\ a.vf = Max({i.to : i \in ended})}
  IN  IF live # {} THEN {OfInterval(Latest(IF changed # {} THEN changed ELSE live))}
      ELSE IF ended = {} THEN {}
      ELSE IF retractions = {} THEN {OfInterval(Latest(ended))}
      ELSE {[by |-> Top(retractions), vf |-> Top(retractions).vf]}

\* The types of event a changed current value gives rise to.
TypesOf(p, old, new, trigger) ==
  {type \in {"status_changed", "matter_completed", "blocked", "unblocked",
             "value_corrected"} :
     CASE type = "status_changed"   -> p \in StatusPredicates
       [] type = "matter_completed" -> /\ p \in StatusPredicates
                                       /\ p = CompletionPredicate
                                       /\ new # {} /\ new \subseteq CompletedValues
                                       /\ ~ (old # {} /\ old \subseteq CompletedValues)
       [] type = "blocked"          -> p \in BlockerPredicates /\ old = {} /\ new # {}
       [] type = "unblocked"        -> p \in BlockerPredicates /\ old # {} /\ new = {}
       [] type = "value_corrected"  -> trigger.by.origin = "human" /\ old # {}}

Changes(prev, cur, asserts, edges, s, p) ==
  LET old == LiveKeys(prev, s, p)
      new == LiveKeys(cur, s, p)
  IN  IF old = new THEN {}
      ELSE UNION {{Event(type, s, p, old, new, g) : type \in TypesOf(p, old, new, g)} :
                  g \in Triggers(prev, cur, asserts, edges, s, p)}

Created(prev, cur) ==
  {LET i == Earliest({j \in cur : j.subj = s})
   IN  Event("matter_created", s, i.pred, {}, {i.key}, OfInterval(i)) :
   s \in {i.subj : i \in cur} \ {i.subj : i \in prev}}

Adopted(prev, cur) ==
  {Event("decision_adopted", i.subj, i.pred, LiveKeys(prev, i.subj, i.pred), {i.key},
         OfInterval(i)) :
   i \in {j \in cur : j.pred \in SemanticPredicates /\ IntervalId(j) \notin Ids(prev)}}

\* Slip: only the predicates that had a value are compared.
DeriveFromOld(prev, cur, asserts, edges) ==
  Created(prev, cur) \cup Adopted(prev, cur) \cup
  UNION {Changes(prev, cur, asserts, edges, i.subj, i.pred) :
         i \in {j \in prev : j.to = None}}

Derive(prev, cur, asserts, edges) ==
  Created(prev, cur) \cup Adopted(prev, cur) \cup
  UNION {Changes(prev, cur, asserts, edges, s, p) : s \in Subjects, p \in Predicates}

-----------------------------------------------------------------------------
MergeEvent(type, s, t, vf, src, rec) ==
  [type |-> type, subj |-> s, pred |-> "subject_merge",
   old |-> IF type = "subject_merged" THEN {} ELSE {t},
   new |-> IF type = "subject_merged" THEN {t} ELSE {},
   vf |-> vf, rec |-> rec, origin |-> "human", src |-> src]

\* The identity of a merge event: all of it but recorded_at.
MergeEventId(e) == [e EXCEPT !.rec = None]

\* add_event raises: the id is taken by an event recorded at another instant.
Collides(events, e) ==
  \E f \in events : /\ f.pred = "subject_merge" /\ f # e
                    /\ MergeEventId(f) = MergeEventId(e)
=============================================================================
