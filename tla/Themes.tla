------------------------------- MODULE Themes -------------------------------
(***************************************************************************)
(* Theme convergence: passes that gather root matters under a theme, and   *)
(* the proposals people decide on.                                         *)
(*                                                                         *)
(* A pass takes one snapshot of the candidates, has a model name each      *)
(* cluster while no lock is held, and then applies what came back, each    *)
(* cluster in a transaction of its own that takes the snapshot anew.       *)
(* Nothing keeps two passes apart: a task that runs is not among those the *)
(* schedule looks at, and the command line starts a pass of its own.       *)
(*                                                                         *)
(* ThemeClusters has the clustering; here the drafts are any that can come *)
(* of it.  Which claim is elected a matter's parent is GoalGraph's matter. *)
(***************************************************************************)
EXTENDS Integers, FiniteSets

CONSTANTS
  Roots,      \* the matters that are there at the start
  Drafts,     \* [members, parent, sure, wording]: what a naming may propose
  Mode,       \* theme_converge: "review" or "auto"
  Passes,     \* whoever runs a pass
  NoParent,
  MaxPeople   \* bound: decisions of people

ASSUME ThemesAssumption == MaxPeople \in Nat

VARIABLES
  matters,    \* the rows of subjects
  parent,     \* [keys -> the elected parent]
  completed,  \* the matters whose status is a completed one
  reviews,    \* <<member, parent>> -> [status, wording]
  pass,       \* what each pass has in hand
  people

themeVars == <<matters, parent, completed, reviews, pass, people>>

Keys == Roots \cup {d.parent : d \in Drafts}
NoPass == [pc |-> "idle", drafts |-> {}]

ThemesTypeOK ==
  /\ Roots \subseteq matters /\ matters \subseteq Keys /\ completed \subseteq matters
  /\ parent \in [Keys -> matters \cup {NoParent}]
  /\ DOMAIN reviews \subseteq matters \X matters
  /\ \A r \in DOMAIN reviews :
       reviews[r].status \in {"open", "dropped", "attached"}
  /\ \A w \in Passes : pass[w].pc \in {"idle", "named"} /\ pass[w].drafts \subseteq Drafts
  /\ people \in 0..MaxPeople

ThemesInit ==
  /\ matters = Roots
  /\ parent = [k \in Keys |-> NoParent]
  /\ completed = {}
  /\ reviews = [r \in {} |-> r]
  /\ pass = [w \in Passes |-> NoPass]
  /\ people = 0

OpenProposals == {r \in DOMAIN reviews : reviews[r].status = "open"}
Unspoken(m) == \A r \in OpenProposals : r[1] # m

\* Slip: an open proposal takes no matter from the candidates.
CandidatesOpenToo == {m \in matters : parent[m] = NoParent /\ m \notin completed}

\* The root matters that are neither completed nor in an open theme proposal.
Candidates ==
  {m \in matters : parent[m] = NoParent /\ m \notin completed /\ Unspoken(m)}

HasChild(k) == \E m \in matters : parent[m] = k

\* Clusters are disjoint sets of candidates.  A cluster that holds a root with
\* children proposes that root as the parent, any other one a new matter whose
\* key is derived from the title and the members.
Nameable(d) ==
  /\ d.members \subseteq Candidates
  /\ \/ d.parent \in Candidates \ d.members /\ HasChild(d.parent)
     \/ d.parent \notin Roots /\ \A m \in d.members : ~ HasChild(m)
Disjoint(S) ==
  \A d, e \in S : d # e => ({d.parent} \cup d.members) \cap ({e.parent} \cup e.members) = {}

Snapshot(w) ==
  /\ pass[w].pc = "idle"
  /\ \E S \in SUBSET {d \in Drafts : Nameable(d)} :
       /\ S # {} /\ Disjoint(S)
       /\ pass' = [pass EXCEPT ![w] = [pc |-> "named", drafts |-> S]]
  /\ UNCHANGED <<matters, parent, completed, reviews, people>>

\* A matter and those it is a part of, up to a root.
Above(k) ==
  LET closed(S) == \A x \in S : parent[x] \in S \cup {NoParent}
  IN  {x \in Keys : \A S \in SUBSET Keys : k \in S /\ closed(S) => x \in S}

\* The members that are candidates still and that the structure gate lets pass.
Accepted(d) ==
  {m \in Candidates \cap d.members : m # d.parent /\ m \notin Above(d.parent)}

\* A review of this member and parent that is there with other contents.
Reworded(d) ==
  \E m \in Accepted(d) :
    <<m, d.parent>> \in DOMAIN reviews /\ reviews[<<m, d.parent>>].wording # d.wording

Finish(w, d) ==
  LET rest == pass[w].drafts \ {d}
  IN pass' = [pass EXCEPT ![w] = IF rest = {} THEN NoPass ELSE [@ EXCEPT !.drafts = rest]]

Confident(d) == Mode = "auto" /\ d.sure

\* The theme's own matter is created with the first proposal that needs it.
Create(d) == matters' = matters \cup {k \in {d.parent} : Accepted(d) # {}}

\* A confident cluster is applied; a claim of a person may outweigh the edge.
ApplyEdges(w, d) ==
  /\ Confident(d)
  /\ Create(d)
  /\ \E taken \in SUBSET Accepted(d) :
       /\ taken = Accepted(d) \/ people > 0
       /\ parent' = [k \in Keys |-> IF k \in taken THEN d.parent ELSE parent[k]]
  /\ Finish(w, d)
  /\ UNCHANGED <<completed, reviews, people>>

\* Any other one is proposed, member by member.  A proposal that is there with
\* the same contents stays as it was decided.
Propose(w, d) ==
  /\ ~ Confident(d) /\ ~ Reworded(d)
  /\ Create(d)
  /\ LET new == {<<m, d.parent>> : m \in Accepted(d)} \ DOMAIN reviews
     IN reviews' = [r \in DOMAIN reviews \cup new |->
          IF r \in new THEN [status |-> "open", wording |-> d.wording] ELSE reviews[r]]
  /\ Finish(w, d)
  /\ UNCHANGED <<parent, completed, people>>

\* One with other contents raises: the cluster is rolled back and the pass ends
\* with the clusters before it applied and those after it not.
Collide(w, d) ==
  /\ ~ Confident(d) /\ Reworded(d)
  /\ pass' = [pass EXCEPT ![w] = NoPass]
  /\ UNCHANGED <<matters, parent, completed, reviews, people>>

PersonDecides ==
  /\ people < MaxPeople /\ people' = people + 1
  /\ UNCHANGED <<matters, pass>>

Mark(r, status) == reviews' = [reviews EXCEPT ![r].status = status]

\* A person accepts a proposal, under the proposed parent or another.
AcceptTheme(r, k) ==
  /\ PersonDecides
  /\ r \in OpenProposals /\ k \in matters /\ r[1] \notin Above(k)
  /\ parent' = [parent EXCEPT ![r[1]] = k]
  /\ Mark(r, "attached")
  /\ UNCHANGED completed

DropTheme(r) == PersonDecides /\ r \in OpenProposals /\ Mark(r, "dropped") /\ UNCHANGED <<parent, completed>>

\* A person moves a matter, or takes it out of its parent.
Move(m, k) ==
  /\ PersonDecides
  /\ m \in matters /\ parent[m] # k
  /\ k = NoParent \/ (k \in matters /\ m \notin Above(k))
  /\ parent' = [parent EXCEPT ![m] = k]
  /\ UNCHANGED <<completed, reviews>>

\* A matter is completed or opened again.
Complete(m) ==
  /\ PersonDecides /\ m \in matters
  /\ completed' = IF m \in completed THEN completed \ {m} ELSE completed \cup {m}
  /\ UNCHANGED <<parent, reviews>>

ThemesNext ==
  \/ \E w \in Passes :
       \/ Snapshot(w)
       \/ \E d \in pass[w].drafts : ApplyEdges(w, d) \/ Propose(w, d) \/ Collide(w, d)
  \/ \E r \in OpenProposals : DropTheme(r) \/ \E k \in matters : AcceptTheme(r, k)
  \/ \E m \in matters : Complete(m) \/ \E k \in matters \cup {NoParent} : Move(m, k)

ThemesSpec == ThemesInit /\ [][ThemesNext]_themeVars

-----------------------------------------------------------------------------

\* A person is asked about a matter once at a time: however many passes work
\* from snapshots they took before, no matter is in two open proposals
\* (_apply_proposal_locked).
OneOpenProposal == \A r, q \in OpenProposals : r[1] = q[1] => r = q
=============================================================================
