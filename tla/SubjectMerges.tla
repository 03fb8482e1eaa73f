--------------------------- MODULE SubjectMerges ---------------------------
(***************************************************************************)
(* The active subject-merge edges of one scope and their resolution.       *)
(*                                                                         *)
(* A merge is a row source -> target of the table subject_merges, keyed by *)
(* its source: the edges are a function whose domain is the set of         *)
(* merged-away subjects.  Nothing here is recursive: the loop that follows *)
(* edges is described by the sets that are closed under them, so that the  *)
(* definitions can be reasoned about for any set of subjects.              *)
(***************************************************************************)
EXTENDS Naturals

CONSTANT Subjects   \* the subject keys a scope may hold

Edges == UNION {[D -> Subjects] : D \in SUBSET Subjects}

NoEdges == [s \in {} |-> s]

\* S holds the target of each of its merged-away members.
Closed(edges, S) == \A x \in S \cap DOMAIN edges : edges[x] \in S

\* The subjects met from s on by following edges, s included.
Chain(edges, s) ==
  {x \in Subjects :
     \A S \in SUBSET Subjects : s \in S /\ Closed(edges, S) => x \in S}

\* Where the loop stops: the subject of the chain with no outgoing edge.  On a
\* cyclic graph the loop raises; a subject of the chain stands for that here,
\* and Acyclic says that it never comes to it.
Canonical(edges, s) ==
  CHOOSE c \in Chain(edges, s) :
    c \notin DOMAIN edges \/ Chain(edges, s) \subseteq DOMAIN edges

\* No set of merged-away subjects traps the walk: every chain leaves it.
Acyclic(edges) ==
  \A S \in SUBSET (DOMAIN edges) : S # {} => \E x \in S : edges[x] \notin S

AddEdge(edges, s, t) ==
  [x \in DOMAIN edges \cup {s} |-> IF x = s THEN t ELSE edges[x]]

DropEdge(edges, s) == [x \in DOMAIN edges \ {s} |-> edges[x]]

\* Slip: where the target resolves to is not asked.
MergeUnresolved(known, edges, s, t) ==
  {s, t} \subseteq known /\ s # t /\ s \notin DOMAIN edges

\* The refusals of merge_subjects on the graph itself.
MergeAllowed(known, edges, s, t) ==
  /\ {s, t} \subseteq known
  /\ s # t
  /\ s \notin DOMAIN edges
  /\ Canonical(edges, t) # s
=============================================================================
