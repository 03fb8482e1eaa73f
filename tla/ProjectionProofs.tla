---------------------------- MODULE ProjectionProofs ----------------------------
(***************************************************************************)
(* What Projection and the merge graph below it make of any assertions and *)
(* edges: lemmas for the proofs about the modules that extend them.        *)
(***************************************************************************)
EXTENDS ProjectionLoop, FiniteSetTheorems, WellFoundedInduction, TLAPS

-----------------------------------------------------------------------------
\* The merge graph.

LEMMA EdgesShape ==
  ASSUME NEW edges \in Edges
  PROVE  /\ DOMAIN edges \subseteq Subjects
         /\ \A x \in DOMAIN edges : edges[x] \in Subjects
  BY DEF Edges

\* The chain of a subject starts there and holds the target of each of its
\* merged-away members.
LEMMA ChainClosed ==
  ASSUME NEW edges \in Edges, NEW s \in Subjects
  PROVE  /\ s \in Chain(edges, s)
         /\ Chain(edges, s) \subseteq Subjects
         /\ Closed(edges, Chain(edges, s))
  <1>1. s \in Chain(edges, s) /\ Chain(edges, s) \subseteq Subjects
    BY DEF Chain
  <1>2. ASSUME NEW x \in Chain(edges, s) \cap DOMAIN edges
        PROVE  edges[x] \in Chain(edges, s)
    <2>1. edges[x] \in Subjects
      BY EdgesShape
    <2>2. ASSUME NEW S \in SUBSET Subjects, s \in S, Closed(edges, S)
          PROVE  edges[x] \in S
      <3>1. x \in S
        BY <2>2 DEF Chain
      <3>2. QED
        BY <2>2, <3>1 DEF Closed
    <2>3. QED
      BY <2>1, <2>2 DEF Chain
  <1>3. QED
    BY <1>1, <1>2 DEF Closed

\* Resolution stays in the chain, whatever the graph.
LEMMA CanonicalInChain ==
  ASSUME NEW edges \in Edges, NEW s \in Subjects
  PROVE  /\ Canonical(edges, s) \in Chain(edges, s)
         /\ Canonical(edges, s) \in Subjects
         /\ \/ Canonical(edges, s) \notin DOMAIN edges
            \/ Chain(edges, s) \subseteq DOMAIN edges
  <1>1. s \in Chain(edges, s) /\ Chain(edges, s) \subseteq Subjects
    BY ChainClosed
  <1>2. \E c \in Chain(edges, s) :
          c \notin DOMAIN edges \/ Chain(edges, s) \subseteq DOMAIN edges
    BY <1>1
  <1>3. QED
    BY <1>1, <1>2 DEF Canonical

\* On an acyclic graph it ends at a subject that is not merged away.
LEMMA CanonicalEnds ==
  ASSUME NEW edges \in Edges, Acyclic(edges), NEW s \in Subjects
  PROVE  Canonical(edges, s) \notin DOMAIN edges
  <1>1. Chain(edges, s) # {} /\ Closed(edges, Chain(edges, s))
    BY ChainClosed
  <1>2. ~ (Chain(edges, s) \subseteq DOMAIN edges)
    BY <1>1 DEF Acyclic, Closed
  <1>3. QED
    BY <1>2, CanonicalInChain

LEMMA NoEdgesAcyclic ==
  NoEdges \in Edges /\ Acyclic(NoEdges)
  BY DEF NoEdges, Edges, Acyclic

\* merge_subjects: an allowed merge keeps the graph acyclic.
LEMMA AddEdgeAcyclic ==
  ASSUME NEW edges \in Edges, Acyclic(edges), NEW known \in SUBSET Subjects,
         NEW s, NEW t, MergeAllowed(known, edges, s, t)
  PROVE  AddEdge(edges, s, t) \in Edges /\ Acyclic(AddEdge(edges, s, t))
  <1> DEFINE more == AddEdge(edges, s, t)
  <1>1. /\ s \in Subjects /\ t \in Subjects
        /\ s \notin DOMAIN edges /\ Canonical(edges, t) # s
    BY DEF MergeAllowed
  <1>2. /\ DOMAIN more = DOMAIN edges \cup {s}
        /\ more[s] = t
        /\ \A x \in DOMAIN edges : more[x] = edges[x]
    BY <1>1 DEF AddEdge
  <1>3. more \in [DOMAIN edges \cup {s} -> Subjects]
    BY <1>1, EdgesShape DEF AddEdge
  <1>4. more \in Edges
    BY <1>1, <1>3, EdgesShape DEF Edges
  <1>5. ASSUME NEW S \in SUBSET (DOMAIN more), S # {}, \A x \in S : more[x] \in S
        PROVE  FALSE
    <2>1. CASE s \notin S
      <3>1. S \in SUBSET (DOMAIN edges)
        BY <1>2, <2>1
      <3>2. PICK x \in S : edges[x] \notin S
        BY <3>1, <1>5 DEF Acyclic
      <3>3. QED
        BY <3>1, <3>2, <1>2, <1>5
    <2>2. CASE s \in S
      <3>1. t \in S /\ S \in SUBSET Subjects
        BY <1>1, <1>2, <1>5, <2>2, EdgesShape
      <3>2. Closed(edges, S)
        BY <1>2, <1>5 DEF Closed
      <3>3. Chain(edges, t) \subseteq S
        BY <3>1, <3>2 DEF Chain
      <3>4. Canonical(edges, t) \in S /\ Canonical(edges, t) \notin DOMAIN edges
        BY <1>1, <3>3, CanonicalInChain, CanonicalEnds
      <3>5. QED
        BY <1>1, <1>2, <3>4
    <2>3. QED
      BY <2>1, <2>2
  <1>6. Acyclic(more)
    BY <1>5 DEF Acyclic
  <1>7. QED
    BY <1>4, <1>6

\* unmerge_subjects: so does removing an edge.
LEMMA DropEdgeAcyclic ==
  ASSUME NEW edges \in Edges, Acyclic(edges), NEW s
  PROVE  DropEdge(edges, s) \in Edges /\ Acyclic(DropEdge(edges, s))
  <1> DEFINE less == DropEdge(edges, s)
  <1>1. /\ DOMAIN less = DOMAIN edges \ {s}
        /\ \A x \in DOMAIN less : less[x] = edges[x]
    BY DEF DropEdge
  <1>2. less \in [DOMAIN edges \ {s} -> Subjects]
    BY EdgesShape DEF DropEdge
  <1>3. less \in Edges
    BY <1>2, EdgesShape DEF Edges
  <1>4. Acyclic(less)
    BY <1>1 DEF Acyclic
  <1>5. QED
    BY <1>3, <1>4

-----------------------------------------------------------------------------
\* Extreme elements.

LEMMA MinExists ==
  ASSUME NEW S \in SUBSET Nat, S # {}
  PROVE  Min(S) \in S /\ \A x \in S : Min(S) <= x
  <1> DEFINE Less == {ss \in Nat \X Nat : ss[1] < ss[2]}
  <1>0. IsWellFoundedOn(Less, Nat)
    BY NatLessThanWellFounded DEF OpToRel
  <1>1. \A x, y \in Nat : x < y => <<x, y>> \in Less
    OBVIOUS
  <1> HIDE DEF Less
  <1>2. PICK m \in S : \A x \in S : ~ (<<x, m>> \in Less)
    BY <1>0, WFMin
  <1>3. \A x \in S : m <= x
    <2>1. ASSUME NEW x \in S, x < m
          PROVE  FALSE
      <3>1. <<x, m>> \in Less
        BY <1>1, <2>1
      <3>2. QED
        BY <1>2, <3>1
    <2>2. m \in Nat /\ \A x \in S : x \in Nat
      OBVIOUS
    <2>3. QED
      BY <2>1, <2>2
  <1>4. QED
    BY <1>3 DEF Min

\* A strict order on a finite set has an element with nothing above it: one
\* with the fewest elements above it.
LEMMA MaximalExists ==
  ASSUME NEW S, IsFiniteSet(S), S # {}, NEW R,
         \A x \in S : <<x, x>> \notin R,
         \A x, y, z \in S : <<x, y>> \in R /\ <<y, z>> \in R => <<x, z>> \in R
  PROVE  \E x \in S : \A y \in S : <<y, x>> \notin R
  <1> DEFINE Over(x) == {y \in S : <<y, x>> \in R}
             sizes == {Cardinality(Over(x)) : x \in S}
  <1>1. ASSUME NEW x \in S
        PROVE  IsFiniteSet(Over(x)) /\ Cardinality(Over(x)) \in Nat
    BY FS_Subset, FS_CardinalityType
  <1>2. PICK x \in S : \A y \in S : Cardinality(Over(x)) <= Cardinality(Over(y))
    <2> HIDE DEF Over
    <2>1. sizes \in SUBSET Nat /\ sizes # {}
      BY <1>1
    <2>2. Min(sizes) \in sizes /\ \A n \in sizes : Min(sizes) <= n
      BY <2>1, MinExists
    <2>3. PICK x \in S : Min(sizes) = Cardinality(Over(x))
      BY <2>2
    <2>4. \A y \in S : Cardinality(Over(y)) \in sizes
      OBVIOUS
    <2>5. QED
      BY <2>2, <2>3, <2>4
  <1>3. ASSUME NEW y \in S, <<y, x>> \in R
        PROVE  FALSE
    <2>1. Over(y) \in SUBSET Over(x) /\ y \in Over(x) /\ y \notin Over(y)
      BY <1>3
    <2>2. Cardinality(Over(y)) <= Cardinality(Over(x)) /\ Cardinality(Over(x)) # Cardinality(Over(y))
      <3> HIDE DEF Over
      <3>1. QED
        BY <1>1, <2>1, FS_Subset
    <2>3. QED
      <3> HIDE DEF Over
      <3>1. QED
        BY <1>1, <1>2, <2>2
  <1>4. QED
    BY <1>3

LEMMA FiniteImage ==
  ASSUME NEW f, IsFiniteSet(DOMAIN f)
  PROVE  IsFiniteSet({f[x] : x \in DOMAIN f})
  <1> DEFINE T == {f[x] : x \in DOMAIN f}
             g == [x \in DOMAIN f |-> f[x]]
  <1>1. g \in Surjection(DOMAIN f, T)
    BY DEF Surjection
  <1> HIDE DEF g, T
  <1>2. IsFiniteSet(T)
    BY <1>1, FS_Surjection
  <1>3. QED
    BY <1>2 DEF T

-----------------------------------------------------------------------------
\* Rank.  The lemmas are about the assertions of one group: finitely many, with
\* their types, and told apart by their stamps but for the values of one card.

Shaped(a) ==
  /\ a.vf \in Nat /\ a.rec \in Nat /\ a.op \in {"ASSERT", "RETRACT"} /\ a.key # None
  /\ a.origin \in {"human", "model"}

Siblings(a, b) ==
  /\ a.op = "ASSERT" /\ b.op = "ASSERT" /\ a.key # b.key
  /\ a.origin = "model" /\ b.origin = "model"

Apart(A) == \A a, b \in A : a.rec = b.rec => a = b \/ Siblings(a, b)

Ranked(A) == IsFiniteSet(A) /\ (\A a \in A : Shaped(a)) /\ Apart(A)

LEMMA RankedSubset ==
  ASSUME NEW A, Ranked(A), NEW B \in SUBSET A
  PROVE  Ranked(B)
  BY FS_Subset DEF Ranked, Apart

LEMMA HumanType ==
  ASSUME NEW a
  PROVE  Human(a) \in 0 .. 1
  BY DEF Human

LEMMA OutranksOrder ==
  /\ \A a : Shaped(a) => ~ Outranks(a, a)
  /\ \A a, b, c : Shaped(a) /\ Shaped(b) /\ Shaped(c) /\ Outranks(a, b) /\ Outranks(b, c)
                    => Outranks(a, c)
  BY HumanType DEF Outranks, Shaped

LEMMA OutranksTotal ==
  ASSUME NEW a, NEW b, Shaped(a), Shaped(b), a.rec # b.rec
  PROVE  Outranks(a, b) \/ Outranks(b, a)
  BY HumanType DEF Outranks, Shaped

LEMMA TopExists ==
  ASSUME NEW A, Ranked(A), A # {}
  PROVE  Top(A) \in A /\ \A o \in A : ~ Outranks(o, Top(A))
  <1> DEFINE R == {x \in A \X A : Outranks(x[1], x[2])}
  <1>1. \A x \in A : <<x, x>> \notin R
    BY OutranksOrder DEF Ranked
  <1>2. \A x, y, z \in A : <<x, y>> \in R /\ <<y, z>> \in R => <<x, z>> \in R
    BY OutranksOrder DEF Ranked
  <1>3. \E x \in A : \A y \in A : <<y, x>> \notin R
    <2> HIDE DEF R
    <2>1. QED
      BY <1>1, <1>2, MaximalExists DEF Ranked
  <1>4. \E w \in A : \A o \in A : ~ Outranks(o, w)
    BY <1>3
  <1>5. QED
    BY <1>4 DEF Top

\* The last instant of a group.
LEMMA LastOf ==
  ASSUME NEW A, IsFiniteSet(A), A # {}, \A a \in A : a.vf \in Nat
  PROVE  Max(Instants(A)) \in Instants(A) /\ \A u \in Instants(A) : u <= Max(Instants(A))
  <1> DEFINE R == {x \in A \X A : x[1].vf > x[2].vf}
  <1>1. \A x \in A : <<x, x>> \notin R
    OBVIOUS
  <1>2. \A x, y, z \in A : <<x, y>> \in R /\ <<y, z>> \in R => <<x, z>> \in R
    OBVIOUS
  <1>3. \E x \in A : \A y \in A : <<y, x>> \notin R
    <2> HIDE DEF R
    <2>1. QED
      BY <1>1, <1>2, MaximalExists
  <1>4. PICK a \in A : \A b \in A : b.vf <= a.vf
    <2>1. PICK a \in A : \A b \in A : ~ (b.vf > a.vf)
      BY <1>3
    <2>2. QED
      BY <2>1
  <1>5. a.vf \in Instants(A) /\ \A u \in Instants(A) : a.vf >= u
    BY <1>4 DEF Instants
  <1>6. \A u \in Instants(A) : u \in Nat
    BY DEF Instants
  <1>7. QED
    BY <1>5, <1>6 DEF Max

LEMMA LastInstant ==
  ASSUME NEW A, Ranked(A), A # {}
  PROVE  Max(Instants(A)) \in Instants(A) /\ \A u \in Instants(A) : u <= Max(Instants(A))
  BY LastOf DEF Ranked, Shaped

LEMMA InstantsNat ==
  ASSUME NEW A, Ranked(A)
  PROVE  Instants(A) \subseteq Nat
  BY DEF Instants, Ranked, Shaped

-----------------------------------------------------------------------------
\* SINGLE.

\* Who decides an instant.
LEMMA Decider ==
  ASSUME NEW A, Ranked(A), NEW t \in Instants(A)
  PROVE  LET w == Top(At(A, t))
         IN  /\ w \in A /\ w.vf = t /\ \A o \in A : o.vf = t => ~ Outranks(o, w)
             /\ Decided(A, t) = IF w.op = "ASSERT" THEN w.key ELSE None
             /\ Decided(A, t) # None => w.op = "ASSERT" /\ w.key = Decided(A, t)
  <1>1. Ranked(At(A, t)) /\ At(A, t) # {}
    BY RankedSubset DEF At, Instants
  <1>2. Top(At(A, t)) \in At(A, t) /\ \A o \in At(A, t) : ~ Outranks(o, Top(At(A, t)))
    BY <1>1, TopExists
  <1>3. QED
    BY <1>2 DEF At, Decided

\* What a value decided at t covers, and what is decided there.
LEMMA Covers ==
  ASSUME NEW A, Ranked(A), NEW t \in Instants(A), NEW u \in Instants(A),
         Within(u, t, End(A, t))
  PROVE  Decided(A, u) = Decided(A, t)
  <1> DEFINE later == {v \in Instants(A) : v > t /\ Decided(A, v) # Decided(A, t)}
  <1>1. SUFFICES ASSUME Decided(A, u) # Decided(A, t)
                 PROVE  FALSE
    OBVIOUS
  <1>2. t \in Nat /\ u \in Nat /\ t <= u /\ later \in SUBSET Nat
    BY InstantsNat DEF Within
  <1>3. u \in later
    BY <1>1, <1>2
  <1>4. Min(later) \in later /\ Min(later) <= u
    BY <1>2, <1>3, MinExists
  <1>5. End(A, t) = Min(later)
    BY <1>3 DEF End
  <1>6. Min(later) \in Nat /\ Min(later) # None
    BY <1>2, <1>4, ProfileAssumption
  <1>7. QED
    BY <1>2, <1>4, <1>5, <1>6 DEF Within

\* An instant that decides a value lies in an interval of that value, which
\* begins where the run of instants that decide it began.
LEMMA RunOfValue ==
  ASSUME NEW A, Ranked(A), NEW u \in Instants(A), Decided(A, u) # None, NEW s, NEW p
  PROVE  \E t \in Instants(A) :
           /\ Decided(A, t) = Decided(A, u) /\ Decided(A, t) # Held(A, t)
           /\ t <= u /\ Within(u, t, End(A, t))
  <1> DEFINE same == {v \in Instants(A) : v <= u /\
                        \A x \in Instants(A) : v <= x /\ x <= u => Decided(A, x) = Decided(A, u)}
             t == Min(same)
  <1>0. Instants(A) \subseteq Nat
    BY InstantsNat
  <1>1. u \in same /\ same \in SUBSET Nat
    <2>1. \A x \in Instants(A) : u <= x /\ x <= u => x = u
      BY <1>0
    <2>2. QED
      BY <1>0, <2>1
  <1>2. t \in same /\ \A v \in same : t <= v
    BY <1>1, MinExists
  <1> HIDE DEF t
  <1>3. /\ t \in Instants(A) /\ t \in Nat /\ u \in Nat /\ t <= u
        /\ Decided(A, t) = Decided(A, u)
        /\ \A x \in Instants(A) : t <= x /\ x <= u => Decided(A, x) = Decided(A, u)
    BY <1>0, <1>2
  <1>4. Decided(A, t) # Held(A, t)
    <2> DEFINE earlier == {v \in Instants(A) : v < t}
               m == Max(earlier)
    <2>1. CASE earlier = {}
      BY <1>3, <2>1 DEF Held
    <2>2. CASE earlier # {}
      <3> DEFINE E == {a \in A : a.vf < t}
      <3>1. Ranked(E) /\ E # {} /\ Instants(E) = earlier
        BY <2>2, RankedSubset DEF Instants
      <3>2. m \in earlier /\ \A v \in earlier : v <= m
        BY <3>1, LastInstant
      <3> HIDE DEF m, E
      <3>3. ASSUME Decided(A, m) = Decided(A, u)
            PROVE  FALSE
        <4>1. \A x \in Instants(A) : m <= x /\ x <= u => Decided(A, x) = Decided(A, u)
          <5>1. ASSUME NEW x \in Instants(A), m <= x, x <= u
                PROVE  Decided(A, x) = Decided(A, u)
            <6>1. CASE x < t
              BY <1>0, <3>2, <3>3, <5>1, <6>1
            <6>2. CASE ~ (x < t)
              BY <1>0, <1>3, <5>1, <6>2
            <6>3. QED
              BY <6>1, <6>2
          <5>2. QED
            BY <5>1
        <4>2. m \in same
          BY <1>0, <1>3, <3>2, <4>1
        <4>3. QED
          BY <1>0, <1>2, <1>3, <3>2, <4>2
      <3>4. Held(A, t) = Decided(A, m)
        BY <2>2 DEF Held, m
      <3>5. QED
        BY <1>3, <3>3, <3>4
    <2>3. QED
      BY <2>1, <2>2
  <1>5. Within(u, t, End(A, t))
    <2> DEFINE later == {v \in Instants(A) : v > t /\ Decided(A, v) # Decided(A, t)}
    <2>1. CASE later = {}
      BY <1>3, <2>1 DEF End, Within
    <2>2. CASE later # {}
      <3>1. Min(later) \in later
        BY <1>0, <2>2, MinExists
      <3>2. End(A, t) = Min(later)
        BY <2>2 DEF End
      <3>3. ~ (Min(later) <= u)
        <4> HIDE DEF later
        <4>1. Min(later) \in Instants(A) /\ Min(later) > t /\ Decided(A, Min(later)) # Decided(A, t)
          BY <3>1 DEF later
        <4>2. QED
          BY <1>0, <1>3, <4>1
      <3>4. Min(later) \in Nat
        BY <1>0, <3>1
      <3>5. QED
        BY <1>3, <3>2, <3>3, <3>4 DEF Within
    <2>3. QED
      BY <2>1, <2>2
  <1>6. QED
    BY <1>3, <1>4, <1>5

\* The value an interval has at its end is the one its last instant decides.
LEMMA LiveSingle ==
  ASSUME NEW A, Ranked(A), A # {}, NEW s, NEW p
  PROVE  {i.key : i \in {j \in SingleIntervals(s, p, A) : j.to = None}} =
           {Decided(A, Max(Instants(A)))} \ {None}
  <1> DEFINE m == Max(Instants(A))
  <1>0. Instants(A) \subseteq Nat
    BY InstantsNat
  <1>1. m \in Instants(A) /\ \A u \in Instants(A) : u <= m
    BY LastInstant
  <1> HIDE DEF m
  <1>2. ASSUME NEW i \in SingleIntervals(s, p, A), i.to = None
        PROVE  i.key = Decided(A, m) /\ i.key # None
    <2>1. PICK t \in Instants(A) : /\ Decided(A, t) # None /\ i.key = Decided(A, t)
                                   /\ i.to = End(A, t)
      BY DEF SingleIntervals
    <2>2. Within(m, t, End(A, t))
      BY <1>1, <1>2, <2>1 DEF Within
    <2>3. Decided(A, m) = Decided(A, t)
      BY <1>1, <2>2, Covers
    <2>4. QED
      BY <2>1, <2>3
  <1>3. ASSUME Decided(A, m) # None
        PROVE  \E i \in SingleIntervals(s, p, A) : i.to = None /\ i.key = Decided(A, m)
    <2>1. PICK t \in Instants(A) : /\ Decided(A, t) = Decided(A, m) /\ Decided(A, t) # Held(A, t)
                                   /\ t <= m /\ Within(m, t, End(A, t))
      BY <1>1, <1>3, RunOfValue
    <2>2. End(A, t) = None
      <3> DEFINE later == {v \in Instants(A) : v > t /\ Decided(A, v) # Decided(A, t)}
      <3>1. CASE later # {}
        <4>1. Min(later) \in Instants(A)
          BY <1>0, <3>1, MinExists
        <4>2. End(A, t) = Min(later)
          BY <3>1 DEF End
        <4>3. QED
          BY <1>0, <1>1, <2>1, <4>1, <4>2 DEF Within
      <3>2. QED
        BY <3>1 DEF End
    <2> DEFINE i == [subj |-> s, pred |-> p, key |-> Decided(A, t), from |-> t,
                     to |-> End(A, t), opener |-> Top(At(A, t)),
                     support |-> {a \in Asserts(A) : /\ a.key = Decided(A, t)
                                                     /\ Within(a.vf, t, End(A, t))}]
    <2>3. t \in {v \in Instants(A) : Decided(A, v) \notin {None, Held(A, v)}}
      BY <1>3, <2>1
    <2>4. i \in SingleIntervals(s, p, A)
      BY <2>3 DEF SingleIntervals
    <2>5. i.to = None /\ i.key = Decided(A, m)
      BY <2>1, <2>2
    <2> HIDE DEF i
    <2>6. QED
      BY <2>4, <2>5
  <1>4. QED
    BY <1>2, <1>3 DEF m

\* An ASSERT that its instant decides for is in the support of an interval.
LEMMA SingleSupports ==
  ASSUME NEW A, Ranked(A), NEW a \in A, a.op = "ASSERT", Decided(A, a.vf) = a.key,
         NEW s, NEW p
  PROVE  \E i \in SingleIntervals(s, p, A) :
           i.subj = s /\ i.pred = p /\ i.key = a.key /\ a \in i.support /\ i.from <= a.vf
  <1>1. a.vf \in Instants(A) /\ a.key # None
    BY DEF Instants, Ranked, Shaped
  <1>2. PICK t \in Instants(A) :
          /\ Decided(A, t) = a.key /\ Decided(A, t) # Held(A, t)
          /\ t <= a.vf /\ Within(a.vf, t, End(A, t))
    BY <1>1, RunOfValue
  <1> DEFINE i == [subj |-> s, pred |-> p, key |-> Decided(A, t), from |-> t,
                   to |-> End(A, t), opener |-> Top(At(A, t)),
                   support |-> {b \in Asserts(A) : /\ b.key = Decided(A, t)
                                                   /\ Within(b.vf, t, End(A, t))}]
  <1>3. t \in {v \in Instants(A) : Decided(A, v) \notin {None, Held(A, v)}}
    BY <1>1, <1>2
  <1>4. i \in SingleIntervals(s, p, A)
    BY <1>3 DEF SingleIntervals
  <1>5. a \in i.support
    BY <1>2 DEF Asserts
  <1>6. i.subj = s /\ i.pred = p /\ i.key = a.key /\ i.from = t
    BY <1>2
  <1> HIDE DEF i
  <1>7. QED
    BY <1>2, <1>4, <1>5, <1>6

\* A human assertion makes its instant a human's.
LEMMA HumanDecides ==
  ASSUME NEW A, Ranked(A), NEW h \in A, h.origin = "human", NEW s, NEW p,
         NEW i \in SingleIntervals(s, p, A), Within(h.vf, i.from, i.to)
  PROVE  \E g \in A : g.origin = "human" /\ g.vf = h.vf /\ g.op = "ASSERT" /\ g.key = i.key
  <1>1. PICK t \in Instants(A) : /\ Decided(A, t) # None /\ i.key = Decided(A, t)
                                 /\ i.from = t /\ i.to = End(A, t)
    BY DEF SingleIntervals
  <1>2. h.vf \in Instants(A)
    BY DEF Instants
  <1>3. Decided(A, h.vf) = i.key
    BY <1>1, <1>2, Covers
  <1>4. PICK w \in A : /\ w.vf = h.vf /\ ~ Outranks(h, w)
                       /\ w.op = "ASSERT" /\ w.key = i.key
    <2> DEFINE w == Top(At(A, h.vf))
    <2>1. /\ w \in A /\ w.vf = h.vf /\ \A o \in A : o.vf = h.vf => ~ Outranks(o, w)
          /\ Decided(A, h.vf) # None => w.op = "ASSERT" /\ w.key = Decided(A, h.vf)
      BY <1>2, Decider
    <2> HIDE DEF w
    <2>2. QED
      BY <1>1, <1>3, <2>1
  <1>5. w.origin = "human"
    BY <1>4 DEF Outranks, Human, Ranked, Shaped
  <1>6. QED
    BY <1>4, <1>5

-----------------------------------------------------------------------------
\* SET.  What affects one member is ordered strictly.

LEMMA MemberOrder ==
  ASSUME NEW A, Ranked(A), NEW k, NEW a \in Affecting(A, k), NEW b \in Affecting(A, k),
         a # b
  PROVE  Outranks(a, b) \/ Outranks(b, a)
  <1>1. a \in A /\ b \in A /\ Shaped(a) /\ Shaped(b)
    BY DEF Affecting, Ranked
  <1>2. a.rec # b.rec
    BY <1>1 DEF Ranked, Apart, Siblings, Affecting
  <1>3. QED
    BY <1>1, <1>2, OutranksTotal

LEMMA MemberOrdered ==
  ASSUME NEW A, Ranked(A), NEW k
  PROVE  \A a, b, c \in Affecting(A, k) :
           /\ ~ Outranks(a, a)
           /\ Outranks(a, b) /\ Outranks(b, c) => Outranks(a, c)
           /\ a # b => Outranks(a, b) \/ Outranks(b, a)
  <1>1. \A a \in Affecting(A, k) : Shaped(a)
    BY DEF Affecting, Ranked
  <1>2. QED
    BY <1>1, OutranksOrder, MemberOrder

\* An ASSERT is in the support of the interval that the first of its run opens.
LEMMA SetSupports ==
  ASSUME NEW A, Ranked(A), NEW a \in A, a.op = "ASSERT", NEW s, NEW p
  PROVE  \E e \in Affecting(A, a.key) :
           /\ OpensMember(A, a.key, e) /\ e.vf <= a.vf
           /\ a \in MemberInterval(s, p, A, a.key, e).support
           /\ e = a \/ Outranks(a, e)
  <1> DEFINE k == a.key
             F == Affecting(A, k)
             run == {e \in F : /\ e.op = "ASSERT" /\ (e = a \/ Outranks(a, e))
                               /\ \A r \in F : r.op = "RETRACT" /\ Outranks(r, e)
                                                 => ~ Outranks(a, r)}
             R == {x \in run \X run : Outranks(x[2], x[1])}
  <1>0. /\ \A x \in F : ~ Outranks(x, x)
        /\ \A x, y, z \in F : Outranks(x, y) /\ Outranks(y, z) => Outranks(x, z)
        /\ \A x, y \in F : x # y => Outranks(x, y) \/ Outranks(y, x)
        /\ F \subseteq A /\ \A x \in F : Shaped(x)
    <2>1. F \subseteq A /\ \A x \in F : Shaped(x)
      BY DEF Affecting, Ranked
    <2>2. /\ \A x \in F : ~ Outranks(x, x)
          /\ \A x, y, z \in F : Outranks(x, y) /\ Outranks(y, z) => Outranks(x, z)
          /\ \A x, y \in F : x # y => Outranks(x, y) \/ Outranks(y, x)
      <3> HIDE DEF k
      <3>1. QED
        BY MemberOrdered
    <2>3. QED
      BY <2>1, <2>2
  <1>1. a \in F /\ a \in run
    <2>1. a \in F
      BY DEF Affecting
    <2>2. QED
      BY <1>0, <2>1
  <1>2. IsFiniteSet(run) /\ run \subseteq F
    <2>1. run \in SUBSET A
      BY <1>0
    <2> HIDE DEF run
    <2>2. IsFiniteSet(run)
      BY <2>1, FS_Subset DEF Ranked
    <2>3. QED
      BY <2>2 DEF run
  <1> HIDE DEF F
  <1>3. PICK e \in run : \A x \in run : ~ Outranks(e, x)
    <2>1. (\A x \in run : <<x, x>> \notin R) /\
          \A x, y, z \in run : <<x, y>> \in R /\ <<y, z>> \in R => <<x, z>> \in R
      <3> HIDE DEF run
      <3>1. QED
        BY <1>0, <1>2
    <2>2. \E x \in run : \A y \in run : <<y, x>> \notin R
      <3> HIDE DEF run, R
      <3>1. QED
        BY <1>1, <1>2, <2>1, MaximalExists
    <2>3. QED
      <3> HIDE DEF run
      <3>1. QED
        BY <2>2
  <1>4. e \in F /\ e.op = "ASSERT" /\ (e = a \/ Outranks(a, e)) /\ e \in A
    BY <1>0, <1>3
  <1>5. \A r \in F : r.op = "RETRACT" /\ Outranks(r, e) => ~ Outranks(a, r)
    BY <1>3
  <1>6. OpensMember(A, k, e)
    <2>1. SUFFICES ASSUME Before(A, k, e) # {}
                   PROVE  Top(Before(A, k, e)).op = "RETRACT"
      BY <1>4 DEF OpensMember
    <2> DEFINE b == Top(Before(A, k, e))
    <2>2. b \in Before(A, k, e) /\ \A o \in Before(A, k, e) : ~ Outranks(o, b)
      <3>1. Before(A, k, e) \in SUBSET A
        BY DEF Before, Affecting
      <3>2. QED
        BY <2>1, <3>1, RankedSubset, TopExists
    <2>3. b \in F /\ Outranks(e, b)
      BY <2>2 DEF Before, F
    <2> HIDE DEF b
    <2>4. SUFFICES ASSUME b.op = "ASSERT"
                   PROVE  FALSE
      BY <1>0, <2>3 DEF Shaped, b
    <2>5. Outranks(a, b)
      BY <1>0, <1>1, <1>4, <2>3
    <2>6. ASSUME NEW r \in F, r.op = "RETRACT", Outranks(r, b), Outranks(a, r)
          PROVE  FALSE
      <3>1. ~ Outranks(r, e)
        BY <1>5, <2>6
      <3>2. Outranks(e, r)
        BY <1>0, <1>4, <2>6, <3>1
      <3>3. r \in Before(A, k, e)
        BY <2>6, <3>2 DEF Before, F
      <3>4. QED
        BY <2>2, <2>6, <3>3
    <2>7. b \in run
      BY <2>3, <2>4, <2>5, <2>6
    <2>8. QED
      BY <1>3, <2>3, <2>7
  <1>7. a \in MemberInterval(s, p, A, k, e).support
    <2>1. CASE a = e
      BY <2>1 DEF MemberInterval
    <2>2. CASE a # e
      <3>1. a \in Asserts(After(A, k, e))
        BY <1>1, <1>4, <2>2 DEF Asserts, After, F
      <3>2. ASSUME NEW r \in Closers(A, k, e)
            PROVE  Outranks(r, a)
        <4>1. r \in F /\ r.op = "RETRACT" /\ Outranks(r, e)
          BY DEF Closers, After, F
        <4>2. r # a /\ ~ Outranks(a, r)
          BY <1>5, <4>1
        <4>3. QED
          BY <1>0, <1>1, <4>1, <4>2
      <3>3. QED
        BY <3>1, <3>2 DEF MemberInterval
    <2>3. QED
      BY <2>1, <2>2
  <1>8. e.vf <= a.vf
    BY <1>0, <1>1, <1>4 DEF Outranks, Shaped
  <1>9. QED
    BY <1>4, <1>6, <1>7, <1>8 DEF F

LEMMA MemberIntervalIn ==
  ASSUME NEW A, NEW a \in A, a.op = "ASSERT", NEW s, NEW p,
         NEW e \in Affecting(A, a.key), OpensMember(A, a.key, e)
  PROVE  MemberInterval(s, p, A, a.key, e) \in SetIntervals(s, p, A)
  BY DEF SetIntervals, Asserts

\* A member is in when an ASSERT of it has no RETRACT after it.
MemberStands(A, k) ==
  \E e \in A : /\ e.op = "ASSERT" /\ e.key = k
               /\ \A r \in Affecting(A, k) : r.op = "RETRACT" => ~ Outranks(r, e)

LEMMA LiveSet ==
  ASSUME NEW A, Ranked(A), NEW s, NEW p, NEW k
  PROVE  (\E i \in SetIntervals(s, p, A) : i.to = None /\ i.key = k) <=> MemberStands(A, k)
  <1>1. ASSUME NEW i \in SetIntervals(s, p, A), i.to = None, i.key = k
        PROVE  MemberStands(A, k)
    <2>1. PICK e \in Affecting(A, k) : OpensMember(A, k, e) /\ i = MemberInterval(s, p, A, k, e)
      BY <1>1 DEF SetIntervals, MemberInterval
    <2>2. e \in A /\ e.op = "ASSERT" /\ e.key = k
      BY <2>1 DEF OpensMember, Affecting
    <2>3. ASSUME NEW r \in Affecting(A, k), r.op = "RETRACT", Outranks(r, e)
          PROVE  FALSE
      <3> DEFINE later == {x \in After(A, k, e) : x.op = "RETRACT"}
                 R == {x \in later \X later : Outranks(x[2], x[1])}
      <3>1. r \in later /\ later \subseteq Affecting(A, k)
        BY <2>3 DEF After
      <3>2. IsFiniteSet(later)
        <4>1. later \in SUBSET A
          BY DEF After, Affecting
        <4>2. QED
          BY <4>1, FS_Subset DEF Ranked
      <3>3. (\A x \in later : <<x, x>> \notin R) /\
            \A x, y, z \in later : <<x, y>> \in R /\ <<y, z>> \in R => <<x, z>> \in R
        <4> HIDE DEF later
        <4>1. QED
          BY <3>1, MemberOrdered
      <3>4. \E x \in later : \A y \in later : <<y, x>> \notin R
        <4> HIDE DEF later, R
        <4>1. QED
          BY <3>1, <3>2, <3>3, MaximalExists
      <3>5. PICK c \in later : \A y \in later : ~ Outranks(c, y)
        <4> HIDE DEF later
        <4>1. QED
          BY <3>4
      <3>6. c \in Closers(A, k, e)
        BY <3>5 DEF Closers
      <3>7. \A x \in Closers(A, k, e) : x.vf \in Nat
        BY DEF Closers, After, Affecting, Ranked, Shaped
      <3>8. i.to = (CHOOSE x \in Closers(A, k, e) : TRUE).vf
        BY <2>1, <3>6 DEF MemberInterval
      <3>9. (CHOOSE x \in Closers(A, k, e) : TRUE) \in Closers(A, k, e)
        BY <3>6
      <3>10. QED
        BY <1>1, <3>7, <3>8, <3>9, ProfileAssumption
    <2>4. QED
      BY <2>2, <2>3 DEF MemberStands
  <1>2. ASSUME MemberStands(A, k)
        PROVE  \E i \in SetIntervals(s, p, A) : i.to = None /\ i.key = k
    <2>1. PICK a \in A : /\ a.op = "ASSERT" /\ a.key = k
                         /\ \A r \in Affecting(A, k) : r.op = "RETRACT" => ~ Outranks(r, a)
      BY <1>2 DEF MemberStands
    <2>2. PICK e \in Affecting(A, k) :
            /\ OpensMember(A, k, e) /\ (e = a \/ Outranks(a, e))
            /\ a \in MemberInterval(s, p, A, k, e).support
      BY <2>1, SetSupports
    <2>3. a \in {e} \cup {b \in Asserts(After(A, k, e)) : \A r \in Closers(A, k, e) : Outranks(r, b)}
      BY <2>2 DEF MemberInterval
    <2>4. ASSUME NEW r \in Closers(A, k, e)
          PROVE  FALSE
      <3>1. r \in Affecting(A, k) /\ r.op = "RETRACT" /\ Outranks(r, e)
        BY DEF Closers, After
      <3>2. Outranks(r, a)
        BY <2>3, <3>1
      <3>3. QED
        BY <2>1, <3>1, <3>2
    <2>5. MemberInterval(s, p, A, k, e).to = None /\ MemberInterval(s, p, A, k, e).key = k
      BY <2>4 DEF MemberInterval
    <2>6. QED
      BY <2>1, <2>2, <2>5, MemberIntervalIn
  <1>3. QED
    BY <1>1, <1>2

-----------------------------------------------------------------------------
\* What one more ASSERT of the model, stamped after all others, does to the
\* current values when its own value is one of them: nothing.

CurrentKeys(s, p, A) ==
  {i.key : i \in {j \in GroupIntervals(s, p, A) : Kind[p] = "APPEND" \/ j.to = None}}

LEMMA RankedWithNew ==
  ASSUME NEW A, Ranked(A), NEW a, Shaped(a), \A b \in A : b.rec < a.rec
  PROVE  Ranked(A \cup {a})
  <1>1. IsFiniteSet(A \cup {a})
    BY FS_AddElement DEF Ranked
  <1>2. Apart(A \cup {a})
    <2>1. \A b \in A : b.rec # a.rec
      BY DEF Ranked, Shaped
    <2>2. QED
      BY <2>1 DEF Ranked, Apart
  <1>3. QED
    BY <1>1, <1>2 DEF Ranked

LEMMA SingleUnmoved ==
  ASSUME NEW A, Ranked(A), NEW a, Shaped(a), \A b \in A : b.rec < a.rec,
         a.op = "ASSERT", a.origin = "model", NEW s, NEW p,
         a.key \in {i.key : i \in {j \in SingleIntervals(s, p, A) : j.to = None}}
  PROVE  {i.key : i \in {j \in SingleIntervals(s, p, A \cup {a}) : j.to = None}} =
         {i.key : i \in {j \in SingleIntervals(s, p, A) : j.to = None}}
  <1> DEFINE B == A \cup {a}
             m == Max(Instants(A))
             n == Max(Instants(B))
  <1>0. A # {}
    <2>1. PICK i \in SingleIntervals(s, p, A) : TRUE
      OBVIOUS
    <2>2. QED
      BY <2>1 DEF SingleIntervals, Instants
  <1>1. Ranked(B) /\ B # {}
    BY RankedWithNew
  <1>2. a.key = Decided(A, m) /\ a.key # None
    BY <1>0, LiveSingle
  <1>3. /\ m \in Instants(A) /\ (\A u \in Instants(A) : u <= m)
        /\ n \in Instants(B) /\ (\A u \in Instants(B) : u <= n)
    BY <1>0, <1>1, LastInstant
  <1>4. Instants(B) = Instants(A) \cup {a.vf} /\ Instants(B) \subseteq Nat
    BY <1>1, InstantsNat DEF Instants
  <1> HIDE DEF m, n, B
  <1>5. Decided(B, n) = Decided(A, m)
    <2> DEFINE w == Top(At(B, n))
    <2>1. /\ w \in B /\ w.vf = n /\ \A o \in B : o.vf = n => ~ Outranks(o, w)
          /\ Decided(B, n) = IF w.op = "ASSERT" THEN w.key ELSE None
      BY <1>1, <1>3, Decider
    <2> HIDE DEF w
    <2>2. CASE w = a
      BY <1>2, <2>1, <2>2
    <2>3. CASE w # a
      <3>1. w \in A /\ n \in Instants(A)
        BY <2>1, <2>3 DEF B, Instants
      <3>2. n = m
        BY <1>3, <1>4, <3>1
      <3> DEFINE v == Top(At(A, m))
      <3>3. /\ v \in A /\ v.vf = m /\ \A o \in A : o.vf = m => ~ Outranks(o, v)
            /\ Decided(A, m) = IF v.op = "ASSERT" THEN v.key ELSE None
        BY <1>3, Decider
      <3> HIDE DEF v
      <3>4. ~ Outranks(v, w) /\ ~ Outranks(w, v)
        BY <2>1, <3>1, <3>2, <3>3 DEF B
      <3>5. CASE v = w
        BY <2>1, <3>3, <3>5
      <3>6. CASE v # w
        <4>1. Shaped(v) /\ Shaped(w)
          BY <3>1, <3>3 DEF Ranked
        <4>2. Siblings(v, w)
          BY <3>1, <3>3, <3>4, <3>6, <4>1, OutranksTotal DEF Ranked, Apart
        \* A model's assertion at the last instant: a would come before it.
        <4>3. a.vf # n
          <5>1. a.vf = n => Outranks(a, w)
            BY <2>1, <3>1, <4>1, <4>2 DEF Outranks, Human, Siblings, Shaped
          <5>2. QED
            BY <2>1, <5>1 DEF B
        <4>4. At(B, n) = At(A, m)
          BY <3>2, <4>3 DEF At, B
        <4>5. QED
          BY <3>2, <4>4 DEF Decided
      <3>7. QED
        BY <3>5, <3>6
    <2>4. QED
      BY <2>2, <2>3
  <1>6. QED
    BY <1>0, <1>1, <1>5, LiveSingle DEF m, n, B

LEMMA SetUnmoved ==
  ASSUME NEW A, Ranked(A), NEW a, Shaped(a), \A b \in A : b.rec < a.rec,
         a.op = "ASSERT", NEW s, NEW p,
         a.key \in {i.key : i \in {j \in SetIntervals(s, p, A) : j.to = None}}
  PROVE  {i.key : i \in {j \in SetIntervals(s, p, A \cup {a}) : j.to = None}} =
         {i.key : i \in {j \in SetIntervals(s, p, A) : j.to = None}}
  <1> DEFINE B == A \cup {a}
  <1>1. Ranked(B)
    BY RankedWithNew
  <1>2. MemberStands(A, a.key)
    BY LiveSet
  <1>3. ASSUME NEW k
        PROVE  MemberStands(B, k) <=> MemberStands(A, k)
    <2>1. {r \in Affecting(B, k) : r.op = "RETRACT"} = {r \in Affecting(A, k) : r.op = "RETRACT"}
      BY DEF Affecting
    <2>2. CASE k = a.key
      <3>1. MemberStands(B, k)
        BY <1>2, <2>1, <2>2 DEF MemberStands
      <3>2. QED
        BY <1>2, <2>2, <3>1
    <2>3. CASE k # a.key
      BY <2>1, <2>3 DEF MemberStands
    <2>4. QED
      BY <2>2, <2>3
  <1>4. ASSUME NEW k
        PROVE  (\E i \in SetIntervals(s, p, B) : i.to = None /\ i.key = k) <=>
               (\E i \in SetIntervals(s, p, A) : i.to = None /\ i.key = k)
    <2> HIDE DEF B
    <2>1. (\E i \in SetIntervals(s, p, B) : i.to = None /\ i.key = k) <=> MemberStands(B, k)
      BY <1>1, LiveSet
    <2>2. (\E i \in SetIntervals(s, p, A) : i.to = None /\ i.key = k) <=> MemberStands(A, k)
      BY LiveSet
    <2>3. QED
      BY <1>3, <2>1, <2>2
  <1>5. QED
    <2> DEFINE I == SetIntervals(s, p, B)
               J == SetIntervals(s, p, A)
    <2> HIDE DEF B, I, J
    <2>1. \A k : (\E i \in I : i.to = None /\ i.key = k) <=> (\E i \in J : i.to = None /\ i.key = k)
      BY <1>4 DEF I, J
    <2>2. {i.key : i \in {j \in I : j.to = None}} = {i.key : i \in {j \in J : j.to = None}}
      <3>1. ASSUME NEW i \in I, i.to = None
            PROVE  \E j \in J : j.to = None /\ j.key = i.key
        BY <2>1, <3>1
      <3>2. ASSUME NEW j \in J, j.to = None
            PROVE  \E i \in I : i.to = None /\ i.key = j.key
        BY <2>1, <3>2
      <3>3. QED
        BY <3>1, <3>2
    <2>3. QED
      BY <2>2 DEF B, I, J

LEMMA AppendUnmoved ==
  ASSUME NEW A, NEW a, a.op = "ASSERT", NEW s, NEW p,
         a.key \in {i.key : i \in AppendIntervals(s, p, A)}
  PROVE  {i.key : i \in AppendIntervals(s, p, A \cup {a})} =
         {i.key : i \in AppendIntervals(s, p, A)}
  <1> DEFINE B == A \cup {a}
  <1>1. \A e : Withdrawn(p, B, e) <=> Withdrawn(p, A, e)
    BY DEF Withdrawn, After, Affecting
  <1>2. ASSUME NEW S
        PROVE  {i.key : i \in AppendIntervals(s, p, S)} =
               {e.key : e \in {x \in Asserts(S) : ~ Withdrawn(p, S, x)}}
    <2>1. \A i \in AppendIntervals(s, p, S) :
            \E e \in {x \in Asserts(S) : ~ Withdrawn(p, S, x)} : i.key = e.key
      BY DEF AppendIntervals
    <2>2. \A e \in {x \in Asserts(S) : ~ Withdrawn(p, S, x)} :
            \E i \in AppendIntervals(s, p, S) : i.key = e.key
      <3>1. ASSUME NEW e \in {x \in Asserts(S) : ~ Withdrawn(p, S, x)}
            PROVE  \E i \in AppendIntervals(s, p, S) : i.key = e.key
        <4> DEFINE i == [subj |-> s, pred |-> p, key |-> e.key, from |-> e.vf, to |-> e.vf,
                         opener |-> e, support |-> {e}]
        <4>1. i \in AppendIntervals(s, p, S)
          BY DEF AppendIntervals
        <4>2. i.key = e.key
          OBVIOUS
        <4> HIDE DEF i
        <4>3. QED
          BY <4>1, <4>2
      <3>2. QED
        BY <3>1
    <2> DEFINE I == AppendIntervals(s, p, S)
               E == {x \in Asserts(S) : ~ Withdrawn(p, S, x)}
    <2> HIDE DEF I, E
    <2>3. (\A i \in I : \E e \in E : i.key = e.key) /\ (\A e \in E : \E i \in I : i.key = e.key)
      BY <2>1, <2>2 DEF I, E
    <2>4. {i.key : i \in I} = {e.key : e \in E}
      BY <2>3
    <2>5. QED
      BY <2>4 DEF I, E
  <1>3. Asserts(B) = Asserts(A) \cup {a}
    BY DEF Asserts
  <1>4. QED
    BY <1>1, <1>2, <1>3

LEMMA CurrentUnmoved ==
  ASSUME NEW p \in Predicates, NEW A, Ranked(A), NEW a, Shaped(a), \A b \in A : b.rec < a.rec,
         a.op = "ASSERT", a.origin = "model", NEW s, a.key \in CurrentKeys(s, p, A)
  PROVE  CurrentKeys(s, p, A \cup {a}) = CurrentKeys(s, p, A)
  <1>1. CASE Kind[p] = "SINGLE"
    <2>1. ASSUME NEW S
          PROVE  CurrentKeys(s, p, S) =
                   {i.key : i \in {j \in SingleIntervals(s, p, S) : j.to = None}}
      <3>1. GroupIntervals(s, p, S) = SingleIntervals(s, p, S) /\ Kind[p] # "APPEND"
        BY <1>1 DEF GroupIntervals
      <3>2. QED
        BY <3>1 DEF CurrentKeys
    <2>2. /\ CurrentKeys(s, p, A) = {i.key : i \in {j \in SingleIntervals(s, p, A) : j.to = None}}
          /\ CurrentKeys(s, p, A \cup {a}) = {i.key : i \in {j \in SingleIntervals(s, p, A \cup {a}) : j.to = None}}
      BY <2>1
    <2>3. {i.key : i \in {j \in SingleIntervals(s, p, A \cup {a}) : j.to = None}} = {i.key : i \in {j \in SingleIntervals(s, p, A) : j.to = None}}
      BY <2>2, SingleUnmoved
    <2>4. QED
      BY <2>2, <2>3
  <1>2. CASE Kind[p] = "SET"
    <2>1. ASSUME NEW S
          PROVE  CurrentKeys(s, p, S) =
                   {i.key : i \in {j \in SetIntervals(s, p, S) : j.to = None}}
      <3>1. GroupIntervals(s, p, S) = SetIntervals(s, p, S) /\ Kind[p] # "APPEND"
        BY <1>2 DEF GroupIntervals
      <3>2. QED
        BY <3>1 DEF CurrentKeys
    <2>2. /\ CurrentKeys(s, p, A) = {i.key : i \in {j \in SetIntervals(s, p, A) : j.to = None}}
          /\ CurrentKeys(s, p, A \cup {a}) = {i.key : i \in {j \in SetIntervals(s, p, A \cup {a}) : j.to = None}}
      BY <2>1
    <2>3. {i.key : i \in {j \in SetIntervals(s, p, A \cup {a}) : j.to = None}} = {i.key : i \in {j \in SetIntervals(s, p, A) : j.to = None}}
      BY <2>2, SetUnmoved
    <2>4. QED
      BY <2>2, <2>3
  <1>3. CASE Kind[p] = "APPEND"
    <2>1. ASSUME NEW S
          PROVE  CurrentKeys(s, p, S) = {i.key : i \in AppendIntervals(s, p, S)}
      <3>1. GroupIntervals(s, p, S) = AppendIntervals(s, p, S)
        BY <1>3 DEF GroupIntervals
      <3>2. QED
        BY <1>3, <3>1 DEF CurrentKeys
    <2>2. /\ CurrentKeys(s, p, A) = {i.key : i \in AppendIntervals(s, p, A)}
          /\ CurrentKeys(s, p, A \cup {a}) = {i.key : i \in AppendIntervals(s, p, A \cup {a})}
      BY <2>1
    <2>3. {i.key : i \in AppendIntervals(s, p, A \cup {a})} = {i.key : i \in AppendIntervals(s, p, A)}
      BY <2>2, AppendUnmoved
    <2>4. QED
      BY <2>2, <2>3
  <1>4. QED
    BY <1>1, <1>2, <1>3, ProfileAssumption

-----------------------------------------------------------------------------
(***************************************************************************)
(* The walks of projection.py come to the intervals they are described by. *)
(* A walk is a fold that takes what comes last out of a set, so it is the  *)
(* description as soon as the description takes the same step when one     *)
(* more instant, or one more event, comes after all the others.            *)
(***************************************************************************)


\* Two functions of the subsets of a finite set agree when they do on the empty
\* set and, as soon as they agree without what one of them takes out, with it.
LEMMA FoldUnique ==
  ASSUME NEW S, IsFiniteSet(S), NEW f, NEW g, NEW c,
         \A T \in SUBSET S : T # {} => c[T] \in T,
         f[{}] = g[{}],
         \A T \in SUBSET S : T # {} /\ f[T \ {c[T]}] = g[T \ {c[T]}] => f[T] = g[T]
  PROVE  f[S] = g[S]
  <1> DEFINE bad == {n \in Nat : \E T \in SUBSET S : Cardinality(T) = n /\ f[T] # g[T]}
  <1>1. SUFFICES ASSUME f[S] # g[S]
                 PROVE  FALSE
    OBVIOUS
  <1>2. Cardinality(S) \in bad
    BY <1>1, FS_CardinalityType
  <1>3. PICK n \in bad : \A m \in bad : n <= m
    BY <1>2, MinExists
  <1>4. PICK T \in SUBSET S : Cardinality(T) = n /\ f[T] # g[T]
    BY <1>3
  <1>5. T # {} /\ IsFiniteSet(T) /\ c[T] \in T
    BY <1>4, FS_Subset
  <1>6. IsFiniteSet(T \ {c[T]}) /\ Cardinality(T \ {c[T]}) = n - 1
    BY <1>4, <1>5, FS_RemoveElement
  <1>7. n - 1 \in Nat
    BY <1>6, FS_CardinalityType
  <1>8. f[T \ {c[T]}] = g[T \ {c[T]}]
    <2>1. n - 1 \notin bad
      BY <1>3, <1>7
    <2>2. T \ {c[T]} \in SUBSET S
      OBVIOUS
    <2>3. QED
      BY <1>6, <1>7, <2>1, <2>2
  <1>9. QED
    BY <1>4, <1>5, <1>8

LEMMA MaxOf ==
  ASSUME NEW A, Ranked(A), NEW T \in SUBSET Instants(A), T # {}
  PROVE  Max(T) \in T /\ \A u \in T : u <= Max(T)
  <1> DEFINE E == {a \in A : a.vf \in T}
  <1>1. Ranked(E) /\ E # {}
    BY RankedSubset DEF Instants
  <1>2. Instants(E) = T
    BY DEF Instants
  <1>3. QED
    BY <1>1, <1>2, LastInstant

Interval(s, p, k, from, to, opener, support) ==
  [subj |-> s, pred |-> p, key |-> k, from |-> from, to |-> to,
   opener |-> opener, support |-> support]

LEMMA IntervalEdits ==
  ASSUME NEW s, NEW p, NEW k, NEW from, NEW to, NEW opener, NEW support, NEW u, NEW more,
         NEW i, i = Interval(s, p, k, from, to, opener, support)
  PROVE  /\ i.subj = s /\ i.pred = p /\ i.key = k /\ i.from = from /\ i.to = to
         /\ i.opener = opener /\ i.support = support
         /\ ClosedAt(i, u) = Interval(s, p, k, from, u, opener, support)
         /\ Backed(i, more) = Interval(s, p, k, from, to, opener, support \cup more)
  BY DEF Interval, ClosedAt, Backed
-----------------------------------------------------------------------------
\* SINGLE: what one more instant does.

\* The assertions of the instants in T.
During(A, T) == {a \in A : a.vf \in T}

Backing(A, t) == {a \in At(A, t) : a.op = "ASSERT" /\ a.key = Top(At(A, t)).key}

Starts(A) == {u \in Instants(A) : Decided(A, u) \notin {None, Held(A, u)}}

Support(A, t) == {a \in Asserts(A) : a.key = Decided(A, t) /\ Within(a.vf, t, End(A, t))}

RunFrom(s, p, A, t) ==
  Interval(s, p, Decided(A, t), t, End(A, t), Top(At(A, t)), Support(A, t))

LEMMA SingleRuns ==
  ASSUME NEW s, NEW p, NEW A
  PROVE  SingleIntervals(s, p, A) = {RunFrom(s, p, A, t) : t \in Starts(A)}
  BY DEF SingleIntervals, RunFrom, Interval, Starts, Support

LEMMA DuringShape ==
  ASSUME NEW A, Ranked(A), NEW T \in SUBSET Instants(A)
  PROVE  /\ Ranked(During(A, T)) /\ Instants(During(A, T)) = T
         /\ \A u \in T : At(During(A, T), u) = At(A, u) /\ Decided(During(A, T), u) = Decided(A, u)
  <1>1. Ranked(During(A, T))
    BY RankedSubset DEF During
  <1>2. Instants(During(A, T)) = T
    BY DEF During, Instants
  <1>3. \A u \in T : At(During(A, T), u) = At(A, u)
    BY DEF During, At
  <1>4. QED
    BY <1>1, <1>2, <1>3 DEF Decided

\* Nothing comes after the last instant.
LEMMA LastEnds ==
  ASSUME NEW A, Ranked(A), NEW T \in SUBSET Instants(A), NEW t \in T, \A v \in T : v <= t
  PROVE  End(During(A, T), t) = None
  <1> DEFINE lt == {v \in Instants(During(A, T)) :
                      v > t /\ Decided(During(A, T), v) # Decided(During(A, T), t)}
  <1>1. \A v \in T : v \in Nat /\ ~ (v > t)
    <2>1. \A v \in T : v \in Nat
      BY InstantsNat
    <2>2. QED
      BY <2>1
  <1>2. lt = {}
    BY <1>1, DuringShape
  <1>3. QED
    BY <1>2 DEF End

\* A value that ended before the instant stays as it was; one that did not ends
\* there when the instant decides otherwise and is backed by it when not.
LEMMA InstantEnds ==
  ASSUME NEW A, Ranked(A), NEW T \in SUBSET Instants(A), NEW t \in T,
         \A v \in T : v <= t, NEW B, B = During(A, T), NEW C, C = During(A, T \ {t}),
         NEW u \in T \ {t}
  PROVE  /\ End(C, u) # None => End(B, u) = End(C, u)
         /\ End(C, u) = None =>
              End(B, u) = IF Decided(A, t) = Decided(A, u) THEN None ELSE t
         /\ End(B, t) = None
  <1> DEFINE lc == {v \in Instants(C) : v > u /\ Decided(C, v) # Decided(C, u)}
             lb == {v \in Instants(B) : v > u /\ Decided(B, v) # Decided(B, u)}
  <1>0. /\ \A v \in T : v \in Nat /\ ~ (v > t) /\ (v # t => v < t)
        /\ t \in Nat /\ u \in Nat /\ u < t /\ t > u /\ ~ (t > t) /\ t # None
    <2>1. \A v \in T : v \in Nat
      BY InstantsNat
    <2>2. QED
      BY <2>1, ProfileAssumption
  <1>1. Instants(B) = T /\ Instants(C) = T \ {t}
    BY DuringShape
  <1>2. /\ \A v \in T : Decided(B, v) = Decided(A, v)
        /\ \A v \in T \ {t} : Decided(C, v) = Decided(A, v)
    BY DuringShape
  <1>3. lc = {v \in T \ {t} : v > u /\ Decided(A, v) # Decided(A, u)}
    BY <1>1, <1>2
  <1>4. lb = {v \in T : v > u /\ Decided(A, v) # Decided(A, u)}
    BY <1>1, <1>2
  <1>6. End(C, u) = IF lc = {} THEN None ELSE Min(lc)
    BY DEF End
  <1>7. End(B, u) = IF lb = {} THEN None ELSE Min(lb)
    BY DEF End
  <1>8. End(B, t) = None
    BY LastEnds
  <1> HIDE DEF lc, lb
  <1>9. CASE lc # {}
    <2>1. lc \in SUBSET Nat /\ lb \in SUBSET Nat /\ lb # {} /\ lc \subseteq lb
      BY <1>0, <1>3, <1>4, <1>9
    <2>2. Min(lc) \in lc /\ (\A v \in lc : Min(lc) <= v) /\ Min(lb) \in lb /\ (\A v \in lb : Min(lb) <= v)
      BY <1>9, <2>1, MinExists
    <2>3. Min(lc) \in T /\ Min(lc) # t /\ Min(lc) < t
      BY <1>0, <1>3, <2>2
    <2>4. Min(lb) \in lc
      <3>1. Min(lb) \in lb /\ Min(lb) <= Min(lc)
        BY <2>1, <2>2
      <3>2. Min(lb) \in T /\ Min(lb) # t
        <4>1. Min(lb) \in T
          BY <1>4, <3>1
        <4>2. Min(lb) \in Nat /\ Min(lc) \in Nat
          BY <1>0, <2>3, <4>1
        <4>3. QED
          BY <1>0, <2>3, <3>1, <4>1, <4>2
      <3>3. QED
        BY <1>3, <1>4, <3>1, <3>2
    <2>5. Min(lb) = Min(lc)
      <3>1. Min(lb) \in Nat /\ Min(lc) \in Nat /\ Min(lb) <= Min(lc) /\ Min(lc) <= Min(lb)
        BY <2>1, <2>2, <2>4
      <3>2. QED
        BY <3>1
    <2>6. Min(lc) # None
      BY <2>1, <2>2, ProfileAssumption
    <2>7. QED
      BY <1>6, <1>7, <1>8, <1>9, <2>1, <2>5, <2>6
  <1>10. CASE lc = {}
    <2>1. lb = IF Decided(A, t) = Decided(A, u) THEN {} ELSE {t}
      <3>1. \A v \in lb : v = t
        BY <1>3, <1>4, <1>10
      <3>2. t \in lb <=> Decided(A, t) # Decided(A, u)
        BY <1>0, <1>4
      <3>3. QED
        BY <3>1, <3>2
    <2>2. lb = {t} => Min(lb) = t
      <3>1. SUFFICES ASSUME lb = {t}
                     PROVE  Min(lb) = t
        OBVIOUS
      <3>2. lb \in SUBSET Nat /\ lb # {}
        BY <1>0, <3>1
      <3>3. Min(lb) \in lb
        BY <3>2, MinExists
      <3>4. QED
        BY <3>1, <3>3
    <2>3. QED
      BY <1>6, <1>7, <1>8, <1>10, <2>1, <2>2
  <1>11. QED
    BY <1>9, <1>10

\* What was in hand before the instant.
LEMMA InstantHolds ==
  ASSUME NEW A, Ranked(A), NEW T \in SUBSET Instants(A), NEW t \in T,
         \A v \in T : v <= t, NEW B, B = During(A, T), NEW C, C = During(A, T \ {t})
  PROVE  /\ \A u \in T \ {t} : Held(B, u) = Held(C, u)
         /\ Held(B, t) = IF T \ {t} = {} THEN None ELSE Decided(A, Max(T \ {t}))
         /\ T \ {t} # {} => Max(T \ {t}) \in T \ {t} /\ Decided(C, Max(T \ {t})) = Decided(A, Max(T \ {t}))
  <1>0. (\A v \in T : v \in Nat /\ (v # t => v < t)) /\ t \in Nat /\ ~ (t < t)
    <2>1. \A v \in T : v \in Nat
      BY InstantsNat
    <2>2. QED
      BY <2>1
  <1>1. Instants(B) = T /\ Instants(C) = T \ {t}
    BY DuringShape
  <1>2. /\ \A v \in T : Decided(B, v) = Decided(A, v)
        /\ \A v \in T \ {t} : Decided(C, v) = Decided(A, v)
    BY DuringShape
  <1>3. ASSUME NEW u \in T, NEW X, X = {v \in T : v < u}
        PROVE  X # {} => Max(X) \in X
    BY <1>3, MaxOf
  <1>4. ASSUME NEW u \in T \ {t}
        PROVE  Held(B, u) = Held(C, u)
    <2>1. {v \in Instants(B) : v < u} = {v \in T : v < u} /\ {v \in Instants(C) : v < u} = {v \in T : v < u}
      BY <1>0, <1>1
    <2> DEFINE X == {v \in T : v < u}
    <2>2. X # {} => Max(X) \in T /\ Max(X) < u
      <3>1. X # {} => Max(X) \in X
        BY <1>3
      <3>2. QED
        BY <3>1
    <2>3. X # {} => Max(X) \in T \ {t}
      BY <1>0, <2>2
    <2>4. Held(B, u) = IF X = {} THEN None ELSE Decided(B, Max(X))
      BY <2>1 DEF Held
    <2>5. Held(C, u) = IF X = {} THEN None ELSE Decided(C, Max(X))
      BY <2>1 DEF Held
    <2> HIDE DEF X
    <2>6. QED
      BY <1>2, <2>3, <2>4, <2>5
  <1>5. T \ {t} # {} => Max(T \ {t}) \in T \ {t}
    BY MaxOf
  <1>6. Held(B, t) = IF T \ {t} = {} THEN None ELSE Decided(A, Max(T \ {t}))
    <2>1. {v \in Instants(B) : v < t} = T \ {t}
      BY <1>0, <1>1
    <2>2. Held(B, t) = IF T \ {t} = {} THEN None ELSE Decided(B, Max(T \ {t}))
      BY <2>1 DEF Held
    <2>3. QED
      BY <1>2, <1>5, <2>2
  <1>7. QED
    BY <1>2, <1>4, <1>5, <1>6

LEMMA InstantSupports ==
  ASSUME NEW A, Ranked(A), NEW T \in SUBSET Instants(A), NEW t \in T,
         \A v \in T : v <= t, NEW B, B = During(A, T), NEW C, C = During(A, T \ {t})
  PROVE  /\ \A u \in T \ {t} :
              /\ End(C, u) # None \/ Decided(A, t) # Decided(A, u) =>
                   Support(B, u) = Support(C, u)
              /\ End(C, u) = None /\ Decided(A, t) = Decided(A, u) /\ Decided(A, t) # None =>
                   Support(B, u) = Support(C, u) \cup Backing(A, t)
         /\ Decided(A, t) # None => Support(B, t) = Backing(A, t)
  <1>0. (\A v \in T : v \in Nat /\ (v # t => v < t) /\ v <= t) /\ t \in Nat /\ ~ (t < t) /\ t <= t
        /\ t # None
    <2>1. \A v \in T : v \in Nat
      BY InstantsNat
    <2>2. QED
      BY <2>1, ProfileAssumption
  <1>1. Instants(B) = T /\ Instants(C) = T \ {t}
    BY DuringShape
  <1>2. /\ \A v \in T : Decided(B, v) = Decided(A, v)
        /\ \A v \in T \ {t} : Decided(C, v) = Decided(A, v)
    BY DuringShape
  <1>3. /\ Asserts(B) = {a \in A : a.op = "ASSERT" /\ a.vf \in T}
        /\ Asserts(C) = {a \in A : a.op = "ASSERT" /\ a.vf \in T /\ a.vf # t}
    BY DEF Asserts, During
  <1>4. Decided(A, t) # None => /\ Top(At(A, t)).key = Decided(A, t)
                                /\ Backing(A, t) = {a \in A : a.op = "ASSERT" /\ a.vf = t /\ a.key = Decided(A, t)}
    BY DEF Backing, Decided, At
  <1>5. ASSUME NEW u \in T \ {t}
        PROVE  /\ End(C, u) # None \/ Decided(A, t) # Decided(A, u) =>
                   Support(B, u) = Support(C, u)
               /\ End(C, u) = None /\ Decided(A, t) = Decided(A, u) /\ Decided(A, t) # None =>
                   Support(B, u) = Support(C, u) \cup Backing(A, t)
    <2>1. /\ End(C, u) # None => End(B, u) = End(C, u)
          /\ End(C, u) = None =>
               End(B, u) = IF Decided(A, t) = Decided(A, u) THEN None ELSE t
      BY InstantEnds
    <2>2. End(C, u) # None => End(C, u) \in T \ {t}
      <3> DEFINE lc == {v \in Instants(C) : v > u /\ Decided(C, v) # Decided(C, u)}
      <3>1. lc # {} => Min(lc) \in lc
        <4>1. lc \in SUBSET Nat
          BY <1>0, <1>1
        <4> HIDE DEF lc
        <4>2. QED
          BY <4>1, MinExists
      <3>2. QED
        BY <1>1, <3>1 DEF End
    <2>3. ASSUME NEW v \in T, v # t
          PROVE  Within(v, u, End(B, u)) <=> Within(v, u, End(C, u))
      BY <1>0, <2>1, <2>3 DEF Within
    <2>4. Within(t, u, End(B, u)) <=> End(C, u) = None /\ Decided(A, t) = Decided(A, u)
      <3>1. u <= t
        BY <1>0
      <3>2. End(C, u) # None => ~ (t < End(C, u))
        <4>1. ASSUME End(C, u) # None
              PROVE  ~ (t < End(C, u))
          <5>1. End(C, u) \in Nat /\ End(C, u) <= t
            BY <1>0, <2>2, <4>1
          <5>2. QED
            BY <1>0, <5>1
        <4>2. QED
          BY <4>1
      <3>3. QED
        BY <1>0, <2>1, <3>1, <3>2 DEF Within
    <2>5. /\ Support(B, u) = {a \in Asserts(B) : a.key = Decided(A, u) /\ Within(a.vf, u, End(B, u))}
          /\ Support(C, u) = {a \in Asserts(C) : a.key = Decided(A, u) /\ Within(a.vf, u, End(C, u))}
      BY <1>2 DEF Support
    <2>6. ASSUME End(C, u) # None \/ Decided(A, t) # Decided(A, u)
          PROVE  Support(B, u) = Support(C, u)
      BY <1>3, <2>3, <2>4, <2>5, <2>6
    <2>7. ASSUME End(C, u) = None, Decided(A, t) = Decided(A, u), Decided(A, t) # None
          PROVE  Support(B, u) = Support(C, u) \cup Backing(A, t)
      <3>1. Backing(A, t) = {a \in A : a.op = "ASSERT" /\ a.vf = t /\ a.key = Decided(A, u)}
        BY <1>4, <2>7
      <3>2. \A a \in Asserts(B) : a.vf = t => Within(a.vf, u, End(B, u))
        BY <2>4, <2>7
      <3>3. Backing(A, t) \subseteq Support(B, u)
        BY <1>3, <2>5, <3>1, <3>2
      <3>4. QED
        BY <1>3, <2>3, <2>5, <3>1, <3>3
    <2>8. QED
      BY <2>6, <2>7
  <1>6. ASSUME Decided(A, t) # None
        PROVE  Support(B, t) = Backing(A, t)
    <2>1. \A v \in T : Within(v, t, None) <=> v = t
      <3>1. \A v \in T : v \in Nat /\ (v # t => ~ (t <= v))
        BY <1>0
      <3>2. QED
        BY <1>0, <3>1 DEF Within
    <2>2. Decided(B, t) = Decided(A, t)
      BY <1>2
    <2>3. End(B, t) = None
      BY LastEnds
    <2>4. Support(B, t) = {a \in Asserts(B) : a.key = Decided(A, t) /\ Within(a.vf, t, None)}
      BY <2>2, <2>3 DEF Support
    <2>5. QED
      BY <1>3, <1>4, <1>6, <2>1, <2>4
  <1>7. QED
    BY <1>5, <1>6

\* What becomes of a run of instants that decide one value.
LEMMA InstantMoves ==
  ASSUME NEW A, Ranked(A), NEW T \in SUBSET Instants(A), NEW t \in T,
         \A v \in T : v <= t, NEW B, B = During(A, T), NEW C, C = During(A, T \ {t}),
         NEW s, NEW p
  PROVE  /\ \A u \in T \ {t} :
              LET i == RunFrom(s, p, C, u)
                  j == RunFrom(s, p, B, u)
              IN  /\ End(C, u) # None => j = i
                  /\ End(C, u) = None /\ Decided(A, t) # Decided(A, u) => j = ClosedAt(i, t)
                  /\ End(C, u) = None /\ Decided(A, t) = Decided(A, u) /\ Decided(A, t) # None =>
                       j = Backed(i, Backing(A, t))
         /\ Decided(A, t) # None =>
              RunFrom(s, p, B, t) = Opened(s, p, Top(At(A, t)), Backing(A, t))
  <1>1. /\ \A v \in T : Decided(B, v) = Decided(A, v) /\ At(B, v) = At(A, v)
        /\ \A v \in T \ {t} : Decided(C, v) = Decided(A, v) /\ At(C, v) = At(A, v)
    BY DuringShape
  <1>2. ASSUME NEW u \in T \ {t}
        PROVE  LET i == RunFrom(s, p, C, u)
                   j == RunFrom(s, p, B, u)
               IN  /\ End(C, u) # None => j = i
                   /\ End(C, u) = None /\ Decided(A, t) # Decided(A, u) => j = ClosedAt(i, t)
                   /\ End(C, u) = None /\ Decided(A, t) = Decided(A, u) /\ Decided(A, t) # None =>
                        j = Backed(i, Backing(A, t))
    <2> DEFINE i == RunFrom(s, p, C, u)
               j == RunFrom(s, p, B, u)
    <2>1. /\ i = Interval(s, p, Decided(A, u), u, End(C, u), Top(At(A, u)), Support(C, u))
          /\ j = Interval(s, p, Decided(A, u), u, End(B, u), Top(At(A, u)), Support(B, u))
      BY <1>1 DEF RunFrom
    <2> HIDE DEF i, j
    <2>2. /\ ClosedAt(i, t) =
               Interval(s, p, Decided(A, u), u, t, Top(At(A, u)), Support(C, u))
          /\ Backed(i, Backing(A, t)) =
               Interval(s, p, Decided(A, u), u, End(C, u), Top(At(A, u)), Support(C, u) \cup Backing(A, t))
      BY <2>1, IntervalEdits
    <2>3. /\ End(C, u) # None => End(B, u) = End(C, u)
          /\ End(C, u) = None =>
               End(B, u) = IF Decided(A, t) = Decided(A, u) THEN None ELSE t
      BY InstantEnds
    <2>4. /\ End(C, u) # None \/ Decided(A, t) # Decided(A, u) => Support(B, u) = Support(C, u)
          /\ End(C, u) = None /\ Decided(A, t) = Decided(A, u) /\ Decided(A, t) # None =>
               Support(B, u) = Support(C, u) \cup Backing(A, t)
      BY InstantSupports
    <2>5. End(C, u) # None => j = i
      BY <2>1, <2>3, <2>4
    <2>6. End(C, u) = None /\ Decided(A, t) # Decided(A, u) => j = ClosedAt(i, t)
      BY <2>1, <2>2, <2>3, <2>4
    <2>7. End(C, u) = None /\ Decided(A, t) = Decided(A, u) /\ Decided(A, t) # None =>
                       j = Backed(i, Backing(A, t))
      BY <2>1, <2>2, <2>3, <2>4
    <2>8. QED
      BY <2>5, <2>6, <2>7 DEF i, j
  <1>3. ASSUME Decided(A, t) # None
        PROVE  RunFrom(s, p, B, t) = Opened(s, p, Top(At(A, t)), Backing(A, t))
    <2> DEFINE w == Top(At(A, t))
    <2>1. w.vf = t /\ w.key = Decided(A, t)
      BY <1>3, Decider
    <2>2. RunFrom(s, p, B, t) = Interval(s, p, Decided(A, t), t, End(B, t), w, Support(B, t))
      BY <1>1 DEF RunFrom
    <2>3. Support(B, t) = Backing(A, t)
      BY <1>3, InstantSupports
    <2>4. End(B, t) = None
      BY LastEnds
    <2> HIDE DEF w
    <2>5. QED
      BY <2>1, <2>2, <2>3, <2>4 DEF Interval, Opened, w
  <1>4. QED
    BY <1>2, <1>3

InHand(I) == [active |-> {i \in I : i.to = None}, done |-> {i \in I : i.to # None}]

LEMMA SingleStep ==
  ASSUME NEW A, Ranked(A), NEW T \in SUBSET Instants(A), NEW t \in T,
         \A v \in T : v <= t, NEW s, NEW p
  PROVE  InHand(SingleIntervals(s, p, During(A, T))) =
           WalkInstant(s, p, A, InHand(SingleIntervals(s, p, During(A, T \ {t}))), t)
  <1> DEFINE B == During(A, T)
             C == During(A, T \ {t})
             I == SingleIntervals(s, p, B)
             J == SingleIntervals(s, p, C)
             w == Top(At(A, t))
             P == Starts(C)
             d(u) == Decided(A, u)
             before(u) == RunFrom(s, p, C, u)
             after(u) == RunFrom(s, p, B, u)
             live == {u \in P : End(C, u) = None}
  <1>1. /\ w \in A /\ w.vf = t
        /\ d(t) = IF w.op = "ASSERT" THEN w.key ELSE None
        /\ w.op \in {"ASSERT", "RETRACT"} /\ w.key # None
    <2>1. w \in A /\ w.vf = t /\ d(t) = IF w.op = "ASSERT" THEN w.key ELSE None
      BY Decider
    <2>2. QED
      BY <2>1 DEF Ranked, Shaped
  <1>2. /\ Ranked(C) /\ Instants(C) = T \ {t} /\ Instants(B) = T
        /\ \A v \in T : Decided(B, v) = d(v)
        /\ \A v \in T \ {t} : Decided(C, v) = d(v)
    BY DuringShape
  <1>3. /\ I = {after(u) : u \in Starts(B)}
        /\ J = {before(u) : u \in P}
    BY SingleRuns
  <1>4. P \subseteq T \ {t} /\ \A u \in P : d(u) # None
    BY <1>2 DEF Starts
  <1>5. \A u \in P : before(u).to = End(C, u) /\ before(u).key = d(u)
    BY <1>2, <1>4 DEF RunFrom, Interval
  <1>6. \A u \in T : after(u).to = End(B, u) /\ after(u).key = d(u)
    BY <1>2 DEF RunFrom, Interval
  <1>7. /\ \A u \in T \ {t} : Held(B, u) = Held(C, u)
        /\ Held(B, t) = IF T \ {t} = {} THEN None ELSE d(Max(T \ {t}))
        /\ T \ {t} # {} => Max(T \ {t}) \in T \ {t} /\ Decided(C, Max(T \ {t})) = d(Max(T \ {t}))
    BY InstantHolds
  <1>8. Starts(B) = P \cup (IF d(t) \notin {None, Held(B, t)} THEN {t} ELSE {})
    BY <1>2, <1>7 DEF Starts
  <1>9. \A u \in T \ {t} :
          /\ End(C, u) # None => End(B, u) = End(C, u)
          /\ End(C, u) = None => End(B, u) = IF d(t) = d(u) THEN None ELSE t
    BY InstantEnds
  <1>10. End(B, t) = None /\ t # None
    <2>1. t \in Nat
      BY InstantsNat
    <2>2. QED
      BY <2>1, LastEnds, ProfileAssumption
  <1>11. /\ \A u \in T \ {t} :
              /\ End(C, u) # None => after(u) = before(u)
              /\ End(C, u) = None /\ d(t) # d(u) => after(u) = ClosedAt(before(u), t)
              /\ End(C, u) = None /\ d(t) = d(u) /\ d(t) # None =>
                   after(u) = Backed(before(u), Backing(A, t))
         /\ d(t) # None => after(t) = Opened(s, p, w, Backing(A, t))
    BY InstantMoves
  \* All that is in hand is of one value, the one the last instant decided.
  <1>12. /\ {d(u) : u \in live} = {Held(B, t)} \ {None}
    <2>1. CASE T \ {t} = {}
      BY <1>4, <1>7, <2>1
    <2>2. CASE T \ {t} # {}
      <3>1. C # {}
        BY <1>2, <2>2 DEF Instants
      <3>2. {i.key : i \in {j \in J : j.to = None}} = {Decided(C, Max(Instants(C)))} \ {None}
        BY <1>2, <3>1, LiveSingle
      <3>3. {i.key : i \in {j \in J : j.to = None}} = {d(u) : u \in live}
        <4> HIDE DEF before, P, d
        <4>1. QED
          BY <1>3, <1>5
      <3>4. Decided(C, Max(Instants(C))) = Held(B, t)
        BY <1>2, <1>7, <2>2
      <3>5. QED
        BY <3>2, <3>3, <3>4
    <2>3. QED
      BY <2>1, <2>2
  <1>13. InHand(J).active = {before(u) : u \in live} /\ InHand(J).done = {before(u) : u \in P \ live}
    <2> HIDE DEF before, P
    <2>1. {i \in J : i.to = None} = {before(u) : u \in live} /\ {i \in J : i.to # None} = {before(u) : u \in P \ live}
      BY <1>3, <1>5
    <2>2. QED
      BY <2>1 DEF InHand
  <1> DEFINE X == {u \in Starts(B) : End(B, u) = None}
  <1>14. InHand(I) = [active |-> {after(u) : u \in X}, done |-> {after(u) : u \in Starts(B) \ X}]
    <2>1. Starts(B) \subseteq T
      BY <1>2 DEF Starts
    <2> HIDE DEF after
    <2>2. {i \in I : i.to = None} = {after(u) : u \in X} /\ {i \in I : i.to # None} = {after(u) : u \in Starts(B) \ X}
      BY <1>3, <1>6, <2>1
    <2>3. QED
      BY <2>2 DEF InHand
  <1>15. \A u \in P \ live : End(C, u) # None /\ after(u) = before(u) /\ End(B, u) # None
    BY <1>4, <1>9, <1>11
  <1> DEFINE W == InHand(J)
             shut == {ClosedAt(i, t) : i \in W.active}
             same == \E i \in W.active : i.key = w.key
  <1>16. WalkInstant(s, p, A, W, t) =
           IF w.op = "RETRACT" THEN [active |-> {}, done |-> W.done \cup shut]
           ELSE IF same
           THEN [active |-> {Backed(i, Backing(A, t)) : i \in W.active}, done |-> W.done]
           ELSE [active |-> {Opened(s, p, w, Backing(A, t))}, done |-> W.done \cup shut]
    BY DEF WalkInstant, Backing
  <1>17. same <=> \E u \in live : d(u) = w.key
    <2> HIDE DEF before, d, w, W, live
    <2>1. live \subseteq P
      BY DEF live
    <2>2. QED
      BY <1>5, <1>13, <2>1 DEF W
  <1>18. shut = {ClosedAt(before(u), t) : u \in live}
    <2> HIDE DEF before, live, W
    <2>1. QED
      BY <1>13 DEF W
  <1> HIDE DEF B, C, I, J, w, P, d, before, after, W, shut, same
  <1>19. CASE w.op = "RETRACT"
    <2>1. d(t) = None
      BY <1>1, <1>19
    <2>2. \A u \in live : d(t) # d(u) /\ End(C, u) = None /\ u \in T \ {t}
      BY <1>4, <2>1
    <2>3. \A u \in live : after(u) = ClosedAt(before(u), t) /\ End(B, u) = t
      BY <1>9, <1>11, <2>2
    <2>4. Starts(B) = P
      BY <1>8, <2>1
    <2>5. X = {}
      BY <1>10, <1>15, <2>3, <2>4
    <2>6. {after(u) : u \in Starts(B) \ X} = {before(u) : u \in P \ live} \cup {ClosedAt(before(u), t) : u \in live}
      BY <1>15, <2>3, <2>4, <2>5
    <2>7. QED
      BY <1>13, <1>14, <1>16, <1>18, <1>19, <2>5, <2>6 DEF W, I, J, B, C
  <1>20. CASE w.op # "RETRACT" /\ same
    <2>1. d(t) = w.key /\ d(t) # None
      BY <1>1, <1>20
    <2>2. Held(B, t) = d(t) /\ \A u \in live : d(u) = d(t)
      BY <1>12, <1>17, <1>20, <2>1
    <2>3. \A u \in live : after(u) = Backed(before(u), Backing(A, t)) /\ End(B, u) = None
      BY <1>4, <1>9, <1>11, <2>1, <2>2
    <2>4. Starts(B) = P
      BY <1>8, <2>2
    <2>5. X = live
      BY <1>15, <2>3, <2>4
    <2>6. {after(u) : u \in X} = {Backed(before(u), Backing(A, t)) : u \in live}
      BY <2>3, <2>5
    <2>7. {after(u) : u \in Starts(B) \ X} = {before(u) : u \in P \ live}
      BY <1>15, <2>4, <2>5
    <2>8. {Backed(i, Backing(A, t)) : i \in W.active} = {Backed(before(u), Backing(A, t)) : u \in live}
      BY <1>13 DEF W
    <2>9. QED
      BY <1>13, <1>14, <1>16, <1>20, <2>6, <2>7, <2>8 DEF W, I, J, B, C
  <1>21. CASE w.op # "RETRACT" /\ ~ same
    <2>1. d(t) = w.key /\ d(t) # None
      BY <1>1, <1>21
    <2>2. Held(B, t) # d(t)
      <3>1. ASSUME Held(B, t) = d(t)
            PROVE  FALSE
        <4>1. d(t) \in {d(u) : u \in live}
          BY <1>12, <2>1, <3>1
        <4>2. QED
          BY <1>17, <1>21, <2>1, <4>1
      <3>2. QED
        BY <3>1
    <2>3. \A u \in live : d(t) # d(u) /\ End(C, u) = None /\ u \in T \ {t}
      BY <1>4, <1>17, <1>21, <2>1
    <2>4. \A u \in live : after(u) = ClosedAt(before(u), t) /\ End(B, u) = t
      BY <1>9, <1>11, <2>3
    <2>5. Starts(B) = P \cup {t} /\ t \notin P
      BY <1>4, <1>8, <2>1, <2>2
    <2>6. X = {t}
      BY <1>10, <1>15, <2>4, <2>5
    <2>7. {after(u) : u \in X} = {Opened(s, p, w, Backing(A, t))}
      BY <1>11, <2>1, <2>6
    <2>8. {after(u) : u \in Starts(B) \ X} = {before(u) : u \in P \ live} \cup {ClosedAt(before(u), t) : u \in live}
      BY <1>15, <2>4, <2>5, <2>6
    <2>9. QED
      BY <1>13, <1>14, <1>16, <1>18, <1>21, <2>7, <2>8 DEF W, I, J, B, C
  <1>22. QED
    BY <1>19, <1>20, <1>21

\* g is the function the walk of a SINGLE group is defined by.
SingleIter(g, s, p, A) ==
  g = [T \in SUBSET Instants(A) |->
         IF T = {} THEN Unwalked ELSE WalkInstant(s, p, A, g[T \ {Max(T)}], Max(T))]

LEMMA InstantsFinite ==
  ASSUME NEW A, Ranked(A)
  PROVE  IsFiniteSet(Instants(A))
  <1> DEFINE f == [a \in A |-> a.vf]
  <1>1. DOMAIN f = A /\ Instants(A) = {f[a] : a \in DOMAIN f}
    BY DEF Instants
  <1> HIDE DEF f
  <1>2. QED
    BY <1>1, FiniteImage DEF Ranked

\* The walk over the instants of a group ends with its intervals.
LEMMA SingleWalked ==
  ASSUME NEW A, Ranked(A), NEW s, NEW p
  PROVE  WalkSingle(s, p, A) = InHand(SingleIntervals(s, p, A))
  <1> DEFINE S == Instants(A)
             f == [T \in SUBSET S |-> InHand(SingleIntervals(s, p, During(A, T)))]
             c == [T \in SUBSET S |-> Max(T)]
  <1>1. f[{}] = Unwalked
    <2>1. During(A, {}) = {} /\ {} \in SUBSET S
      BY DEF During
    <2>2. SingleIntervals(s, p, {}) = {}
      BY DEF SingleIntervals, Instants
    <2>3. QED
      BY <2>1, <2>2 DEF InHand, Unwalked
  <1>2. ASSUME NEW T \in SUBSET S, T # {}
        PROVE  f[T] = WalkInstant(s, p, A, f[T \ {Max(T)}], Max(T))
    <2>1. Max(T) \in T /\ \A u \in T : u <= Max(T)
      BY <1>2, MaxOf
    <2>2. f[T] = InHand(SingleIntervals(s, p, During(A, T)))
      OBVIOUS
    <2>3. f[T \ {Max(T)}] = InHand(SingleIntervals(s, p, During(A, T \ {Max(T)})))
      OBVIOUS
    <2> HIDE DEF f
    <2>4. QED
      BY <2>1, <2>2, <2>3, SingleStep
  <1>3. SingleIter(f, s, p, A)
    <2>1. f = [T \in SUBSET S |-> f[T]]
      OBVIOUS
    <2> HIDE DEF f
    <2>2. QED
      BY <1>1, <1>2, <2>1 DEF SingleIter
  <1> DEFINE g == CHOOSE h : SingleIter(h, s, p, A)
  <1>4. SingleIter(g, s, p, A)
    BY <1>3
  <1>5. WalkSingle(s, p, A) = g[S]
    BY DEF WalkSingle, MapThenFoldSet, SingleIter
  <1>6. f[S] = InHand(SingleIntervals(s, p, A))
    <2>1. During(A, S) = A
      BY DEF During, Instants
    <2>2. QED
      BY <2>1
  <1> HIDE DEF f, g
  <1>7. g[{}] = f[{}]
    BY <1>1, <1>4 DEF SingleIter
  <1>8. ASSUME NEW T \in SUBSET S, T # {}, g[T \ {c[T]}] = f[T \ {c[T]}]
        PROVE  g[T] = f[T]
    <2>1. g[T] = WalkInstant(s, p, A, g[T \ {Max(T)}], Max(T))
      BY <1>4, <1>8 DEF SingleIter
    <2>2. QED
      BY <1>2, <1>8, <2>1
  <1>9. \A T \in SUBSET S : T # {} => c[T] \in T
    BY MaxOf
  <1>10. IsFiniteSet(S)
    BY InstantsFinite
  <1> HIDE DEF c, S
  <1>11. g[S] = f[S]
    <2>1. \A T \in SUBSET S : T # {} /\ g[T \ {c[T]}] = f[T \ {c[T]}] => g[T] = f[T]
      BY <1>8
    <2>2. QED
      BY <1>7, <1>9, <1>10, <2>1, FoldUnique
  <1>12. QED
    BY <1>5, <1>6, <1>11 DEF S

-----------------------------------------------------------------------------
\* SET and APPEND: what one more event does, when it comes after all others.

Affects(e, k) == e.key = k \/ (e.op = "RETRACT" /\ e.key = Star)

\* e comes after every event of C, and A is C and e.
Follows(A, C, e) ==
  /\ Ranked(A) /\ e \in A /\ C = A \ {e}
  /\ \A o \in A : ~ Outranks(o, e)

LEMMA FollowsAll ==
  ASSUME NEW A, NEW C, NEW e, Follows(A, C, e)
  PROVE  /\ Ranked(C) /\ C \subseteq A /\ e \notin C
         /\ e.op \in {"ASSERT", "RETRACT"} /\ e.vf \in Nat /\ e.vf # None
         /\ \A k : Affecting(A, k) = Affecting(C, k) \cup {x \in {e} : Affects(e, k)}
         /\ \A k : \A x \in Affecting(C, k) : Affects(e, k) => Outranks(e, x)
         /\ \A x \in C : ~ Outranks(x, e)
  <1>1. Ranked(C) /\ C \subseteq A /\ e \notin C
    BY RankedSubset DEF Follows
  <1>2. e.op \in {"ASSERT", "RETRACT"} /\ e.vf \in Nat /\ e.vf # None
    BY ProfileAssumption DEF Follows, Ranked, Shaped
  <1>3. \A k : Affecting(A, k) = Affecting(C, k) \cup {x \in {e} : Affects(e, k)}
    BY DEF Follows, Affecting, Affects
  <1>4. ASSUME NEW k, NEW x \in Affecting(C, k), Affects(e, k)
        PROVE  Outranks(e, x)
    <2>1. x \in Affecting(A, k) /\ e \in Affecting(A, k) /\ x # e /\ x \in A
      BY <1>1, <1>3, <1>4 DEF Affecting
    <2>2. QED
      BY <2>1, MemberOrder DEF Follows
  <1>5. QED
    BY <1>1, <1>2, <1>3, <1>4 DEF Follows

\* Whatever has a RETRACT after it has a first one.
LEMMA CloserExists ==
  ASSUME NEW A, Ranked(A), NEW k, NEW x, {r \in After(A, k, x) : r.op = "RETRACT"} # {}
  PROVE  Closers(A, k, x) # {}
  <1> DEFINE later == {r \in After(A, k, x) : r.op = "RETRACT"}
             R == {y \in later \X later : Outranks(y[2], y[1])}
  <1>1. later \subseteq Affecting(A, k) /\ IsFiniteSet(later)
    <2>1. later \subseteq Affecting(A, k) /\ later \in SUBSET A
      BY DEF After, Affecting
    <2> HIDE DEF later
    <2>2. QED
      BY <2>1, FS_Subset DEF Ranked
  <1>2. later # {}
    OBVIOUS
  <1> HIDE DEF later
  <1>3. (\A y \in later : <<y, y>> \notin R) /\
        \A x1, x2, x3 \in later : <<x1, x2>> \in R /\ <<x2, x3>> \in R => <<x1, x3>> \in R
    BY <1>1, MemberOrdered
  <1>4. \E y \in later : \A z \in later : <<z, y>> \notin R
    <2> HIDE DEF R
    <2>1. QED
      BY <1>1, <1>2, <1>3, MaximalExists
  <1>5. PICK y \in later : \A z \in later : ~ Outranks(y, z)
    BY <1>4
  <1>6. y \in Closers(A, k, x)
    BY <1>5 DEF Closers, later
  <1>7. QED
    BY <1>6

\* The RETRACTs that close a member, once the event has come.
LEMMA EventCloses ==
  ASSUME NEW A, NEW C, NEW e, Follows(A, C, e), NEW x \in C, x.op = "ASSERT",
         NEW k, k = x.key
  PROVE  /\ Before(A, k, x) = Before(C, k, x)
         /\ After(A, k, x) = After(C, k, x) \cup {y \in {e} : Affects(e, k)}
         /\ \A y \in After(C, k, x) : Affects(e, k) => Outranks(e, y)
         /\ Closers(C, k, x) # {} => Closers(A, k, x) = Closers(C, k, x)
         /\ Closers(C, k, x) = {} =>
              Closers(A, k, x) = {y \in {e} : e.op = "RETRACT" /\ Affects(e, k)}
         /\ Closers(C, k, x) \subseteq C
  <1>1. /\ \A j : Affecting(A, j) = Affecting(C, j) \cup {y \in {e} : Affects(e, j)}
        /\ \A j : \A y \in Affecting(C, j) : Affects(e, j) => Outranks(e, y)
        /\ \A y \in C : ~ Outranks(y, e)
        /\ Ranked(C) /\ e \notin C
    BY FollowsAll
  <1>2. x \in Affecting(C, k) /\ Affecting(C, k) \subseteq C
    BY DEF Affecting
  <1>3. Before(A, k, x) = Before(C, k, x)
    BY <1>1, <1>2 DEF Before
  <1>4. After(A, k, x) = After(C, k, x) \cup {y \in {e} : Affects(e, k)}
    <2>1. Affects(e, k) => Outranks(e, x)
      BY <1>1, <1>2
    <2>2. QED
      BY <1>1, <2>1 DEF After
  <1>5. After(C, k, x) \subseteq Affecting(C, k) /\ After(C, k, x) \subseteq C
    BY <1>2 DEF After
  <1>6. \A y \in After(C, k, x) : Affects(e, k) => Outranks(e, y)
    BY <1>1, <1>5
  <1> DEFINE lc == {r \in After(C, k, x) : r.op = "RETRACT"}
             la == {r \in After(A, k, x) : r.op = "RETRACT"}
  <1>7. la = lc \cup {y \in {e} : e.op = "RETRACT" /\ Affects(e, k)}
    BY <1>4
  <1>8. /\ Closers(C, k, x) = {r \in lc : \A o \in lc : ~ Outranks(r, o)}
        /\ Closers(A, k, x) = {r \in la : \A o \in la : ~ Outranks(r, o)}
    BY DEF Closers
  <1>9. lc # {} => Closers(C, k, x) # {}
    BY <1>1, CloserExists
  <1>10. lc \subseteq C /\ \A r \in lc : Affects(e, k) => Outranks(e, r)
    BY <1>5, <1>6
  <1> HIDE DEF lc, la
  <1>11. ASSUME Closers(C, k, x) # {}
         PROVE  Closers(A, k, x) = Closers(C, k, x)
    <2>1. lc # {}
      BY <1>8, <1>11
    <2>2. \A r \in lc : ~ Outranks(r, e)
      BY <1>1, <1>10
    <2>3. QED
      BY <1>7, <1>8, <1>10, <2>1, <2>2
  <1>12. ASSUME Closers(C, k, x) = {}
         PROVE  Closers(A, k, x) = {y \in {e} : e.op = "RETRACT" /\ Affects(e, k)}
    <2>1. lc = {}
      BY <1>9, <1>12
    <2>2. ~ Outranks(e, e)
      BY DEF Follows
    <2>3. QED
      BY <1>7, <1>8, <2>1, <2>2
  <1>13. QED
    BY <1>3, <1>4, <1>6, <1>8, <1>10, <1>11, <1>12

ClosingTime(closers) == IF closers = {} THEN None ELSE (CHOOSE r \in closers : TRUE).vf

MemberSupport(A, k, x) ==
  {x} \cup {a \in Asserts(After(A, k, x)) : \A r \in Closers(A, k, x) : Outranks(r, a)}

LEMMA MemberIs ==
  ASSUME NEW s, NEW p, NEW A, NEW k, NEW x
  PROVE  MemberInterval(s, p, A, k, x) =
           Interval(s, p, k, x.vf, ClosingTime(Closers(A, k, x)), x, MemberSupport(A, k, x))
  BY DEF MemberInterval, Interval, ClosingTime, MemberSupport

\* What e makes of the interval i of member k, which closers closed.
Moved(i, j, e, k, closers) ==
  /\ i.key = k /\ j.key = k
  /\ i.to = None <=> closers = {}
  /\ closers # {} => j = i /\ j.to # None
  /\ closers = {} =>
       /\ e.op = "RETRACT" /\ Affects(e, k) => j = ClosedAt(i, e.vf) /\ j.to # None
       /\ e.op = "ASSERT" /\ e.key = k => j = Backed(i, {e}) /\ j.to = None
       /\ ~ Affects(e, k) => j = i /\ j.to = None

LEMMA EventMoves ==
  ASSUME NEW A, NEW C, NEW e, Follows(A, C, e), NEW x \in C, x.op = "ASSERT",
         NEW s, NEW p
  PROVE  Moved(MemberInterval(s, p, C, x.key, x), MemberInterval(s, p, A, x.key, x),
               e, x.key, Closers(C, x.key, x))
  <1> DEFINE k == x.key
             i == MemberInterval(s, p, C, k, x)
             j == MemberInterval(s, p, A, k, x)
             open == Closers(C, k, x) = {}
  <1>1. /\ After(A, k, x) = After(C, k, x) \cup {y \in {e} : Affects(e, k)}
        /\ \A y \in After(C, k, x) : Affects(e, k) => Outranks(e, y)
        /\ Closers(C, k, x) # {} => Closers(A, k, x) = Closers(C, k, x)
        /\ Closers(C, k, x) = {} =>
              Closers(A, k, x) = {y \in {e} : e.op = "RETRACT" /\ Affects(e, k)}
        /\ Closers(C, k, x) \subseteq C
    BY EventCloses
  <1>2. /\ e.op \in {"ASSERT", "RETRACT"} /\ e.vf # None
        /\ \A y \in C : ~ Outranks(y, e)
        /\ Ranked(C)
    BY FollowsAll
  <1>3. \A S \in SUBSET C : S # {} => ClosingTime(S) # None
    <2>1. \A r \in C : r.vf \in Nat
      BY <1>2 DEF Ranked, Shaped
    <2>2. \A S \in SUBSET C : S # {} => (CHOOSE r \in S : TRUE) \in C
      OBVIOUS
    <2>3. QED
      BY <2>1, <2>2, ProfileAssumption DEF ClosingTime
  <1>4. ClosingTime({}) = None /\ ClosingTime({e}) = e.vf
    BY DEF ClosingTime
  <1>5. /\ i = Interval(s, p, k, x.vf, ClosingTime(Closers(C, k, x)), x, MemberSupport(C, k, x))
        /\ j = Interval(s, p, k, x.vf, ClosingTime(Closers(A, k, x)), x, MemberSupport(A, k, x))
    BY MemberIs
  <1> HIDE DEF i, j, open
  <1>6. /\ i.key = k /\ j.key = k
        /\ i.to = ClosingTime(Closers(C, k, x)) /\ j.to = ClosingTime(Closers(A, k, x))
        /\ ClosedAt(i, e.vf) = Interval(s, p, k, x.vf, e.vf, x, MemberSupport(C, k, x))
        /\ Backed(i, {e}) = Interval(s, p, k, x.vf, ClosingTime(Closers(C, k, x)), x,
                                     MemberSupport(C, k, x) \cup {e})
    <2> HIDE DEF k
    <2>1. j.key = k /\ j.to = ClosingTime(Closers(A, k, x))
      BY <1>5 DEF Interval, ClosedAt, Backed
    <2>2. /\ i.key = k /\ i.to = ClosingTime(Closers(C, k, x))
          /\ ClosedAt(i, e.vf) = Interval(s, p, k, x.vf, e.vf, x, MemberSupport(C, k, x))
          /\ Backed(i, {e}) = Interval(s, p, k, x.vf, ClosingTime(Closers(C, k, x)), x,
                                       MemberSupport(C, k, x) \cup {e})
      BY <1>5 DEF Interval, ClosedAt, Backed
    <2>3. QED
      BY <2>1, <2>2
  <1>7. i.to = None <=> open
    BY <1>1, <1>3, <1>4, <1>6 DEF open
  <1>8. Asserts(After(A, k, x)) =
          Asserts(After(C, k, x)) \cup {y \in {e} : e.op = "ASSERT" /\ Affects(e, k)}
    BY <1>1 DEF Asserts
  <1> DEFINE MC == MemberSupport(C, k, x)
             MA == MemberSupport(A, k, x)
  <1>9. /\ MC = {x} \cup {a \in Asserts(After(C, k, x)) : \A r \in Closers(C, k, x) : Outranks(r, a)}
        /\ MA = {x} \cup {a \in Asserts(After(A, k, x)) : \A r \in Closers(A, k, x) : Outranks(r, a)}
    BY DEF MemberSupport
  <1>10. Asserts(After(C, k, x)) \subseteq After(C, k, x)
    BY DEF Asserts
  <1> HIDE DEF MA, MC, k, open
  <1>11. ASSUME ~ open
         PROVE  j = i /\ j.to # None
    <2>1. Closers(C, k, x) # {} /\ Closers(A, k, x) = Closers(C, k, x)
      BY <1>1, <1>11 DEF open
    <2>2. MA = MC
      BY <1>1, <1>2, <1>8, <1>9, <2>1
    <2>3. QED
      BY <1>5, <1>6, <1>7, <1>11, <2>1, <2>2 DEF MA, MC
  <1>12. ASSUME open, e.op = "RETRACT", Affects(e, k)
         PROVE  j = ClosedAt(i, e.vf) /\ j.to # None
    <2>1. Closers(C, k, x) = {} /\ Closers(A, k, x) = {e}
      BY <1>1, <1>12 DEF open
    <2>2. MA = MC
      BY <1>1, <1>8, <1>9, <1>10, <1>12, <2>1
    <2>3. QED
      BY <1>2, <1>4, <1>5, <1>6, <2>1, <2>2 DEF MA, MC
  <1>13. ASSUME open, e.op = "ASSERT", e.key = k
         PROVE  j = Backed(i, {e}) /\ j.to = None
    <2>1. Closers(C, k, x) = {} /\ Closers(A, k, x) = {}
      BY <1>1, <1>13 DEF open
    <2>2. Affects(e, k)
      BY <1>13 DEF Affects
    <2>3. MA = MC \cup {e}
      BY <1>8, <1>9, <1>13, <2>1, <2>2
    <2>4. QED
      BY <1>4, <1>5, <1>6, <2>1, <2>3 DEF MA, MC
  <1>14. ASSUME open, ~ Affects(e, k)
         PROVE  j = i /\ j.to = None
    <2>1. Closers(C, k, x) = {} /\ Closers(A, k, x) = {}
      BY <1>1, <1>14 DEF open
    <2>2. MA = MC
      BY <1>8, <1>9, <1>14, <2>1
    <2>3. QED
      BY <1>4, <1>5, <1>6, <2>1, <2>2 DEF MA, MC
  <1>15. QED
    BY <1>6, <1>7, <1>11, <1>12, <1>13, <1>14 DEF k, i, j, open, Moved

\* An ASSERT opens a member when it finds nobody of its key in hand.
LEMMA EventOpens ==
  ASSUME NEW A, NEW C, NEW e, Follows(A, C, e), e.op = "ASSERT", NEW s, NEW p
  PROVE  /\ OpensMember(A, e.key, e) <=> ~ MemberStands(C, e.key)
         /\ MemberInterval(s, p, A, e.key, e) = Opened(s, p, e, {e})
         /\ Opened(s, p, e, {e}).to = None
  <1> DEFINE k == e.key
             F == Affecting(C, k)
  <1>1. /\ Affecting(A, k) = F \cup {e} /\ e \notin C /\ F \subseteq C
        /\ \A x \in F : Outranks(e, x)
        /\ Ranked(C)
    BY FollowsAll DEF Affects, Affecting
  <1>2. Before(A, k, e) = F
    BY <1>1 DEF Before, Follows
  <1>3. F = {} => ~ MemberStands(C, k)
    BY DEF MemberStands, Affecting
  <1>4. ASSUME F # {}
        PROVE  Top(F).op = "RETRACT" <=> ~ MemberStands(C, k)
    <2> DEFINE b == Top(F)
    <2>1. b \in F /\ \A o \in F : ~ Outranks(o, b)
      BY <1>1, <1>4, RankedSubset, TopExists
    <2>2. b.op \in {"ASSERT", "RETRACT"} /\ b \in C
      BY <1>1, <2>1 DEF Ranked, Shaped
    <2>3. \A a \in C : a.op = "ASSERT" /\ a.key = k => a \in F
      BY DEF Affecting
    <2>4. \A a \in F : a # b => Outranks(b, a)
      <3> HIDE DEF b
      <3>1. QED
        BY <1>1, <2>1, MemberOrder
    <2>5. b.op = "ASSERT" => b.key = k
      BY <2>1 DEF Affecting
    <2> HIDE DEF b
    <2>6. ASSUME b.op = "RETRACT"
          PROVE  ~ MemberStands(C, k)
      <3>1. \A a \in F : a.op = "ASSERT" => Outranks(b, a)
        BY <2>4, <2>6
      <3>2. QED
        BY <2>1, <2>3, <2>6, <3>1 DEF MemberStands
    <2>7. ASSUME b.op = "ASSERT"
          PROVE  MemberStands(C, k)
      BY <2>1, <2>2, <2>5, <2>7 DEF MemberStands
    <2>8. QED
      BY <2>2, <2>6, <2>7 DEF b
  <1>5. OpensMember(A, k, e) <=> ~ MemberStands(C, k)
    BY <1>2, <1>3, <1>4 DEF OpensMember
  <1>6. After(A, k, e) = {}
    BY DEF After, Affecting, Follows
  <1>7. Closers(A, k, e) = {} /\ MemberSupport(A, k, e) = {e}
    BY <1>6 DEF Closers, MemberSupport, Asserts
  <1>8. MemberInterval(s, p, A, k, e) = Interval(s, p, k, e.vf, None, e, {e})
    BY <1>7, MemberIs DEF ClosingTime
  <1>9. QED
    BY <1>5, <1>8 DEF Interval, Opened

Openers(A) == {x \in A : x.op = "ASSERT" /\ OpensMember(A, x.key, x)}

LEMMA SetMembers ==
  ASSUME NEW s, NEW p, NEW A
  PROVE  SetIntervals(s, p, A) = {MemberInterval(s, p, A, x.key, x) : x \in Openers(A)}
  <1> DEFINE m(k, x) == MemberInterval(s, p, A, k, x)
  <1>1. SetIntervals(s, p, A) =
          UNION {{m(k, x) : x \in {a \in Affecting(A, k) : OpensMember(A, k, a)}} :
                 k \in {a.key : a \in Asserts(A)}}
    BY DEF SetIntervals
  <1> HIDE DEF m
  <1>2. \A k : \A x \in Affecting(A, k) : OpensMember(A, k, x) => x \in Openers(A) /\ x.key = k
    BY DEF Affecting, OpensMember, Openers
  <1>3. \A x \in Openers(A) : x \in Affecting(A, x.key) /\ OpensMember(A, x.key, x) /\ x \in Asserts(A)
    BY DEF Affecting, Openers, Asserts
  <1>4. ASSUME NEW i \in SetIntervals(s, p, A)
        PROVE  i \in {m(x.key, x) : x \in Openers(A)}
    BY <1>1, <1>2
  <1>5. ASSUME NEW x \in Openers(A)
        PROVE  m(x.key, x) \in SetIntervals(s, p, A)
    BY <1>1, <1>3
  <1>6. SetIntervals(s, p, A) = {m(x.key, x) : x \in Openers(A)}
    BY <1>4, <1>5
  <1>7. QED
    BY <1>6 DEF m

LEMMA SetStep ==
  ASSUME NEW A, NEW C, NEW e, Follows(A, C, e), NEW s, NEW p
  PROVE  InHand(SetIntervals(s, p, A)) = WalkEvent(s, p, InHand(SetIntervals(s, p, C)), e)
  <1> DEFINE I == SetIntervals(s, p, A)
             J == SetIntervals(s, p, C)
             P == Openers(C)
             Q == Openers(A)
             before(x) == MemberInterval(s, p, C, x.key, x)
             after(x) == MemberInterval(s, p, A, x.key, x)
             open(x) == Closers(C, x.key, x) = {}
             live == {x \in P : open(x)}
             hit == {x \in live : Affects(e, x.key)}
             still == {x \in Q : after(x).to = None}
  <1>1. /\ Ranked(C) /\ C \subseteq A /\ e \notin C /\ A = C \cup {e}
        /\ e.op \in {"ASSERT", "RETRACT"} /\ e.vf # None
    BY FollowsAll DEF Follows
  <1>2. I = {after(x) : x \in Q} /\ J = {before(x) : x \in P}
    BY SetMembers
  <1>3. P \subseteq C /\ \A x \in P : x.op = "ASSERT"
    BY DEF Openers
  <1>4. ASSUME NEW x \in P
        PROVE  /\ before(x).key = x.key /\ after(x).key = x.key
               /\ before(x).to = None <=> open(x)
               /\ ~ open(x) => after(x) = before(x) /\ after(x).to # None
               /\ open(x) /\ e.op = "RETRACT" /\ Affects(e, x.key) =>
                    after(x) = ClosedAt(before(x), e.vf) /\ after(x).to # None
               /\ open(x) /\ e.op = "ASSERT" /\ e.key = x.key =>
                    after(x) = Backed(before(x), {e}) /\ after(x).to = None
               /\ open(x) /\ ~ Affects(e, x.key) => after(x) = before(x) /\ after(x).to = None
    <2>1. x \in C /\ x.op = "ASSERT"
      BY <1>3
    <2>2. Moved(before(x), after(x), e, x.key, Closers(C, x.key, x))
      BY <2>1, EventMoves
    <2>3. QED
      BY <2>2 DEF Moved
  <1>5. \A x \in C : x.op = "ASSERT" => (OpensMember(A, x.key, x) <=> OpensMember(C, x.key, x))
    BY EventCloses DEF OpensMember
  <1>6. Q = P \cup {x \in {e} : e.op = "ASSERT" /\ OpensMember(A, e.key, e)}
    BY <1>1, <1>5 DEF Openers
  <1>7. e.op = "ASSERT" => /\ OpensMember(A, e.key, e) <=> ~ MemberStands(C, e.key)
                           /\ after(e) = Opened(s, p, e, {e}) /\ Opened(s, p, e, {e}).to = None
    BY EventOpens
  <1>8. MemberStands(C, e.key) <=> \E x \in live : x.key = e.key
    <2>1. MemberStands(C, e.key) <=> \E i \in J : i.to = None /\ i.key = e.key
      BY <1>1, LiveSet
    <2> HIDE DEF before, P, J, open
    <2>2. QED
      BY <1>2, <1>4, <2>1
  <1> DEFINE W == InHand(J)
             reached == {i \in W.active : i.key = e.key \/ (e.op = "RETRACT" /\ e.key = Star)}
  <1>9. W.active = {before(x) : x \in live} /\ W.done = {before(x) : x \in P \ live}
    <2> HIDE DEF before, P, open, J
    <2>1. {i \in J : i.to = None} = {before(x) : x \in live} /\ {i \in J : i.to # None} = {before(x) : x \in P \ live}
      BY <1>2, <1>4
    <2>2. QED
      BY <2>1 DEF InHand
  <1>10. InHand(I) = [active |-> {after(x) : x \in still}, done |-> {after(x) : x \in Q \ still}]
    <2> HIDE DEF after, I, Q
    <2>1. {i \in I : i.to = None} = {after(x) : x \in still} /\ {i \in I : i.to # None} = {after(x) : x \in Q \ still}
      BY <1>2
    <2>2. QED
      BY <2>1 DEF InHand
  <1>11. reached = {before(x) : x \in hit} /\ W.active \ reached = {before(x) : x \in live \ hit}
    <2>1. \A x \in live : x \in hit <=> before(x).key = e.key \/ (e.op = "RETRACT" /\ e.key = Star)
      BY <1>4 DEF Affects
    <2> HIDE DEF before, live, hit, W
    <2>2. hit \subseteq live
      BY DEF hit
    <2>3. QED
      BY <1>9, <2>1, <2>2
  <1>12. WalkEvent(s, p, W, e) =
           IF e.op = "RETRACT"
           THEN [active |-> W.active \ reached,
                 done |-> W.done \cup {ClosedAt(i, e.vf) : i \in reached}]
           ELSE IF reached = {}
           THEN [active |-> W.active \cup {Opened(s, p, e, {e})}, done |-> W.done]
           ELSE [active |-> (W.active \ reached) \cup {Backed(i, {e}) : i \in reached},
                 done |-> W.done]
    BY DEF WalkEvent
  <1>13. {ClosedAt(i, e.vf) : i \in reached} = {ClosedAt(before(x), e.vf) : x \in hit}
         /\ {Backed(i, {e}) : i \in reached} = {Backed(before(x), {e}) : x \in hit}
    <2> HIDE DEF before, reached, hit
    <2>1. QED
      BY <1>11
  <1>14. hit \subseteq live /\ live \subseteq P /\ (reached = {} <=> hit = {})
    <2>1. reached = {} <=> hit = {}
      <3> HIDE DEF reached, hit, before
      <3>1. QED
        BY <1>11
    <2>2. QED
      BY <2>1
  <1>15. /\ \A x \in P \ live : after(x) = before(x) /\ after(x).to # None
         /\ \A x \in live \ hit : after(x) = before(x) /\ after(x).to = None
    BY <1>4
  <1>16. \A x \in hit : /\ e.op = "RETRACT" => after(x) = ClosedAt(before(x), e.vf) /\ after(x).to # None
                        /\ e.op = "ASSERT" => after(x) = Backed(before(x), {e}) /\ after(x).to = None
    BY <1>4 DEF Affects
  <1>17. e.op = "ASSERT" => (\E x \in live : x.key = e.key) <=> hit # {}
    BY DEF Affects
  <1>18. e \notin P
    BY <1>1, <1>3
  <1>19. \A x : x \in still <=> x \in Q /\ after(x).to = None
    OBVIOUS
  <1> HIDE DEF I, J, P, Q, before, after, open, live, hit, still, W, reached
  <1>20. CASE e.op = "RETRACT"
    <2>1. Q = P
      BY <1>6, <1>20
    <2>2. still = live \ hit /\ Q \ still = (P \ live) \cup hit
      BY <1>14, <1>15, <1>16, <1>19, <1>20, <2>1
    <2>3. {after(x) : x \in still} = {before(x) : x \in live \ hit}
      BY <1>15, <2>2
    <2>4. {after(x) : x \in Q \ still} = {before(x) : x \in P \ live} \cup {ClosedAt(before(x), e.vf) : x \in hit}
      BY <1>15, <1>16, <1>20, <2>2
    <2>5. QED
      BY <1>9, <1>10, <1>11, <1>12, <1>13, <1>20, <2>3, <2>4 DEF W, I, J
  <1>21. CASE e.op = "ASSERT" /\ hit = {}
    <2>1. Q = P \cup {e}
      BY <1>6, <1>7, <1>8, <1>17, <1>21
    <2>2. still = live \cup {e} /\ Q \ still = P \ live
      BY <1>7, <1>14, <1>15, <1>18, <1>19, <1>21, <2>1
    <2>3. {after(x) : x \in still} = {before(x) : x \in live} \cup {Opened(s, p, e, {e})}
      BY <1>7, <1>15, <1>21, <2>2
    <2>4. {after(x) : x \in Q \ still} = {before(x) : x \in P \ live}
      BY <1>15, <2>2
    <2>5. QED
      BY <1>9, <1>10, <1>12, <1>14, <1>21, <2>3, <2>4 DEF W, I, J
  <1>22. CASE e.op = "ASSERT" /\ hit # {}
    <2>1. Q = P
      BY <1>6, <1>7, <1>8, <1>17, <1>22
    <2>2. still = live /\ Q \ still = P \ live
      BY <1>14, <1>15, <1>16, <1>19, <1>22, <2>1
    <2>3. {after(x) : x \in still} = {before(x) : x \in live \ hit} \cup {Backed(before(x), {e}) : x \in hit}
      BY <1>14, <1>15, <1>16, <1>22, <2>2
    <2>4. {after(x) : x \in Q \ still} = {before(x) : x \in P \ live}
      BY <1>15, <2>2
    <2>5. QED
      BY <1>9, <1>10, <1>11, <1>12, <1>13, <1>14, <1>22, <2>3, <2>4 DEF W, I, J
  <1>23. QED
    BY <1>1, <1>20, <1>21, <1>22


\* The walk over the events of a SET group ends with its intervals.
SetIter(g, s, p, A) ==
  g = [T \in SUBSET A |->
         IF T = {} THEN Unwalked ELSE WalkEvent(s, p, g[T \ {Top(T)}], Top(T))]

LEMMA TopFollows ==
  ASSUME NEW A, Ranked(A), NEW T \in SUBSET A, T # {}
  PROVE  Top(T) \in T /\ Follows(T, T \ {Top(T)}, Top(T))
  BY RankedSubset, TopExists DEF Follows

LEMMA SetWalked ==
  ASSUME NEW A, Ranked(A), NEW s, NEW p
  PROVE  WalkSet(s, p, A) = InHand(SetIntervals(s, p, A))
  <1> DEFINE f == [T \in SUBSET A |-> InHand(SetIntervals(s, p, T))]
             c == [T \in SUBSET A |-> Top(T)]
  <1>1. f[{}] = Unwalked
    <2>1. {} \in SUBSET A /\ SetIntervals(s, p, {}) = {}
      BY DEF SetIntervals, Asserts
    <2>2. QED
      BY <2>1 DEF InHand, Unwalked
  <1>2. ASSUME NEW T \in SUBSET A, T # {}
        PROVE  f[T] = WalkEvent(s, p, f[T \ {Top(T)}], Top(T))
    <2>1. Follows(T, T \ {Top(T)}, Top(T))
      BY <1>2, TopFollows
    <2>2. f[T] = InHand(SetIntervals(s, p, T))
          /\ f[T \ {Top(T)}] = InHand(SetIntervals(s, p, T \ {Top(T)}))
      OBVIOUS
    <2> HIDE DEF f
    <2>3. QED
      BY <2>1, <2>2, SetStep
  <1>3. SetIter(f, s, p, A)
    <2>1. f = [T \in SUBSET A |-> f[T]]
      OBVIOUS
    <2> HIDE DEF f
    <2>2. QED
      BY <1>1, <1>2, <2>1 DEF SetIter
  <1> DEFINE g == CHOOSE h : SetIter(h, s, p, A)
  <1>4. SetIter(g, s, p, A)
    BY <1>3
  <1>5. WalkSet(s, p, A) = g[A]
    BY DEF WalkSet, MapThenFoldSet, SetIter
  <1>6. f[A] = InHand(SetIntervals(s, p, A))
    OBVIOUS
  <1> HIDE DEF f, g
  <1>7. g[{}] = f[{}]
    BY <1>1, <1>4 DEF SetIter
  <1>8. ASSUME NEW T \in SUBSET A, T # {}, g[T \ {c[T]}] = f[T \ {c[T]}]
        PROVE  g[T] = f[T]
    <2>1. g[T] = WalkEvent(s, p, g[T \ {Top(T)}], Top(T))
      BY <1>4, <1>8 DEF SetIter
    <2>2. QED
      BY <1>2, <1>8, <2>1
  <1>9. \A T \in SUBSET A : T # {} => c[T] \in T
    BY TopFollows
  <1>10. IsFiniteSet(A)
    BY DEF Ranked
  <1> HIDE DEF c
  <1> DEFINE S == A
  <1>11. g[S] = f[S]
    <2>1. \A T \in SUBSET S : T # {} /\ g[T \ {c[T]}] = f[T \ {c[T]}] => g[T] = f[T]
      BY <1>8
    <2>2. \A T \in SUBSET S : T # {} => c[T] \in T
      BY <1>9
    <2>3. IsFiniteSet(S)
      BY <1>10
    <2> HIDE DEF S
    <2>4. QED
      BY <1>7, <2>1, <2>2, <2>3, FoldUnique, ZenonT(30)
  <1>12. QED
    BY <1>5, <1>6, <1>11

Point(s, p, x) == Interval(s, p, x.key, x.vf, x.vf, x, {x})

LEMMA AppendPoints ==
  ASSUME NEW s, NEW p, NEW A
  PROVE  AppendIntervals(s, p, A) = {Point(s, p, x) : x \in {a \in Asserts(A) : ~ Withdrawn(p, A, a)}}
  BY DEF AppendIntervals, Point, Interval

LEMMA AppendStep ==
  ASSUME NEW A, NEW C, NEW e, Follows(A, C, e), NEW s, NEW p
  PROVE  AppendIntervals(s, p, A) = WalkPoint(s, p, AppendIntervals(s, p, C), e)
  <1> DEFINE I == AppendIntervals(s, p, A)
             J == AppendIntervals(s, p, C)
             P == {a \in Asserts(C) : ~ Withdrawn(p, C, a)}
             Q == {a \in Asserts(A) : ~ Withdrawn(p, A, a)}
             pt(x) == Point(s, p, x)
  <1>1. /\ Ranked(C) /\ e \notin C /\ A = C \cup {e} /\ e.op \in {"ASSERT", "RETRACT"}
    <2>1. e \in A /\ C = A \ {e}
      BY DEF Follows
    <2> HIDE DEF I, J, P, Q
    <2>2. QED
      BY <2>1, FollowsAll
  <1>2. I = {pt(x) : x \in Q} /\ J = {pt(x) : x \in P}
    BY AppendPoints
  <1>3. \A x : pt(x).key = x.key
    BY DEF Point, Interval
  <1>4. pt(e) = ClosedAt(Opened(s, p, e, {e}), e.vf)
    BY DEF Point, Interval, ClosedAt, Opened
  <1>5. ASSUME NEW x \in Asserts(C)
        PROVE  Withdrawn(p, A, x) <=>
                 Withdrawn(p, C, x) \/ (p \in Retractable /\ e.op = "RETRACT" /\ Affects(e, x.key))
    <2>1. x \in C /\ x.op = "ASSERT"
      BY DEF Asserts
    <2>2. After(A, x.key, x) = After(C, x.key, x) \cup {y \in {e} : Affects(e, x.key)}
      BY <2>1, EventCloses
    <2>3. QED
      BY <2>2 DEF Withdrawn
  <1>6. ~ Withdrawn(p, A, e)
    BY DEF Withdrawn, After, Affecting, Follows
  <1>7. Asserts(A) = Asserts(C) \cup {x \in {e} : e.op = "ASSERT"}
    BY <1>1 DEF Asserts
  <1>8. \A x \in P : x \in Asserts(C)
    OBVIOUS
  <1> DEFINE hit == {x \in P : e.op = "RETRACT" /\ p \in Retractable /\ Affects(e, x.key)}
  <1>9. Q = (P \ hit) \cup {x \in {e} : e.op = "ASSERT"}
    BY <1>5, <1>6, <1>7
  <1> HIDE DEF I, J, Q, P, pt
  <1>10. CASE e.op = "ASSERT"
    <2>1. Q = P \cup {e}
      BY <1>9, <1>10
    <2>2. I = J \cup {pt(e)}
      BY <1>2, <2>1
    <2>3. QED
      BY <1>4, <1>10, <2>2 DEF WalkPoint, I, J
  <1>11. CASE e.op = "RETRACT" /\ p \in Retractable
    <2>1. Q = {x \in P : e.key # Star /\ x.key # e.key}
      BY <1>9, <1>11 DEF Affects
    <2>2. I = {i \in J : e.key # Star /\ i.key # e.key}
      BY <1>2, <1>3, <2>1
    <2>3. QED
      BY <1>11, <2>2 DEF WalkPoint, I, J
  <1>12. CASE e.op = "RETRACT" /\ p \notin Retractable
    <2>1. Q = P
      BY <1>9, <1>12
    <2>2. QED
      BY <1>2, <1>12, <2>1 DEF WalkPoint, I, J
  <1>13. QED
    BY <1>1, <1>10, <1>11, <1>12

\* The walk over the events of an APPEND group ends with its points.
AppendIter(g, s, p, A) ==
  g = [T \in SUBSET A |->
         IF T = {} THEN {} ELSE WalkPoint(s, p, g[T \ {Top(T)}], Top(T))]

LEMMA AppendWalked ==
  ASSUME NEW A, Ranked(A), NEW s, NEW p
  PROVE  WalkAppend(s, p, A) = AppendIntervals(s, p, A)
  <1> DEFINE f == [T \in SUBSET A |-> AppendIntervals(s, p, T)]
             c == [T \in SUBSET A |-> Top(T)]
  <1>1. f[{}] = {}
    <2>1. {} \in SUBSET A /\ AppendIntervals(s, p, {}) = {}
      BY DEF AppendIntervals, Asserts
    <2>2. QED
      BY <2>1
  <1>2. ASSUME NEW T \in SUBSET A, T # {}
        PROVE  f[T] = WalkPoint(s, p, f[T \ {Top(T)}], Top(T))
    <2>1. Follows(T, T \ {Top(T)}, Top(T))
      BY <1>2, TopFollows
    <2>2. f[T] = AppendIntervals(s, p, T)
          /\ f[T \ {Top(T)}] = AppendIntervals(s, p, T \ {Top(T)})
      OBVIOUS
    <2> HIDE DEF f
    <2>3. QED
      BY <2>1, <2>2, AppendStep
  <1>3. AppendIter(f, s, p, A)
    <2>1. f = [T \in SUBSET A |-> f[T]]
      OBVIOUS
    <2> HIDE DEF f
    <2>2. QED
      BY <1>1, <1>2, <2>1 DEF AppendIter
  <1> DEFINE g == CHOOSE h : AppendIter(h, s, p, A)
  <1>4. AppendIter(g, s, p, A)
    BY <1>3
  <1>5. WalkAppend(s, p, A) = g[A]
    BY DEF WalkAppend, MapThenFoldSet, AppendIter
  <1>6. f[A] = AppendIntervals(s, p, A)
    OBVIOUS
  <1> HIDE DEF f, g
  <1>7. g[{}] = f[{}]
    BY <1>1, <1>4 DEF AppendIter
  <1>8. ASSUME NEW T \in SUBSET A, T # {}, g[T \ {c[T]}] = f[T \ {c[T]}]
        PROVE  g[T] = f[T]
    <2>1. g[T] = WalkPoint(s, p, g[T \ {Top(T)}], Top(T))
      BY <1>4, <1>8 DEF AppendIter
    <2>2. QED
      BY <1>2, <1>8, <2>1
  <1>9. \A T \in SUBSET A : T # {} => c[T] \in T
    BY TopFollows
  <1>10. IsFiniteSet(A)
    BY DEF Ranked
  <1> HIDE DEF c
  <1> DEFINE S == A
  <1>11. g[S] = f[S]
    <2>1. \A T \in SUBSET S : T # {} /\ g[T \ {c[T]}] = f[T \ {c[T]}] => g[T] = f[T]
      BY <1>8
    <2>2. \A T \in SUBSET S : T # {} => c[T] \in T
      BY <1>9
    <2>3. IsFiniteSet(S)
      BY <1>10
    <2> HIDE DEF S
    <2>4. QED
      BY <1>7, <2>1, <2>2, <2>3, FoldUnique, ZenonT(30)
  <1>12. QED
    BY <1>5, <1>6, <1>11

\* The code's walk of a group comes to the intervals it is described by.
LEMMA GroupWalked ==
  ASSUME NEW A, Ranked(A), NEW s, NEW p \in Predicates
  PROVE  WalkGroup(s, p, A) = GroupIntervals(s, p, A)
  <1>1. \A I : InHand(I).active \cup InHand(I).done = I
    BY DEF InHand
  <1>2. WalkSingle(s, p, A) = InHand(SingleIntervals(s, p, A))
    BY SingleWalked
  <1>3. WalkSet(s, p, A) = InHand(SetIntervals(s, p, A))
    BY SetWalked
  <1>4. WalkAppend(s, p, A) = AppendIntervals(s, p, A)
    BY AppendWalked
  <1>5. Kind[p] \in {"SINGLE", "SET", "APPEND"}
    BY ProfileAssumption
  <1>6. QED
    BY <1>1, <1>2, <1>3, <1>4, <1>5 DEF WalkGroup, GroupIntervals
=============================================================================
