---------------------------- MODULE GoalGraphProofs ----------------------------
(***************************************************************************)
(* What holds of GoalGraph for every set of goals, edits, emissions and    *)
(* themes, for every weight of a human vote and for every bound.           *)
(***************************************************************************)
EXTENDS GoalGraph, ProjectionProofs

-----------------------------------------------------------------------------
\* Votes.

Vote(a) ==
  /\ a.subj \in Subjects /\ a.pred \in Predicates /\ a.op \in {"ASSERT", "RETRACT"}
  /\ a.key \in Subjects \cup {Star} /\ (a.op = "ASSERT" => a.key # Star)
  /\ a.vf \in Nat /\ a.rec \in Nat /\ a.origin \in {"human", "model"}

Votes(A) == IsFiniteSet(A) /\ \A a \in A : Vote(a)

LEMMA VotesSubset ==
  ASSUME NEW A, Votes(A), NEW B \in SUBSET A
  PROVE  Votes(B)
  BY FS_Subset DEF Votes

LEMMA RankOfKey ==
  ASSUME NEW a, Vote(a)
  PROVE  IdRank[a.key] \in Nat
  BY StructureAssumption DEF Vote

LEMMA LaterOrder ==
  /\ \A a : Vote(a) => ~ Later(a, a)
  /\ \A a, b : Vote(a) /\ Vote(b) /\ Later(a, b) => ~ Later(b, a)
  /\ \A a, b, c : Vote(a) /\ Vote(b) /\ Vote(c) /\ Later(a, b) /\ Later(b, c) => Later(a, c)
  BY RankOfKey DEF Later, Vote

\* Votes of which neither is the later.
LEMMA Level ==
  ASSUME NEW a, NEW b, Vote(a), Vote(b), ~ Later(a, b), ~ Later(b, a)
  PROVE  a.vf = b.vf /\ a.rec = b.rec /\ a.key = b.key
  <1>1. IdRank[a.key] \in Nat /\ IdRank[b.key] \in Nat
    BY RankOfKey
  <1>2. a.vf = b.vf /\ a.rec = b.rec /\ IdRank[a.key] = IdRank[b.key]
    BY <1>1 DEF Later, Vote
  <1>3. QED
    BY <1>2, StructureAssumption DEF Vote

\* Which of two votes is the later is a matter of their instants and keys.
LEMMA LaterAlike ==
  ASSUME NEW a, NEW b, NEW c, NEW d, a.vf = c.vf, a.rec = c.rec, a.key = c.key,
         b.vf = d.vf, b.rec = d.rec, b.key = d.key
  PROVE  Later(a, b) <=> Later(c, d)
  BY DEF Later

LEMMA End2In ==
  ASSUME NEW edges \in Edges, NEW a, Vote(a)
  PROVE  /\ End2(edges, a) \in Subjects \cup {Star}
         /\ a.op = "ASSERT" => End2(edges, a) \in Subjects
         /\ End1(edges, a) \in Subjects
  BY CanonicalInChain DEF End2, End1, Vote

LEMMA LatestExists ==
  ASSUME NEW edges, NEW S, Votes(S), NEW k, For(edges, S, k) # {}
  PROVE  /\ LatestFor(edges, S, k) \in For(edges, S, k)
         /\ \A b \in For(edges, S, k) : ~ Later(b, LatestFor(edges, S, k))
  <1> DEFINE F == For(edges, S, k)
             R == {x \in F \X F : Later(x[1], x[2])}
  <1>1. Votes(F)
    BY VotesSubset DEF For
  <1>2. /\ \A x \in F : <<x, x>> \notin R
        /\ \A x, y, z \in F : <<x, y>> \in R /\ <<y, z>> \in R => <<x, z>> \in R
    <2> HIDE DEF F
    <2>1. QED
      BY <1>1, LaterOrder DEF Votes
  <1>3. \E x \in F : \A y \in F : <<y, x>> \notin R
    <2> HIDE DEF F, R
    <2>1. QED
      BY <1>1, <1>2, MaximalExists DEF Votes, F
  <1>4. \E x \in F : \A y \in F : ~ Later(y, x)
    <2> HIDE DEF F
    <2>1. QED
      BY <1>3
  <1>5. QED
    BY <1>4 DEF LatestFor

-----------------------------------------------------------------------------
\* Weights.

LEMMA Times ==
  \A w, m, n \in Nat : /\ w * m \in Nat
                       /\ m <= n => w * m <= w * n
                       /\ m >= 1 => w <= w * m
                       /\ w * 0 = 0
                       /\ w * m = w * n /\ w >= 1 => m = n
  <1>1. \A w, m \in Nat : w * m \in Nat
    OBVIOUS
  <1>2. \A w, m, d \in Nat : w * m <= w * (m + d)
    BY <1>1
  <1>3. \A w, m, n \in Nat : m <= n => w * m <= w * n
    <2>1. ASSUME NEW w \in Nat, NEW m \in Nat, NEW n \in Nat, m <= n
          PROVE  w * m <= w * n
      <3>1. n - m \in Nat /\ n = m + (n - m)
        BY <2>1
      <3>2. QED
        BY <1>2, <3>1
    <2>2. QED
      BY <2>1
  <1>4. \A w \in Nat : w * 0 = 0 /\ w * 1 = w
    OBVIOUS
  <1>5. \A w, m \in Nat : m >= 1 => w <= w * m
    BY <1>3, <1>4
  <1>6. \A w, m, d \in Nat : w >= 1 /\ d >= 1 => w * m < w * (m + d)
    OBVIOUS
  <1>7. \A w, m, n \in Nat : w * m = w * n /\ w >= 1 => m = n
    <2>1. ASSUME NEW w \in Nat, NEW m \in Nat, NEW n \in Nat, w >= 1, m < n
          PROVE  w * m < w * n
      <3>1. n - m \in Nat /\ n - m >= 1 /\ n = m + (n - m)
        BY <2>1
      <3>2. QED
        BY <1>6, <2>1, <3>1
    <2>2. QED
      BY <1>1, <2>1
  <1>8. QED
    BY <1>1, <1>3, <1>4, <1>5, <1>7

LEMMA WeightNat ==
  ASSUME NEW edges, NEW S, Votes(S), NEW k
  PROVE  /\ IsFiniteSet(HumanVotes(edges, S, k)) /\ IsFiniteSet(ModelVotes(edges, S, k))
         /\ Cardinality(HumanVotes(edges, S, k)) \in Nat
         /\ Cardinality(ModelVotes(edges, S, k)) \in Nat
         /\ Weight(edges, S, k) \in Nat
  <1>1. HumanVotes(edges, S, k) \in SUBSET S /\ ModelVotes(edges, S, k) \in SUBSET S
    BY DEF HumanVotes, ModelVotes, For
  <1>2. /\ IsFiniteSet(HumanVotes(edges, S, k)) /\ IsFiniteSet(ModelVotes(edges, S, k))
        /\ Cardinality(HumanVotes(edges, S, k)) \in Nat
        /\ Cardinality(ModelVotes(edges, S, k)) \in Nat
    BY <1>1, FS_Subset, FS_CardinalityType DEF Votes
  <1>3. HumanWeight \in Nat
    BY StructureAssumption
  <1>4. Weight(edges, S, k) \in Nat
    BY <1>2, <1>3, Times DEF Weight
  <1>5. QED
    BY <1>2, <1>4

Targets(edges, S) == {End2(edges, a) : a \in S}

LEMMA BeatsOrder ==
  ASSUME NEW edges, NEW S, Votes(S), NEW T, T = Targets(edges, S)
  PROVE  /\ \A k \in T : ~ Beats(edges, S, k, k)
         /\ \A j, k \in T : j # k => Beats(edges, S, j, k) \/ Beats(edges, S, k, j)
         /\ \A j, k \in T : Beats(edges, S, j, k) => ~ Beats(edges, S, k, j)
         /\ \A i, j, k \in T :
              Beats(edges, S, i, j) /\ Beats(edges, S, j, k) => Beats(edges, S, i, k)
  <1> DEFINE W(k) == Weight(edges, S, k)
             L(k) == LatestFor(edges, S, k)
  <1>1. \A k \in T : W(k) \in Nat
    BY WeightNat
  <1>2. ASSUME NEW k \in T
        PROVE  Vote(L(k)) /\ End2(edges, L(k)) = k
    <2>1. For(edges, S, k) # {}
      BY DEF For, Targets
    <2>2. L(k) \in For(edges, S, k)
      BY <2>1, LatestExists
    <2>3. QED
      BY <2>2 DEF For, Votes
  <1>3. \A j, k \in T : j # k => L(j).key # L(k).key
    BY <1>2 DEF End2
  <1>4. \A j, k : Beats(edges, S, j, k) <=> W(j) > W(k) \/ (W(j) = W(k) /\ Later(L(j), L(k)))
    BY DEF Beats
  <1> HIDE DEF W, L
  <1>5. \A j, k \in T : j # k => Later(L(j), L(k)) \/ Later(L(k), L(j))
    BY <1>2, <1>3, Level
  <1>6. /\ \A k \in T : ~ Later(L(k), L(k))
        /\ \A j, k \in T : Later(L(j), L(k)) => ~ Later(L(k), L(j))
        /\ \A i, j, k \in T : Later(L(i), L(j)) /\ Later(L(j), L(k)) => Later(L(i), L(k))
    BY <1>2, LaterOrder
  <1>7. QED
    BY <1>1, <1>4, <1>5, <1>6

\* _elect finds one winner among the targets, and it is ahead of all others.
LEMMA Winner ==
  ASSUME NEW edges, NEW S, Votes(S), S # {}
  PROVE  /\ Elected(edges, S) \in Targets(edges, S)
         /\ \A j \in Targets(edges, S) \ {Elected(edges, S)} :
              Beats(edges, S, Elected(edges, S), j)
  <1> DEFINE T == Targets(edges, S)
             R == {x \in T \X T : Beats(edges, S, x[1], x[2])}
  <1>1. IsFiniteSet(T) /\ T # {}
    <2> DEFINE f == [a \in S |-> End2(edges, a)]
    <2>1. DOMAIN f = S /\ T = {f[a] : a \in DOMAIN f}
      BY DEF Targets
    <2> HIDE DEF f, T
    <2>2. QED
      BY <2>1, FiniteImage DEF Votes
  <1>2. T = Targets(edges, S)
    OBVIOUS
  <1> HIDE DEF T
  <1>3. /\ \A x \in T : <<x, x>> \notin R
        /\ \A x, y, z \in T : <<x, y>> \in R /\ <<y, z>> \in R => <<x, z>> \in R
    BY <1>2, BeatsOrder
  <1>4. \E x \in T : \A y \in T : <<y, x>> \notin R
    <2> HIDE DEF R
    <2>1. QED
      BY <1>1, <1>3, MaximalExists
  <1>5. PICK k \in T : \A j \in T : ~ Beats(edges, S, j, k)
    BY <1>4
  <1>6. \A j \in T \ {k} : Beats(edges, S, k, j)
    BY <1>2, <1>5, BeatsOrder
  <1>7. Elected(edges, S) = CHOOSE x \in T : \A j \in T \ {x} : Beats(edges, S, x, j)
    BY <1>2 DEF Elected, Targets
  <1>8. QED
    BY <1>2, <1>6, <1>7

LEMMA WinnerOnly ==
  ASSUME NEW edges, NEW S, Votes(S), NEW k \in Targets(edges, S),
         \A j \in Targets(edges, S) \ {k} : Beats(edges, S, k, j)
  PROVE  Elected(edges, S) = k
  <1>1. S # {}
    BY DEF Targets
  <1>2. QED
    BY <1>1, Winner, BeatsOrder

\* All that stands for k in S stands for it in T.
Less(edges, S, T, k) == For(edges, S, k) \in SUBSET For(edges, T, k)

LEMMA LessWeighs ==
  ASSUME NEW edges, NEW S, Votes(S), NEW T, Votes(T), NEW k, Less(edges, S, T, k)
  PROVE  /\ Weight(edges, S, k) <= Weight(edges, T, k)
         /\ Weight(edges, S, k) = Weight(edges, T, k) => For(edges, S, k) = For(edges, T, k)
  <1> DEFINE hs == Cardinality(HumanVotes(edges, S, k))
             ht == Cardinality(HumanVotes(edges, T, k))
             ms == Cardinality(ModelVotes(edges, S, k))
             mt == Cardinality(ModelVotes(edges, T, k))
  <1>1. /\ HumanVotes(edges, S, k) \in SUBSET HumanVotes(edges, T, k)
        /\ ModelVotes(edges, S, k) \in SUBSET ModelVotes(edges, T, k)
    BY DEF Less, HumanVotes, ModelVotes
  <1>2. /\ hs \in Nat /\ ht \in Nat /\ ms \in Nat /\ mt \in Nat
        /\ IsFiniteSet(HumanVotes(edges, T, k)) /\ IsFiniteSet(ModelVotes(edges, T, k))
    BY WeightNat
  <1>3. /\ hs <= ht /\ ms <= mt
        /\ hs = ht => HumanVotes(edges, S, k) = HumanVotes(edges, T, k)
        /\ ms = mt => ModelVotes(edges, S, k) = ModelVotes(edges, T, k)
    BY <1>1, <1>2, FS_Subset
  <1>4. HumanWeight \in Nat /\ HumanWeight >= 1
    BY StructureAssumption
  <1>5. /\ HumanWeight * hs \in Nat /\ HumanWeight * ht \in Nat
        /\ HumanWeight * hs <= HumanWeight * ht
        /\ HumanWeight * hs = HumanWeight * ht => hs = ht
    BY <1>2, <1>3, <1>4, Times
  <1>6. /\ Weight(edges, S, k) = HumanWeight * hs + ms
        /\ Weight(edges, T, k) = HumanWeight * ht + mt
    BY DEF Weight
  <1> HIDE DEF hs, ht, ms, mt
  <1>7. \A X : Votes(X) => For(edges, X, k) = HumanVotes(edges, X, k) \cup ModelVotes(edges, X, k)
    BY DEF HumanVotes, ModelVotes, For, Votes, Vote
  <1>8. Weight(edges, S, k) <= Weight(edges, T, k)
    BY <1>2, <1>3, <1>5, <1>6
  <1>9. ASSUME Weight(edges, S, k) = Weight(edges, T, k)
        PROVE  For(edges, S, k) = For(edges, T, k)
    <2>1. HumanWeight * hs = HumanWeight * ht /\ ms = mt
      BY <1>2, <1>3, <1>5, <1>6, <1>9
    <2>2. QED
      BY <1>3, <1>5, <1>7, <2>1
  <1>10. QED
    BY <1>8, <1>9

-----------------------------------------------------------------------------
\* What stands in a ballot, once all of its votes count.

Stand(edges, A) == {a \in Asserts(A) : \A r \in A : ~ Retracts(edges, r, a)}

PartOf(stored, edges, s) == Ballot(stored, edges, s, "part_of")

LEMMA BallotVotes ==
  ASSUME NEW stored, Votes(stored), NEW edges, NEW s, NEW p
  PROVE  Votes(Ballot(stored, edges, s, p)) /\ Ballot(stored, edges, s, p) \in SUBSET stored
  <1>1. Ballot(stored, edges, s, p) \in SUBSET stored
    BY DEF Ballot
  <1>2. QED
    BY <1>1, VotesSubset

LEMMA StandVotes ==
  ASSUME NEW edges, NEW A, Votes(A)
  PROVE  Votes(Stand(edges, A)) /\ Stand(edges, A) \in SUBSET A
  <1>1. Stand(edges, A) \in SUBSET A
    BY DEF Stand, Asserts
  <1>2. QED
    BY <1>1, VotesSubset

LEMMA ParentStands ==
  ASSUME NEW stored, Votes(stored), NEW edges, NEW s
  PROVE  /\ StandingNow(stored, edges, s) = Stand(edges, PartOf(stored, edges, s))
         /\ Parent(stored, edges, s) = Elected(edges, Stand(edges, PartOf(stored, edges, s)))
  <1> DEFINE A == Ballot(stored, edges, s, "part_of")
  <1>1. Votes(A)
    BY BallotVotes
  <1> HIDE DEF A
  <1>2. CASE A = {}
    <2>1. Stand(edges, A) = {}
      BY <1>2 DEF Stand, Asserts
    <2>2. QED
      BY <1>2, <2>1 DEF StandingNow, Parent, PartOf, Elected, A
  <1>3. CASE A # {}
    <2>1. \A a \in A : a.vf <= Max(Instants(A))
      <3>1. \A u \in Instants(A) : u <= Max(Instants(A))
        BY <1>1, <1>3, LastOf DEF Votes, Vote
      <3>2. QED
        BY <3>1 DEF Instants
    <2>2. Standing(edges, A, Max(Instants(A))) = Stand(edges, A)
      BY <2>1 DEF Standing, Stand, Asserts
    <2>3. QED
      BY <1>3, <2>2 DEF StandingNow, Parent, PartOf, ElectedAt, A
  <1>4. QED
    BY <1>2, <1>3

\* Goals are elected among what the votes name; nobody is without a vote.
LEMMA ParentIn ==
  ASSUME NEW stored, Votes(stored), NEW edges \in Edges, NEW s
  PROVE  /\ Parent(stored, edges, s) \in Subjects \cup {None}
         /\ Parent(stored, edges, s) = None <=> Stand(edges, PartOf(stored, edges, s)) = {}
         /\ Parent(stored, edges, s) # None =>
              Parent(stored, edges, s) \in Targets(edges, Stand(edges, PartOf(stored, edges, s)))
  <1> DEFINE S == Stand(edges, PartOf(stored, edges, s))
  <1>1. Votes(S) /\ \A a \in S : a.op = "ASSERT"
    BY BallotVotes, StandVotes DEF Stand, Asserts, PartOf
  <1>2. Parent(stored, edges, s) = Elected(edges, S)
    BY ParentStands
  <1>3. Targets(edges, S) \subseteq Subjects
    BY <1>1, End2In DEF Targets, Votes
  <1> HIDE DEF S
  <1>4. S # {} => Elected(edges, S) \in Targets(edges, S)
    BY <1>1, Winner
  <1>5. S = {} => Elected(edges, S) = None
    BY DEF Elected
  <1>6. QED
    BY <1>2, <1>3, <1>4, <1>5, StructureAssumption DEF S

LEMMA Moves ==
  ASSUME NEW edges \in Edges, NEW V1, Votes(V1), NEW V \in SUBSET V1, NEW s,
         Parent(V, edges, s) # Parent(V1, edges, s)
  PROVE  LET old == Parent(V, edges, s)
             new == Parent(V1, edges, s)
         IN  \/ /\ new # None
                /\ \E a \in PartOf(V1 \ V, edges, s) :
                     a \in Stand(edges, PartOf(V1, edges, s)) /\ End2(edges, a) = new
             \/ /\ old # None
                /\ \E r \in PartOf(V1 \ V, edges, s) :
                     r.op = "RETRACT" /\ End2(edges, r) \in {old, Star}
  <1> DEFINE old == Parent(V, edges, s)
             new == Parent(V1, edges, s)
             A == PartOf(V, edges, s)
             B == PartOf(V1, edges, s)
             N == PartOf(V1 \ V, edges, s)
             S == Stand(edges, A)
             T == Stand(edges, B)
  <1>1. SUFFICES ASSUME \A a \in N : a \in T => End2(edges, a) # new \/ new = None,
                        \A r \in N : r.op = "RETRACT" => End2(edges, r) \notin {old, Star} \/ old = None
                 PROVE  FALSE
    OBVIOUS
  <1>2. B = A \cup N /\ Votes(A) /\ Votes(B)
    <2>1. B = A \cup N
      BY DEF PartOf, Ballot
    <2>2. Votes(V)
      BY VotesSubset
    <2>3. QED
      BY <2>1, <2>2, BallotVotes DEF PartOf
  <1>3. Votes(S) /\ Votes(T)
    BY <1>2, StandVotes
  <1>4. /\ old = Elected(edges, S) /\ new = Elected(edges, T)
        /\ old = None <=> S = {}
        /\ new = None <=> T = {}
    BY VotesSubset, ParentStands, ParentIn
  <1> HIDE DEF A, B, N, old, new
  <1>5. new # None => For(edges, T, new) \in SUBSET For(edges, S, new)
    BY <1>1, <1>2 DEF For, Stand, Asserts
  <1>6. old # None => For(edges, S, old) \in SUBSET For(edges, T, old)
    <2>1. ASSUME old # None, NEW a \in For(edges, S, old), NEW r \in B, Retracts(edges, r, a)
          PROVE  FALSE
      <3>1. r \in N
        BY <1>2, <2>1 DEF For, Stand
      <3>2. r.op = "RETRACT" /\ End2(edges, r) \in {old, Star}
        BY <2>1 DEF Retracts, For
      <3>3. QED
        BY <1>1, <2>1, <3>1, <3>2
    <2>2. QED
      BY <1>2, <2>1 DEF For, Stand, Asserts
  <1> HIDE DEF S, T
  <1>7. new # None
    <2>1. CASE new = None
      <3>1. old # None
        BY <2>1 DEF old, new
      <3>2. old \in Targets(edges, S)
        BY <1>3, <1>4, <3>1, Winner
      <3>3. For(edges, S, old) # {}
        BY <3>2 DEF Targets, For
      <3>4. T # {}
        BY <1>6, <3>1, <3>3 DEF For
      <3>5. QED
        BY <1>4, <2>1, <3>4
    <2>2. QED
      BY <2>1
  <1>8. new \in Targets(edges, T) /\ For(edges, T, new) # {}
    <2>1. new \in Targets(edges, T)
      BY <1>3, <1>4, <1>7, Winner
    <2>2. QED
      BY <2>1 DEF Targets, For
  <1>9. new \in Targets(edges, S) /\ S # {}
    <2>1. For(edges, S, new) # {}
      BY <1>5, <1>7, <1>8
    <2>2. QED
      BY <2>1 DEF For, Targets
  <1>10. old # None /\ old \in Targets(edges, S) /\ Beats(edges, S, old, new)
    BY <1>3, <1>4, <1>9, Winner DEF old, new
  <1>11. old \in Targets(edges, T) /\ Beats(edges, T, new, old)
    <2>1. For(edges, S, old) # {}
      BY <1>10 DEF For, Targets
    <2>2. old \in Targets(edges, T)
      BY <1>6, <1>10, <2>1 DEF For, Targets
    <2>3. QED
      BY <1>3, <1>4, <1>7, <2>2, Winner DEF old, new
  <1>12. /\ Less(edges, T, S, new) /\ Less(edges, S, T, old)
    BY <1>5, <1>6, <1>7, <1>10 DEF Less
  <1>13. /\ Weight(edges, T, new) <= Weight(edges, S, new)
         /\ Weight(edges, S, old) <= Weight(edges, T, old)
         /\ Weight(edges, T, new) = Weight(edges, S, new) =>
              For(edges, T, new) = For(edges, S, new)
         /\ Weight(edges, S, old) = Weight(edges, T, old) =>
              For(edges, S, old) = For(edges, T, old)
    BY <1>3, <1>12, LessWeighs
  <1>14. /\ Weight(edges, S, old) = Weight(edges, S, new)
         /\ Weight(edges, T, old) = Weight(edges, T, new)
         /\ Weight(edges, T, new) = Weight(edges, S, new)
         /\ Weight(edges, T, old) = Weight(edges, S, old)
         /\ Later(LatestFor(edges, S, old), LatestFor(edges, S, new))
         /\ Later(LatestFor(edges, T, new), LatestFor(edges, T, old))
    BY <1>3, <1>10, <1>11, <1>13, WeightNat DEF Beats
  <1>15. /\ LatestFor(edges, S, old) = LatestFor(edges, T, old)
         /\ LatestFor(edges, S, new) = LatestFor(edges, T, new)
    BY <1>13, <1>14 DEF LatestFor
  <1>16. Vote(LatestFor(edges, S, old)) /\ Vote(LatestFor(edges, S, new))
    <2>1. \A k \in Targets(edges, S) : For(edges, S, k) # {}
      BY DEF For, Targets
    <2>2. QED
      BY <1>3, <1>9, <1>10, <2>1, LatestExists DEF For, Votes
  <1>17. QED
    BY <1>14, <1>15, <1>16, LaterOrder

-----------------------------------------------------------------------------
\* The tables: what the steps store, and the invariant of the shape.

Pending == {p.vote : p \in inflight}

\* Of the kind a theme pass stores together.
Together(a, b) ==
  a.pred = "part_of" /\ b.pred = "part_of" /\ a.op = "ASSERT" /\ b.op = "ASSERT"

\* Beyond TypeOK: what is counted is finite, an ASSERT names its target, one
\* correction proposes one vote, and only the votes of a theme share an instant
\* of recording.
Shape ==
  /\ Votes(votes) /\ \A a \in Pending : Vote(a)
  /\ inflight \subseteq [vote : VoteType, stale : BOOLEAN]
  /\ \A p, q \in inflight : p.vote = q.vote => p = q
  /\ \A a, b \in votes \cup Pending :
       a.rec = b.rec => a = b \/ Together(a, b)

\* What the gate makes of an intent, and what is stored of it.
Claim(i) ==
  [subj |-> Canonical(merges, i.subj), pred |-> i.pred, op |-> i.op,
   key |-> IF i.key = Star THEN Star ELSE Canonical(merges, i.key),
   vf |-> i.vf, src |-> i.src, origin |-> "model", rec |-> MaxClock + 2]

Entry(i, n) == [Claim(i) EXCEPT !.rec = n]

LEMMA ClaimVote ==
  ASSUME merges \in Edges, NEW i \in EdgeType, NEW n \in Nat
  PROVE  /\ Claim(i) \in VoteType /\ Vote(Claim(i))
         /\ Entry(i, n) \in VoteType /\ Vote(Entry(i, n))
         /\ Entry(i, n).rec = n /\ Entry(i, n).pred = i.pred
         /\ Identity(Entry(i, n)) = Identity(Claim(i))
  <1>1. /\ i.subj \in Subjects /\ i.pred \in Predicates /\ i.op \in {"ASSERT", "RETRACT"}
        /\ i.key \in Subjects \cup {Star} /\ i.vf \in Nat /\ i.src \in Sources
        /\ i.op = "ASSERT" => i.key # Star
    BY DEF EdgeType
  <1>2. /\ Canonical(merges, i.subj) \in Subjects
        /\ i.key # Star => i.key \in Subjects /\ Canonical(merges, i.key) \in Subjects
    BY <1>1, CanonicalInChain
  <1>3. MaxClock + 2 \in Nat /\ Star \notin Subjects
    BY StructureAssumption
  <1>4. Claim(i) \in VoteType /\ Vote(Claim(i))
    BY <1>1, <1>2, <1>3 DEF Claim, VoteType, Vote
  <1>5. Entry(i, n) \in VoteType /\ Vote(Entry(i, n))
    BY <1>1, <1>2, <1>3 DEF Claim, Entry, VoteType, Vote
  <1>6. QED
    BY <1>4, <1>5 DEF Entry, Claim, Identity

LEMMA ProposedClaim ==
  ASSUME NEW known, NEW i
  PROVE  /\ Proposed(known, i) = {} \/ Proposed(known, i) = {Claim(i)}
         /\ Proposed(known, i) # {} => ~ Rejected(known, merges, Claim(i))
  BY DEF Proposed, Claim

\* What the table and the notices are once P has been stored.
Put(st, P, n) ==
  IF Stamped(P, n) = {} THEN st ELSE Added(st, CHOOSE a \in Stamped(P, n) : TRUE)

LEMMA PutEntry ==
  ASSUME NEW st, NEW i, NEW n
  PROVE  Put(st, {Claim(i)}, n) = Added(st, Entry(i, n)) /\ Put(st, {}, n) = st
  <1>1. Stamped({Claim(i)}, n) = {Entry(i, n)} /\ Stamped({}, n) = {}
    BY DEF Stamped, Entry
  <1>2. QED
    BY <1>1 DEF Put

\* The two intents of an emission, and the tables after each of them.
First(e) == Proposed(votes, e[1])
Second(e) == Proposed(With(votes, merges, First(e)), e[2])
AfterFirst(e) == Put([votes |-> votes, notices |-> notices], First(e), clock)
AfterSecond(e) == Put(AfterFirst(e), Second(e), clock + 1)

LEMMA EmitIs ==
  ASSUME NEW e, Emit(e)
  PROVE  /\ clock < MaxClock /\ merges' = merges /\ clock' = clock + 2
         /\ votes' = AfterSecond(e).votes /\ notices' = AfterSecond(e).notices
         /\ inflight' = IF votes' = votes THEN inflight ELSE Touched(inflight)
  BY DEF Emit, First, Second, AfterFirst, AfterSecond, Put

NoticesOk(N) == \A n \in N : {n.subj, n.old, n.new} \subseteq Subjects

LEMMA AddedShape ==
  ASSUME merges \in Edges, NEW st, Votes(st.votes), NoticesOk(st.notices), NEW a, Vote(a)
  PROVE  /\ Added(st, a).votes \in {st.votes, st.votes \cup {a}}
         /\ Votes(Added(st, a).votes) /\ NoticesOk(Added(st, a).notices)
         /\ Taken(st.votes, a) => Added(st, a) = st
         /\ ~ Taken(st.votes, a) => /\ Added(st, a).votes = st.votes \cup {a}
                                    /\ Added(st, a).notices =
                                         st.notices \cup Notices(st.votes, merges, a)
  <1> DEFINE V == st.votes
  <1>1. Votes(V \cup {a})
    BY FS_AddElement DEF Votes
  <1>2. NoticesOk(Notices(V, merges, a))
    <2>1. /\ Parent(V, merges, End1(merges, a)) \in Subjects \cup {None}
          /\ Parent(V \cup {a}, merges, End1(merges, a)) \in Subjects \cup {None}
      BY <1>1, ParentIn
    <2>2. End1(merges, a) \in Subjects
      BY End2In
    <2>3. QED
      BY <2>1, <2>2 DEF Notices, NoticesOk
  <1>3. QED
    BY <1>1, <1>2 DEF Added, NoticesOk

LEMMA EmitVotes ==
  ASSUME TypeOK, Shape, NEW e \in Emissions, Emit(e)
  PROVE  /\ Votes(AfterFirst(e).votes) /\ NoticesOk(AfterFirst(e).notices)
         /\ AfterFirst(e).votes \in {votes, votes \cup {Entry(e[1], clock)}}
         /\ AfterSecond(e).votes \in {AfterFirst(e).votes,
                                      AfterFirst(e).votes \cup {Entry(e[2], clock + 1)}}
         /\ Votes(AfterSecond(e).votes) /\ NoticesOk(AfterSecond(e).notices)
         /\ Vote(Entry(e[1], clock)) /\ Vote(Entry(e[2], clock + 1))
         /\ Entry(e[1], clock) \in VoteType /\ Entry(e[2], clock + 1) \in VoteType
  <1> DEFINE zero == [votes |-> votes, notices |-> notices]
             one == AfterFirst(e)
             two == AfterSecond(e)
             a == Entry(e[1], clock)
             b == Entry(e[2], clock + 1)
  <1>1. e[1] \in EdgeType /\ e[2] \in EdgeType /\ merges \in Edges
        /\ clock \in Nat /\ clock + 1 \in Nat
    BY StructureAssumption DEF TypeOK
  <1>2. Vote(a) /\ Vote(b) /\ a \in VoteType /\ b \in VoteType
    BY <1>1, ClaimVote
  <1>3. Votes(zero.votes) /\ NoticesOk(zero.notices)
    BY DEF Shape, TypeOK, NoticesOk
  <1>4. one \in {zero, Added(zero, a)}
    <2>1. First(e) = {} \/ First(e) = {Claim(e[1])}
      BY ProposedClaim DEF First
    <2>2. one = Put(zero, First(e), clock)
      BY DEF AfterFirst
    <2> HIDE DEF one, zero, a
    <2>3. QED
      BY <2>1, <2>2, PutEntry DEF a
  <1>5. two \in {one, Added(one, b)}
    <2>1. Second(e) = {} \/ Second(e) = {Claim(e[2])}
      BY ProposedClaim DEF Second
    <2>2. two = Put(one, Second(e), clock + 1)
      BY DEF AfterSecond
    <2> HIDE DEF one, two, zero, a, b
    <2>3. QED
      BY <2>1, <2>2, PutEntry DEF b
  <1>6. zero.votes = votes
    OBVIOUS
  <1> HIDE DEF zero, one, two, a, b
  <1>7. /\ Votes(one.votes) /\ NoticesOk(one.notices)
        /\ one.votes \in {zero.votes, zero.votes \cup {a}}
    BY <1>1, <1>2, <1>3, <1>4, AddedShape
  <1>8. /\ Votes(two.votes) /\ NoticesOk(two.notices)
        /\ two.votes \in {one.votes, one.votes \cup {b}}
    BY <1>1, <1>2, <1>5, <1>7, AddedShape
  <1>9. QED
    BY <1>2, <1>6, <1>7, <1>8 DEF one, two, a, b

\* What a theme proposes of its members, and which of them join.
Joins(h, m) ==
  [subj |-> m, pred |-> "part_of", op |-> "ASSERT", key |-> h.root,
   vf |-> clock, src |-> "theme", origin |-> "model", rec |-> clock]

Joining(h) ==
  {m \in h.members \ (DOMAIN merges \cup {h.root}) :
     /\ Parent(votes, merges, m) = None
     /\ ~ Rejected(votes, merges, Joins(h, m))}

Stored(h) == {m \in Joining(h) : ~ Taken(votes, Joins(h, m))}

LEMMA PassVotes ==
  ASSUME TypeOK, Shape, NEW h \in Themes, ThemePass(h)
  PROVE  /\ votes' = votes \cup {Joins(h, m) : m \in Stored(h)}
         /\ \A m \in Stored(h) : m \in Subjects /\ Vote(Joins(h, m)) /\ Joins(h, m) \in VoteType
         /\ Votes(votes')
  <1>1. votes' = votes \cup {Joins(h, m) : m \in Stored(h)}
    BY DEF ThemePass, Stored, Joining, Joins
  <1>2. h.root \in Subjects /\ h.members \subseteq Subjects /\ IsFiniteSet(h.members)
        /\ clock \in Nat /\ "part_of" \in Predicates
    BY StructureAssumption DEF TypeOK
  <1>3. \A m \in Stored(h) : m \in Subjects
    BY <1>2 DEF Stored, Joining
  <1>4. ASSUME NEW m \in Stored(h)
        PROVE  Vote(Joins(h, m)) /\ Joins(h, m) \in VoteType
    <2>1. m \in Subjects /\ h.root # Star
      BY <1>2, <1>3, StructureAssumption
    <2>2. Vote(Joins(h, m))
      BY <1>2, <2>1 DEF Vote, Joins
    <2>3. "theme" \in Sources
      BY StructureAssumption
    <2>4. Joins(h, m) \in VoteType
      BY <1>2, <2>1, <2>3 DEF VoteType, Joins
    <2>5. QED
      BY <2>2, <2>4
  <1>5. IsFiniteSet({Joins(h, m) : m \in Stored(h)})
    <2> DEFINE f == [m \in Stored(h) |-> Joins(h, m)]
    <2>1. IsFiniteSet(Stored(h))
      <3>1. Stored(h) \in SUBSET h.members
        BY DEF Stored, Joining
      <3>2. QED
        BY <1>2, <3>1, FS_Subset
    <2>2. DOMAIN f = Stored(h)
          /\ {Joins(h, m) : m \in Stored(h)} = {f[m] : m \in DOMAIN f}
      OBVIOUS
    <2> HIDE DEF f
    <2>3. QED
      BY <2>1, <2>2, FiniteImage
  <1>6. Votes(votes')
    BY <1>1, <1>4, <1>5, FS_Union DEF Shape, Votes
  <1>7. QED
    BY <1>1, <1>3, <1>4, <1>6

LEMMA CommitIs ==
  ASSUME TypeOK, Shape, NEW p \in inflight, CommitEdge(p)
  PROVE  /\ votes' \in {votes, votes \cup {p.vote}} /\ merges' = merges /\ clock' = clock
         /\ votes' = votes => notices' = notices
         /\ votes' # votes => /\ ~ Taken(votes, p.vote)
                              /\ notices' = notices \cup Notices(votes, merges, p.vote)
         /\ inflight' = IF votes' = votes THEN inflight \ {p} ELSE Touched(inflight \ {p})
         /\ Votes(votes') /\ NoticesOk(notices')
  <1> DEFINE zero == [votes |-> votes, notices |-> notices]
             st == IF Clashes(votes, p.vote) THEN zero ELSE Added(zero, p.vote)
  <1>1. /\ votes' = st.votes /\ notices' = st.notices /\ merges' = merges /\ clock' = clock
        /\ inflight' = IF votes' = votes THEN inflight \ {p} ELSE Touched(inflight \ {p})
    BY DEF CommitEdge
  <1>2. Vote(p.vote) /\ Votes(zero.votes) /\ NoticesOk(zero.notices) /\ merges \in Edges
    BY DEF Shape, Pending, TypeOK, NoticesOk
  <1>3. zero.votes = votes /\ zero.notices = notices /\ st \in {zero, Added(zero, p.vote)}
    OBVIOUS
  <1> HIDE DEF st, zero
  <1>4. /\ Added(zero, p.vote).votes \in {votes, votes \cup {p.vote}}
        /\ Votes(Added(zero, p.vote).votes) /\ NoticesOk(Added(zero, p.vote).notices)
        /\ Taken(votes, p.vote) => Added(zero, p.vote) = zero
        /\ ~ Taken(votes, p.vote) => Added(zero, p.vote).notices =
                                       notices \cup Notices(votes, merges, p.vote)
    BY <1>2, <1>3, AddedShape
  <1>5. ~ Taken(votes, p.vote) => Added(zero, p.vote).votes = votes \cup {p.vote}
    BY <1>2, <1>3, AddedShape
  <1>6. ~ Taken(votes, p.vote) => p.vote \notin votes
    BY DEF Taken
  <1>7. st = zero => votes' = votes /\ notices' = notices /\ Votes(votes') /\ NoticesOk(notices')
    BY <1>1, <1>2, <1>3
  <1>8. st # zero => /\ ~ Taken(votes, p.vote) /\ st = Added(zero, p.vote)
                     /\ votes' = votes \cup {p.vote} /\ votes' # votes
    BY <1>1, <1>3, <1>4, <1>5, <1>6
  <1>9. QED
    BY <1>1, <1>2, <1>4, <1>7, <1>8

\* What becomes of the corrections between their gate and their commit.
LEMMA TouchedShape ==
  ASSUME NEW S, S \subseteq [vote : VoteType, stale : BOOLEAN],
         \A p, q \in S : p.vote = q.vote => p = q
  PROVE  /\ Touched(S) \subseteq [vote : VoteType, stale : BOOLEAN]
         /\ {p.vote : p \in Touched(S)} = {p.vote : p \in S}
         /\ \A p \in Touched(S) : p.stale
         /\ \A p, q \in Touched(S) : p.vote = q.vote => p = q
  <1>1. ASSUME NEW p \in S
        PROVE  /\ [p EXCEPT !.stale = TRUE] \in [vote : VoteType, stale : BOOLEAN]
               /\ [p EXCEPT !.stale = TRUE].vote = p.vote
               /\ [p EXCEPT !.stale = TRUE].stale
    <2>1. p \in [vote : VoteType, stale : BOOLEAN]
      OBVIOUS
    <2>2. QED
      BY <2>1
  <1>2. ASSUME NEW p \in S, NEW q \in S, p.vote = q.vote
        PROVE  [p EXCEPT !.stale = TRUE] = [q EXCEPT !.stale = TRUE]
    BY <1>2
  <1> DEFINE up(x) == [x EXCEPT !.stale = TRUE]
  <1>3. \A p \in S : up(p) \in [vote : VoteType, stale : BOOLEAN]
    BY <1>1
  <1>4. \A p \in S : up(p).vote = p.vote
    BY <1>1
  <1>5. \A p \in S : up(p).stale
    BY <1>1
  <1>6. \A p, q \in S : p.vote = q.vote => up(p) = up(q)
    BY <1>2
  <1>7. Touched(S) = {up(p) : p \in S}
    BY DEF Touched
  <1> HIDE DEF up
  <1>8. QED
    BY <1>3, <1>4, <1>5, <1>6, <1>7

LEMMA InitShape ==
  Init => TypeOK /\ Shape
  <1> SUFFICES ASSUME Init PROVE TypeOK /\ Shape
    OBVIOUS
  <1>1. votes = {} /\ merges = NoEdges /\ notices = {} /\ clock = 1 /\ inflight = {}
    BY DEF Init
  <1>2. IsFiniteSet({})
    BY FS_EmptySet
  <1>3. QED
    BY <1>1, <1>2, NoEdgesAcyclic DEF TypeOK, Shape, Votes, Pending

\* Recorded before an instant, and two at a time by a theme only.
Recorded(A, last) ==
  /\ A \subseteq VoteType /\ \A a \in A : Vote(a) /\ a.rec < last
  /\ \A a, b \in A : a.rec = b.rec => a = b \/ Together(a, b)

LEMMA RecordedNow ==
  ASSUME TypeOK, Shape
  PROVE  Recorded(votes \cup Pending, clock)
  BY DEF TypeOK, Shape, Recorded, Pending, Votes

LEMMA RecordedLater ==
  ASSUME NEW n \in Nat, NEW last \in Nat, n <= last, NEW A, Recorded(A, n),
         NEW N, N \subseteq VoteType, \A a \in N : Vote(a) /\ n <= a.rec /\ a.rec < last,
         \A a, b \in N : a.rec = b.rec => a = b \/ Together(a, b)
  PROVE  Recorded(A \cup N, last)
  <1>1. \A a \in A \cup N : a.rec \in Nat
    BY DEF Recorded, Vote
  <1>2. \A a \in A, b \in N : a.rec # b.rec /\ b.rec # a.rec
    BY <1>1 DEF Recorded
  <1>3. \A a \in A \cup N : Vote(a) /\ a.rec < last
    BY <1>1 DEF Recorded
  <1>4. QED
    BY <1>2, <1>3 DEF Recorded

LEMMA EdgesKept ==
  ASSUME NEW edges \in Edges, NEW s \in Subjects
  PROVE  DropEdge(edges, s) \in Edges /\ \A t \in Subjects : AddEdge(edges, s, t) \in Edges
  <1>1. /\ DOMAIN DropEdge(edges, s) = DOMAIN edges \ {s}
        /\ DropEdge(edges, s) \in [DOMAIN edges \ {s} -> Subjects]
    BY EdgesShape DEF DropEdge
  <1>2. ASSUME NEW t \in Subjects
        PROVE  AddEdge(edges, s, t) \in [DOMAIN edges \cup {s} -> Subjects]
    BY EdgesShape DEF AddEdge
  <1>3. QED
    BY <1>1, <1>2, EdgesShape DEF Edges

LEMMA ShapeNow ==
  ASSUME Shape, NEW S, S \subseteq inflight, inflight' \in {S, Touched(S)},
         Votes(votes'), merges' \in Edges, NoticesOk(notices'), clock' \in Nat,
         Recorded(votes' \cup {p.vote : p \in S}, clock')
  PROVE  TypeOK' /\ Shape'
  <1>1. /\ S \subseteq [vote : VoteType, stale : BOOLEAN]
        /\ \A p, q \in S : p.vote = q.vote => p = q
    BY DEF Shape
  <1>2. /\ inflight' \subseteq [vote : VoteType, stale : BOOLEAN]
        /\ \A p, q \in inflight' : p.vote = q.vote => p = q
        /\ Pending' = {p.vote : p \in S}
    BY <1>1, TouchedShape DEF Pending
  <1>3. TypeOK'
    BY <1>2 DEF TypeOK, NoticesOk, Pending, Recorded
  <1>4. Shape'
    BY <1>2 DEF Shape, Recorded
  <1>5. QED
    BY <1>3, <1>4

LEMMA StepShape ==
  ASSUME TypeOK, Shape, [Next]_vars
  PROVE  TypeOK' /\ Shape'
  <1>1. /\ clock \in Nat /\ merges \in Edges /\ Votes(votes) /\ NoticesOk(notices)
        /\ Recorded(votes \cup Pending, clock)
    BY RecordedNow DEF TypeOK, Shape, NoticesOk
  <1>2. ASSUME NEW r \in Edits, PrepareEdge(r)
        PROVE  TypeOK' /\ Shape'
    <2> DEFINE a == [subj |-> Canonical(merges, r.subj), pred |-> r.pred, op |-> r.op,
                     key |-> r.key, vf |-> r.vf, src |-> r.src, origin |-> "human",
                     rec |-> clock]
               new == [vote |-> a, stale |-> FALSE]
    <2>1. inflight' = inflight \cup {new} /\ clock' = clock + 1
          /\ UNCHANGED <<votes, merges, notices>>
      BY <1>2 DEF PrepareEdge
    <2>2. a \in VoteType /\ Vote(a) /\ a.rec = clock
      <3>1. r \in EdgeType
        BY StructureAssumption
      <3>2. /\ r.subj \in Subjects /\ r.pred \in Predicates /\ r.op \in {"ASSERT", "RETRACT"}
            /\ r.key \in Subjects \cup {Star} /\ r.vf \in Nat /\ r.src \in Sources
            /\ r.op = "ASSERT" => r.key # Star
        BY <3>1 DEF EdgeType
      <3>3. Canonical(merges, r.subj) \in Subjects
        BY <1>1, <3>2, CanonicalInChain
      <3>4. QED
        BY <1>1, <3>2, <3>3 DEF VoteType, Vote
    <2> HIDE DEF a
    <2>3. new.vote = a /\ new \in [vote : VoteType, stale : BOOLEAN]
      BY <2>2
    <2> HIDE DEF new
    <2>4. Pending' = Pending \cup {a}
      BY <2>1, <2>3 DEF Pending
    <2>5. Recorded(votes \cup Pending \cup {a}, clock + 1)
      <3>1. clock + 1 \in Nat /\ clock <= clock + 1 /\ clock < clock + 1 /\ clock <= clock
        BY <1>1
      <3>2. QED
        BY <1>1, <2>2, <3>1, RecordedLater
    <2>6. \A p, q \in inflight' : p.vote = q.vote => p = q
      <3>1. \A p \in inflight : p.vote # a
        BY <1>1, <2>2 DEF Recorded, Pending, Vote
      <3>2. QED
        BY <2>1, <2>3, <3>1 DEF Shape
    <2>7. inflight' \subseteq [vote : VoteType, stale : BOOLEAN]
      BY <2>1, <2>3 DEF Shape
    <2>8. Recorded(votes' \cup Pending', clock')
      <3>1. votes' \cup Pending' = votes \cup Pending \cup {a}
        BY <2>1, <2>4
      <3>2. QED
        BY <2>1, <2>5, <3>1
    <2>9. Shape'
      BY <1>1, <2>1, <2>6, <2>7, <2>8 DEF Shape, Recorded
    <2>10. TypeOK'
      BY <1>1, <2>1, <2>8 DEF TypeOK, Recorded, Pending, NoticesOk
    <2>11. QED
      BY <2>9, <2>10
  <1>3. ASSUME NEW p \in inflight, CommitEdge(p)
        PROVE  TypeOK' /\ Shape'
    <2> DEFINE S == inflight \ {p}
    <2>1. /\ votes' \in {votes, votes \cup {p.vote}} /\ merges' = merges /\ clock' = clock
          /\ inflight' \in {S, Touched(S)}
          /\ Votes(votes') /\ NoticesOk(notices')
      BY <1>3, CommitIs
    <2>2. votes' \cup {q.vote : q \in S} \subseteq votes \cup Pending
      BY <2>1 DEF Pending
    <2>3. Recorded(votes' \cup {q.vote : q \in S}, clock')
      <3> DEFINE A == votes \cup Pending
                 B == votes' \cup {q.vote : q \in S}
      <3> HIDE DEF A, B, S
      <3>1. Recorded(A, clock) => Recorded(B, clock)
        BY <2>2 DEF Recorded, A, B
      <3>2. QED
        BY <1>1, <2>1, <3>1 DEF A, B
    <2> HIDE DEF S
    <2>4. S \subseteq inflight
      BY DEF S
    <2>5. QED
      BY <1>1, <2>1, <2>3, <2>4, ShapeNow
  <1>4. ASSUME NEW N, N \subseteq VoteType, votes' = votes \cup N, Votes(votes'),
               inflight' \in {inflight, Touched(inflight)}, merges' \in Edges,
               NoticesOk(notices'), clock' \in Nat, clock <= clock',
               \A a \in N : clock <= a.rec /\ a.rec < clock',
               \A a, b \in N : a.rec = b.rec => a = b \/ Together(a, b)
        PROVE  TypeOK' /\ Shape'
    <2>1. \A a \in N : Vote(a)
      BY <1>4 DEF Votes
    <2>2. Recorded(votes \cup Pending \cup N, clock')
      BY <1>1, <1>4, <2>1, RecordedLater
    <2>3. votes \cup Pending \cup N = votes' \cup {p.vote : p \in inflight}
      BY <1>4 DEF Pending
    <2>4. QED
      BY <1>4, <2>2, <2>3, ShapeNow
  <1>5. ASSUME NEW e \in Emissions, Emit(e)
        PROVE  TypeOK' /\ Shape'
    <2> DEFINE a == Entry(e[1], clock)
               b == Entry(e[2], clock + 1)
               N == votes' \ votes
    <2>1. /\ merges' = merges /\ clock' = clock + 2
          /\ votes' = AfterSecond(e).votes /\ notices' = AfterSecond(e).notices
          /\ inflight' \in {inflight, Touched(inflight)}
      BY <1>5, EmitIs
    <2>2. /\ AfterFirst(e).votes \in {votes, votes \cup {a}}
          /\ AfterSecond(e).votes \in {AfterFirst(e).votes, AfterFirst(e).votes \cup {b}}
          /\ Votes(AfterSecond(e).votes) /\ NoticesOk(AfterSecond(e).notices)
          /\ a \in VoteType /\ b \in VoteType
      BY <1>5, EmitVotes
    <2>3. a.rec = clock /\ b.rec = clock + 1
      BY DEF Entry, Claim
    <2> HIDE DEF a, b
    <2>4. votes' = votes \cup N /\ N \subseteq {a, b}
      BY <2>1, <2>2
    <2> HIDE DEF N
    <2>5. /\ clock + 2 \in Nat /\ clock <= clock + 2
          /\ \A x \in {a, b} : clock <= x.rec /\ x.rec < clock + 2
          /\ a.rec # b.rec
      BY <1>1, <2>3
    <2>6. \A x, y \in N : x.rec = y.rec => x = y
      BY <2>4, <2>5
    <2>7. QED
      BY <1>1, <1>4, <2>1, <2>2, <2>4, <2>5, <2>6
  <1>6. ASSUME NEW h \in Themes, ThemePass(h)
        PROVE  TypeOK' /\ Shape'
    <2> DEFINE N == {Joins(h, m) : m \in Stored(h)}
    <2>1. /\ clock' = clock + 1 /\ merges' = merges /\ notices' = notices
          /\ inflight' \in {inflight, Touched(inflight)}
      BY <1>6 DEF ThemePass
    <2>2. /\ votes' = votes \cup N /\ N \subseteq VoteType /\ Votes(votes')
      BY <1>6, PassVotes
    <2>3. \A a \in N : a.rec = clock /\ a.pred = "part_of" /\ a.op = "ASSERT"
      BY DEF Joins
    <2>4. clock + 1 \in Nat /\ clock <= clock + 1 /\ clock <= clock /\ clock < clock + 1
      BY <1>1
    <2>5. \A a, b \in N : a.rec = b.rec => Together(a, b)
      BY <2>3 DEF Together
    <2> HIDE DEF N
    <2>6. QED
      BY <1>1, <1>4, <2>1, <2>2, <2>3, <2>4, <2>5
  <1>7. ASSUME votes' = votes, notices' = notices, clock' = clock, merges' \in Edges,
               inflight' \in {inflight, Touched(inflight)}
        PROVE  TypeOK' /\ Shape'
    <2>1. votes' \cup {p.vote : p \in inflight} = votes \cup Pending
      BY <1>7 DEF Pending
    <2>2. QED
      BY <1>1, <1>7, <2>1, ShapeNow
  <1>8. ASSUME NEW m \in MergePairs, Merge(m[1], m[2])
        PROVE  TypeOK' /\ Shape'
    <2>1. m[1] \in Subjects /\ m[2] \in Subjects
      BY StructureAssumption
    <2>2. AddEdge(merges, m[1], m[2]) \in Edges
      BY <1>1, <2>1, EdgesKept
    <2>3. QED
      BY <1>7, <1>8, <2>2 DEF Merge
  <1>9. ASSUME NEW s \in Subjects, Unmerge(s)
        PROVE  TypeOK' /\ Shape'
    <2>1. DropEdge(merges, s) \in Edges
      BY <1>1, EdgesKept
    <2>2. QED
      BY <1>7, <1>9, <2>1 DEF Unmerge
  <1>10. ASSUME UNCHANGED vars
         PROVE  TypeOK' /\ Shape'
    BY <1>1, <1>7, <1>10 DEF vars
  <1>11. QED
    BY <1>2, <1>3, <1>5, <1>6, <1>8, <1>9, <1>10 DEF Next

LEMMA ShapeAlways == Spec => [](TypeOK /\ Shape)
  <1>1. TypeOK /\ Shape /\ [Next]_vars => TypeOK' /\ Shape'
    BY StepShape
  <1>2. QED
    BY <1>1, InitShape, PTL DEF Spec

\* Every table holds what it should, whatever the goals, the corrections and the
\* emissions: no notice names a target that is not a goal.
THEOREM TypeCorrect == Spec => []TypeOK
  BY ShapeAlways, PTL

-----------------------------------------------------------------------------
\* What an election says of the humans it goes against.

LEMMA OutweighedNow ==
  ASSUME TypeOK, Shape
  PROVE  HumanOutweighed
  <1> SUFFICES ASSUME NEW s \in Subjects, NEW a \in StandingNow(votes, merges, s),
                      a.origin = "human",
                      HumanVotes(merges, StandingNow(votes, merges, s),
                                 Parent(votes, merges, s)) = {}
               PROVE  Cardinality(ModelVotes(merges, StandingNow(votes, merges, s),
                                             Parent(votes, merges, s))) >=
                        HumanWeight * Cardinality(HumanVotes(merges, StandingNow(votes, merges, s),
                                                             End2(merges, a)))
    BY DEF HumanOutweighed
  <1> DEFINE S == StandingNow(votes, merges, s)
             e == Parent(votes, merges, s)
             k == End2(merges, a)
             he == Cardinality(HumanVotes(merges, S, e))
             me == Cardinality(ModelVotes(merges, S, e))
             hk == Cardinality(HumanVotes(merges, S, k))
             mk == Cardinality(ModelVotes(merges, S, k))
  <1>1. /\ S = Stand(merges, PartOf(votes, merges, s)) /\ e = Elected(merges, S) /\ Votes(S)
    <2>1. Votes(votes)
      BY DEF Shape
    <2>2. QED
      BY <2>1, ParentStands, BallotVotes, StandVotes DEF PartOf
  <1>2. a \in S /\ HumanVotes(merges, S, e) = {} /\ a.origin = "human"
    OBVIOUS
  <1> HIDE DEF S, e
  <1>3. /\ k \in Targets(merges, S)
        /\ \A j \in Targets(merges, S) \ {e} : Beats(merges, S, e, j)
    BY <1>1, <1>2, Winner DEF Targets
  <1>4. k # e
    BY <1>2 DEF HumanVotes, For
  <1> HIDE DEF k
  <1>5. /\ he \in Nat /\ me \in Nat /\ hk \in Nat /\ mk \in Nat /\ HumanWeight \in Nat
        /\ Weight(merges, S, e) \in Nat /\ Weight(merges, S, k) \in Nat
    BY <1>1, WeightNat, StructureAssumption
  <1>6. Weight(merges, S, e) >= Weight(merges, S, k)
    BY <1>3, <1>4, <1>5 DEF Beats
  <1>7. he = 0
    BY <1>2, FS_EmptySet
  <1>8. /\ Weight(merges, S, e) = HumanWeight * he + me
        /\ Weight(merges, S, k) = HumanWeight * hk + mk
    BY DEF Weight
  <1> HIDE DEF he, me, hk, mk
  <1>9. HumanWeight * he = 0 /\ HumanWeight * hk \in Nat
    BY <1>5, <1>7, Times
  <1>10. me >= HumanWeight * hk
    BY <1>5, <1>6, <1>8, <1>9
  <1>11. QED
    BY <1>10 DEF me, hk, S, e, k

\* Whatever the weight of a human vote, the target that wins without a human
\* behind it has as many standing model votes as the humans of each other target
\* weigh, in every reachable state.
THEOREM HumansAreOutweighed == Spec => []HumanOutweighed
  <1>1. TypeOK /\ Shape => HumanOutweighed
    BY OutweighedNow
  <1>2. QED
    BY <1>1, ShapeAlways, PTL

LEMMA VotesStay ==
  ASSUME TypeOK, Shape, [Next]_vars
  PROVE  votes \subseteq votes'
  <1>1. ASSUME NEW p \in inflight, CommitEdge(p)
        PROVE  votes \subseteq votes'
    BY <1>1, CommitIs
  <1>2. ASSUME NEW e \in Emissions, Emit(e)
        PROVE  votes \subseteq votes'
    BY <1>2, EmitIs, EmitVotes
  <1>3. ASSUME NEW h \in Themes, ThemePass(h)
        PROVE  votes \subseteq votes'
    BY <1>3, PassVotes
  <1>4. CASE UNCHANGED votes
    BY <1>4
  <1>5. QED
    BY <1>1, <1>2, <1>3, <1>4 DEF Next, PrepareEdge, Merge, Unmerge, vars

LEMMA MoveStep ==
  ASSUME TypeOK, Shape, [Next]_vars, merges' = merges, NEW s \in Subjects,
         Parent(votes, merges, s) # Parent(votes', merges, s)
  PROVE  \E a \in Ballot(votes' \ votes, merges, s, "part_of") :
           \/ a.op = "ASSERT" /\ End2(merges, a) = Parent(votes', merges, s)
           \/ a.op = "RETRACT" /\ End2(merges, a) \in {Parent(votes, merges, s), Star}
  <1>1. Votes(votes') /\ votes \subseteq votes' /\ merges \in Edges
    BY StepShape, VotesStay DEF Shape, TypeOK
  <1>2. \A a \in Stand(merges, PartOf(votes', merges, s)) : a.op = "ASSERT"
    BY DEF Stand, Asserts
  <1>3. PICK V1 : V1 = votes'
    OBVIOUS
  <1>4. QED
    BY <1>1, <1>2, <1>3, Moves DEF PartOf

\* No vote makes a third target win: what an election moves to is what a new vote
\* names, unless it moves because what it stood on was taken back.
THEOREM ElectionsMoveForCause == Spec => ElectionMovesForCause
  <1>1. TypeOK /\ Shape /\ [Next]_vars =>
          [merges' = merges =>
             \A s \in Subjects :
               LET old == Parent(votes, merges, s)
                   new == Parent(votes', merges, s)
               IN  old # new =>
                     \E a \in Ballot(votes' \ votes, merges, s, "part_of") :
                       \/ a.op = "ASSERT" /\ End2(merges, a) = new
                       \/ a.op = "RETRACT" /\ End2(merges, a) \in {old, Star}]_vars
    BY MoveStep
  <1>2. QED
    BY <1>1, ShapeAlways, PTL DEF Spec, ElectionMovesForCause

-----------------------------------------------------------------------------
\* Notices.

\* A goal that was not merged away stands for itself.
LEMMA CanonicalSelf ==
  ASSUME NEW edges \in Edges, NEW s \in Subjects, s \notin DOMAIN edges
  PROVE  Canonical(edges, s) = s
  <1>1. Closed(edges, {s}) /\ {s} \in SUBSET Subjects
    BY DEF Closed
  <1>2. Chain(edges, s) \subseteq {s}
    BY <1>1 DEF Chain
  <1>3. QED
    BY <1>2, CanonicalInChain

\* One vote turns an election against humans who stand by the old target.
Turns(edges, V, V1, a, s, old, new) ==
  /\ edges \in Edges /\ Votes(V1) /\ V1 = V \cup {a} /\ a \notin V /\ a.op = "ASSERT"
  /\ old = Parent(V, edges, s) /\ new = Parent(V1, edges, s)
  /\ old # new /\ None \notin {old, new}
  /\ HumanVotes(edges, StandingNow(V1, edges, s), old) # {}
  /\ HumanVotes(edges, StandingNow(V1, edges, s), new) = {}

\* It leaves a notice of that.
LEMMA NoticeOf ==
  ASSUME NEW edges, NEW V, NEW V1, NEW a, NEW s, NEW old, NEW new,
         Turns(edges, V, V1, a, s, old, new)
  PROVE  \E n \in Notices(V, edges, a) :
           n.by = Identity(a) /\ n.subj = s /\ n.old = old /\ n.new = new
  <1> USE DEF Turns
  <1> DEFINE A == Ballot(V1, edges, s, "part_of")
             S == StandingNow(V1, edges, s)
  <1>1. V \in SUBSET V1 /\ a \in V1
    OBVIOUS
  <1>2. V1 = V \cup {a}
    OBVIOUS
  <1>3. \E b \in PartOf(V1 \ V, edges, s) : End2(edges, b) = new
    <2>1. \A r \in PartOf(V1 \ V, edges, s) : r = a
      BY <1>2 DEF PartOf, Ballot
    <2>2. QED
      BY <1>1, <1>2, <2>1, Moves
  <1>4. a.pred = "part_of" /\ End1(edges, a) = s /\ End2(edges, a) = new
    BY <1>2, <1>3 DEF PartOf, Ballot
  <1>5. A # {} /\ S = Standing(edges, A, Max(Instants(A)))
    BY <1>4 DEF StandingNow, Ballot
  <1>6. /\ S = Stand(edges, PartOf(V1, edges, s)) /\ new = Elected(edges, S) /\ Votes(S)
    <2>1. Votes(V1)
      BY <1>2
    <2>2. QED
      BY <1>2, <2>1, ParentStands, BallotVotes, StandVotes DEF PartOf
  <1>7. HumanVotes(edges, S, old) # {} /\ HumanVotes(edges, S, new) = {}
    OBVIOUS
  <1> HIDE DEF S, A
  <1>8. old \in Targets(edges, S) /\ S # {}
    BY <1>7 DEF HumanVotes, For, Targets
  <1>9. Beats(edges, S, new, old)
    BY <1>6, <1>8, Winner
  <1>10. Cardinality(ModelVotes(edges, S, new)) >= HumanWeight
    <2> DEFINE hn == Cardinality(HumanVotes(edges, S, new))
               mn == Cardinality(ModelVotes(edges, S, new))
               ho == Cardinality(HumanVotes(edges, S, old))
               mo == Cardinality(ModelVotes(edges, S, old))
    <2>1. /\ hn \in Nat /\ mn \in Nat /\ ho \in Nat /\ mo \in Nat /\ HumanWeight \in Nat
          /\ Weight(edges, S, new) \in Nat /\ Weight(edges, S, old) \in Nat
          /\ IsFiniteSet(HumanVotes(edges, S, old))
      BY <1>6, WeightNat, StructureAssumption
    <2>2. hn = 0 /\ ho >= 1
      BY <1>7, <2>1, FS_EmptySet
    <2>3. Weight(edges, S, new) >= Weight(edges, S, old)
      BY <1>9, <2>1 DEF Beats
    <2>4. /\ Weight(edges, S, new) = HumanWeight * hn + mn
          /\ Weight(edges, S, old) = HumanWeight * ho + mo
      BY DEF Weight
    <2> HIDE DEF hn, mn, ho, mo
    <2>5. HumanWeight * hn = 0 /\ HumanWeight * ho \in Nat /\ HumanWeight <= HumanWeight * ho
      BY <2>1, <2>2, Times
    <2>6. mn >= HumanWeight
      BY <2>1, <2>3, <2>4, <2>5
    <2>7. QED
      BY <2>6 DEF mn
  <1>11. Outvoted(edges, S, old, new)
    BY <1>7, <1>10 DEF Outvoted
  <1> DEFINE n == [subj |-> s, old |-> old, new |-> new, by |-> Identity(a)]
  <1>12. n \in Notices(V, edges, a)
    BY <1>2, <1>4, <1>5, <1>11 DEF Notices, A
  <1>13. QED
    BY <1>12

\* A model vote withdraws no human one: only a RETRACT withdraws anything.
LEMMA HumansStay ==
  ASSUME NEW edges, NEW V, NEW b, Votes(V \cup {b}), b.op = "ASSERT", b.origin = "model",
         NEW s, NEW k
  PROVE  /\ HumanVotes(edges, StandingNow(V \cup {b}, edges, s), k) =
              HumanVotes(edges, StandingNow(V, edges, s), k)
         /\ StandingNow(V, edges, s) \subseteq StandingNow(V \cup {b}, edges, s)
  <1>1. Votes(V)
    BY VotesSubset
  <1>2. /\ StandingNow(V \cup {b}, edges, s) = Stand(edges, PartOf(V \cup {b}, edges, s))
        /\ StandingNow(V, edges, s) = Stand(edges, PartOf(V, edges, s))
    BY <1>1, ParentStands
  <1>3. \A r \in PartOf(V \cup {b}, edges, s) : r \in PartOf(V, edges, s) \/ r = b
    BY DEF PartOf, Ballot
  <1>4. \A a : ~ Retracts(edges, b, a)
    BY DEF Retracts
  <1>5. PartOf(V, edges, s) \subseteq PartOf(V \cup {b}, edges, s)
    BY DEF PartOf, Ballot
  <1>6. \A a \in PartOf(V, edges, s) :
          a \in Stand(edges, PartOf(V, edges, s)) <=>
            a \in Stand(edges, PartOf(V \cup {b}, edges, s))
    BY <1>3, <1>4, <1>5 DEF Stand, Asserts
  <1>7. Stand(edges, PartOf(V \cup {b}, edges, s)) \subseteq
          Stand(edges, PartOf(V, edges, s)) \cup {b}
    BY <1>3, <1>6 DEF Stand, Asserts
  <1>8. Stand(edges, PartOf(V, edges, s)) \subseteq Stand(edges, PartOf(V \cup {b}, edges, s))
    BY <1>6 DEF Stand, Asserts
  <1>9. QED
    BY <1>2, <1>7, <1>8 DEF HumanVotes, For

LEMMA EmitNotices ==
  ASSUME TypeOK, Shape, NEW e \in Emissions, Emit(e), NEW mid, mid = AfterFirst(e).votes,
         NEW a, a = Entry(e[1], clock), NEW b, b = Entry(e[2], clock + 1)
  PROVE  /\ \/ mid = votes
            \/ a \notin votes /\ mid = votes \cup {a} /\ Notices(votes, merges, a) \subseteq notices'
         /\ \/ votes' = mid
            \/ b \notin mid /\ votes' = mid \cup {b} /\ Notices(mid, merges, b) \subseteq notices'
         /\ Votes(mid) /\ Votes(votes') /\ a.origin = "model" /\ b.origin = "model"
  <1> DEFINE zero == [votes |-> votes, notices |-> notices]
             one == AfterFirst(e)
             two == AfterSecond(e)
  <1>1. /\ votes' = two.votes /\ notices' = two.notices
    BY EmitIs
  <1>2. /\ Votes(one.votes) /\ NoticesOk(one.notices) /\ Vote(a) /\ Vote(b)
        /\ Votes(two.votes) /\ merges \in Edges
    BY EmitVotes DEF TypeOK
  <1>3. /\ First(e) = {} \/ First(e) = {Claim(e[1])}
        /\ Second(e) = {} \/ Second(e) = {Claim(e[2])}
    BY ProposedClaim DEF First, Second
  <1>4. one = Put(zero, First(e), clock) /\ two = Put(one, Second(e), clock + 1)
    BY DEF AfterFirst, AfterSecond
  <1>5. zero.votes = votes /\ zero.notices = notices /\ Votes(zero.votes) /\ NoticesOk(zero.notices)
    BY DEF Shape, TypeOK, NoticesOk
  <1> HIDE DEF zero, one, two
  <1>6. one = zero \/ one = Added(zero, a)
    <2>1. Put(zero, {Claim(e[1])}, clock) = Added(zero, a) /\ Put(zero, {}, clock) = zero
      BY PutEntry
    <2>2. QED
      BY <1>3, <1>4, <2>1
  <1>7. two = one \/ two = Added(one, b)
    <2>1. Put(one, {Claim(e[2])}, clock + 1) = Added(one, b) /\ Put(one, {}, clock + 1) = one
      BY PutEntry
    <2>2. QED
      BY <1>3, <1>4, <2>1
  <1>8. \/ one = zero
        \/ /\ ~ Taken(votes, a) /\ one.votes = votes \cup {a}
           /\ one.notices = notices \cup Notices(votes, merges, a)
    BY <1>2, <1>5, <1>6, AddedShape
  <1>9. \/ two = one
        \/ /\ ~ Taken(one.votes, b) /\ two.votes = one.votes \cup {b}
           /\ two.notices = one.notices \cup Notices(one.votes, merges, b)
    BY <1>2, <1>7, AddedShape
  <1>10. \A V, x : ~ Taken(V, x) => x \notin V
    BY DEF Taken
  <1>11. mid = one.votes
    BY DEF one
  <1>12. a.origin = "model" /\ b.origin = "model"
    BY DEF Entry, Claim
  <1>13. QED
    BY <1>1, <1>2, <1>5, <1>8, <1>9, <1>10, <1>11, <1>12

LEMMA NoticedStep ==
  ASSUME TypeOK, Shape, [Next]_vars, merges' = merges, NEW s \in Subjects,
         NEW E, E = merges, NEW V, V = votes, NEW W, W = votes',
         NEW old, old = Parent(V, E, s), NEW new, new = Parent(W, E, s),
         old # new, None \notin {old, new},
         HumanVotes(E, StandingNow(W, E, s), old) # {},
         HumanVotes(E, StandingNow(W, E, s), new) = {},
         \A a \in W \ V : a.op = "ASSERT"
  PROVE  \E n \in notices', a \in W \ V :
           n.by = Identity(a) /\ n.subj = s /\ (n.old = old \/ n.new = new)
  <1>1. E \in Edges /\ Votes(V) /\ Votes(W)
    BY StepShape DEF TypeOK, Shape
  <1>2. ASSUME NEW p \in inflight, CommitEdge(p)
        PROVE  \E n \in notices', a \in W \ V :
                 n.by = Identity(a) /\ n.subj = s /\ n.old = old
    <2>1. W = V \cup {p.vote} /\ p.vote \notin V
          /\ Notices(V, E, p.vote) \subseteq notices'
      BY <1>2, CommitIs
    <2>2. PICK a : a = p.vote
      OBVIOUS
    <2>3. a \in W \ V /\ Votes(V \cup {a}) /\ a.op = "ASSERT"
      BY <1>1, <2>1, <2>2
    <2>4. W = V \cup {a}
      BY <2>1, <2>2
    <2>5. Turns(E, V, W, a, s, old, new)
      BY <1>1, <2>1, <2>2, <2>3, <2>4 DEF Turns
    <2>6. QED
      BY <2>1, <2>2, <2>3, <2>5, NoticeOf
  <1>3. ASSUME NEW e \in Emissions, Emit(e)
        PROVE  \E n \in notices', a \in W \ V :
                 n.by = Identity(a) /\ n.subj = s /\ (n.old = old \/ n.new = new)
    <2>1. PICK mid, a, b : /\ mid = AfterFirst(e).votes
                           /\ a = Entry(e[1], clock) /\ b = Entry(e[2], clock + 1)
      OBVIOUS
    <2>2. /\ \/ mid = V
             \/ a \notin V /\ mid = V \cup {a} /\ Notices(V, E, a) \subseteq notices'
          /\ \/ W = mid
             \/ b \notin mid /\ W = mid \cup {b} /\ Notices(mid, E, b) \subseteq notices'
          /\ Votes(mid) /\ a.origin = "model" /\ b.origin = "model"
      BY <1>3, <2>1, EmitNotices
    <2>3. PICK m : m = Parent(mid, E, s)
      OBVIOUS
    <2>4. ASSUME W # mid
          PROVE  /\ b \in W \ V /\ b.op = "ASSERT" /\ b \notin mid
                 /\ W = mid \cup {b} /\ Notices(mid, E, b) \subseteq notices'
                 /\ \A k : HumanVotes(E, StandingNow(W, E, s), k) =
                             HumanVotes(E, StandingNow(mid, E, s), k)
      <3>1. /\ b \in W \ V /\ b.op = "ASSERT" /\ b \notin mid
            /\ W = mid \cup {b} /\ Notices(mid, E, b) \subseteq notices'
        BY <2>2, <2>4
      <3>2. PICK V1 : V1 = W
        OBVIOUS
      <3>3. V1 = mid \cup {b} /\ Votes(mid \cup {b})
        BY <1>1, <3>1, <3>2
      <3>4. \A k : HumanVotes(E, StandingNow(mid \cup {b}, E, s), k) =
                     HumanVotes(E, StandingNow(mid, E, s), k)
        BY <2>2, <3>1, <3>3, HumansStay
      <3>5. QED
        BY <3>1, <3>2, <3>3, <3>4
    <2>5. ASSUME mid # V
          PROVE  /\ a \in W \ V /\ a.op = "ASSERT" /\ a \notin V
                 /\ mid = V \cup {a} /\ Notices(V, E, a) \subseteq notices'
                 /\ StandingNow(V, E, s) \subseteq StandingNow(mid, E, s)
      <3>1. /\ a \in W \ V /\ a.op = "ASSERT" /\ a \notin V
            /\ mid = V \cup {a} /\ Notices(V, E, a) \subseteq notices'
        BY <2>2, <2>5
      <3>2. QED
        BY <2>2, <3>1, HumansStay
    <2>6. \A k : HumanVotes(E, StandingNow(W, E, s), k) =
                   HumanVotes(E, StandingNow(mid, E, s), k)
      BY <2>4
    <2>7. /\ HumanVotes(E, StandingNow(mid, E, s), old) # {}
          /\ HumanVotes(E, StandingNow(mid, E, s), new) = {}
      BY <2>6
    <2>8. CASE m = old
      <3>1. W # mid
        BY <2>3, <2>8
      <3>2. b \notin mid /\ b.op = "ASSERT" /\ W = mid \cup {b}
        BY <2>4, <3>1
      <3>3. Turns(E, mid, W, b, s, old, new)
        BY <1>1, <2>3, <2>8, <3>2 DEF Turns
      <3>4. QED
        BY <2>4, <3>1, <3>3, NoticeOf
    <2>9. CASE m # old /\ HumanVotes(E, StandingNow(mid, E, s), m) = {}
      <3>1. mid # V
        BY <2>3, <2>9
      <3>2. m # None
        <4>1. Stand(E, PartOf(mid, E, s)) # {}
          <5>1. StandingNow(mid, E, s) # {}
            BY <2>7 DEF HumanVotes, For
          <5>2. QED
            BY <2>2, <5>1, ParentStands
        <4>2. QED
          BY <1>1, <2>2, <2>3, <4>1, ParentIn
      <3>3. Turns(E, V, mid, a, s, old, m)
        BY <1>1, <2>2, <2>3, <2>5, <2>7, <2>9, <3>1, <3>2 DEF Turns
      <3>4. QED
        BY <2>5, <3>1, <3>3, NoticeOf
    <2>10. CASE m # old /\ HumanVotes(E, StandingNow(mid, E, s), m) # {}
      <3>1. m # new /\ m # None
        <4>1. Stand(E, PartOf(mid, E, s)) # {}
          <5>1. StandingNow(mid, E, s) # {}
            BY <2>7 DEF HumanVotes, For
          <5>2. QED
            BY <2>2, <5>1, ParentStands
        <4>2. QED
          BY <1>1, <2>2, <2>3, <2>7, <2>10, <4>1, ParentIn
      <3>2. W # mid
        BY <2>3, <3>1
      <3>3. /\ b \notin mid /\ b.op = "ASSERT" /\ W = mid \cup {b}
            /\ HumanVotes(E, StandingNow(W, E, s), m) # {}
        BY <2>4, <2>6, <2>10, <3>2
      <3>4. Turns(E, mid, W, b, s, m, new)
        BY <1>1, <2>3, <3>1, <3>3 DEF Turns
      <3>5. QED
        BY <2>4, <3>2, <3>4, NoticeOf
    <2>11. QED
      BY <2>8, <2>9, <2>10
  <1>4. ASSUME NEW h \in Themes, ThemePass(h)
        PROVE  FALSE
    <2>1. PICK a \in Ballot(W \ V, E, s, "part_of") : TRUE
      BY MoveStep
    <2>2. PICK m \in Stored(h) : a = Joins(h, m)
      BY <1>4, <2>1, PassVotes DEF Ballot
    <2>3. m \in Subjects \ DOMAIN E /\ Parent(V, E, m) = None
      BY <1>4, <2>2, PassVotes DEF Stored, Joining
    <2>4. s = m
      BY <1>1, <2>1, <2>2, <2>3, CanonicalSelf DEF Ballot, End1, Joins
    <2>5. QED
      BY <2>3, <2>4
  <1>5. W # V
    OBVIOUS
  <1>6. QED
    BY <1>2, <1>3, <1>4, <1>5 DEF Next, PrepareEdge, Merge, Unmerge, vars

\* Model votes that turn an election against a human who stands by the old target
\* never go unnoticed, however the two votes of an emission share the work.
THEOREM OutvotedHumansAreNoticed == Spec => OutvotedHumanNoticed
  <1>1. TypeOK /\ Shape /\ [Next]_vars =>
          [merges' = merges =>
             \A s \in Subjects :
               LET old == Parent(votes, merges, s)
                   new == Parent(votes', merges, s)
                   S   == StandingNow(votes', merges, s)
               IN  /\ None \notin {old, new} /\ old # new
                   /\ HumanVotes(merges, S, old) # {} /\ HumanVotes(merges, S, new) = {}
                   /\ \A a \in votes' \ votes : a.op = "ASSERT"
                   => \E n \in notices', a \in votes' \ votes :
                        /\ n.by = Identity(a) /\ n.subj = s
                        /\ n.old = old \/ n.new = new]_vars
    BY NoticedStep
  <1>2. QED
    BY <1>1, ShapeAlways, PTL DEF Spec, OutvotedHumanNoticed


-----------------------------------------------------------------------------
\* Votes that differ in when they were recorded only, not in which of two votes
\* of one instant was recorded later, elect and decide the same.

Same(A, B, f) ==
  /\ \A x \in A : f[x] \in B
  /\ \A x, y \in A : f[x] = f[y] => x = y
  /\ \A z \in B : \E x \in A : f[x] = z
  /\ \A x \in A : /\ f[x].subj = x.subj /\ f[x].pred = x.pred /\ f[x].op = x.op
                  /\ f[x].key = x.key /\ f[x].vf = x.vf /\ f[x].origin = x.origin
  /\ \A x, y \in A : x.vf = y.vf => (x.rec > y.rec <=> f[x].rec > f[y].rec)

LEMMA SameOrder ==
  ASSUME NEW A, NEW B, NEW f, Same(A, B, f), Votes(A), Votes(B), NEW x \in A, NEW y \in A
  PROVE  /\ Vote(x) /\ Vote(y) /\ Vote(f[x]) /\ Vote(f[y])
         /\ Later(x, y) <=> Later(f[x], f[y])
         /\ Outranks(x, y) <=> Outranks(f[x], f[y])
         /\ \A edges : End2(edges, f[x]) = End2(edges, x) /\ End1(edges, f[x]) = End1(edges, x)
  <1>1. Vote(x) /\ Vote(y) /\ Vote(f[x]) /\ Vote(f[y])
    BY DEF Same, Votes
  <1>2. /\ x.rec \in Nat /\ y.rec \in Nat /\ f[x].rec \in Nat /\ f[y].rec \in Nat
        /\ x.vf \in Nat /\ y.vf \in Nat
    BY <1>1 DEF Vote
  <1>3. /\ f[x].key = x.key /\ f[x].vf = x.vf /\ f[x].origin = x.origin /\ f[x].subj = x.subj
        /\ f[y].key = y.key /\ f[y].vf = y.vf /\ f[y].origin = y.origin
    BY DEF Same
  <1>4. x.vf = y.vf => /\ x.rec > y.rec <=> f[x].rec > f[y].rec
                       /\ y.rec > x.rec <=> f[y].rec > f[x].rec
    BY DEF Same
  <1>5. x.vf = y.vf => (x.rec = y.rec <=> f[x].rec = f[y].rec)
    BY <1>2, <1>4
  <1>6. Later(x, y) <=> Later(f[x], f[y])
    BY <1>3, <1>4, <1>5 DEF Later
  <1>7. Human(x) = Human(f[x]) /\ Human(y) = Human(f[y])
    BY <1>3 DEF Human
  <1>8. Outranks(x, y) <=> Outranks(f[x], f[y])
    BY <1>3, <1>4, <1>7 DEF Outranks
  <1>9. \A edges : End2(edges, f[x]) = End2(edges, x) /\ End1(edges, f[x]) = End1(edges, x)
    BY <1>3 DEF End2, End1
  <1>10. QED
    BY <1>1, <1>6, <1>8, <1>9

LEMMA SameStand ==
  ASSUME NEW A, NEW B, NEW f, Same(A, B, f), Votes(A), Votes(B), NEW edges
  PROVE  Same(Stand(edges, A), Stand(edges, B), f)
  <1>1. \A x, y \in A : Retracts(edges, y, x) <=> Retracts(edges, f[y], f[x])
    <2>1. ASSUME NEW x \in A, NEW y \in A
          PROVE  Retracts(edges, y, x) <=> Retracts(edges, f[y], f[x])
      <3>1. /\ f[y].op = y.op /\ f[y].origin = y.origin /\ f[x].origin = x.origin
            /\ Later(y, x) <=> Later(f[y], f[x])
            /\ End2(edges, f[x]) = End2(edges, x) /\ End2(edges, f[y]) = End2(edges, y)
        BY SameOrder DEF Same
      <3>2. QED
        BY <3>1 DEF Retracts
    <2>2. QED
      BY <2>1
  <1>2. \A x \in A : x \in Stand(edges, A) <=> f[x] \in Stand(edges, B)
    BY <1>1 DEF Same, Stand, Asserts
  <1>3. Stand(edges, A) \subseteq A /\ Stand(edges, B) \subseteq B
    BY DEF Stand, Asserts
  <1>4. QED
    BY <1>2, <1>3 DEF Same

LEMMA SameSize ==
  ASSUME NEW A, NEW B, NEW f, IsFiniteSet(A), \A x \in A : f[x] \in B,
         \A x, y \in A : f[x] = f[y] => x = y, \A z \in B : \E x \in A : f[x] = z
  PROVE  Cardinality(A) = Cardinality(B)
  <1> DEFINE g == [x \in A |-> f[x]]
  <1>1. g \in Bijection(A, B)
    BY DEF Bijection, Injection, Surjection, IsInjective
  <1>2. ExistsBijection(A, B)
    BY <1>1 DEF ExistsBijection
  <1>3. QED
    BY <1>2, FS_Bijection

LEMMA SameElected ==
  ASSUME NEW S, NEW T, NEW f, Same(S, T, f), Votes(S), Votes(T), NEW edges
  PROVE  Elected(edges, S) = Elected(edges, T)
  <1>1. \A x \in S : End2(edges, f[x]) = End2(edges, x)
    BY SameOrder
  <1>2. Targets(edges, S) = Targets(edges, T)
    BY <1>1 DEF Same, Targets
  <1>3. ASSUME NEW k
        PROVE  Weight(edges, S, k) = Weight(edges, T, k)
    <2>1. /\ \A x \in S : x \in HumanVotes(edges, S, k) <=> f[x] \in HumanVotes(edges, T, k)
          /\ \A x \in S : x \in ModelVotes(edges, S, k) <=> f[x] \in ModelVotes(edges, T, k)
      BY <1>1 DEF Same, HumanVotes, ModelVotes, For
    <2>2. /\ HumanVotes(edges, S, k) \subseteq S /\ HumanVotes(edges, T, k) \subseteq T
          /\ ModelVotes(edges, S, k) \subseteq S /\ ModelVotes(edges, T, k) \subseteq T
      BY DEF HumanVotes, ModelVotes, For
    <2>3. /\ \A x, y \in S : f[x] = f[y] => x = y
          /\ \A z \in T : \E x \in S : f[x] = z
      BY DEF Same
    <2>4. IsFiniteSet(HumanVotes(edges, S, k)) /\ IsFiniteSet(ModelVotes(edges, S, k))
      BY WeightNat
    <2>5. Cardinality(HumanVotes(edges, S, k)) = Cardinality(HumanVotes(edges, T, k))
      <3> DEFINE X == HumanVotes(edges, S, k)
                 Y == HumanVotes(edges, T, k)
      <3>1. /\ IsFiniteSet(X) /\ (\A x \in X : f[x] \in Y)
            /\ \A x, y \in X : f[x] = f[y] => x = y
            /\ \A z \in Y : \E x \in X : f[x] = z
        BY <2>1, <2>2, <2>3, <2>4
      <3> HIDE DEF X, Y
      <3>2. Cardinality(X) = Cardinality(Y)
        BY <3>1, SameSize
      <3>3. QED
        BY <3>2 DEF X, Y
    <2>6. Cardinality(ModelVotes(edges, S, k)) = Cardinality(ModelVotes(edges, T, k))
      <3> DEFINE X == ModelVotes(edges, S, k)
                 Y == ModelVotes(edges, T, k)
      <3>1. /\ IsFiniteSet(X) /\ (\A x \in X : f[x] \in Y)
            /\ \A x, y \in X : f[x] = f[y] => x = y
            /\ \A z \in Y : \E x \in X : f[x] = z
        BY <2>1, <2>2, <2>3, <2>4
      <3> HIDE DEF X, Y
      <3>2. Cardinality(X) = Cardinality(Y)
        BY <3>1, SameSize
      <3>3. QED
        BY <3>2 DEF X, Y
    <2>7. QED
      BY <2>5, <2>6 DEF Weight
  <1>4. ASSUME NEW k \in Targets(edges, S)
        PROVE  /\ LatestFor(edges, S, k) \in S
               /\ LatestFor(edges, T, k).vf = f[LatestFor(edges, S, k)].vf
               /\ LatestFor(edges, T, k).rec = f[LatestFor(edges, S, k)].rec
               /\ LatestFor(edges, T, k).key = f[LatestFor(edges, S, k)].key
    <2> DEFINE a == LatestFor(edges, S, k)
               b == LatestFor(edges, T, k)
    <2>1. For(edges, S, k) # {} /\ For(edges, T, k) # {}
      BY <1>2 DEF Targets, For
    <2>2. /\ a \in For(edges, S, k) /\ \A x \in For(edges, S, k) : ~ Later(x, a)
          /\ b \in For(edges, T, k) /\ \A x \in For(edges, T, k) : ~ Later(x, b)
      BY <2>1, LatestExists
    <2> HIDE DEF a, b
    <2>3. a \in S /\ b \in T /\ f[a] \in T
      BY <2>2 DEF For, Same
    <2>4. PICK c \in S : f[c] = b
      BY <2>3 DEF Same
    <2>5. c \in For(edges, S, k) /\ f[a] \in For(edges, T, k)
      BY <1>1, <2>2, <2>3, <2>4 DEF For
    <2>6. ~ Later(f[a], b) /\ ~ Later(b, f[a])
      <3>1. ~ Later(c, a)
        BY <2>2, <2>5
      <3>2. ~ Later(f[c], f[a])
        BY <2>3, <3>1, SameOrder
      <3>3. QED
        BY <2>2, <2>4, <2>5, <3>2
    <2>7. Vote(f[a]) /\ Vote(b)
      BY <2>3 DEF Votes
    <2>8. QED
      BY <2>3, <2>6, <2>7, Level DEF a, b
  <1>5. \A j, k \in Targets(edges, S) : Beats(edges, S, k, j) <=> Beats(edges, T, k, j)
    <2>1. ASSUME NEW j \in Targets(edges, S), NEW k \in Targets(edges, S)
          PROVE  Beats(edges, S, k, j) <=> Beats(edges, T, k, j)
      <3> DEFINE aj == LatestFor(edges, S, j)
                 ak == LatestFor(edges, S, k)
                 bj == LatestFor(edges, T, j)
                 bk == LatestFor(edges, T, k)
      <3>1. /\ aj \in S /\ ak \in S
            /\ bj.vf = f[aj].vf /\ bj.rec = f[aj].rec /\ bj.key = f[aj].key
            /\ bk.vf = f[ak].vf /\ bk.rec = f[ak].rec /\ bk.key = f[ak].key
        BY <1>4
      <3> HIDE DEF aj, ak, bj, bk
      <3>2. Later(ak, aj) <=> Later(f[ak], f[aj])
        BY <3>1, SameOrder
      <3>3. Later(bk, bj) <=> Later(f[ak], f[aj])
        BY <3>1, LaterAlike
      <3>4. Later(ak, aj) <=> Later(bk, bj)
        BY <3>2, <3>3
      <3>5. QED
        BY <1>3, <3>4 DEF Beats, aj, ak, bj, bk
    <2>2. QED
      BY <2>1
  <1>6. CASE S = {}
    BY <1>2, <1>6 DEF Elected, Targets
  <1>7. CASE S # {}
    <2> DEFINE e == Elected(edges, S)
    <2>1. e \in Targets(edges, S) /\ \A j \in Targets(edges, S) \ {e} : Beats(edges, S, e, j)
      BY <1>7, Winner
    <2> HIDE DEF e
    <2>2. e \in Targets(edges, T) /\ \A j \in Targets(edges, T) \ {e} : Beats(edges, T, e, j)
      BY <1>2, <1>5, <2>1
    <2>3. Elected(edges, T) = e
      BY <2>2, WinnerOnly
    <2>4. QED
      BY <2>3 DEF e
  <1>8. QED
    BY <1>6, <1>7

\* spawned_from: the vote that outranks all others of the ballot decides.
LEMMA BirthplaceOf ==
  ASSUME NEW stored, Votes(stored), stored \subseteq VoteType, NEW edges, NEW s,
         NEW w \in Ballot(stored, edges, s, "spawned_from"),
         \A o \in Ballot(stored, edges, s, "spawned_from") \ {w} : Outranks(w, o)
  PROVE  Birthplace(stored, edges, s) = IF w.op = "ASSERT" THEN End2(edges, w) ELSE None
  <1> DEFINE A == Ballot(stored, edges, s, "spawned_from")
             img(a) == [a EXCEPT !.subj = s, !.key = End2(edges, a)]
             I == {img(a) : a \in A}
  <1>1. Votes(A) /\ A \subseteq VoteType
    BY BallotVotes
  <1>2. ASSUME NEW a \in A
        PROVE  /\ img(a).vf = a.vf /\ img(a).rec = a.rec /\ img(a).origin = a.origin
               /\ img(a).op = a.op /\ img(a).key = End2(edges, a) /\ a.vf \in Nat
               /\ a.rec \in Nat
    <2>1. a \in VoteType
      BY <1>1
    <2>2. QED
      BY <2>1 DEF VoteType
  <1>3. \A a, b \in A : Outranks(img(a), img(b)) <=> Outranks(a, b)
    BY <1>2 DEF Outranks, Human
  <1>4. \A o \in A \ {w} : w.vf >= o.vf /\ ~ Outranks(o, w)
    <2>1. ASSUME NEW o \in A \ {w}
          PROVE  w.vf >= o.vf /\ ~ Outranks(o, w)
      <3>1. Outranks(w, o)
        OBVIOUS
      <3>2. Human(w) \in 0 .. 1 /\ Human(o) \in 0 .. 1
        BY HumanType
      <3>3. w.vf \in Nat /\ o.vf \in Nat /\ w.rec \in Nat /\ o.rec \in Nat
        BY <1>2
      <3>4. QED
        BY <3>1, <3>2, <3>3 DEF Outranks
    <2>2. QED
      BY <2>1
  <1>5. ~ Outranks(w, w) /\ w \in A /\ w.vf \in Nat /\ w.vf >= w.vf
    <2>1. Human(w) \in 0 .. 1 /\ w.vf \in Nat /\ w.rec \in Nat
      BY <1>2, HumanType
    <2>2. QED
      BY <2>1 DEF Outranks
  <1>6. IsFiniteSet(I)
    <2> DEFINE g == [a \in A |-> img(a)]
    <2>1. DOMAIN g = A /\ I = {g[a] : a \in DOMAIN g}
      OBVIOUS
    <2> HIDE DEF g, I
    <2>2. QED
      BY <1>1, <2>1, FiniteImage DEF Votes
  <1>7. Birthplace(stored, edges, s) = IF I = {} THEN None ELSE Decided(I, Max(Instants(I)))
    BY DEF Birthplace
  <1> HIDE DEF A, img
  <1>8. I # {} /\ \A i \in I : i.vf \in Nat /\ i.vf <= w.vf
    BY <1>2, <1>4, <1>5
  <1>9. Instants(I) = {a.vf : a \in A}
    BY <1>2 DEF Instants
  <1>10. Max(Instants(I)) = w.vf
    <2> DEFINE m == Max(Instants(I))
    <2>1. m \in Instants(I) /\ \A u \in Instants(I) : u <= m
      <3> HIDE DEF I
      <3>1. QED
        BY <1>6, <1>8, LastOf
    <2>2. w.vf \in Instants(I)
      BY <1>5, <1>9
    <2> HIDE DEF m
    <2>3. m \in Nat /\ m <= w.vf
      BY <1>8, <2>1 DEF Instants
    <2>4. QED
      BY <1>5, <2>1, <2>2, <2>3 DEF m
  <1>11. /\ img(w) \in At(I, w.vf) /\ At(I, w.vf) \subseteq I
         /\ \A o \in At(I, w.vf) : ~ Outranks(o, img(w))
         /\ \A o \in At(I, w.vf) : o # img(w) => Outranks(img(w), o)
    <2>1. img(w) \in At(I, w.vf) /\ At(I, w.vf) \subseteq I
      BY <1>2, <1>5 DEF At
    <2>2. \A o \in I : ~ Outranks(o, img(w))
      BY <1>3, <1>4, <1>5
    <2>3. \A o \in I : o # img(w) => Outranks(img(w), o)
      <3>1. ASSUME NEW a \in A, img(a) # img(w)
            PROVE  Outranks(img(w), img(a))
        <4>1. a # w
          BY <3>1
        <4>2. Outranks(w, a)
          BY <4>1 DEF A
        <4>3. QED
          BY <1>3, <1>5, <4>2
      <3>2. QED
        BY <3>1
    <2>4. QED
      BY <2>1, <2>2, <2>3
  <1>12. Top(At(I, w.vf)) = img(w)
    <2> HIDE DEF I
    <2>1. QED
      BY <1>11 DEF Top
  <1>13. QED
    BY <1>2, <1>5, <1>7, <1>8, <1>10, <1>12 DEF Decided

\* Votes of one instant and one recording are one vote.
Stamps(A) == \A x, y \in A : x.vf = y.vf /\ x.rec = y.rec => x = y

LEMMA FirstRanked ==
  ASSUME NEW A, Votes(A), Stamps(A), A # {}
  PROVE  \E w \in A : \A o \in A \ {w} : Outranks(w, o)
  <1> DEFINE R == {x \in A \X A : Outranks(x[1], x[2])}
  <1>1. \A x, y \in A : x # y => Outranks(x, y) \/ Outranks(y, x)
    <2>1. ASSUME NEW x \in A, NEW y \in A, x # y
          PROVE  Outranks(x, y) \/ Outranks(y, x)
      <3>1. x.vf \in Nat /\ y.vf \in Nat /\ x.rec \in Nat /\ y.rec \in Nat
        BY DEF Votes, Vote
      <3>2. x.vf # y.vf \/ x.rec # y.rec
        BY <2>1 DEF Stamps
      <3>3. QED
        BY <3>1, <3>2, HumanType DEF Outranks
    <2>2. QED
      BY <2>1
  <1>2. \A x \in A : ~ Outranks(x, x)
    BY HumanType DEF Outranks, Votes, Vote
  <1>3. \A x, y, z \in A : Outranks(x, y) /\ Outranks(y, z) => Outranks(x, z)
    BY HumanType DEF Outranks, Votes, Vote
  <1>4. /\ \A x \in A : <<x, x>> \notin R
        /\ \A x, y, z \in A : <<x, y>> \in R /\ <<y, z>> \in R => <<x, z>> \in R
    BY <1>2, <1>3
  <1>5. \E x \in A : \A y \in A : <<y, x>> \notin R
    <2> HIDE DEF R
    <2>1. QED
      BY <1>4, MaximalExists DEF Votes
  <1>6. QED
    BY <1>1, <1>5

LEMMA SameBirth ==
  ASSUME NEW V, Votes(V), V \subseteq VoteType, NEW W, Votes(W), W \subseteq VoteType,
         NEW edges, NEW s, NEW f, Stamps(Ballot(V, edges, s, "spawned_from")),
         Same(Ballot(V, edges, s, "spawned_from"), Ballot(W, edges, s, "spawned_from"), f)
  PROVE  Birthplace(V, edges, s) = Birthplace(W, edges, s)
  <1> DEFINE A == Ballot(V, edges, s, "spawned_from")
             B == Ballot(W, edges, s, "spawned_from")
  <1>1. Votes(A) /\ Votes(B) /\ Stamps(A) /\ Same(A, B, f)
    BY BallotVotes
  <1>2. CASE A = {}
    <2>1. B = {}
      BY <1>1, <1>2 DEF Same
    <2>2. QED
      BY <1>2, <2>1 DEF Birthplace
  <1>3. CASE A # {}
    <2> HIDE DEF A, B
    <2>1. PICK w \in A : \A o \in A \ {w} : Outranks(w, o)
      BY <1>1, <1>3, FirstRanked
    <2>2. f[w] \in B /\ f[w].op = w.op /\ End2(edges, f[w]) = End2(edges, w)
      BY <1>1, SameOrder DEF Same
    <2>3. \A z \in B \ {f[w]} : Outranks(f[w], z)
      <3>1. ASSUME NEW z \in B \ {f[w]}
            PROVE  Outranks(f[w], z)
        <4>1. PICK o \in A : f[o] = z
          BY <1>1 DEF Same
        <4>2. Outranks(w, o)
          BY <2>1, <4>1
        <4>3. QED
          BY <1>1, <4>1, <4>2, SameOrder
      <3>2. QED
        BY <3>1
    <2>4. Birthplace(V, edges, s) = IF w.op = "ASSERT" THEN End2(edges, w) ELSE None
      BY <2>1, BirthplaceOf DEF A
    <2>5. Birthplace(W, edges, s) = IF w.op = "ASSERT" THEN End2(edges, w) ELSE None
      BY <2>2, <2>3, BirthplaceOf DEF B
    <2>6. QED
      BY <2>4, <2>5
  <1>4. QED
    BY <1>2, <1>3

\* Two tables of the same votes, recorded at other instants.
Alike(edges, V, W, f) ==
  /\ \A x \in V : f[x] \in W
  /\ \A x, y \in V : f[x] = f[y] => x = y
  /\ \A z \in W : \E x \in V : f[x] = z
  /\ \A x \in V : /\ f[x].subj = x.subj /\ f[x].pred = x.pred /\ f[x].op = x.op
                  /\ f[x].key = x.key /\ f[x].vf = x.vf /\ f[x].origin = x.origin
  /\ \A x, y \in V : /\ x.pred = y.pred /\ End1(edges, x) = End1(edges, y)
                     /\ x.vf = y.vf
                     => (x.rec > y.rec <=> f[x].rec > f[y].rec)

LEMMA AlikeGraphs ==
  ASSUME NEW V, Votes(V), V \subseteq VoteType, NEW W, Votes(W), W \subseteq VoteType,
         NEW edges, NEW f, Alike(edges, V, W, f),
         \A s \in Subjects : Stamps(Ballot(V, edges, s, "spawned_from"))
  PROVE  Cyclic(V, edges) <=> Cyclic(W, edges)
  <1>1. ASSUME NEW s, NEW p
        PROVE  Same(Ballot(V, edges, s, p), Ballot(W, edges, s, p), f)
    <2> DEFINE A == Ballot(V, edges, s, p)
               B == Ballot(W, edges, s, p)
    <2>1. \A x \in V : End1(edges, f[x]) = End1(edges, x) /\ f[x].pred = x.pred /\ f[x] \in W
      BY DEF Alike, End1
    <2>2. /\ A \subseteq V /\ B \subseteq W /\ (\A x \in V : x \in A <=> f[x] \in B)
          /\ \A x, y \in A : x.pred = y.pred /\ End1(edges, x) = End1(edges, y)
      BY <2>1 DEF Ballot
    <2> HIDE DEF A, B
    <2>3. Same(A, B, f)
      BY <2>2 DEF Same, Alike
    <2>4. QED
      BY <2>3 DEF A, B
  <1>2. ASSUME NEW s \in Subjects
        PROVE  Active(V, edges, s) = Active(W, edges, s)
    <2>1. Birthplace(V, edges, s) = Birthplace(W, edges, s)
      BY <1>1, SameBirth
    <2> DEFINE A == PartOf(V, edges, s)
               B == PartOf(W, edges, s)
    <2>2. Votes(A) /\ Votes(B) /\ Same(A, B, f)
      BY <1>1, BallotVotes DEF PartOf
    <2> HIDE DEF A, B
    <2>3. Same(Stand(edges, A), Stand(edges, B), f)
      BY <2>2, SameStand
    <2>4. Elected(edges, Stand(edges, A)) = Elected(edges, Stand(edges, B))
      BY <2>2, <2>3, StandVotes, SameElected
    <2>5. Parent(V, edges, s) = Parent(W, edges, s)
      BY <2>4, ParentStands DEF A, B
    <2>6. QED
      BY <2>1, <2>5 DEF Active
  <1>3. QED
    BY <1>2 DEF Cyclic

-----------------------------------------------------------------------------
\* Graphs.  G says where each node leads; Loops is what Cyclic is about.

Loops(N, G) == \E S \in SUBSET N : S # {} /\ \A x \in S : G[x] \cap S # {}

\* Nodes of C that lead to r besides can close a loop only if one of them does
\* so alone: a loop passes through r once, and leaves C for it once.
Extends(N, G, H, C, r) ==
  /\ \A x \in N \ C : H[x] = G[x]
  /\ \A x \in N \cap C : H[x] \subseteq G[x] \cup {r}

LoopsThrough(N, G, H, t) ==
  \E K \in SUBSET N :
    /\ t \in K /\ H[t] \cap K # {}
    /\ \A x \in K \ {t} : G[x] \cap K # {}

LEMMA OneCloses ==
  ASSUME NEW N, NEW G, NEW H, NEW C, NEW r, Loops(N, H), Extends(N, G, H, C, r),
         ~ Loops(N, G)
  PROVE  \E t \in N \cap C : LoopsThrough(N, G, H, t)
  <1> USE DEF Extends
  <1>1. PICK S \in SUBSET N : S # {} /\ \A x \in S : H[x] \cap S # {}
    BY DEF Loops
  <1>2. \A x \in N : H[x] \subseteq G[x] \cup {r}
    OBVIOUS
  <1>3. r \in S
    <2>1. ASSUME r \notin S
          PROVE  FALSE
      <3>1. \A x \in S : G[x] \cap S # {}
        BY <1>1, <1>2, <2>1
      <3>2. QED
        BY <1>1, <3>1 DEF Loops
    <2>2. QED
      BY <2>1
  <1> DEFINE Onward(T) == T \subseteq S /\ r \in T /\ \A x \in T : G[x] \cap S \subseteq T
             T == {x \in S : \A U \in SUBSET S : Onward(U) => x \in U}
  <1>4. Onward(T)
    <2>1. r \in T /\ T \subseteq S
      BY <1>3
    <2>2. ASSUME NEW x \in T, NEW y \in G[x] \cap S, NEW U \in SUBSET S, Onward(U)
          PROVE  y \in U
      BY <2>2
    <2>3. QED
      BY <2>1, <2>2
  <1>5. \A U \in SUBSET S : Onward(U) => T \subseteq U
    OBVIOUS
  <1> HIDE DEF T
  <1>6. PICK t \in T : G[t] \cap T = {}
    <2>1. T \in SUBSET N /\ T # {}
      BY <1>4
    <2>2. QED
      BY <2>1 DEF Loops
  <1>7. t \in S /\ G[t] \cap S = {}
    BY <1>4, <1>6
  <1>8. t \in N \cap C /\ r \in H[t]
    BY <1>1, <1>2, <1>7
  <1> DEFINE Back(K) == K \subseteq T /\ t \in K /\ \A x \in T : G[x] \cap K # {} => x \in K
             K == {x \in T : \A U \in SUBSET T : Back(U) => x \in U}
  <1>9. Back(K)
    <2>1. t \in K /\ K \subseteq T
      OBVIOUS
    <2>2. ASSUME NEW x \in T, NEW y \in G[x] \cap K, NEW U \in SUBSET T, Back(U)
          PROVE  x \in U
      BY <2>2
    <2>3. QED
      BY <2>1, <2>2
  <1>10. \A U \in SUBSET T : Back(U) => K \subseteq U
    OBVIOUS
  <1> HIDE DEF K
  <1>11. r \in K
    <2>1. ASSUME r \notin K
          PROVE  FALSE
      <3>1. T \ K \in SUBSET S /\ r \in T \ K
        BY <1>4, <2>1
      <3>2. \A x \in T \ K : G[x] \cap S \subseteq T \ K
        BY <1>4, <1>9
      <3>3. T \subseteq T \ K
        BY <1>5, <3>1, <3>2
      <3>4. QED
        BY <1>9, <3>3
    <2>2. QED
      BY <2>1
  <1>12. ASSUME NEW x \in K \ {t}
         PROVE  G[x] \cap K # {}
    <2>1. ASSUME G[x] \cap K = {}
          PROVE  FALSE
      <3>1. Back(K \ {x})
        BY <1>9, <2>1
      <3>2. K \subseteq K \ {x}
        BY <1>9, <1>10, <3>1
      <3>3. QED
        BY <3>2
    <2>2. QED
      BY <2>1
  <1>13. K \in SUBSET N /\ t \in K /\ H[t] \cap K # {}
    BY <1>4, <1>8, <1>9, <1>11
  <1>14. QED
    BY <1>8, <1>12, <1>13 DEF LoopsThrough

-----------------------------------------------------------------------------
\* The theme pass.

\* Members of a theme that may join: goals of their own without a parent.
Free(h) == {m \in h.members \ (DOMAIN merges \cup {h.root}) : Parent(votes, merges, m) = None}

\* The table once the members in C have joined.
Joined(h, C) == votes \cup {Joins(h, m) : m \in C}

LEMMA JoinsVote ==
  ASSUME TypeOK, Shape, NEW h \in Themes, NEW m \in Free(h)
  PROVE  /\ m \in Subjects \ DOMAIN merges /\ Joins(h, m) \in VoteType /\ Vote(Joins(h, m))
         /\ End1(merges, Joins(h, m)) = m
         /\ End2(merges, Joins(h, m)) = Canonical(merges, h.root)
         /\ Canonical(merges, h.root) \in Subjects
  <1>1. h.root \in Subjects /\ h.members \subseteq Subjects /\ clock \in Nat
        /\ merges \in Edges /\ "part_of" \in Predicates /\ "theme" \in Sources
        /\ h.root # Star
    BY StructureAssumption DEF TypeOK
  <1>2. m \in Subjects /\ m \notin DOMAIN merges
    BY <1>1 DEF Free
  <1>3. Joins(h, m) \in VoteType /\ Vote(Joins(h, m))
    BY <1>1, <1>2 DEF VoteType, Vote, Joins
  <1>4. Canonical(merges, m) = m /\ Canonical(merges, h.root) \in Subjects
    BY <1>1, <1>2, CanonicalSelf, CanonicalInChain
  <1>5. QED
    BY <1>1, <1>2, <1>3, <1>4 DEF End1, End2, Joins

LEMMA JoinedVotes ==
  ASSUME TypeOK, Shape, NEW h \in Themes, NEW C \in SUBSET Free(h)
  PROVE  Votes(Joined(h, C))
  <1> DEFINE f == [m \in C |-> Joins(h, m)]
  <1>1. IsFiniteSet(C)
    <2>1. C \in SUBSET h.members
      BY DEF Free
    <2>2. IsFiniteSet(h.members)
      BY StructureAssumption
    <2>3. QED
      BY <2>1, <2>2, FS_Subset
  <1>2. DOMAIN f = C /\ {Joins(h, m) : m \in C} = {f[m] : m \in DOMAIN f}
    OBVIOUS
  <1> HIDE DEF f
  <1>3. IsFiniteSet({Joins(h, m) : m \in C})
    BY <1>1, <1>2, FiniteImage
  <1>4. \A m \in C : Vote(Joins(h, m))
    BY JoinsVote
  <1>5. QED
    BY <1>3, <1>4, FS_Union DEF Joined, Shape, Votes

\* Where a member leads once it has joined by itself.
Alone(h, m) == Parent(Joined(h, {m}), merges, m)

\* A member that joins leads to the root at most besides where it led before,
\* and nobody else leads elsewhere.
LEMMA JoinedGraph ==
  ASSUME TypeOK, Shape, NEW h \in Themes, NEW C \in SUBSET Free(h),
         NEW s \in Subjects \ DOMAIN merges
  PROVE  /\ Birthplace(Joined(h, C), merges, s) = Birthplace(votes, merges, s)
         /\ s \notin C => Parent(Joined(h, C), merges, s) = Parent(votes, merges, s)
         /\ s \in C => /\ Parent(Joined(h, C), merges, s) = Alone(h, s)
                       /\ Parent(votes, merges, s) = None
                       /\ Alone(h, s) \in {None, Canonical(merges, h.root)}
  <1> DEFINE W == Joined(h, C)
  <1>1. \A m \in C : End1(merges, Joins(h, m)) = m
    BY JoinsVote
  <1>2. \A m : Joins(h, m).pred = "part_of"
    BY DEF Joins
  <1>3. Ballot(W, merges, s, "spawned_from") = Ballot(votes, merges, s, "spawned_from")
    BY <1>2 DEF Joined, Ballot
  <1>4. Birthplace(W, merges, s) = Birthplace(votes, merges, s)
    BY <1>3 DEF Birthplace
  <1>5. ASSUME s \notin C
        PROVE  Parent(W, merges, s) = Parent(votes, merges, s)
    <2>1. Ballot(W, merges, s, "part_of") = Ballot(votes, merges, s, "part_of")
      BY <1>1, <1>5 DEF Joined, Ballot
    <2>2. QED
      BY <2>1 DEF Parent
  <1>6. ASSUME s \in C
        PROVE  /\ Parent(W, merges, s) = Alone(h, s)
               /\ Parent(votes, merges, s) = None
               /\ Alone(h, s) \in {None, Canonical(merges, h.root)}
    <2> DEFINE X == Joined(h, {s})
               A == PartOf(votes, merges, s)
               B == PartOf(X, merges, s)
               j == Joins(h, s)
    <2>1. Ballot(W, merges, s, "part_of") = Ballot(X, merges, s, "part_of")
      BY <1>1, <1>6 DEF Joined, Ballot
    <2>2. Parent(W, merges, s) = Alone(h, s)
      BY <2>1 DEF Parent, Alone
    <2>3. Parent(votes, merges, s) = None
      BY <1>6 DEF Free
    <2>4. Votes(votes) /\ Votes(X) /\ merges \in Edges
      BY <1>6, JoinedVotes DEF Shape, TypeOK
    <2>5. Stand(merges, A) = {}
      BY <2>3, <2>4, ParentIn
    <2>6. B = A \cup {j} /\ j.pred = "part_of"
      BY <1>1, <1>2, <1>6 DEF PartOf, Joined, Ballot
    <2>7. Stand(merges, B) \subseteq {j}
      BY <2>5, <2>6 DEF Stand, Asserts
    <2>8. Alone(h, s) # None => Alone(h, s) \in Targets(merges, Stand(merges, B))
      BY <2>4, ParentIn DEF Alone
    <2>9. End2(merges, j) = Canonical(merges, h.root)
      BY <1>6, JoinsVote
    <2>10. QED
      BY <2>2, <2>3, <2>7, <2>8, <2>9 DEF Targets
  <1>7. QED
    BY <1>4, <1>5, <1>6

\* The graph of a table, as a function.
Leads(V) == [s \in Subjects \ DOMAIN merges |-> Active(V, merges, s)]

LEMMA CyclicLoops ==
  ASSUME NEW V
  PROVE  Cyclic(V, merges) <=> Loops(Subjects \ DOMAIN merges, Leads(V))
  BY DEF Cyclic, Loops, Leads

\* One member closes a cycle or none does.
LEMMA PassCloses ==
  ASSUME TypeOK, Shape, NEW h \in Themes, NEW C \in SUBSET Free(h),
         Cyclic(Joined(h, C), merges)
  PROVE  Cyclic(votes, merges) \/ \E t \in C : Cyclic(Joined(h, {t}), merges)
  <1> DEFINE N == Subjects \ DOMAIN merges
             G == Leads(votes)
             H == Leads(Joined(h, C))
             r == Canonical(merges, h.root)
  <1>1. Loops(N, H)
    BY CyclicLoops
  <1>2. \A x \in N \ C : H[x] = G[x]
    BY JoinedGraph DEF Leads, Active
  <1>3. \A x \in N \cap C : H[x] \subseteq G[x] \cup {r}
    BY JoinedGraph DEF Leads, Active
  <1>4. Loops(N, G) => Cyclic(votes, merges)
    BY CyclicLoops
  <1>5. ASSUME NEW t \in N \cap C, NEW K \in SUBSET N, t \in K, H[t] \cap K # {},
               \A x \in K \ {t} : G[x] \cap K # {}
        PROVE  Cyclic(Joined(h, {t}), merges)
    <2> DEFINE A == Leads(Joined(h, {t}))
    <2>1. {t} \in SUBSET Free(h)
      OBVIOUS
    <2>2. A[t] = H[t]
      BY <2>1, JoinedGraph DEF Leads, Active
    <2>3. \A x \in N \ {t} : A[x] = G[x]
      BY <2>1, JoinedGraph DEF Leads, Active
    <2> HIDE DEF A, G, H, N
    <2>4. \A x \in K : A[x] \cap K # {}
      BY <1>5, <2>2, <2>3
    <2>5. Loops(N, A)
      BY <1>5, <2>4 DEF Loops
    <2>6. QED
      BY <2>5, CyclicLoops DEF A, N
  <1> HIDE DEF N, G, H, r
  <1>6. Extends(N, G, H, C, r)
    BY <1>2, <1>3 DEF Extends
  <1>7. CASE ~ Loops(N, G)
    <2>1. PICK t \in N \cap C : LoopsThrough(N, G, H, t)
      BY <1>1, <1>6, <1>7, OneCloses
    <2>2. Cyclic(Joined(h, {t}), merges)
      BY <1>5, <2>1 DEF LoopsThrough
    <2>3. QED
      BY <2>2
  <1>8. QED
    BY <1>4, <1>7

\* More members that join break no cycle.
LEMMA PassOpensNone ==
  ASSUME TypeOK, Shape, NEW h \in Themes, NEW C \in SUBSET Free(h), NEW D \in SUBSET C,
         Cyclic(Joined(h, D), merges)
  PROVE  Cyclic(Joined(h, C), merges)
  <1>1. D \in SUBSET Free(h)
    OBVIOUS
  <1>2. ASSUME NEW s \in Subjects \ DOMAIN merges
        PROVE  Active(Joined(h, D), merges, s) \subseteq Active(Joined(h, C), merges, s)
    <2>1. Birthplace(Joined(h, D), merges, s) = Birthplace(Joined(h, C), merges, s)
      BY <1>1, JoinedGraph
    <2>2. Parent(Joined(h, D), merges, s) \in {None, Parent(Joined(h, C), merges, s)}
      <3>1. CASE s \in D
        BY <1>1, <3>1, JoinedGraph
      <3>2. CASE s \notin D /\ s \in C
        BY <1>1, <3>2, JoinedGraph
      <3>3. CASE s \notin C
        BY <1>1, <3>3, JoinedGraph
      <3>4. QED
        BY <3>1, <3>2, <3>3
    <2>3. QED
      BY <2>1, <2>2 DEF Active
  <1>3. QED
    BY <1>2 DEF Cyclic

LEMMA GateOfJoins ==
  ASSUME TypeOK, Shape, NEW h \in Themes, NEW m \in Free(h), NEW D \in SUBSET Free(h), m \notin D
  PROVE  /\ Repeats(Joined(h, D), merges, Joins(h, m)) <=> Repeats(votes, merges, Joins(h, m))
         /\ Joined(h, {}) = votes
         /\ Repeats(votes, merges, Joins(h, m)) =>
              With(Joined(h, D), merges, {Joins(h, m)}) = Joined(h, D)
         /\ ~ Repeats(votes, merges, Joins(h, m)) =>
              With(Joined(h, D), merges, {Joins(h, m)}) = Joined(h, D \cup {m})
  <1> DEFINE a == Joins(h, m)
  <1>1. \A x \in D : Identity(Joins(h, x)) # Identity(a)
    <2>1. ASSUME NEW x \in D
          PROVE  Identity(Joins(h, x)) # Identity(a)
      <3>1. Identity(Joins(h, x)).subj = x /\ Identity(a).subj = m
        BY DEF Identity, Joins
      <3>2. x # m
        OBVIOUS
      <3>3. QED
        BY <3>1, <3>2
    <2>2. QED
      BY <2>1
  <1>2. \A x \in D : End1(merges, Joins(h, x)) = x
    BY JoinsVote
  <1>3. End1(merges, a) = m
    BY JoinsVote
  <1>4. Ballot(Joined(h, D), merges, m, "part_of") = Ballot(votes, merges, m, "part_of")
    BY <1>2 DEF Joined, Ballot
  <1>5. a.pred = "part_of"
    BY DEF Joins
  <1> HIDE DEF a
  <1>6. Repeats(Joined(h, D), merges, a) <=> Repeats(votes, merges, a)
    <2>1. \A b \in Joined(h, D) : Identity(b) = Identity(a) => b \in votes
      BY <1>1 DEF Joined
    <2>2. votes \subseteq Joined(h, D)
      BY DEF Joined
    <2>3. QED
      BY <1>3, <1>4, <1>5, <2>1, <2>2 DEF Repeats
  <1>7. Joined(h, D \cup {m}) = Joined(h, D) \cup {a} /\ Joined(h, {}) = votes
    BY DEF Joined, a
  <1>8. /\ Repeats(Joined(h, D), merges, a) => With(Joined(h, D), merges, {a}) = Joined(h, D)
        /\ ~ Repeats(Joined(h, D), merges, a) =>
              With(Joined(h, D), merges, {a}) = Joined(h, D) \cup {a}
    BY DEF With
  <1>9. QED
    BY <1>6, <1>7, <1>8 DEF a

\* A pass that stores what was gated closes no cycle.
LEMMA PassAcyclic ==
  ASSUME TypeOK, Shape, NEW h \in Themes, Cyclic(Joined(h, Stored(h)), merges)
  PROVE  Cyclic(votes, merges)
  <1>1. Stored(h) \in SUBSET Free(h)
    BY DEF Stored, Joining, Free
  <1>2. ASSUME NEW t \in Stored(h)
        PROVE  ~ Cyclic(Joined(h, {t}), merges)
    <2>1. t \in Free(h) /\ ~ Taken(votes, Joins(h, t)) /\ ~ Rejected(votes, merges, Joins(h, t))
      BY <1>1 DEF Stored, Joining
    <2>2. ~ Repeats(votes, merges, Joins(h, t))
      BY <2>1 DEF Taken, Repeats
    <2>3. {} \in SUBSET Free(h) /\ t \notin {}
      OBVIOUS
    <2>4. With(votes, merges, {Joins(h, t)}) = Joined(h, {t})
      <3>1. With(Joined(h, {}), merges, {Joins(h, t)}) = Joined(h, {} \cup {t})
        BY <2>1, <2>2, <2>3, GateOfJoins
      <3>2. Joined(h, {}) = votes
        BY DEF Joined
      <3>3. QED
        BY <3>1, <3>2
    <2>5. Joins(h, t).op = "ASSERT"
      BY DEF Joins
    <2>6. QED
      BY <2>1, <2>4, <2>5 DEF Rejected
  <1>3. QED
    BY <1>1, <1>2, PassCloses

\* _apply_proposal gates a member with those that joined before it counted in:
\* it is rejected exactly when it is by itself.
LEMMA GatedAlike ==
  ASSUME TypeOK, Shape, NEW h \in Themes, NEW X \in SUBSET Joining(h), NEW m \in Free(h) \ X
  PROVE  Rejected(With(votes, merges, {Joins(h, x) : x \in X}), merges, Joins(h, m)) <=>
           Rejected(votes, merges, Joins(h, m))
  <1> DEFINE Counts(x) == ~ Repeats(votes, merges, Joins(h, x))
             D == {x \in X : Counts(x)}
             M == {x \in {m} : Counts(x)}
  <1>1. /\ D \in SUBSET Free(h) /\ M \in SUBSET Free(h) /\ D \cup M \in SUBSET Free(h)
        /\ m \notin D /\ {} \in SUBSET Free(h) /\ m \notin {}
    BY DEF Joining, Free
  <1>2. With(votes, merges, {Joins(h, x) : x \in X}) = Joined(h, D)
    BY DEF With, Joined
  <1>3. With(Joined(h, D), merges, {Joins(h, m)}) = Joined(h, D \cup M)
    <2>1. CASE Counts(m)
      <3>1. M = {m}
        BY <2>1
      <3>2. QED
        BY <1>1, <2>1, <3>1, GateOfJoins
    <2>2. CASE ~ Counts(m)
      <3>1. M = {}
        BY <2>2
      <3> HIDE DEF D, M
      <3>2. With(Joined(h, D), merges, {Joins(h, m)}) = Joined(h, D)
        BY <1>1, <2>2, GateOfJoins
      <3>3. D \cup M = D
        BY <3>1
      <3>4. QED
        BY <3>2, <3>3
    <2>3. QED
      BY <2>1, <2>2
  <1>4. With(votes, merges, {Joins(h, m)}) = Joined(h, M)
    BY DEF With, Joined
  <1>5. Joined(h, {}) = votes
    BY DEF Joined
  <1>6. ASSUME NEW t \in D
        PROVE  ~ Cyclic(Joined(h, {t}), merges)
    <2>1. With(votes, merges, {Joins(h, t)}) = Joined(h, {t})
      BY <1>6 DEF With, Joined
    <2>2. ~ Rejected(votes, merges, Joins(h, t)) /\ Joins(h, t).op = "ASSERT"
      BY <1>6 DEF Joining, Joins
    <2>3. QED
      BY <2>1, <2>2 DEF Rejected
  <1>7. M \subseteq {m}
    OBVIOUS
  <1> HIDE DEF D, M
  <1>8. Cyclic(Joined(h, M), merges) => Cyclic(Joined(h, D \cup M), merges)
    BY <1>1, PassOpensNone
  <1>9. ASSUME Cyclic(Joined(h, D \cup M), merges)
        PROVE  Cyclic(Joined(h, M), merges)
    <2>1. CASE Cyclic(votes, merges)
      <3>1. {} \in SUBSET M
        OBVIOUS
      <3>2. Cyclic(Joined(h, {}), merges)
        BY <1>5, <2>1
      <3>3. QED
        BY <1>1, <3>1, <3>2, PassOpensNone
    <2>2. CASE ~ Cyclic(votes, merges)
      <3>1. PICK t \in D \cup M : Cyclic(Joined(h, {t}), merges)
        BY <1>1, <1>9, <2>2, PassCloses
      <3>2. t \in M /\ {t} = M
        BY <1>6, <1>7, <3>1
      <3>3. QED
        BY <3>1, <3>2
    <2>3. QED
      BY <2>1, <2>2
  <1>10. QED
    BY <1>2, <1>3, <1>4, <1>8, <1>9 DEF Rejected

-----------------------------------------------------------------------------
\* Emissions.  The gate sees a claim as recorded last; the table has it recorded
\* at the clock.

\* x is recorded after the votes of its ballot that hold from the same instant.
Newest(edges, V, x) ==
  \A v \in V : /\ v.pred = x.pred /\ End1(edges, v) = End1(edges, x) /\ v.vf = x.vf
               => x.rec > v.rec

Told(edges, V) == \A s \in Subjects : Stamps(Ballot(V, edges, s, "spawned_from"))

\* x and y are one vote, recorded at two instants.
Restamps(edges, V, x, y) ==
  /\ Votes(V) /\ V \subseteq VoteType /\ Told(edges, V)
  /\ Vote(x) /\ Vote(y) /\ x \in VoteType /\ y \in VoteType
  /\ y.subj = x.subj /\ y.pred = x.pred /\ y.op = x.op /\ y.key = x.key /\ y.vf = x.vf
  /\ y.origin = x.origin
  /\ Newest(edges, V, x) /\ Newest(edges, V, y)

LEMMA RestampTold ==
  ASSUME NEW edges, NEW V, NEW x, NEW y, Restamps(edges, V, x, y)
  PROVE  Told(edges, V \cup {x})
  <1> SUFFICES ASSUME NEW s \in Subjects,
                      NEW v \in Ballot(V \cup {x}, edges, s, "spawned_from"),
                      NEW w \in Ballot(V \cup {x}, edges, s, "spawned_from"),
                      v.vf = w.vf, v.rec = w.rec
               PROVE  v = w
    BY DEF Told, Stamps
  <1>1. /\ v \in V \cup {x} /\ w \in V \cup {x} /\ v.pred = w.pred
        /\ End1(edges, v) = End1(edges, w) /\ v.rec \in Nat /\ w.rec \in Nat
    BY DEF Ballot, Restamps, Votes, Vote
  <1>2. CASE v \in V /\ w \in V
    BY <1>2 DEF Restamps, Told, Stamps, Ballot
  <1>3. CASE v \in V /\ w = x
    BY <1>1, <1>3 DEF Restamps, Newest
  <1>4. CASE v = x /\ w \in V
    BY <1>1, <1>4 DEF Restamps, Newest
  <1>5. QED
    BY <1>1, <1>2, <1>3, <1>4

LEMMA Restamped ==
  ASSUME NEW edges, NEW V, NEW x, NEW y, Restamps(edges, V, x, y)
  PROVE  Cyclic(V \cup {x}, edges) <=> Cyclic(V \cup {y}, edges)
  <1> DEFINE f == [z \in V \cup {x} |-> IF z = x THEN y ELSE z]
             A == V \cup {x}
             B == V \cup {y}
  <1>1. /\ x.rec \in Nat /\ y.rec \in Nat /\ \A v \in V : v.rec \in Nat
    BY DEF Restamps, Votes, Vote
  <1>2. x \notin V /\ y \notin V
    <2>1. ~ (x.rec > x.rec) /\ ~ (y.rec > y.rec)
      BY <1>1
    <2>2. QED
      BY <2>1 DEF Restamps, Newest
  <1>3. /\ Votes(A) /\ Votes(B) /\ A \subseteq VoteType /\ B \subseteq VoteType
    BY FS_AddElement DEF Restamps, Votes
  <1>4. f[x] = y /\ \A v \in V : f[v] = v
    BY <1>2
  <1>5. y.subj = x.subj /\ y.pred = x.pred /\ y.op = x.op /\ y.key = x.key
        /\ y.vf = x.vf /\ y.origin = x.origin
    BY DEF Restamps
  <1>6. \A v \in V : v.pred = x.pred /\ End1(edges, v) = End1(edges, x) /\ v.vf = x.vf =>
           x.rec > v.rec /\ y.rec > v.rec /\ ~ (v.rec > x.rec) /\ ~ (v.rec > y.rec)
    <2>1. ASSUME NEW v \in V, v.pred = x.pred, End1(edges, v) = End1(edges, x), v.vf = x.vf
          PROVE  x.rec > v.rec /\ y.rec > v.rec /\ ~ (v.rec > x.rec) /\ ~ (v.rec > y.rec)
      <3>1. x.rec > v.rec /\ y.rec > v.rec
        BY <2>1, <1>5 DEF Restamps, Newest, End1
      <3>2. QED
        BY <1>1, <3>1
    <2>2. QED
      BY <2>1
  <1> HIDE DEF f
  <1>7. /\ \A z \in A : f[z] \in B
        /\ \A z \in B : \E v \in A : f[v] = z
        /\ \A v, w \in A : f[v] = f[w] => v = w
    BY <1>2, <1>4
  <1>8. \A z \in A : /\ f[z].subj = z.subj /\ f[z].pred = z.pred /\ f[z].op = z.op
                     /\ f[z].key = z.key /\ f[z].vf = z.vf /\ f[z].origin = z.origin
    BY <1>4, <1>5
  <1>9. \A v, w \in A : /\ v.pred = w.pred /\ End1(edges, v) = End1(edges, w)
                        /\ v.vf = w.vf
                        => (v.rec > w.rec <=> f[v].rec > f[w].rec)
    <2>1. ASSUME NEW v \in A, NEW w \in A, v.pred = w.pred,
                 End1(edges, v) = End1(edges, w), v.vf = w.vf
          PROVE  v.rec > w.rec <=> f[v].rec > f[w].rec
      <3>1. CASE v \in V /\ w \in V
        BY <1>4, <3>1
      <3>2. CASE v \in V /\ w = x
        BY <1>4, <1>6, <2>1, <3>2
      <3>3. CASE v = x /\ w \in V
        BY <1>4, <1>6, <2>1, <3>3
      <3>4. CASE v = x /\ w = x
        BY <1>1, <1>4, <3>4
      <3>5. QED
        BY <3>1, <3>2, <3>3, <3>4
    <2>2. QED
      BY <2>1
  <1>10. Alike(edges, A, B, f)
    <2> HIDE DEF A, B
    <2>1. QED
      BY <1>7, <1>8, <1>9 DEF Alike
  <1>11. \A s \in Subjects : Stamps(Ballot(A, edges, s, "spawned_from"))
    BY RestampTold DEF Told
  <1> HIDE DEF A, B
  <1>12. Cyclic(A, edges) <=> Cyclic(B, edges)
    BY <1>3, <1>10, <1>11, AlikeGraphs
  <1>13. QED
    BY <1>12 DEF A, B

\* What an emission stores of its two claims.
LEMMA EmitStores ==
  ASSUME TypeOK, Shape, NEW e \in Emissions, Emit(e), NEW mid, mid = AfterFirst(e).votes
  PROVE  /\ \/ First(e) = {} /\ mid = votes
            \/ /\ First(e) = {Claim(e[1])} /\ ~ Rejected(votes, merges, Claim(e[1]))
               /\ mid = IF Taken(votes, Claim(e[1])) THEN votes
                        ELSE votes \cup {Entry(e[1], clock)}
         /\ \/ Second(e) = {} /\ votes' = mid
            \/ /\ Second(e) = {Claim(e[2])}
               /\ ~ Rejected(With(votes, merges, First(e)), merges, Claim(e[2]))
               /\ votes' = IF Taken(mid, Claim(e[2])) THEN mid
                           ELSE mid \cup {Entry(e[2], clock + 1)}
  <1> DEFINE zero == [votes |-> votes, notices |-> notices]
             one == AfterFirst(e)
             a == Entry(e[1], clock)
             b == Entry(e[2], clock + 1)
  <1>1. e[1] \in EdgeType /\ e[2] \in EdgeType /\ merges \in Edges
        /\ clock \in Nat /\ clock + 1 \in Nat
    BY StructureAssumption DEF TypeOK
  <1>2. /\ Identity(a) = Identity(Claim(e[1])) /\ Identity(b) = Identity(Claim(e[2]))
        /\ Vote(a) /\ Vote(b)
    BY <1>1, ClaimVote
  <1>3. /\ \A V : Taken(V, a) <=> Taken(V, Claim(e[1]))
        /\ \A V : Taken(V, b) <=> Taken(V, Claim(e[2]))
    BY <1>2 DEF Taken
  <1>4. zero.votes = votes /\ zero.notices = notices /\ Votes(zero.votes) /\ NoticesOk(zero.notices)
    BY DEF Shape, TypeOK, NoticesOk
  <1>5. one = Put(zero, First(e), clock) /\ votes' = Put(one, Second(e), clock + 1).votes
    BY EmitIs DEF AfterFirst, AfterSecond
  <1>6. /\ Put(zero, {Claim(e[1])}, clock) = Added(zero, a) /\ Put(zero, {}, clock) = zero
        /\ Put(one, {Claim(e[2])}, clock + 1) = Added(one, b) /\ Put(one, {}, clock + 1) = one
    BY PutEntry
  <1>7. Votes(one.votes) /\ NoticesOk(one.notices)
    BY EmitVotes
  <1> HIDE DEF zero, one, a, b
  <1>8. /\ Added(zero, a).votes = IF Taken(votes, a) THEN votes ELSE votes \cup {a}
        /\ Added(one, b).votes = IF Taken(one.votes, b) THEN one.votes ELSE one.votes \cup {b}
    BY <1>1, <1>2, <1>4, <1>7, AddedShape
  <1>9. /\ First(e) = {} \/ (First(e) = {Claim(e[1])} /\ ~ Rejected(votes, merges, Claim(e[1])))
        /\ Second(e) = {} \/ (/\ Second(e) = {Claim(e[2])}
                              /\ ~ Rejected(With(votes, merges, First(e)), merges, Claim(e[2])))
    BY ProposedClaim DEF First, Second
  <1>10. mid = one.votes
    BY DEF one
  <1>11. \/ First(e) = {} /\ mid = votes
         \/ /\ First(e) = {Claim(e[1])} /\ ~ Rejected(votes, merges, Claim(e[1]))
            /\ mid = IF Taken(votes, Claim(e[1])) THEN votes ELSE votes \cup {a}
    BY <1>3, <1>4, <1>5, <1>6, <1>8, <1>9, <1>10
  <1>12. \/ Second(e) = {} /\ votes' = mid
         \/ /\ Second(e) = {Claim(e[2])}
            /\ ~ Rejected(With(votes, merges, First(e)), merges, Claim(e[2]))
            /\ votes' = IF Taken(mid, Claim(e[2])) THEN mid ELSE mid \cup {b}
    BY <1>3, <1>5, <1>6, <1>8, <1>9, <1>10
  <1>13. QED
    BY <1>11, <1>12 DEF a, b

LEMMA ClaimRestamps ==
  ASSUME merges \in Edges, NEW V, Votes(V), V \subseteq VoteType, Told(merges, V),
         NEW i \in EdgeType, NEW n \in Nat,
         Newest(merges, V, Entry(i, n)), Newest(merges, V, Claim(i))
  PROVE  Restamps(merges, V, Entry(i, n), Claim(i)) /\ Restamps(merges, V, Claim(i), Entry(i, n))
  <1>1. /\ Vote(Claim(i)) /\ Vote(Entry(i, n)) /\ Claim(i) \in VoteType /\ Entry(i, n) \in VoteType
    BY ClaimVote
  <1>2. /\ Entry(i, n).subj = Claim(i).subj /\ Entry(i, n).pred = Claim(i).pred
        /\ Entry(i, n).op = Claim(i).op /\ Entry(i, n).key = Claim(i).key
        /\ Entry(i, n).vf = Claim(i).vf /\ Entry(i, n).origin = Claim(i).origin
    BY DEF Entry, Claim
  <1>3. QED
    BY <1>1, <1>2 DEF Restamps

\* What the gate lets through, against tables that do not have it, closes nothing.
LEMMA GateCloses ==
  ASSUME NEW known, NEW a, ~ Taken(known, a), a.op = "ASSERT", ~ Rejected(known, merges, a)
  PROVE  ~ Cyclic(known \cup {a}, merges)
  <1>1. ~ Repeats(known, merges, a)
    BY DEF Taken, Repeats
  <1>2. With(known, merges, {a}) = known \cup {a}
    BY <1>1 DEF With
  <1>3. QED
    BY <1>2 DEF Rejected

LEMMA EmitAcyclic ==
  ASSUME TypeOK, Shape, Acyclic(merges), NEW e \in Emissions, Emit(e), ~ Misread(e),
         NEW W, W = votes', \A x \in W \ votes : x.op = "ASSERT", Cyclic(W, merges)
  PROVE  Cyclic(votes, merges)
  <1> DEFINE a == Claim(e[1])
             b == Claim(e[2])
             a1 == Entry(e[1], clock)
             b1 == Entry(e[2], clock + 1)
             known == With(votes, merges, First(e))
  <1>1. /\ e[1] \in EdgeType /\ e[2] \in EdgeType /\ merges \in Edges /\ clock \in Nat
        /\ clock + 1 \in Nat /\ MaxClock \in Nat /\ clock < MaxClock /\ Votes(votes)
        /\ votes \subseteq VoteType /\ \A v \in votes : v.rec \in Nat /\ v.rec < clock
    BY StructureAssumption, EmitIs DEF TypeOK, Shape, Votes, Vote
  <1>2. /\ a.rec = MaxClock + 2 /\ b.rec = MaxClock + 2 /\ a1.rec = clock /\ b1.rec = clock + 1
        /\ a1.pred = a.pred /\ b1.pred = b.pred /\ a1.subj = a.subj /\ b1.subj = b.subj
        /\ a1.vf = a.vf /\ b1.vf = b.vf /\ a1.op = a.op /\ b1.op = b.op
    BY DEF Claim, Entry
  <1>3. Identity(a1) = Identity(a) /\ Identity(b1) = Identity(b) /\ Vote(a1) /\ Vote(a)
        /\ Vote(b1) /\ Vote(b) /\ {a, b, a1, b1} \subseteq VoteType
    BY <1>1, ClaimVote
  <1>4. End1(merges, a) = a.subj /\ End1(merges, b) = b.subj
    <2>1. ASSUME NEW i \in EdgeType
          PROVE  End1(merges, Claim(i)) = Claim(i).subj
      <3>1. i.subj \in Subjects
        BY DEF EdgeType
      <3>2. /\ Canonical(merges, i.subj) \in Subjects
            /\ Canonical(merges, i.subj) \notin DOMAIN merges
        BY <1>1, <3>1, CanonicalInChain, CanonicalEnds
      <3>3. Claim(i).subj = Canonical(merges, i.subj)
        BY DEF Claim
      <3>4. QED
        BY <1>1, <3>2, <3>3, CanonicalSelf DEF End1
    <2>2. QED
      BY <1>1, <2>1
  <1>5. End1(merges, a1) = End1(merges, a) /\ End1(merges, b1) = End1(merges, b)
    BY <1>2 DEF End1
  <1>6. \/ First(e) = {} /\ (W = votes \/ (~ Taken(votes, b) /\ W = votes \cup {b1}))
        \/ First(e) = {a} /\ (W = votes \/ (~ Taken(votes, a) /\ W = votes \cup {a1}))
        \/ First(e) = {a} /\ Taken(votes, a) /\ ~ Taken(votes, b) /\ W = votes \cup {b1}
           /\ Second(e) = {b}
        \/ /\ First(e) = {a} /\ ~ Taken(votes, a) /\ ~ Taken(votes \cup {a1}, b)
           /\ Second(e) = {b} /\ W = votes \cup {a1} \cup {b1}
    <2>1. PICK mid : mid = AfterFirst(e).votes
      OBVIOUS
    <2>2. /\ \/ First(e) = {} /\ mid = votes
             \/ First(e) = {a} /\ mid = IF Taken(votes, a) THEN votes ELSE votes \cup {a1}
          /\ \/ Second(e) = {} /\ W = mid
             \/ Second(e) = {b} /\ W = IF Taken(mid, b) THEN mid ELSE mid \cup {b1}
      BY <2>1, EmitStores
    <2> HIDE DEF a, b, a1, b1
    <2>3. QED
      BY <2>2
  <1>7. /\ First(e) # {} => ~ Rejected(votes, merges, a)
        /\ W # votes /\ W # votes \cup {a1} => ~ Rejected(known, merges, b)
    <2>1. PICK mid : mid = AfterFirst(e).votes
      OBVIOUS
    <2>2. /\ First(e) # {} => ~ Rejected(votes, merges, a)
          /\ Second(e) # {} => ~ Rejected(known, merges, b)
          /\ Second(e) = {} => W = mid
          /\ mid = votes \/ mid = votes \cup {a1}
      BY <2>1, EmitStores
    <2> HIDE DEF a, b, a1, b1, known
    <2>3. QED
      BY <2>2
  <1>8. First(e) = {} => known = votes
    BY DEF With
  <1>9. First(e) = {a} /\ ~ Taken(votes, a) => known = votes \cup {a}
    BY DEF With, Taken, Repeats
  <1>10. First(e) = {a} /\ Second(e) = {b} =>
           /\ Taken(votes, a) => known = votes
           /\ ~ (a.pred = b.pred /\ a.subj = b.subj /\ a.vf = b.vf)
    <2>1. ASSUME First(e) = {a}, Second(e) = {b}
          PROVE  /\ ~ (Taken(votes, a) /\ ~ Repeats(votes, merges, a))
                 /\ ~ (a.pred = b.pred /\ a.subj = b.subj /\ a.vf = b.vf)
      <3>1. a \in Proposed(votes, e[1])
            /\ b \in Proposed(With(votes, merges, Proposed(votes, e[1])), e[2])
        BY <2>1 DEF First, Second
      <3> HIDE DEF a, b
      <3>2. QED
        BY <3>1 DEF Misread
    <2> HIDE DEF a, b
    <2>2. QED
      BY <2>1 DEF With
  <1>11. ~ Taken(votes \cup {a1}, b) => ~ Taken(votes \cup {a}, b) /\ ~ Taken(votes, b)
    BY <1>3 DEF Taken
  <1>12. Told(merges, votes)
    BY DEF Told, Stamps, Ballot, Shape, Together
  <1>13. /\ a1 \notin votes /\ b1 \notin votes /\ b1 # a1
    BY <1>1, <1>2
  <1>14. /\ W = votes \cup {a1} => a.op = "ASSERT"
         /\ W = votes \cup {b1} => b.op = "ASSERT"
         /\ W = votes \cup {a1} \cup {b1} => a.op = "ASSERT" /\ b.op = "ASSERT"
    <2> HIDE DEF a, b, a1, b1
    <2>1. QED
      BY <1>2, <1>13
  <1>15. Newest(merges, votes, a1) /\ Newest(merges, votes, a) /\ Newest(merges, votes, b1)
         /\ Newest(merges, votes, b)
    <2>1. \A v \in votes : a1.rec > v.rec /\ a.rec > v.rec /\ b1.rec > v.rec /\ b.rec > v.rec
      BY <1>1, <1>2
    <2> HIDE DEF a, b, a1, b1
    <2>2. QED
      BY <2>1 DEF Newest
  <1>16. /\ Restamps(merges, votes, a1, a) /\ Restamps(merges, votes, b1, b)
         /\ Restamps(merges, votes, b, b1)
    BY <1>1, <1>12, <1>15, ClaimRestamps
  <1>17. CASE W = votes
    BY <1>17
  <1>18. CASE First(e) = {a} /\ ~ Taken(votes, a) /\ W = votes \cup {a1}
    <2> HIDE DEF a, b, a1, b1, known
    <2>1. ~ Cyclic(votes \cup {a}, merges)
      BY <1>7, <1>14, <1>18, GateCloses
    <2>2. QED
      BY <1>16, <1>18, <2>1, Restamped
  <1>19. CASE known = votes /\ ~ Taken(votes, b) /\ W = votes \cup {b1} /\ W # votes \cup {a1}
    <2> HIDE DEF a, b, a1, b1, known
    <2>1. ~ Cyclic(votes \cup {b}, merges)
      BY <1>7, <1>13, <1>14, <1>19, GateCloses
    <2>2. QED
      BY <1>16, <1>19, <2>1, Restamped
  <1>20. CASE /\ First(e) = {a} /\ ~ Taken(votes, a) /\ ~ Taken(votes \cup {a1}, b)
              /\ Second(e) = {b} /\ W = votes \cup {a1} \cup {b1}
    <2>1. ~ Cyclic(votes \cup {a} \cup {b}, merges)
      <3> HIDE DEF a, b, a1, b1, known
      <3>1. known = votes \cup {a} /\ ~ Taken(known, b) /\ b.op = "ASSERT"
        BY <1>9, <1>11, <1>14, <1>20
      <3>2. ~ Rejected(known, merges, b)
        BY <1>7, <1>13, <1>20
      <3>3. QED
        BY <3>1, <3>2, GateCloses
    <2>2. Told(merges, votes \cup {a1}) /\ Told(merges, votes \cup {b})
      BY <1>16, RestampTold
    <2>3. /\ Votes(votes \cup {a1}) /\ votes \cup {a1} \subseteq VoteType
          /\ Votes(votes \cup {b}) /\ votes \cup {b} \subseteq VoteType
      BY <1>1, <1>3, FS_AddElement DEF Votes
    <2>4. Newest(merges, votes \cup {a1}, b1) /\ Newest(merges, votes \cup {a1}, b)
      <3>1. \A v \in votes \cup {a1} : b1.rec > v.rec /\ b.rec > v.rec
        BY <1>1, <1>2
      <3> HIDE DEF a, b, a1, b1
      <3>2. QED
        BY <3>1 DEF Newest
    <2>5. Newest(merges, votes \cup {b}, a1) /\ Newest(merges, votes \cup {b}, a)
      <3>1. ~ (b.pred = a.pred /\ End1(merges, b) = End1(merges, a) /\ b.vf = a.vf)
        BY <1>4, <1>10, <1>20
      <3> HIDE DEF a, b, a1, b1
      <3>2. QED
        BY <1>2, <1>5, <1>15, <3>1 DEF Newest
    <2>6. Restamps(merges, votes \cup {a1}, b1, b) /\ Restamps(merges, votes \cup {b}, a1, a)
      BY <1>1, <2>2, <2>3, <2>4, <2>5, ClaimRestamps
    <2> HIDE DEF a, b, a1, b1, known
    <2>7. /\ Cyclic(votes \cup {a1} \cup {b1}, merges) <=> Cyclic(votes \cup {a1} \cup {b}, merges)
          /\ Cyclic(votes \cup {b} \cup {a1}, merges) <=> Cyclic(votes \cup {b} \cup {a}, merges)
      BY <2>6, Restamped
    <2>8. /\ votes \cup {a1} \cup {b} = votes \cup {b} \cup {a1}
          /\ votes \cup {b} \cup {a} = votes \cup {a} \cup {b}
      OBVIOUS
    <2>9. QED
      BY <1>20, <2>1, <2>7, <2>8
  <1> HIDE DEF a, b, a1, b1, known
  <1>21. QED
    BY <1>6, <1>8, <1>10, <1>13, <1>17, <1>18, <1>19, <1>20

-----------------------------------------------------------------------------
\* Corrections, and the cause of a cycle.

\* The merges form no cycle, and a correction whose tables have not changed since
\* would still pass its gate.
Gated ==
  /\ Acyclic(merges)
  /\ \A p \in inflight : ~ p.stale => ~ Rejected(votes, merges, p.vote)

LEMMA GatedInit == Init => Gated
  BY NoEdgesAcyclic DEF Init, Gated

LEMMA GatedStep ==
  ASSUME TypeOK, Shape, Gated, [Next]_vars
  PROVE  Gated'
  <1>1. merges \in Edges /\ Acyclic(merges)
    BY DEF TypeOK, Gated
  <1>2. ASSUME NEW S, S \subseteq inflight, merges' = merges,
               inflight' = IF votes' = votes THEN S ELSE Touched(S)
        PROVE  Gated'
    <2>1. CASE votes' = votes
      BY <1>1, <1>2, <2>1 DEF Gated
    <2>2. CASE votes' # votes
      <3>1. /\ S \subseteq [vote : VoteType, stale : BOOLEAN]
            /\ \A p, q \in S : p.vote = q.vote => p = q
        BY <1>2 DEF Shape
      <3>2. \A p \in Touched(S) : p.stale
        BY <3>1, TouchedShape
      <3>3. QED
        BY <1>1, <1>2, <2>2, <3>2 DEF Gated
    <2>3. QED
      BY <2>1, <2>2
  <1>3. ASSUME inflight' = Touched(inflight), Acyclic(merges')
        PROVE  Gated'
    <2>1. \A p \in Touched(inflight) : p.stale
      BY TouchedShape DEF Shape
    <2>2. QED
      BY <1>3, <2>1 DEF Gated
  <1>4. ASSUME NEW r \in Edits, PrepareEdge(r)
        PROVE  Gated'
    <2>1. PICK a : /\ ~ Rejected(votes, merges, a)
                   /\ inflight' = inflight \cup {[vote |-> a, stale |-> FALSE]}
                   /\ votes' = votes /\ merges' = merges
      BY <1>4 DEF PrepareEdge
    <2>2. \A p \in inflight' : ~ p.stale => ~ Rejected(votes, merges, p.vote)
      BY <2>1 DEF Gated
    <2>3. QED
      BY <1>1, <2>1, <2>2 DEF Gated
  <1>5. ASSUME NEW p \in inflight, CommitEdge(p)
        PROVE  Gated'
    <2>1. merges' = merges /\ inflight' = IF votes' = votes THEN inflight \ {p}
                                          ELSE Touched(inflight \ {p})
      BY <1>5 DEF CommitEdge
    <2>2. QED
      BY <1>2, <2>1
  <1>6. ASSUME NEW e \in Emissions, Emit(e)
        PROVE  Gated'
    BY <1>2, <1>6, EmitIs
  <1>7. ASSUME NEW h \in Themes, ThemePass(h)
        PROVE  Gated'
    <2>1. merges' = merges /\ inflight' = IF votes' = votes THEN inflight ELSE Touched(inflight)
      BY <1>7 DEF ThemePass
    <2>2. QED
      BY <1>2, <2>1
  <1>8. ASSUME NEW m \in MergePairs, Merge(m[1], m[2])
        PROVE  Gated'
    <2>1. MergeAllowed(Subjects, merges, m[1], m[2]) /\ merges' = AddEdge(merges, m[1], m[2])
          /\ inflight' = Touched(inflight)
      BY <1>8 DEF Merge
    <2>2. Acyclic(AddEdge(merges, m[1], m[2]))
      BY <1>1, <2>1, AddEdgeAcyclic
    <2>3. QED
      BY <1>3, <2>1, <2>2
  <1>9. ASSUME NEW s \in Subjects, Unmerge(s)
        PROVE  Gated'
    <2>1. s \in DOMAIN merges /\ merges' = DropEdge(merges, s) /\ inflight' = Touched(inflight)
      BY <1>9 DEF Unmerge
    <2>2. Acyclic(DropEdge(merges, s))
      BY <1>1, <2>1, DropEdgeAcyclic
    <2>3. QED
      BY <1>3, <2>1, <2>2
  <1>10. CASE UNCHANGED vars
    <2>1. votes' = votes /\ merges' = merges /\ inflight' = inflight
      BY <1>10 DEF vars
    <2>2. QED
      BY <1>2, <2>1
  <1>11. QED
    BY <1>4, <1>5, <1>6, <1>7, <1>8, <1>9, <1>10 DEF Next

LEMMA GatedAlways == Spec => []Gated
  <1>1. TypeOK /\ Shape /\ Gated /\ [Next]_vars => Gated'
    BY GatedStep
  <1>2. QED
    BY <1>1, GatedInit, ShapeAlways, PTL DEF Spec

LEMMA CommitAcyclic ==
  ASSUME TypeOK, Shape, Gated, NEW p \in inflight, CommitEdge(p),
         NEW W, W = votes', \A x \in W \ votes : x.op = "ASSERT", Cyclic(W, merges),
         ~ Cyclic(votes, merges)
  PROVE  p \in inflight \ inflight' /\ p.stale /\ p.vote \in W
  <1>1. /\ W \in {votes, votes \cup {p.vote}}
        /\ W # votes => ~ Taken(votes, p.vote)
        /\ inflight' = IF W = votes THEN inflight \ {p} ELSE Touched(inflight \ {p})
    BY CommitIs
  <1>2. W # votes
    OBVIOUS
  <1>3. W = votes \cup {p.vote} /\ ~ Taken(votes, p.vote) /\ p.vote.op = "ASSERT"
    BY <1>1, <1>2
  <1>4. p.stale
    <2>1. CASE ~ Rejected(votes, merges, p.vote)
      BY <1>3, <2>1, GateCloses
    <2>2. CASE Rejected(votes, merges, p.vote)
      BY <2>2 DEF Gated
    <2>3. QED
      BY <2>1, <2>2
  <1>5. p \notin inflight'
    <2> DEFINE S == inflight \ {p}
    <2>1. /\ S \subseteq [vote : VoteType, stale : BOOLEAN]
          /\ \A q, r \in S : q.vote = r.vote => q = r
          /\ \A q \in S : q.vote # p.vote
      BY DEF Shape
    <2> HIDE DEF S
    <2>2. {q.vote : q \in Touched(S)} = {q.vote : q \in S}
      BY <2>1, TouchedShape
    <2>3. inflight' = Touched(S)
      BY <1>1, <1>2 DEF S
    <2>4. QED
      BY <2>1, <2>2, <2>3
  <1>6. QED
    BY <1>3, <1>4, <1>5

LEMMA CauseStep ==
  ASSUME TypeOK, Shape, Gated, [Next]_vars, NEW W, W = votes', merges' = merges,
         Cyclic(W, merges), ~ Cyclic(votes, merges), \A x \in W \ votes : x.op = "ASSERT"
  PROVE  \/ \E p \in inflight \ inflight' : p.stale /\ p.vote \in votes'
         \/ \E e \in Emissions : Emit(e) /\ Misread(e)
  <1>1. W # votes
    OBVIOUS
  <1>2. ASSUME NEW p \in inflight, CommitEdge(p)
        PROVE  \E q \in inflight \ inflight' : q.stale /\ q.vote \in votes'
    BY <1>2, CommitAcyclic
  <1>3. ASSUME NEW e \in Emissions, Emit(e), ~ Misread(e)
        PROVE  FALSE
    BY <1>3, EmitAcyclic DEF Gated
  <1>4. ASSUME NEW h \in Themes, ThemePass(h)
        PROVE  FALSE
    <2>1. W = Joined(h, Stored(h))
      BY <1>4, PassVotes DEF Joined
    <2>2. QED
      BY <2>1, PassAcyclic
  <1>5. QED
    BY <1>1, <1>2, <1>3, <1>4 DEF Next, PrepareEdge, Merge, Unmerge, vars

\* The gates keep the goal graph free of cycles, but for four ways round them:
\* merges, a RETRACT that uncovers an older edge, a correction whose tables
\* changed behind its gate, and an emission whose second gate misread the first
\* intent (structure_rejection and its three callers).
THEOREM OnlyGapsCloseCycles == Spec => CyclesHaveACause
  <1>1. ASSUME TypeOK, Shape, Gated, [Next]_vars, Cyclic(votes', merges'),
               ~ Cyclic(votes, merges)
        PROVE  \/ merges' # merges
               \/ \E a \in votes' \ votes : a.op = "RETRACT"
               \/ \E p \in inflight \ inflight' : p.stale /\ p.vote \in votes'
               \/ \E e \in Emissions : Emit(e) /\ Misread(e)
    <2>1. PICK W : W = votes'
      OBVIOUS
    <2>2. CASE merges' = merges /\ \A x \in W \ votes : x.op # "RETRACT"
      <3>1. \A x \in W : x.op \in {"ASSERT", "RETRACT"}
        BY <1>1, <2>1, StepShape DEF Shape, Votes, Vote
      <3>2. Cyclic(W, merges)
        BY <1>1, <2>1, <2>2
      <3>3. QED
        BY <1>1, <2>1, <2>2, <3>1, <3>2, CauseStep
    <2>3. QED
      BY <2>1, <2>2
  <1>2. TypeOK /\ Shape /\ Gated /\ [Next]_vars =>
          [Cyclic(votes', merges') /\ ~ Cyclic(votes, merges) =>
             \/ merges' # merges
             \/ \E a \in votes' \ votes : a.op = "RETRACT"
             \/ \E p \in inflight \ inflight' : p.stale /\ p.vote \in votes'
             \/ \E e \in Emissions : Emit(e) /\ Misread(e)]_vars
    BY <1>1
  <1>3. QED
    BY <1>2, ShapeAlways, GatedAlways, PTL DEF Spec, CyclesHaveACause
=============================================================================
