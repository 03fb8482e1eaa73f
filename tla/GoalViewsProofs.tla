--------------------------- MODULE GoalViewsProofs ---------------------------
(***************************************************************************)
(* What is elected and what is shown, for any number of goals and votes:   *)
(* the walk of the code over the votes elects what the reference           *)
(* definition elects, and the walks up and down the tree agree about where *)
(* a goal is shown.                                                        *)
(***************************************************************************)
EXTENDS GoalViews, ElectionLoop, GoalGraphProofs

-----------------------------------------------------------------------------
\* Counting votes one by one.

\* Only votes of a theme pass share an instant of recording.
Distinct(A) ==
  \A a, b \in A : a.rec = b.rec => a = b \/ (a.op = "ASSERT" /\ b.op = "ASSERT")

\* A vote that comes after all that were counted leaves what stands with it.
LEMMA CountStep ==
  ASSUME NEW edges, NEW D, NEW a, Votes(D \cup {a}), Distinct(D \cup {a}), a \notin D,
         \A d \in D : ~ Later(d, a)
  PROVE  Stand(edges, D \cup {a}) = CountVote(edges, Stand(edges, D), a)
  <1>1. /\ Vote(a) /\ ~ Later(a, a) /\ \A d \in D : Vote(d)
        /\ a.op \in {"ASSERT", "RETRACT"}
    BY LaterOrder DEF Votes, Vote
  <1>2. CASE a.op = "ASSERT"
    <2>1. \A x : ~ Retracts(edges, a, x)
      BY <1>2 DEF Retracts
    <2>2. \A d \in D : ~ Retracts(edges, d, a)
      BY DEF Retracts
    <2>3. Asserts(D \cup {a}) = Asserts(D) \cup {a}
      BY <1>2 DEF Asserts
    <2>4. Stand(edges, D \cup {a}) = Stand(edges, D) \cup {a}
      BY <2>1, <2>2, <2>3 DEF Stand
    <2>5. QED
      BY <1>2, <2>4 DEF CountVote
  <1>3. CASE a.op = "RETRACT"
    <2>1. Asserts(D \cup {a}) = Asserts(D)
      BY <1>3 DEF Asserts
    <2>2. Stand(edges, D \cup {a}) = {x \in Stand(edges, D) : ~ Retracts(edges, a, x)}
      BY <2>1 DEF Stand
    <2>3. ASSUME NEW x \in D
          PROVE  Later(a, x)
      <3>1. Later(a, x) \/ (a.vf = x.vf /\ a.rec = x.rec /\ a.key = x.key)
        BY <1>1, Level
      <3>2. a.rec # x.rec
        BY <1>3 DEF Distinct
      <3>3. QED
        BY <3>1, <3>2
    <2>4. Stand(edges, D) \subseteq D
      BY DEF Stand, Asserts
    <2>5. \A x \in Stand(edges, D) :
            Retracts(edges, a, x) <=>
              x.origin = a.origin /\ End2(edges, a) \in {End2(edges, x), Star}
      BY <1>3, <2>3, <2>4 DEF Retracts
    <2>6. QED
      BY <1>3, <2>2, <2>5 DEF CountVote
  <1>4. QED
    BY <1>1, <1>2, <1>3

LEMMA LatestOne ==
  ASSUME NEW A, Votes(A), A # {}
  PROVE  Latest(A) \in A /\ \A b \in A : ~ Later(b, Latest(A))
  <1> DEFINE R == {x \in A \X A : Later(x[1], x[2])}
  <1>1. \A x \in A : <<x, x>> \notin R
    BY LaterOrder DEF Votes
  <1>2. \A x, y, z \in A : <<x, y>> \in R /\ <<y, z>> \in R => <<x, z>> \in R
    BY LaterOrder DEF Votes
  <1>3. \E x \in A : \A y \in A : <<y, x>> \notin R
    <2> HIDE DEF R
    <2>1. QED
      BY <1>1, <1>2, MaximalExists DEF Votes
  <1>4. \E w \in A : \A o \in A : ~ Later(o, w)
    BY <1>3
  <1>5. QED
    BY <1>4 DEF Latest

\* g is the function the count of the votes of one instant is defined by.
CountIter(g, edges, live, Q) ==
  g = [T \in SUBSET Q |->
         IF T = {} THEN live ELSE CountVote(edges, g[T \ {Latest(T)}], Latest(T))]

\* The votes Q of one instant, counted on top of the earlier ones C.
LEMMA Counted ==
  ASSUME NEW edges, NEW A, Votes(A), Distinct(A), NEW C \in SUBSET A, NEW Q \in SUBSET A,
         \A x \in C, y \in Q : x.vf < y.vf
  PROVE  CountVotes(edges, Stand(edges, C), Q) = Stand(edges, C \cup Q)
  <1> DEFINE f == [T \in SUBSET Q |-> Stand(edges, C \cup T)]
             c == [T \in SUBSET Q |-> Latest(T)]
             live == Stand(edges, C)
  <1>1. f[{}] = live
    <2>1. {} \in SUBSET Q /\ C \cup {} = C
      OBVIOUS
    <2>2. QED
      BY <2>1
  <1>2. ASSUME NEW T \in SUBSET Q, T # {}
        PROVE  f[T] = CountVote(edges, f[T \ {Latest(T)}], Latest(T))
    <2> DEFINE a == Latest(T)
               D == C \cup (T \ {a})
    <2>1. a \in T /\ \A b \in T : ~ Later(b, a)
      BY <1>2, VotesSubset, LatestOne
    <2>2. \A x \in A : x.vf \in Nat
      BY DEF Votes, Vote
    <2>3. \A d \in C : ~ Later(d, a) /\ d # a
      <3> HIDE DEF a
      <3>1. QED
        BY <2>1, <2>2 DEF Later
    <2>4. D \cup {a} = C \cup T /\ a \notin D
      BY <2>1, <2>3
    <2>5. Votes(D \cup {a}) /\ Distinct(D \cup {a})
      <3>1. D \cup {a} \in SUBSET A
        BY <2>4
      <3>2. QED
        BY <3>1, VotesSubset DEF Distinct
    <2>6. \A d \in D : ~ Later(d, a)
      BY <2>1, <2>3
    <2>7. f[T] = Stand(edges, C \cup T) /\ f[T \ {a}] = Stand(edges, D)
      OBVIOUS
    <2> HIDE DEF f, D, a
    <2>8. f[T] = CountVote(edges, f[T \ {a}], a)
      BY <2>4, <2>5, <2>6, <2>7, CountStep
    <2>9. QED
      BY <2>8 DEF a
  <1>3. CountIter(f, edges, live, Q)
    <2>1. f = [T \in SUBSET Q |-> f[T]]
      OBVIOUS
    <2> HIDE DEF f
    <2>2. QED
      BY <1>1, <1>2, <2>1 DEF CountIter
  <1> DEFINE g == CHOOSE h : CountIter(h, edges, live, Q)
  <1>4. CountIter(g, edges, live, Q)
    BY <1>3
  <1>5. CountVotes(edges, live, Q) = g[Q]
    BY DEF CountVotes, MapThenFoldSet, CountIter
  <1>6. f[Q] = Stand(edges, C \cup Q)
    OBVIOUS
  <1> HIDE DEF f, g, live
  <1>7. g[{}] = f[{}]
    BY <1>1, <1>4 DEF CountIter
  <1>8. ASSUME NEW T \in SUBSET Q, T # {}, g[T \ {c[T]}] = f[T \ {c[T]}]
        PROVE  g[T] = f[T]
    <2>1. g[T] = CountVote(edges, g[T \ {Latest(T)}], Latest(T))
      BY <1>4, <1>8 DEF CountIter
    <2>2. QED
      BY <1>2, <1>8, <2>1
  <1>9. \A T \in SUBSET Q : T # {} => c[T] \in T
    BY VotesSubset, LatestOne
  <1>10. IsFiniteSet(Q)
    BY FS_Subset DEF Votes
  <1> HIDE DEF c
  <1> DEFINE S == Q
  <1>11. g[S] = f[S]
    <2>1. \A T \in SUBSET S : T # {} /\ g[T \ {c[T]}] = f[T \ {c[T]}] => g[T] = f[T]
      BY <1>8
    <2>2. \A T \in SUBSET S : T # {} => c[T] \in T
      BY <1>9
    <2>3. IsFiniteSet(S)
      BY <1>10
    <2> HIDE DEF S
    <2>4. QED
      BY <1>7, <2>1, <2>2, <2>3, FoldUnique, ZenonT(30)
  <1>12. QED
    BY <1>5, <1>6, <1>11 DEF live

-----------------------------------------------------------------------------
\* An election decides every instant of its ballot as a SINGLE value does, so
\* that the lemmas about the runs of a value apply.

Outcome(edges, A, u) ==
  LET winner == ElectedAt(edges, A, u)
  IN  [vf |-> u, rec |-> u, origin |-> "model",
       op |-> IF winner = None THEN "RETRACT" ELSE "ASSERT",
       key |-> IF winner = None THEN 0 ELSE winner]

Outcomes(edges, A) == {Outcome(edges, A, u) : u \in Instants(A)}

LEMMA VoteInstants ==
  ASSUME NEW A, Votes(A)
  PROVE  IsFiniteSet(Instants(A)) /\ Instants(A) \subseteq Nat
  <1> DEFINE f == [a \in A |-> a.vf]
  <1>1. DOMAIN f = A /\ Instants(A) = {f[a] : a \in DOMAIN f}
    BY DEF Instants
  <1>2. Instants(A) \subseteq Nat
    BY DEF Instants, Votes, Vote
  <1> HIDE DEF f
  <1>3. QED
    BY <1>1, <1>2, FiniteImage DEF Votes

LEMMA OutcomesShape ==
  ASSUME NEW edges, NEW A, Votes(A)
  PROVE  /\ Ranked(Outcomes(edges, A)) /\ Instants(Outcomes(edges, A)) = Instants(A)
         /\ \A u \in Instants(A) : Decided(Outcomes(edges, A), u) = ElectedAt(edges, A, u)
  <1> DEFINE E == Outcomes(edges, A)
             out(u) == Outcome(edges, A, u)
  <1>1. IsFiniteSet(Instants(A)) /\ Instants(A) \subseteq Nat /\ None \notin Nat
    BY VoteInstants, ProfileAssumption
  <1>2. ASSUME NEW u \in Instants(A)
        PROVE  /\ out(u).vf = u /\ out(u).rec = u /\ Shaped(out(u))
               /\ (IF out(u).op = "ASSERT" THEN out(u).key ELSE None) = ElectedAt(edges, A, u)
    BY <1>1 DEF Outcome, Shaped
  <1>3. E = {out(u) : u \in Instants(A)}
    BY DEF Outcomes
  <1>4. IsFiniteSet(E)
    <2> DEFINE f == [u \in Instants(A) |-> out(u)]
    <2>1. DOMAIN f = Instants(A) /\ E = {f[u] : u \in DOMAIN f}
      BY <1>3
    <2> HIDE DEF f, E
    <2>2. QED
      BY <1>1, <2>1, FiniteImage
  <1> HIDE DEF E, out
  <1>5. Ranked(E)
    BY <1>2, <1>3, <1>4 DEF Ranked, Apart
  <1>6. Instants(E) = Instants(A)
    BY <1>2, <1>3 DEF Instants
  <1>7. ASSUME NEW u \in Instants(A)
        PROVE  Decided(E, u) = ElectedAt(edges, A, u)
    <2> DEFINE w == Top(At(E, u))
    <2>1. w \in E /\ w.vf = u /\ Decided(E, u) = IF w.op = "ASSERT" THEN w.key ELSE None
      BY <1>5, <1>6, Decider
    <2> HIDE DEF w
    <2>2. w = out(u)
      BY <1>2, <1>3, <2>1
    <2>3. QED
      BY <1>2, <2>1, <2>2
  <1>8. QED
    BY <1>5, <1>6, <1>7 DEF E

\* The instants of a run, and what it is as an interval.
Reigned(E, u) == {v \in Instants(E) : Within(v, u, End(E, u))}

Term(s, k, from, to, support) ==
  [subj |-> s, key |-> k, from |-> from, to |-> to, support |-> support]

TermOf(edges, s, A, u) ==
  Term(s, ElectedAt(edges, A, u), u, End(Outcomes(edges, A), u),
       For(edges, Standing(edges, A, Max(Reigned(Outcomes(edges, A), u))),
           ElectedAt(edges, A, u)))

LEMMA TermEdits ==
  ASSUME NEW s, NEW k, NEW from, NEW to, NEW support, NEW u,
         NEW i, i = Term(s, k, from, to, support)
  PROVE  /\ i.key = k /\ i.from = from /\ i.to = to
         /\ ClosedAt(i, u) = Term(s, k, from, u, support)
  BY DEF Term, ClosedAt

LEMMA ElectionRuns ==
  ASSUME NEW edges, NEW s, NEW A, Votes(A)
  PROVE  ElectedIntervals(edges, s, A) =
           {TermOf(edges, s, A, u) : u \in Starts(Outcomes(edges, A))}
  <1> DEFINE E == Outcomes(edges, A)
             chosen(t) == ElectedAt(edges, A, t)
             before(t) == {u \in Instants(A) : u < t}
             ends(t) == {u \in Instants(A) : u > t /\ chosen(u) # chosen(t)}
             last(t) == {u \in Instants(A) : t <= u /\ \A e \in ends(t) : u < e}
             begins(u) == chosen(u) # None /\ (before(u) # {} => chosen(Max(before(u))) # chosen(u))
             term(t) == [subj |-> s, key |-> chosen(t), from |-> t,
                         to |-> IF ends(t) = {} THEN None ELSE Min(ends(t)),
                         support |-> For(edges, Standing(edges, A, Max(last(t))), chosen(t))]
  <1>1. ElectedIntervals(edges, s, A) = {term(t) : t \in {u \in Instants(A) : begins(u)}}
    BY DEF ElectedIntervals
  <1>2. /\ Ranked(E) /\ Instants(E) = Instants(A) /\ Instants(A) \subseteq Nat
        /\ \A u \in Instants(A) : Decided(E, u) = chosen(u)
        /\ None \notin Nat
    BY OutcomesShape, VoteInstants, ProfileAssumption
  <1> HIDE DEF E, chosen
  <1>3. ASSUME NEW t \in Instants(A)
        PROVE  End(E, t) = IF ends(t) = {} THEN None ELSE Min(ends(t))
    <2>1. {u \in Instants(E) : u > t /\ Decided(E, u) # Decided(E, t)} = ends(t)
      BY <1>2
    <2>2. QED
      BY <2>1 DEF End
  <1>4. ASSUME NEW t \in Instants(A)
        PROVE  last(t) = Reigned(E, t)
    <2>1. CASE ends(t) = {}
      BY <1>2, <1>3, <2>1 DEF Reigned, Within
    <2>2. CASE ends(t) # {}
      <3> DEFINE m == Min(ends(t))
      <3>1. ends(t) \in SUBSET Nat
        BY <1>2
      <3>2. m \in ends(t) /\ \A e \in ends(t) : m <= e
        <4> HIDE DEF ends
        <4>1. QED
          BY <2>2, <3>1, MinExists
      <3>3. m \in Nat /\ m # None /\ End(E, t) = m
        BY <1>2, <1>3, <2>2, <3>1, <3>2
      <3> HIDE DEF m
      <3>4. \A u \in Nat : (\A e \in ends(t) : u < e) <=> u < m
        <4> HIDE DEF ends
        <4>1. QED
          BY <3>1, <3>2, <3>3
      <3>5. QED
        BY <1>2, <3>3, <3>4 DEF Reigned, Within
    <2>3. QED
      BY <2>1, <2>2
  <1>5. ASSUME NEW t \in Instants(A)
        PROVE  term(t) = TermOf(edges, s, A, t)
    BY <1>3, <1>4 DEF TermOf, Term, E, chosen
  <1>6. {u \in Instants(A) : begins(u)} = Starts(E)
    <2>1. ASSUME NEW u \in Instants(A)
          PROVE  begins(u) <=> Decided(E, u) \notin {None, Held(E, u)}
      <3>1. {v \in Instants(E) : v < u} = before(u)
        BY <1>2
      <3>2. before(u) # {} => Max(before(u)) \in before(u)
        <4>1. before(u) \in SUBSET Instants(E)
          BY <1>2
        <4> HIDE DEF before
        <4>2. QED
          BY <1>2, <4>1, MaxOf
      <3>3. before(u) # {} => Decided(E, Max(before(u))) = chosen(Max(before(u)))
        BY <1>2, <3>2
      <3>4. Held(E, u) = IF before(u) = {} THEN None ELSE Decided(E, Max(before(u)))
        BY <3>1 DEF Held
      <3> HIDE DEF before
      <3>5. QED
        BY <1>2, <3>3, <3>4
    <2> HIDE DEF begins
    <2>2. QED
      BY <1>2, <2>1 DEF Starts
  <1> HIDE DEF term, begins
  <1>7. \A t \in Starts(E) : term(t) = TermOf(edges, s, A, t)
    BY <1>2, <1>5 DEF Starts
  <1>8. QED
    BY <1>1, <1>6, <1>7 DEF E

\* The last instant of a run is one of them.
LEMMA ReignedMax ==
  ASSUME NEW E, Ranked(E), NEW u \in Instants(E)
  PROVE  /\ u \in Reigned(E, u) /\ Reigned(E, u) \in SUBSET Instants(E)
         /\ Max(Reigned(E, u)) \in Reigned(E, u)
         /\ \A v \in Reigned(E, u) : v <= Max(Reigned(E, u))
  <1>1. Reigned(E, u) \in SUBSET Instants(E)
    BY DEF Reigned
  <1>2. u \in Reigned(E, u)
    <2>1. u \in Nat /\ Instants(E) \subseteq Nat
      BY InstantsNat
    <2> DEFINE later == {v \in Instants(E) : v > u /\ Decided(E, v) # Decided(E, u)}
    <2>2. End(E, u) = IF later = {} THEN None ELSE Min(later)
      BY DEF End
    <2>3. later # {} => Min(later) > u
      <3>1. later \in SUBSET Nat /\ \A v \in later : v > u
        BY <2>1
      <3> HIDE DEF later
      <3>2. QED
        BY <3>1, MinExists
    <2> HIDE DEF later
    <2>4. Within(u, u, End(E, u))
      BY <2>1, <2>2, <2>3 DEF Within
    <2>5. QED
      BY <2>4 DEF Reigned
  <1>3. QED
    BY <1>1, <1>2, MaxOf

\* The votes B of the instants in T, and those C before the last of them.
Parted(edges, A, T, t, B, C) ==
  /\ Votes(B) /\ Votes(C) /\ Instants(B) = T /\ Instants(C) = T \ {t}
  /\ B \in SUBSET A /\ C \in SUBSET A /\ At(A, t) \in SUBSET A
  /\ B = C \cup At(A, t) /\ \A x \in C, y \in At(A, t) : x.vf < y.vf
  /\ Standing(edges, B, t) = Stand(edges, B)
  /\ \A v \in T \ {t} : Standing(edges, B, v) = Standing(edges, C, v)

LEMMA BallotParts ==
  ASSUME NEW edges, NEW A, Votes(A), NEW T \in SUBSET Instants(A), NEW t \in T,
         \A v \in T : v <= t, NEW B, B = During(A, T), NEW C, C = During(A, T \ {t})
  PROVE  Parted(edges, A, T, t, B, C)
  <1>1. B \in SUBSET A /\ C \in SUBSET A /\ At(A, t) \in SUBSET A
    BY DEF During, At
  <1>2. Votes(B) /\ Votes(C)
    BY <1>1, VotesSubset
  <1>3. Instants(B) = T /\ Instants(C) = T \ {t}
    BY DEF During, Instants
  <1>4. T \in SUBSET Nat /\ t \in Nat /\ \A v \in T : v \in Nat /\ v <= t /\ (v # t => v < t)
    <2>1. T \in SUBSET Nat
      BY VoteInstants
    <2>2. QED
      BY <2>1
  <1>5. B = C \cup At(A, t) /\ \A x \in C, y \in At(A, t) : x.vf < y.vf
    BY <1>4 DEF During, At
  <1>6. \A b \in B : b.vf <= t
    BY <1>4 DEF During
  <1>7. Standing(edges, B, t) = Stand(edges, B)
    BY <1>6 DEF Standing, Stand, Asserts
  <1>8. ASSUME NEW v \in T \ {t}
        PROVE  Standing(edges, B, v) = Standing(edges, C, v)
    <2>1. \A b \in B : b.vf <= v <=> b \in C /\ b.vf <= v
      BY <1>4, <1>5 DEF At
    <2>2. QED
      BY <1>5, <2>1 DEF Standing, Asserts
  <1>9. QED
    BY <1>1, <1>2, <1>3, <1>5, <1>7, <1>8 DEF Parted

LEMMA OutcomeParts ==
  ASSUME NEW edges, NEW A, NEW T, NEW t \in T, NEW B, NEW C, Parted(edges, A, T, t, B, C)
  PROVE  /\ Outcomes(edges, B) = During(Outcomes(edges, B), T)
         /\ Outcomes(edges, C) = During(Outcomes(edges, B), T \ {t})
         /\ \A v \in T \ {t} : ElectedAt(edges, B, v) = ElectedAt(edges, C, v)
  <1>1. /\ Instants(B) = T /\ Instants(C) = T \ {t}
        /\ \A v \in T \ {t} : Standing(edges, B, v) = Standing(edges, C, v)
    BY DEF Parted
  <1>2. \A v \in T \ {t} : ElectedAt(edges, B, v) = ElectedAt(edges, C, v)
    BY <1>1 DEF ElectedAt
  <1>3. \A v \in T \ {t} : Outcome(edges, B, v) = Outcome(edges, C, v)
    BY <1>2 DEF Outcome
  <1>4. \A v : Outcome(edges, B, v).vf = v
    BY DEF Outcome
  <1>5. Outcomes(edges, B) = {Outcome(edges, B, v) : v \in T}
        /\ Outcomes(edges, C) = {Outcome(edges, C, v) : v \in T \ {t}}
    BY <1>1 DEF Outcomes
  <1>6. Outcomes(edges, B) = During(Outcomes(edges, B), T)
    BY <1>4, <1>5 DEF During
  <1>7. Outcomes(edges, C) = During(Outcomes(edges, B), T \ {t})
    BY <1>3, <1>4, <1>5 DEF During
  <1>8. QED
    BY <1>2, <1>6, <1>7

\* What becomes of a run when the votes of one more instant count.
LEMMA TermMoves ==
  ASSUME NEW edges, NEW A, Votes(A), NEW T \in SUBSET Instants(A), NEW t \in T,
         \A v \in T : v <= t, NEW B, NEW C, Parted(edges, A, T, t, B, C),
         NEW EB, EB = Outcomes(edges, B), NEW EC, EC = Outcomes(edges, C), NEW s
  PROVE  /\ \A u \in T \ {t} :
              LET i == TermOf(edges, s, C, u)
                  j == TermOf(edges, s, B, u)
                  stays == ElectedAt(edges, B, t) = ElectedAt(edges, B, u)
              IN  /\ End(EC, u) # None => j = i
                  /\ End(EC, u) = None /\ ~ stays => j = ClosedAt(i, t)
                  /\ End(EC, u) = None /\ stays => j = Reign(edges, s, Stand(edges, B), u)
         /\ TermOf(edges, s, B, t) = Reign(edges, s, Stand(edges, B), t)
  <1>1. /\ Votes(B) /\ Votes(C) /\ Instants(B) = T /\ Instants(C) = T \ {t}
        /\ Standing(edges, B, t) = Stand(edges, B)
        /\ \A v \in T \ {t} : Standing(edges, B, v) = Standing(edges, C, v)
    BY DEF Parted
  <1>2. /\ EB = During(EB, T) /\ EC = During(EB, T \ {t})
        /\ \A v \in T \ {t} : ElectedAt(edges, B, v) = ElectedAt(edges, C, v)
    BY OutcomeParts
  <1>3. /\ Ranked(EB) /\ Ranked(EC) /\ Instants(EB) = T /\ Instants(EC) = T \ {t}
        /\ \A v \in T : Decided(EB, v) = ElectedAt(edges, B, v)
    BY <1>1, OutcomesShape
  <1>4. /\ T \in SUBSET Nat /\ t \in Nat /\ None \notin Nat
        /\ \A v \in T : v \in Nat /\ v <= t /\ (v # t => v < t)
    <2>1. T \in SUBSET Nat
      BY VoteInstants
    <2>2. QED
      BY <2>1, ProfileAssumption
  <1>5. ASSUME NEW u \in T \ {t}
        PROVE  /\ End(EC, u) # None => End(EB, u) = End(EC, u) /\ End(EC, u) \in T \ {t}
               /\ End(EC, u) = None =>
                    End(EB, u) = IF ElectedAt(edges, B, t) = ElectedAt(edges, B, u)
                                 THEN None ELSE t
    <2>1. /\ End(EC, u) # None => End(EB, u) = End(EC, u)
          /\ End(EC, u) = None =>
               End(EB, u) = IF Decided(EB, t) = Decided(EB, u) THEN None ELSE t
      BY <1>2, <1>3, InstantEnds
    <2>2. End(EC, u) # None => End(EC, u) \in T \ {t}
      <3> DEFINE later == {v \in Instants(EC) : v > u /\ Decided(EC, v) # Decided(EC, u)}
      <3>1. later \in SUBSET Nat /\ later \in SUBSET (T \ {t})
        BY <1>3, <1>4
      <3>2. End(EC, u) = IF later = {} THEN None ELSE Min(later)
        BY DEF End
      <3> HIDE DEF later
      <3>3. QED
        BY <3>1, <3>2, MinExists
    <2>3. QED
      BY <1>3, <2>1, <2>2
  <1>6. End(EB, t) = None
    BY <1>2, <1>3, LastEnds
  <1>7. ASSUME NEW u \in T, End(EB, u) = None
        PROVE  Max(Reigned(EB, u)) = t
    <2>1. t \in Reigned(EB, u)
      BY <1>3, <1>4, <1>7 DEF Reigned, Within
    <2>2. Max(Reigned(EB, u)) \in T /\ t <= Max(Reigned(EB, u))
      BY <1>3, <2>1, ReignedMax
    <2>3. \A m \in T : t <= m => m = t
      BY <1>4
    <2>4. QED
      BY <2>2, <2>3
  <1>8. ASSUME NEW u \in T, End(EB, u) = None, ElectedAt(edges, B, t) = ElectedAt(edges, B, u)
        PROVE  TermOf(edges, s, B, u) = Reign(edges, s, Stand(edges, B), u)
    <2>1. ElectedAt(edges, B, u) = Elected(edges, Stand(edges, B))
      BY <1>1, <1>8 DEF ElectedAt
    <2>2. Max(Reigned(Outcomes(edges, B), u)) = t /\ End(Outcomes(edges, B), u) = None
      BY <1>7, <1>8
    <2>3. QED
      BY <1>1, <2>1, <2>2 DEF TermOf, Term, Reign
  <1>9. ASSUME NEW u \in T \ {t}, End(EB, u) # None
        PROVE  Reigned(EB, u) = Reigned(EC, u)
    <2>1. CASE End(EC, u) # None
      <3>1. End(EB, u) = End(EC, u) /\ End(EC, u) \in Nat /\ End(EC, u) < t
        BY <1>4, <1>5, <2>1
      <3>2. ~ Within(t, u, End(EC, u))
        BY <1>4, <2>1, <3>1 DEF Within
      <3>3. QED
        BY <1>3, <3>1, <3>2 DEF Reigned
    <2>2. CASE End(EC, u) = None
      <3>1. End(EB, u) = t /\ t # None
        BY <1>4, <1>5, <1>9, <2>2
      <3>2. ~ Within(t, u, t) /\ \A v \in T \ {t} : Within(v, u, t) <=> Within(v, u, None)
        BY <1>4, <3>1 DEF Within
      <3>3. QED
        BY <1>3, <2>2, <3>1, <3>2 DEF Reigned
    <2>3. QED
      BY <2>1, <2>2
  <1>10. ASSUME NEW u \in T \ {t}, End(EB, u) # None
         PROVE  /\ End(EB, u) = End(EC, u) =>
                     TermOf(edges, s, B, u) = TermOf(edges, s, C, u)
                /\ End(EB, u) = t =>
                     TermOf(edges, s, B, u) = ClosedAt(TermOf(edges, s, C, u), t)
    <2> DEFINE m == Max(Reigned(EC, u))
               k == ElectedAt(edges, C, u)
               S == For(edges, Standing(edges, C, m), k)
    <2>1. m \in T \ {t} /\ Max(Reigned(EB, u)) = m
      BY <1>3, <1>9, <1>10, ReignedMax
    <2>2. /\ TermOf(edges, s, C, u) = Term(s, k, u, End(EC, u), S)
          /\ TermOf(edges, s, B, u) = Term(s, k, u, End(EB, u), S)
      <3> HIDE DEF m
      <3>1. Standing(edges, B, m) = Standing(edges, C, m) /\ ElectedAt(edges, B, u) = k
        BY <1>1, <1>2, <2>1
      <3>2. QED
        BY <2>1, <3>1 DEF TermOf, m
    <2> HIDE DEF m, k, S
    <2>3. QED
      BY <2>2, TermEdits
  <1>11. ASSUME NEW u \in T \ {t}
         PROVE  LET i == TermOf(edges, s, C, u)
                    j == TermOf(edges, s, B, u)
                    stays == ElectedAt(edges, B, t) = ElectedAt(edges, B, u)
                IN  /\ End(EC, u) # None => j = i
                    /\ End(EC, u) = None /\ ~ stays => j = ClosedAt(i, t)
                    /\ End(EC, u) = None /\ stays => j = Reign(edges, s, Stand(edges, B), u)
    BY <1>4, <1>5, <1>8, <1>10
  <1>12. TermOf(edges, s, B, t) = Reign(edges, s, Stand(edges, B), t)
    BY <1>6, <1>8
  <1>13. QED
    BY <1>11, <1>12

\* What the walk has in hand once the votes X count.
Tally(edges, s, X) ==
  [live |-> Stand(edges, X),
   active |-> {i \in ElectedIntervals(edges, s, X) : i.to = None},
   done |-> {i \in ElectedIntervals(edges, s, X) : i.to # None}]

LEMMA ElectionTurn ==
  ASSUME NEW edges, NEW A, Votes(A), Distinct(A), NEW T \in SUBSET Instants(A), NEW t \in T,
         \A v \in T : v <= t, NEW B, NEW C, Parted(edges, A, T, t, B, C), NEW s
  PROVE  Tally(edges, s, B) = ElectionStep(edges, s, A, Tally(edges, s, C), t)
  <1> DEFINE EB == Outcomes(edges, B)
             EC == Outcomes(edges, C)
             I == ElectedIntervals(edges, s, B)
             J == ElectedIntervals(edges, s, C)
             P == Starts(EC)
             S == Stand(edges, B)
             d(u) == ElectedAt(edges, B, u)
             before(u) == TermOf(edges, s, C, u)
             after(u) == TermOf(edges, s, B, u)
             live == {u \in P : End(EC, u) = None}
             X == {u \in Starts(EB) : End(EB, u) = None}
  <1>1. /\ Votes(B) /\ Votes(C) /\ Instants(B) = T /\ Instants(C) = T \ {t}
        /\ C \in SUBSET A /\ At(A, t) \in SUBSET A
        /\ B = C \cup At(A, t) /\ \A x \in C, y \in At(A, t) : x.vf < y.vf
        /\ Standing(edges, B, t) = S
    BY DEF Parted
  <1>2. /\ EB = During(EB, T) /\ EC = During(EB, T \ {t})
        /\ \A v \in T \ {t} : d(v) = ElectedAt(edges, C, v)
    <2> HIDE DEF EB, EC
    <2>1. EB = Outcomes(edges, B) /\ EC = Outcomes(edges, C)
      BY DEF EB, EC
    <2>2. QED
      BY <2>1, OutcomeParts
  <1>3. /\ Ranked(EB) /\ Ranked(EC) /\ Instants(EB) = T /\ Instants(EC) = T \ {t}
        /\ \A v \in T : Decided(EB, v) = d(v)
        /\ \A v \in T \ {t} : Decided(EC, v) = d(v)
    BY <1>1, <1>2, OutcomesShape
  <1>4. CountVotes(edges, Stand(edges, C), At(A, t)) = S
    BY <1>1, Counted
  <1>5. d(t) = Elected(edges, S)
    BY <1>1 DEF ElectedAt
  <1>6. I = {after(u) : u \in Starts(EB)} /\ J = {before(u) : u \in P}
    <2>1. I = {TermOf(edges, s, B, u) : u \in Starts(Outcomes(edges, B))}
      <3> HIDE DEF I
      <3>1. I = ElectedIntervals(edges, s, B)
        BY DEF I
      <3>2. Votes(B)
        BY <1>1
      <3>3. QED
        BY <3>1, <3>2, ElectionRuns
    <2>2. J = {TermOf(edges, s, C, u) : u \in Starts(Outcomes(edges, C))}
      <3> HIDE DEF J
      <3>1. J = ElectedIntervals(edges, s, C)
        BY DEF J
      <3>2. Votes(C)
        BY <1>1
      <3>3. QED
        BY <3>1, <3>2, ElectionRuns
    <2>3. QED
      BY <2>1, <2>2
  <1>7. P \subseteq T \ {t} /\ \A u \in P : d(u) # None
    BY <1>3 DEF Starts
  <1>8. /\ \A u \in P : before(u).to = End(EC, u) /\ before(u).key = d(u) /\ before(u).from = u
        /\ \A u \in T : after(u).to = End(EB, u)
    BY <1>2, <1>7 DEF TermOf, Term
  <1>9. /\ \A u \in T \ {t} : Held(EB, u) = Held(EC, u)
        /\ Held(EB, t) = IF T \ {t} = {} THEN None ELSE d(Max(T \ {t}))
        /\ T \ {t} # {} => Max(T \ {t}) \in T \ {t} /\ Decided(EC, Max(T \ {t})) = d(Max(T \ {t}))
    <2>1. /\ \A u \in T \ {t} : Held(EB, u) = Held(EC, u)
          /\ Held(EB, t) = IF T \ {t} = {} THEN None ELSE Decided(EB, Max(T \ {t}))
          /\ T \ {t} # {} => Max(T \ {t}) \in T \ {t}
      <3> HIDE DEF EB, EC
      <3>1. QED
        BY <1>2, <1>3, InstantHolds
    <2> HIDE DEF EB, EC, d
    <2>2. QED
      BY <1>3, <2>1
  <1>10. Starts(EB) = P \cup (IF d(t) \notin {None, Held(EB, t)} THEN {t} ELSE {})
    <2> HIDE DEF EB, EC, d
    <2>1. QED
      BY <1>3, <1>9 DEF Starts
  <1>11. /\ \A u \in T \ {t} :
              /\ End(EC, u) # None => End(EB, u) = End(EC, u)
              /\ End(EC, u) = None => End(EB, u) = IF d(t) = d(u) THEN None ELSE t
         /\ End(EB, t) = None /\ t # None
    <2>1. t \in Nat
      BY VoteInstants
    <2> HIDE DEF EB, EC, d
    <2>2. \A u \in T \ {t} :
              /\ End(EC, u) # None => End(EB, u) = End(EC, u)
              /\ End(EC, u) = None => End(EB, u) = IF Decided(EB, t) = Decided(EB, u) THEN None ELSE t
      BY <1>2, <1>3, InstantEnds
    <2>3. End(EB, t) = None
      BY <1>2, <1>3, LastEnds
    <2>4. QED
      BY <1>3, <2>1, <2>2, <2>3, ProfileAssumption
  <1>12. /\ \A u \in T \ {t} :
              /\ End(EC, u) # None => after(u) = before(u)
              /\ End(EC, u) = None /\ d(t) # d(u) => after(u) = ClosedAt(before(u), t)
              /\ End(EC, u) = None /\ d(t) = d(u) => after(u) = Reign(edges, s, S, u)
         /\ after(t) = Reign(edges, s, S, t)
    BY TermMoves
  <1>13. {d(u) : u \in live} = {Held(EB, t)} \ {None}
    <2> DEFINE K == SingleIntervals(s, s, EC)
               run(u) == RunFrom(s, s, EC, u)
    <2>1. CASE T \ {t} = {}
      BY <1>7, <1>9, <2>1
    <2>2. CASE T \ {t} # {}
      <3>1. EC # {}
        BY <1>3, <2>2 DEF Instants
      <3>2. {i.key : i \in {j \in K : j.to = None}} = {Decided(EC, Max(Instants(EC)))} \ {None}
        BY <1>3, <3>1, LiveSingle
      <3>3. K = {run(u) : u \in P}
        BY SingleRuns
      <3>4. \A u \in P : run(u).to = End(EC, u) /\ run(u).key = d(u)
        BY <1>3, <1>7 DEF RunFrom, Interval
      <3>5. {i.key : i \in {j \in K : j.to = None}} = {d(u) : u \in live}
        <4> HIDE DEF run, P, d, K
        <4>1. QED
          BY <3>3, <3>4
      <3>6. Decided(EC, Max(Instants(EC))) = Held(EB, t)
        <4> HIDE DEF EB, EC, d
        <4>1. QED
          BY <1>3, <1>9, <2>2
      <3>7. QED
        BY <3>2, <3>5, <3>6
    <2>3. QED
      BY <2>1, <2>2
  <1>14. {i \in J : i.to = None} = {before(u) : u \in live}
         /\ {i \in J : i.to # None} = {before(u) : u \in P \ live}
    <2> HIDE DEF before, P, J, EC
    <2>1. QED
      BY <1>6, <1>8
  <1>15. {i \in I : i.to = None} = {after(u) : u \in X}
         /\ {i \in I : i.to # None} = {after(u) : u \in Starts(EB) \ X}
    <2>1. Starts(EB) \subseteq T
      BY <1>3 DEF Starts
    <2> HIDE DEF after, I, EB
    <2>2. QED
      BY <1>6, <1>8, <2>1
  <1>16. \A u \in P \ live : after(u) = before(u) /\ End(EB, u) # None
    <2> HIDE DEF before, after, EB, EC, P, d, S
    <2>1. QED
      BY <1>7, <1>11, <1>12
  <1> DEFINE W == Tally(edges, s, C)
             kept == {i \in W.active : i.key = d(t)}
             froms == IF kept = {} THEN {t} ELSE {i.from : i \in kept}
             shut == {ClosedAt(i, t) : i \in W.active}
  <1>17. ElectionStep(edges, s, A, W, t) =
           [live |-> S,
            active |-> IF d(t) = None THEN {} ELSE {Reign(edges, s, S, f) : f \in froms},
            done |-> IF kept # {} THEN W.done ELSE W.done \cup shut]
    <2>1. W.live = Stand(edges, C)
      BY DEF Tally
    <2> HIDE DEF W, S, d
    <2>2. QED
      BY <1>4, <1>5, <2>1 DEF ElectionStep
  <1>18. /\ W.active = {before(u) : u \in live} /\ W.done = {before(u) : u \in P \ live}
         /\ Tally(edges, s, B) = [live |-> S, active |-> {after(u) : u \in X},
                                  done |-> {after(u) : u \in Starts(EB) \ X}]
    BY <1>14, <1>15 DEF Tally
  <1>19. kept = {before(u) : u \in {x \in live : d(x) = d(t)}}
         /\ {i.from : i \in kept} = {x \in live : d(x) = d(t)}
         /\ shut = {ClosedAt(before(u), t) : u \in live}
    <2>1. live \subseteq P
      OBVIOUS
    <2> HIDE DEF before, live, P, W, d
    <2>2. kept = {before(u) : u \in {x \in live : d(x) = d(t)}}
      BY <1>8, <1>18, <2>1
    <2>3. {i.from : i \in kept} = {x \in live : d(x) = d(t)}
      <3> HIDE DEF kept
      <3>1. QED
        BY <1>8, <2>1, <2>2
    <2>4. QED
      BY <1>18, <2>2, <2>3
  <1>20. live \subseteq P /\ P \subseteq T \ {t} /\ \A u \in live : d(u) # None /\ End(EC, u) = None
    BY <1>7
  <1>21. \A u : u \in X <=> u \in Starts(EB) /\ End(EB, u) = None
    OBVIOUS
  <1>22. froms = IF kept = {} THEN {t} ELSE {i.from : i \in kept}
    OBVIOUS
  <1> HIDE DEF EB, EC, I, J, P, S, d, before, after, live, X, W, kept, shut, froms
  <1>23. CASE d(t) = None
    <2>1. kept = {}
      BY <1>19, <1>20, <1>23
    <2>2. \A u \in live : after(u) = ClosedAt(before(u), t) /\ End(EB, u) = t
      BY <1>11, <1>12, <1>20, <1>23
    <2>3. Starts(EB) = P
      BY <1>10, <1>23
    <2>4. X = {}
      BY <1>11, <1>16, <1>21, <2>2, <2>3
    <2>5. {after(u) : u \in Starts(EB) \ X} = {before(u) : u \in P \ live} \cup {ClosedAt(before(u), t) : u \in live}
      BY <1>16, <1>20, <2>2, <2>3, <2>4
    <2>6. {after(u) : u \in X} = {}
      BY <2>4
    <2>7. QED
      BY <1>17, <1>18, <1>19, <1>23, <2>1, <2>5, <2>6 DEF W
  <1>24. CASE d(t) # None /\ kept # {}
    <2>1. \E u \in live : d(u) = d(t)
      BY <1>19, <1>24
    <2>2. Held(EB, t) = d(t) /\ \A u \in live : d(u) = d(t)
      BY <1>13, <2>1
    <2>3. \A u \in live : after(u) = Reign(edges, s, S, u) /\ End(EB, u) = None
      BY <1>11, <1>12, <1>20, <2>2
    <2>4. Starts(EB) = P
      BY <1>10, <2>2
    <2>5. X = live
      BY <1>16, <1>20, <1>21, <2>3, <2>4
    <2>6. froms = live
      BY <1>19, <1>22, <1>24, <2>2
    <2>7. {after(u) : u \in X} = {Reign(edges, s, S, f) : f \in froms}
      BY <2>3, <2>5, <2>6
    <2>8. {after(u) : u \in Starts(EB) \ X} = {before(u) : u \in P \ live}
      BY <1>16, <2>4, <2>5
    <2>9. QED
      BY <1>17, <1>18, <1>24, <2>7, <2>8 DEF W
  <1>25. CASE d(t) # None /\ kept = {}
    <2>1. \A u \in live : d(u) # d(t)
      BY <1>19, <1>25
    <2>2. Held(EB, t) # d(t)
      BY <1>13, <1>25, <2>1
    <2>3. \A u \in live : after(u) = ClosedAt(before(u), t) /\ End(EB, u) = t
      BY <1>11, <1>12, <1>20, <2>1
    <2>4. Starts(EB) = P \cup {t} /\ t \notin P
      BY <1>10, <1>20, <1>25, <2>2
    <2>5. X = {t}
      BY <1>11, <1>16, <1>21, <2>3, <2>4
    <2>6. {after(u) : u \in X} = {Reign(edges, s, S, f) : f \in froms}
      BY <1>12, <1>22, <1>25, <2>5
    <2>7. {after(u) : u \in Starts(EB) \ X} = {before(u) : u \in P \ live} \cup {ClosedAt(before(u), t) : u \in live}
      BY <1>16, <1>20, <2>3, <2>4, <2>5
    <2>8. QED
      BY <1>17, <1>18, <1>19, <1>25, <2>6, <2>7 DEF W
  <1>26. QED
    BY <1>23, <1>24, <1>25

\* g is the function the walk over the instants is defined by.
WalkIter(g, edges, s, A) ==
  g = [T \in SUBSET Instants(A) |->
         IF T = {} THEN Unelected
         ELSE ElectionStep(edges, s, A, g[T \ {Max(T)}], Max(T))]

LEMMA BallotMax ==
  ASSUME NEW A, Votes(A), NEW T \in SUBSET Instants(A), T # {}
  PROVE  Max(T) \in T /\ \A u \in T : u <= Max(T)
  <1>1. Ranked(Outcomes(None, A)) /\ Instants(Outcomes(None, A)) = Instants(A)
    BY OutcomesShape
  <1>2. QED
    BY <1>1, MaxOf

\* The walk over a ballot comes to its elected intervals.
LEMMA ElectionWalked ==
  ASSUME NEW edges, NEW s, NEW A, Votes(A), Distinct(A)
  PROVE  ElectionWalk(edges, s, A) = ElectedIntervals(edges, s, A)
  <1> DEFINE S == Instants(A)
             f == [T \in SUBSET S |-> Tally(edges, s, During(A, T))]
             c == [T \in SUBSET S |-> Max(T)]
  <1>1. f[{}] = Unelected
    <2>1. During(A, {}) = {} /\ {} \in SUBSET S
      BY DEF During
    <2>2. ElectedIntervals(edges, s, {}) = {} /\ Stand(edges, {}) = {}
      BY DEF ElectedIntervals, Instants, Stand, Asserts
    <2>3. QED
      BY <2>1, <2>2 DEF Tally, Unelected
  <1>2. ASSUME NEW T \in SUBSET S, T # {}
        PROVE  f[T] = ElectionStep(edges, s, A, f[T \ {Max(T)}], Max(T))
    <2> DEFINE t == Max(T)
               B == During(A, T)
               C == During(A, T \ {t})
    <2>1. t \in T /\ \A u \in T : u <= t
      BY <1>2, BallotMax
    <2>2. f[T] = Tally(edges, s, B) /\ f[T \ {t}] = Tally(edges, s, C)
      OBVIOUS
    <2> HIDE DEF f, t
    <2>3. Parted(edges, A, T, t, B, C)
      BY <2>1, BallotParts
    <2> HIDE DEF B, C
    <2>4. f[T] = ElectionStep(edges, s, A, f[T \ {t}], t)
      BY <2>1, <2>2, <2>3, ElectionTurn
    <2>5. QED
      BY <2>4 DEF t
  <1>3. WalkIter(f, edges, s, A)
    <2>1. f = [T \in SUBSET S |-> f[T]]
      OBVIOUS
    <2> HIDE DEF f
    <2>2. QED
      BY <1>1, <1>2, <2>1 DEF WalkIter
  <1> DEFINE g == CHOOSE h : WalkIter(h, edges, s, A)
  <1>4. WalkIter(g, edges, s, A)
    BY <1>3
  <1>5. ElectionWalk(edges, s, A) = g[S].active \cup g[S].done
    BY DEF ElectionWalk, MapThenFoldSet, WalkIter
  <1>6. f[S].active \cup f[S].done = ElectedIntervals(edges, s, A)
    <2>1. During(A, S) = A
      BY DEF During, Instants
    <2>2. f[S] = Tally(edges, s, A)
      BY <2>1
    <2>3. QED
      BY <2>2 DEF Tally
  <1> HIDE DEF f, g
  <1>7. g[{}] = f[{}]
    BY <1>1, <1>4 DEF WalkIter
  <1>8. ASSUME NEW T \in SUBSET S, T # {}, g[T \ {c[T]}] = f[T \ {c[T]}]
        PROVE  g[T] = f[T]
    <2>1. g[T] = ElectionStep(edges, s, A, g[T \ {Max(T)}], Max(T))
      BY <1>4, <1>8 DEF WalkIter
    <2>2. QED
      BY <1>2, <1>8, <2>1
  <1>9. \A T \in SUBSET S : T # {} => c[T] \in T
    BY BallotMax
  <1>10. IsFiniteSet(S)
    BY VoteInstants
  <1> HIDE DEF c, S
  <1>11. g[S] = f[S]
    <2>1. \A T \in SUBSET S : T # {} /\ g[T \ {c[T]}] = f[T \ {c[T]}] => g[T] = f[T]
      BY <1>8
    <2>2. QED
      BY <1>7, <1>9, <1>10, <2>1, FoldUnique
  <1>12. QED
    BY <1>5, <1>6, <1>11 DEF S

\* The elected intervals are those of the loops of election_history and
\* _project_elected_single, vote by vote and instant by instant, for every set of
\* votes and merges that the scope can come to hold.
THEOREM ElectionIsWalked == Spec => []ElectionIsTheWalk
  <1>1. TypeOK /\ Shape => ElectionIsTheWalk
    <2>1. SUFFICES ASSUME TypeOK, Shape, NEW s \in Subjects
                   PROVE  LET A == Ballot(votes, merges, s, "part_of")
                          IN  ElectedIntervals(merges, s, A) = ElectionWalk(merges, s, A)
      BY DEF ElectionIsTheWalk
    <2> DEFINE A == Ballot(votes, merges, s, "part_of")
    <2>2. Votes(A) /\ A \in SUBSET votes
      BY <2>1, BallotVotes DEF Shape
    <2>3. Distinct(A)
      BY <2>1, <2>2 DEF Shape, Together, Distinct
    <2> HIDE DEF A
    <2>4. QED
      BY <2>2, <2>3, ElectionWalked DEF A
  <1>2. QED
    BY <1>1, ShapeAlways, PTL

-----------------------------------------------------------------------------
\* Walks of as many steps as there are subjects.

\* What holds at 0 and is passed on from step to step holds of every step.
LEMMA StepByStep ==
  ASSUME NEW N \in Nat, NEW G, 0 \in G, \A n \in 1..N : n - 1 \in G => n \in G
  PROVE  0..N \subseteq G
  <1> DEFINE bad == {n \in 0..N : n \notin G}
  <1>1. SUFFICES ASSUME bad # {}
                 PROVE  FALSE
    OBVIOUS
  <1>2. bad \in SUBSET Nat /\ \A n \in bad : n \in 1..N
    OBVIOUS
  <1> HIDE DEF bad
  <1>3. PICK n \in bad : \A m \in bad : n <= m
    BY <1>1, <1>2, MinExists
  <1>4. n \in 1..N /\ n - 1 \in 0..N /\ n - 1 \notin bad
    BY <1>2, <1>3
  <1>5. n \notin G /\ n - 1 \in G
    BY <1>3, <1>4 DEF bad
  <1>6. QED
    BY <1>4, <1>5

\* f is the walk that begins at x and takes next at every step.
Walks(f, X, next, x, N) ==
  /\ f \in [0..N -> X]
  /\ f[0] = x /\ \A n \in 1..N : f[n] = next[f[n - 1]]

LEMMA WalkExists ==
  ASSUME NEW X, NEW next \in [X -> X], NEW x \in X, NEW N \in Nat
  PROVE  \E f : Walks(f, X, next, x, N)
  <1> DEFINE G == {n \in 0..N : \E f : Walks(f, X, next, x, n)}
  <1>1. 0 \in G
    <2>1. Walks([n \in 0..0 |-> x], X, next, x, 0)
      BY DEF Walks
    <2>2. QED
      BY <2>1
  <1>2. ASSUME NEW n \in 1..N, n - 1 \in G
        PROVE  n \in G
    <2>1. PICK f : Walks(f, X, next, x, n - 1)
      BY <1>2
    <2> DEFINE g == [m \in 0..n |-> IF m = n THEN next[f[n - 1]] ELSE f[m]]
    <2>2. f \in [0..(n - 1) -> X] /\ f[0] = x /\ \A m \in 1..(n - 1) : f[m] = next[f[m - 1]]
      BY <2>1 DEF Walks
    <2>3. g \in [0..n -> X]
      BY <2>2
    <2>4. g[0] = x
      BY <2>2
    <2>5. ASSUME NEW m \in 1..n PROVE g[m] = next[g[m - 1]]
      <3>1. g[m - 1] = f[m - 1]
        OBVIOUS
      <3>2. CASE m = n
        BY <3>1, <3>2
      <3>3. CASE m # n
        BY <2>2, <3>1, <3>3
      <3>4. QED
        BY <3>2, <3>3
    <2> HIDE DEF g
    <2>6. Walks(g, X, next, x, n)
      BY <2>3, <2>4, <2>5 DEF Walks
    <2>7. QED
      BY <2>6
  <1> HIDE DEF G
  <1>3. 0..N \subseteq G
    BY <1>1, <1>2, StepByStep
  <1>4. N \in G
    BY <1>3
  <1>5. QED
    BY <1>4 DEF G

-----------------------------------------------------------------------------
\* The walk up.

LEMMA SubjectsSized == Cardinality(Subjects) \in Nat
  BY ViewsAssumption, FS_CardinalityType

StepUp(par, x) == IF x \in DOMAIN par THEN par[x] ELSE x

UpIter(up, par, s) ==
  up = [n \in 0..Cardinality(Subjects) |->
          IF n = 0 THEN s
          ELSE IF up[n - 1] \in DOMAIN par THEN par[up[n - 1]] ELSE up[n - 1]]

LEMMA UpWalks ==
  ASSUME NEW par \in Edges, NEW s \in Subjects
  PROVE  /\ Up(par, s) \in [0..Cardinality(Subjects) -> Subjects]
         /\ Up(par, s)[0] = s
         /\ \A n \in 1..Cardinality(Subjects) : Up(par, s)[n] = StepUp(par, Up(par, s)[n - 1])
  <1> DEFINE N == Cardinality(Subjects)
             next == [x \in Subjects |-> StepUp(par, x)]
  <1>1. N \in Nat
    BY SubjectsSized
  <1>2. /\ DOMAIN par \subseteq Subjects /\ \A x \in DOMAIN par : par[x] \in Subjects
    BY DEF Edges
  <1>3. next \in [Subjects -> Subjects]
    BY <1>2 DEF StepUp
  <1> HIDE DEF N
  <1>4. PICK f : Walks(f, Subjects, next, s, N)
    <2> HIDE DEF next
    <2>1. QED
      BY <1>1, <1>3, WalkExists
  <1>5. /\ f \in [0..N -> Subjects] /\ f[0] = s
        /\ \A n \in 1..N : f[n] = StepUp(par, f[n - 1])
    <2>1. \A n \in 1..N : n - 1 \in 0..N
      BY <1>1
    <2>2. QED
      BY <1>4, <2>1 DEF Walks
  <1>6. f = [n \in 0..N |-> IF n = 0 THEN s
               ELSE IF f[n - 1] \in DOMAIN par THEN par[f[n - 1]] ELSE f[n - 1]]
    <2>1. \A n \in 0..N : n # 0 => n \in 1..N
      BY <1>1
    <2>2. QED
      BY <1>5, <2>1 DEF StepUp
  <1>7. UpIter(f, par, s)
    BY <1>6 DEF UpIter, N
  <1>8. UpIter(Up(par, s), par, s)
    <2>1. Up(par, s) = CHOOSE up : UpIter(up, par, s)
      BY DEF Up, UpIter
    <2>2. QED
      BY <1>7, <2>1
  <1> DEFINE u == Up(par, s)
  <1>9. u = [n \in 0..N |-> IF n = 0 THEN s
               ELSE IF u[n - 1] \in DOMAIN par THEN par[u[n - 1]] ELSE u[n - 1]]
    BY <1>8 DEF UpIter, N
  <1> HIDE DEF u
  <1>10. u[0] = s /\ \A n \in 1..N : u[n] = StepUp(par, u[n - 1])
    <2>1. 0 \in 0..N /\ \A n \in 1..N : n \in 0..N /\ n # 0
      BY <1>1
    <2>2. QED
      BY <1>9, <2>1 DEF StepUp
  <1> DEFINE G == {n \in 0..N : u[n] \in Subjects}
  <1>11. 0 \in G
    BY <1>1, <1>10
  <1>12. ASSUME NEW n \in 1..N, n - 1 \in G PROVE n \in G
    BY <1>2, <1>10, <1>12 DEF StepUp
  <1> HIDE DEF G
  <1>13. 0..N \subseteq G
    BY <1>1, <1>11, <1>12, StepByStep
  <1>14. u \in [0..N -> Subjects]
    BY <1>9, <1>13 DEF G
  <1>15. QED
    BY <1>10, <1>14 DEF u, N

\* What lies between two subjects of a chain.
LEMMA ChainStep ==
  ASSUME NEW par \in Edges, NEW s \in Subjects
  PROVE  /\ \A S : s \in S /\ Closed(par, S) => Chain(par, s) \subseteq S
         /\ s \notin DOMAIN par => Chain(par, s) = {s}
         /\ s \in DOMAIN par => Chain(par, s) = {s} \cup Chain(par, par[s])
         /\ \A x \in Chain(par, s) : Chain(par, x) \subseteq Chain(par, s)
  <1>1. ASSUME NEW S, s \in S, Closed(par, S)
        PROVE  Chain(par, s) \subseteq S
    <2>1. Closed(par, S \cap Subjects) /\ S \cap Subjects \in SUBSET Subjects
      BY <1>1 DEF Closed, Edges
    <2>2. QED
      BY <1>1, <2>1 DEF Chain
  <1>2. ASSUME NEW x \in Subjects
        PROVE  /\ x \in Chain(par, x) /\ Chain(par, x) \subseteq Subjects
               /\ Closed(par, Chain(par, x))
    BY ChainClosed
  <1>3. ASSUME s \notin DOMAIN par PROVE Chain(par, s) = {s}
    <2>1. Closed(par, {s})
      BY <1>3 DEF Closed
    <2>2. QED
      BY <1>1, <1>2, <2>1
  <1>4. ASSUME s \in DOMAIN par PROVE Chain(par, s) = {s} \cup Chain(par, par[s])
    <2>1. par[s] \in Subjects
      BY <1>4 DEF Edges
    <2>2. Closed(par, {s} \cup Chain(par, par[s]))
      BY <1>2, <2>1 DEF Closed
    <2>3. Chain(par, s) \subseteq {s} \cup Chain(par, par[s])
      BY <1>1, <2>2
    <2>4. par[s] \in Chain(par, s)
      BY <1>2, <1>4 DEF Closed
    <2>5. Chain(par, par[s]) \subseteq Chain(par, s)
      <3>1. Closed(par, Chain(par, s)) /\ Chain(par, s) \in SUBSET Subjects
        BY <1>2
      <3>2. QED
        BY <2>1, <2>4, <3>1 DEF Chain
    <2>6. QED
      BY <1>2, <2>3, <2>5
  <1>5. ASSUME NEW x \in Chain(par, s) PROVE Chain(par, x) \subseteq Chain(par, s)
    <2>1. Closed(par, Chain(par, s)) /\ Chain(par, s) \in SUBSET Subjects
      BY <1>2
    <2>2. QED
      BY <1>5, <2>1 DEF Chain
  <1>6. QED
    BY <1>1, <1>3, <1>4, <1>5

\* Of two subjects of a chain, one comes before the other; a chain has one end.
LEMMA ChainLine ==
  ASSUME NEW par \in Edges, NEW s \in Subjects,
         NEW a \in Chain(par, s), NEW b \in Chain(par, s)
  PROVE  /\ b \in Chain(par, a) \/ a \in Chain(par, b)
         /\ a \notin DOMAIN par /\ b \notin DOMAIN par => a = b
  <1> DEFINE S == {y \in Chain(par, s) : a \in Chain(par, y) \/ y \in Chain(par, a)}
  <1>1. s \in Chain(par, s) /\ Chain(par, s) \subseteq Subjects /\ Closed(par, Chain(par, s))
    BY ChainClosed
  <1>2. a \in Subjects /\ Closed(par, Chain(par, a)) /\ a \in Chain(par, a)
    BY <1>1, ChainClosed
  <1>3. ASSUME NEW y \in S, y \in DOMAIN par
        PROVE  par[y] \in S
    <2>1. par[y] \in Chain(par, s)
      BY <1>1, <1>3 DEF Closed
    <2>2. CASE y \in Chain(par, a)
      BY <1>2, <1>3, <2>1, <2>2 DEF Closed
    <2>3. CASE a \in Chain(par, y)
      <3>1. y \in Subjects
        BY <1>1
      <3>2. Chain(par, y) = {y} \cup Chain(par, par[y])
        BY <1>3, <3>1, ChainStep
      <3>3. CASE a = y
        BY <1>2, <1>3, <2>1, <3>3 DEF Closed
      <3>4. CASE a # y
        BY <2>1, <2>3, <3>2, <3>4
      <3>5. QED
        BY <3>3, <3>4
    <2>4. QED
      BY <2>2, <2>3
  <1>4. s \in S
    BY <1>1
  <1>5. Closed(par, S)
    BY <1>3 DEF Closed
  <1> HIDE DEF S
  <1>6. Chain(par, s) \subseteq S
    BY <1>4, <1>5, ChainStep
  <1>7. b \in Chain(par, a) \/ a \in Chain(par, b)
    BY <1>6 DEF S
  <1>8. ASSUME a \notin DOMAIN par, b \notin DOMAIN par PROVE a = b
    <2>1. Chain(par, a) = {a} /\ Chain(par, b) = {b}
      BY <1>1, <1>8, ChainStep
    <2>2. QED
      BY <1>7, <2>1
  <1>9. QED
    BY <1>7, <1>8

\* The subjects the walk up has met after n steps, and when either of the two
\* walks of the code stops.
Met(par, s, n) == {Up(par, s)[m] : m \in 0..n}
RootStops(par, s, n) ==
  Up(par, s)[n] \notin DOMAIN par \/ Up(par, s)[n] \in {Up(par, s)[m] : m \in 0..(n - 1)}
ChainStops(par, s, n) ==
  Up(par, s)[n] \notin DOMAIN par \/ par[Up(par, s)[n]] \in Met(par, s, n)

\* A walk that stops has met the whole chain.
LEMMA StoppedMetAll ==
  ASSUME NEW par \in Edges, NEW s \in Subjects, NEW n \in 0..Cardinality(Subjects),
         RootStops(par, s, n) \/ ChainStops(par, s, n)
  PROVE  Met(par, s, n) = Chain(par, s) /\ Above(par, s) = Chain(par, s)
  <1> DEFINE N == Cardinality(Subjects)
             u == Up(par, s)
             S == Met(par, s, n)
  <1>1. N \in Nat
    BY SubjectsSized
  <1>2. /\ u \in [0..N -> Subjects] /\ u[0] = s
        /\ \A k \in 1..N : u[k] = StepUp(par, u[k - 1])
    BY UpWalks
  <1>3. RootStops(par, s, n) => u[n] \notin DOMAIN par \/ \E m \in 0..(n - 1) : u[n] = u[m]
    BY DEF RootStops
  <1>4. ChainStops(par, s, n) => u[n] \notin DOMAIN par \/ par[u[n]] \in S
    BY DEF ChainStops
  <1>5. S = {u[m] : m \in 0..n}
    BY DEF Met
  <1>6. Above(par, s) = {u[m] : m \in 0..N}
    BY <1>2 DEF Above
  <1>7. n \in 0..N
    OBVIOUS
  <1> HIDE DEF N, u, S
  <1>8. ASSUME NEW m \in 0..n, m # n, u[m] \in DOMAIN par
        PROVE  par[u[m]] \in S
    <2>1. m + 1 \in 1..N /\ m + 1 \in 0..n /\ (m + 1) - 1 = m
      BY <1>1, <1>7, <1>8
    <2>2. u[m + 1] = par[u[m]]
      BY <1>2, <1>8, <2>1 DEF StepUp
    <2>3. QED
      BY <1>5, <2>1, <2>2
  <1>9. ASSUME u[n] \in DOMAIN par
        PROVE  par[u[n]] \in S
    <2>1. CASE ChainStops(par, s, n)
      BY <1>4, <1>9, <2>1
    <2>2. CASE RootStops(par, s, n)
      <3>1. PICK m \in 0..(n - 1) : u[n] = u[m]
        BY <1>3, <1>9, <2>2
      <3>2. m \in 0..n /\ m # n
        BY <1>1, <1>7, <3>1
      <3>3. QED
        BY <1>8, <1>9, <3>1, <3>2
    <2>3. QED
      BY <2>1, <2>2
  <1>10. Closed(par, S)
    BY <1>5, <1>8, <1>9 DEF Closed
  <1>11. s \in S
    <2>1. 0 \in 0..n
      BY <1>1, <1>7
    <2>2. QED
      BY <1>2, <1>5, <2>1
  <1>12. Chain(par, s) \subseteq S
    BY <1>10, <1>11, ChainStep
  <1> DEFINE G == {k \in 0..N : u[k] \in Chain(par, s)}
  <1>13. s \in Chain(par, s) /\ Closed(par, Chain(par, s))
    BY ChainClosed
  <1>14. 0 \in G
    BY <1>1, <1>2, <1>13
  <1>15. ASSUME NEW k \in 1..N, k - 1 \in G PROVE k \in G
    BY <1>2, <1>13, <1>15 DEF StepUp, Closed
  <1> HIDE DEF G
  <1>16. 0..N \subseteq G
    BY <1>1, <1>14, <1>15, StepByStep
  <1>17. \A k \in 0..N : u[k] \in Chain(par, s)
    BY <1>16 DEF G
  <1>18. S \subseteq {u[m] : m \in 0..N}
    <2>1. 0..n \subseteq 0..N
      BY <1>1, <1>7
    <2>2. QED
      BY <1>5, <2>1
  <1>19. QED
    BY <1>6, <1>12, <1>17, <1>18 DEF S

\* Each of the two stops: there are not that many subjects.
LEMMA WalksStop ==
  ASSUME NEW par \in Edges, NEW s \in Subjects
  PROVE  /\ \E n \in 0..Cardinality(Subjects) : RootStops(par, s, n)
         /\ \E n \in 0..Cardinality(Subjects) : ChainStops(par, s, n)
  <1> DEFINE N == Cardinality(Subjects)
             u == Up(par, s)
  <1>1. N \in Nat /\ IsFiniteSet(Subjects)
    BY SubjectsSized, ViewsAssumption
  <1>2. /\ u \in [0..N -> Subjects]
        /\ \A k \in 1..N : u[k] = StepUp(par, u[k - 1])
    BY UpWalks
  <1> HIDE DEF u
  <1>3. IsFiniteSet(0..N) /\ Cardinality(Subjects) < Cardinality(0..N)
    <2> HIDE DEF N
    <2>1. IsFiniteSet(0..N) /\ Cardinality(0..N) = N + 1
      BY <1>1, FS_Interval
    <2>2. QED
      BY <1>1, <2>1 DEF N
  <1>4. \E i, j \in 0..N : i # j /\ u[i] = u[j]
    <2> HIDE DEF N
    <2>1. QED
      BY <1>1, <1>2, <1>3, FS_PigeonHole
  <1> HIDE DEF N
  <1>5. PICK i \in 0..N, j \in 0..N : i < j /\ u[i] = u[j]
    <2>1. PICK k \in 0..N, l \in 0..N : k # l /\ u[k] = u[l]
      BY <1>4
    <2>2. k < l \/ l < k
      BY <1>1, <2>1
    <2>3. QED
      BY <2>1, <2>2
  <1>6. i \in 0..(j - 1) /\ j \in 1..N /\ j - 1 \in 0..N
    BY <1>1, <1>5
  <1>7. RootStops(par, s, j)
    BY <1>5, <1>6 DEF RootStops, u
  <1>8. ChainStops(par, s, j - 1)
    <2>1. u[j] = StepUp(par, u[j - 1])
      BY <1>2, <1>6
    <2>2. u[i] \in Met(par, s, j - 1)
      BY <1>6 DEF Met, u
    <2>3. u[j - 1] \in DOMAIN par => par[u[j - 1]] \in Met(par, s, j - 1)
      BY <1>5, <2>1, <2>2 DEF StepUp
    <2>4. QED
      BY <2>3 DEF ChainStops, u
  <1>9. QED
    BY <1>5, <1>6, <1>7, <1>8 DEF N

\* The last of a chain, or anything of one that leads into a cycle.
EndOf(par, s, e) ==
  /\ e \in Chain(par, s)
  /\ e \notin DOMAIN par \/ Chain(par, s) \subseteq DOMAIN par

LEMMA RootIsEnd ==
  ASSUME NEW par \in Edges, NEW s \in Subjects
  PROVE  EndOf(par, s, RootFor(par, s)) /\ Above(par, s) = Chain(par, s)
  <1> DEFINE N == Cardinality(Subjects)
             u == Up(par, s)
             A == {n \in DOMAIN u : RootStops(par, s, n)}
  <1>1. N \in Nat /\ DOMAIN u = 0..N
    BY SubjectsSized, UpWalks
  <1>2. RootFor(par, s) = u[Min(A)]
    BY DEF RootFor, RootStops
  <1>3. A # {} /\ A \in SUBSET Nat
    BY <1>1, WalksStop
  <1> HIDE DEF u, A
  <1>4. Min(A) \in A /\ \A m \in A : Min(A) <= m
    BY <1>3, MinExists
  <1>5. PICK n : n = Min(A)
    OBVIOUS
  <1>6. n \in 0..N /\ RootStops(par, s, n)
    BY <1>1, <1>4, <1>5 DEF A
  <1>7. Met(par, s, n) = Chain(par, s) /\ Above(par, s) = Chain(par, s)
    BY <1>6, StoppedMetAll
  <1>8. u[n] \in Chain(par, s)
    <2>1. n \in 0..n
      BY <1>1, <1>6
    <2>2. QED
      BY <1>7, <2>1 DEF Met, u
  <1>9. ASSUME u[n] \in DOMAIN par PROVE Chain(par, s) \subseteq DOMAIN par
    <2>1. ASSUME NEW m \in 0..n PROVE u[m] \in DOMAIN par
      <3>1. CASE m = n
        BY <1>9, <3>1
      <3>2. CASE m # n
        <4>1. m \in 0..N /\ ~ (n <= m)
          BY <1>1, <1>6, <3>2
        <4>2. m \notin A
          BY <1>4, <1>5, <4>1
        <4>3. ~ RootStops(par, s, m)
          BY <1>1, <4>1, <4>2 DEF A
        <4>4. QED
          BY <4>3 DEF RootStops, u
      <3>3. QED
        BY <3>1, <3>2
    <2>2. QED
      BY <1>7, <2>1 DEF Met, u
  <1>10. QED
    BY <1>2, <1>5, <1>7, <1>8, <1>9 DEF EndOf

PageTop(par, s) == ParentChain(par, s)[Max(DOMAIN ParentChain(par, s))]

LEMMA TopIsEnd ==
  ASSUME NEW par \in Edges, NEW s \in Subjects
  PROVE  EndOf(par, s, PageTop(par, s))
  <1> DEFINE N == Cardinality(Subjects)
             u == Up(par, s)
             A == {n \in DOMAIN u : ChainStops(par, s, n)}
  <1>1. N \in Nat /\ DOMAIN u = 0..N
    BY SubjectsSized, UpWalks
  <1>2. ParentChain(par, s) = [n \in 0..Min(A) |-> u[n]]
    BY DEF ParentChain, ChainStops, Met
  <1>3. A # {} /\ A \in SUBSET Nat
    BY <1>1, WalksStop
  <1> HIDE DEF u, A
  <1>4. Min(A) \in A /\ \A m \in A : Min(A) <= m
    BY <1>3, MinExists
  <1>5. PICK n : n = Min(A)
    OBVIOUS
  <1>6. n \in 0..N /\ ChainStops(par, s, n)
    BY <1>1, <1>4, <1>5 DEF A
  <1>7. Met(par, s, n) = Chain(par, s)
    BY <1>6, StoppedMetAll
  <1>8. PageTop(par, s) = u[n]
    <2>1. n \in 0..n /\ \A x \in 0..n : n >= x
      BY <1>1, <1>6
    <2>2. \A x \in 0..n : x >= n => x = n
      BY <1>1, <1>6
    <2>3. Max(0..n) = n
      BY <2>1, <2>2 DEF Max
    <2>4. QED
      BY <1>2, <1>5, <2>1, <2>3 DEF PageTop
  <1>9. u[n] \in Chain(par, s)
    <2>1. n \in 0..n
      BY <1>1, <1>6
    <2>2. QED
      BY <1>7, <2>1 DEF Met, u
  <1>10. ASSUME u[n] \in DOMAIN par PROVE Chain(par, s) \subseteq DOMAIN par
    <2>1. ASSUME NEW m \in 0..n PROVE u[m] \in DOMAIN par
      <3>1. CASE m = n
        BY <1>10, <3>1
      <3>2. CASE m # n
        <4>1. m \in 0..N /\ ~ (n <= m)
          BY <1>1, <1>6, <3>2
        <4>2. m \notin A
          BY <1>4, <1>5, <4>1
        <4>3. ~ ChainStops(par, s, m)
          BY <1>1, <4>1, <4>2 DEF A
        <4>4. QED
          BY <4>3 DEF ChainStops, u
      <3>3. QED
        BY <3>1, <3>2
    <2>2. QED
      BY <1>7, <2>1 DEF Met, u
  <1>11. QED
    BY <1>8, <1>9, <1>10 DEF EndOf

\* Where there is an end, the two walks find the same one; where there is none,
\* neither does.
LEMMA EndsAgree ==
  ASSUME NEW par \in Edges, NEW s \in Subjects, NEW d, EndOf(par, s, d),
         NEW e, EndOf(par, s, e)
  PROVE  /\ d \in DOMAIN par => Chain(par, s) \subseteq DOMAIN par
         /\ d \notin DOMAIN par => e = d
  <1>1. d \in Chain(par, s) /\ e \in Chain(par, s)
    BY DEF EndOf
  <1>2. d \notin DOMAIN par /\ e \notin DOMAIN par => d = e
    BY <1>1, ChainLine
  <1>3. QED
    BY <1>1, <1>2 DEF EndOf

-----------------------------------------------------------------------------
\* The walk down.

Below(par, S) == UNION {Children(par, c) : c \in S}

DownIter(down, par, r) ==
  down = [n \in 0..Cardinality(Subjects) |->
            IF n = 0 THEN Children(par, r)
            ELSE down[n - 1] \cup UNION {Children(par, c) : c \in down[n - 1]}]

\* After as many steps as there are subjects the walk down stands still: until
\* it does, each step finds one more.
LEMMA DescendantsAre ==
  ASSUME NEW par \in Edges, NEW r \in Subjects
  PROVE  \E D \in SUBSET Subjects :
           /\ Descendants(par, r) = D \ {r}
           /\ Children(par, r) \subseteq D /\ Below(par, D) \subseteq D
           /\ \A S : Children(par, r) \cup Below(par, S) \subseteq S => D \subseteq S
  <1> DEFINE N == Cardinality(Subjects)
             P == SUBSET Subjects
             next == [S \in P |-> S \cup Below(par, S)]
             d == CHOOSE down : DownIter(down, par, r)
  <1>1. N \in Nat /\ IsFiniteSet(Subjects)
    BY SubjectsSized, ViewsAssumption
  <1>2. \A c : Children(par, c) \subseteq Subjects
    BY DEF Children, Edges
  <1>3. next \in [P -> P] /\ Children(par, r) \in P
    BY <1>2 DEF Below
  <1>4. PICK f : Walks(f, P, next, Children(par, r), N)
    <2> HIDE DEF next, N, P
    <2>1. QED
      BY <1>1, <1>3, WalkExists
  <1> HIDE DEF N
  <1>5. /\ f \in [0..N -> P] /\ f[0] = Children(par, r)
        /\ \A n \in 1..N : f[n] = f[n - 1] \cup Below(par, f[n - 1])
    <2>1. \A n \in 1..N : n - 1 \in 0..N
      BY <1>1
    <2>2. QED
      BY <1>4, <2>1 DEF Walks
  <1>6. f = [n \in 0..N |-> IF n = 0 THEN Children(par, r)
               ELSE f[n - 1] \cup UNION {Children(par, c) : c \in f[n - 1]}]
    <2>1. \A n \in 0..N : n # 0 => n \in 1..N
      BY <1>1
    <2>2. QED
      BY <1>5, <2>1 DEF Below
  <1>7. DownIter(f, par, r)
    BY <1>6 DEF DownIter, N
  <1>8. DownIter(d, par, r)
    BY <1>7
  <1>9. Descendants(par, r) = d[N] \ {r}
    BY DEF Descendants, DownIter, N
  <1> HIDE DEF d
  <1>10. /\ d[0] = Children(par, r)
         /\ \A n \in 1..N : d[n] = d[n - 1] \cup Below(par, d[n - 1])
    <2>1. d = [n \in 0..N |-> IF n = 0 THEN Children(par, r)
               ELSE d[n - 1] \cup UNION {Children(par, c) : c \in d[n - 1]}]
      BY <1>8 DEF DownIter, N
    <2>2. 0 \in 0..N /\ \A n \in 1..N : n \in 0..N /\ n # 0
      BY <1>1
    <2>3. QED
      BY <2>1, <2>2 DEF Below
  <1> DEFINE Good(n) == /\ d[n] \in P /\ Children(par, r) \subseteq d[n]
                        /\ Below(par, d[n]) \subseteq d[n] \/ n <= Cardinality(d[n])
                        /\ \A S : Children(par, r) \cup Below(par, S) \subseteq S => d[n] \subseteq S
             G == {n \in 0..N : Good(n)}
  <1>11. Good(0)
    <2>1. IsFiniteSet(d[0]) /\ Cardinality(d[0]) \in Nat
      BY <1>1, <1>3, <1>10, FS_Subset, FS_CardinalityType
    <2>2. QED
      BY <1>3, <1>10, <2>1
  <1>12. ASSUME NEW n \in 1..N, Good(n - 1)
         PROVE  Good(n)
    <2> DEFINE C == d[n - 1]
    <2>1. d[n] = C \cup Below(par, C) /\ C \in P
      BY <1>10, <1>12
    <2>2. d[n] \in P
      BY <1>2, <2>1 DEF Below
    <2>3. \A S : C \subseteq S => Below(par, C) \subseteq Below(par, S)
      BY DEF Below
    <2>4. \A S : Children(par, r) \cup Below(par, S) \subseteq S => d[n] \subseteq S
      BY <1>12, <2>1, <2>3
    <2>5. Below(par, d[n]) \subseteq d[n] \/ n <= Cardinality(d[n])
      <3>1. CASE Below(par, C) \subseteq C
        <4>1. d[n] = C
          BY <2>1, <3>1
        <4>2. QED
          BY <3>1, <4>1
      <3>2. CASE ~ (Below(par, C) \subseteq C)
        <4>1. n - 1 <= Cardinality(C)
          BY <1>12, <3>2
        <4>2. C \subseteq d[n] /\ C # d[n]
          BY <2>1, <3>2
        <4>3. IsFiniteSet(d[n]) /\ Cardinality(d[n]) \in Nat
          BY <1>1, <2>2, FS_Subset, FS_CardinalityType
        <4> HIDE DEF C
        <4>4. Cardinality(C) \in Nat /\ Cardinality(C) <= Cardinality(d[n])
              /\ Cardinality(C) # Cardinality(d[n])
          BY <4>2, <4>3, FS_Subset, FS_CardinalityType
        <4>5. QED
          BY <4>1, <4>3, <4>4
      <3>3. QED
        BY <3>1, <3>2
    <2>6. Children(par, r) \subseteq d[n]
      BY <1>12, <2>1
    <2>7. QED
      BY <2>2, <2>4, <2>5, <2>6
  <1>13. Good(N)
    <2> HIDE DEF Good
    <2>1. 0 \in G
      BY <1>1, <1>11
    <2>2. \A n \in 1..N : n - 1 \in G => n \in G
      BY <1>12
    <2> HIDE DEF G
    <2>3. 0..N \subseteq G
      BY <1>1, <2>1, <2>2, StepByStep
    <2>4. N \in 0..N
      BY <1>1
    <2>5. QED
      BY <2>3, <2>4 DEF G
  <1>14. Below(par, d[N]) \subseteq d[N]
    <2>1. CASE N <= Cardinality(d[N])
      <3>1. Cardinality(d[N]) <= N /\ Cardinality(d[N]) \in Nat
            /\ (Cardinality(d[N]) = N => d[N] = Subjects)
        BY <1>1, <1>13, FS_Subset, FS_CardinalityType DEF N
      <3>2. d[N] = Subjects
        BY <1>1, <2>1, <3>1
      <3>3. QED
        BY <1>2, <3>2 DEF Below
    <2>2. QED
      BY <1>13, <2>1
  <1>15. d[N] \in SUBSET Subjects
    BY <1>13
  <1>16. QED
    BY <1>9, <1>13, <1>14, <1>15

\* What is shown under r is what r is above.
LEMMA SubtreeIs ==
  ASSUME NEW par \in Edges, NEW r \in Subjects
  PROVE  /\ Subtree(par, r) = {x \in Subjects : r \in Chain(par, x)}
         /\ Descendants(par, r) = Subtree(par, r) \ {r}
  <1>1. PICK D \in SUBSET Subjects :
          /\ Descendants(par, r) = D \ {r}
          /\ Children(par, r) \subseteq D /\ Below(par, D) \subseteq D
          /\ \A S : Children(par, r) \cup Below(par, S) \subseteq S => D \subseteq S
    BY DescendantsAre
  <1>2. Subtree(par, r) = {r} \cup D /\ Descendants(par, r) = Subtree(par, r) \ {r}
    BY <1>1 DEF Subtree
  <1> DEFINE K == {x \in Subjects : r \in Chain(par, x)}
  <1>3. D \subseteq K
    <2>1. ASSUME NEW c \in DOMAIN par, par[c] = r \/ par[c] \in K
          PROVE  c \in K
      <3>1. c \in Subjects /\ par[c] \in Subjects
        BY <2>1 DEF Edges
      <3>2. r \in Chain(par, par[c])
        BY <2>1, <3>1, ChainClosed
      <3>3. Chain(par, c) = {c} \cup Chain(par, par[c])
        BY <3>1, ChainStep
      <3>4. QED
        BY <3>1, <3>2, <3>3
    <2>2. Children(par, r) \cup Below(par, K) \subseteq K
      BY <2>1 DEF Children, Below
    <2> HIDE DEF K
    <2>3. QED
      BY <1>1, <2>2
  <1>4. r \in K
    BY ChainClosed
  <1>5. ASSUME NEW x \in K PROVE x \in {r} \cup D
    <2> DEFINE S == {y \in Subjects : y \in {r} \cup D => x \in {r} \cup D}
    <2>1. ASSUME NEW y \in S, y \in DOMAIN par
          PROVE  par[y] \in S
      <3>1. par[y] \in Subjects
        BY <2>1 DEF Edges
      <3>2. par[y] \in {r} \cup D => y \in D
        BY <1>1, <2>1 DEF Children, Below
      <3>3. QED
        BY <2>1, <3>1, <3>2
    <2>2. Closed(par, S) /\ x \in S
      BY <2>1 DEF Closed
    <2> HIDE DEF S
    <2>3. Chain(par, x) \subseteq S
      BY <2>2, ChainStep
    <2>4. r \in S
      BY <2>3
    <2>5. QED
      BY <2>4 DEF S
  <1>6. QED
    BY <1>2, <1>3, <1>4, <1>5

-----------------------------------------------------------------------------
\* The parents of the scope.

LEMMA ParentsIn ==
  ASSUME TypeOK, Votes(votes), Acyclic(merges)
  PROVE  /\ Parents \in Edges /\ Living \subseteq Subjects
         /\ \A s \in Living : /\ Chain(Parents, s) \subseteq Living
                              /\ Canonical(merges, s) = s
  <1>1. merges \in Edges
    BY DEF TypeOK
  <1>2. ASSUME NEW s, Parent(votes, merges, s) # None
        PROVE  Parent(votes, merges, s) \in Living
    <2> DEFINE S == Stand(merges, PartOf(votes, merges, s))
    <2>1. Parent(votes, merges, s) \in Targets(merges, S)
      BY <1>1, <1>2, ParentIn
    <2>2. S \subseteq votes /\ \A a \in S : a.op = "ASSERT"
      BY DEF Stand, Asserts, PartOf, Ballot
    <2> HIDE DEF S
    <2>3. PICK a \in S : Parent(votes, merges, s) = End2(merges, a)
      BY <2>1 DEF Targets
    <2>4. a.key \in Subjects /\ a.key # Star
      BY <2>2, StructureAssumption DEF Votes, Vote
    <2>5. Canonical(merges, a.key) \in Subjects \ DOMAIN merges
      BY <1>1, <2>4, CanonicalEnds, CanonicalInChain
    <2>6. QED
      BY <2>3, <2>4, <2>5 DEF End2, Living
  <1>3. Living \subseteq Subjects
    BY DEF Living
  <1>4. DOMAIN Parents \subseteq Living /\ \A x \in DOMAIN Parents : Parents[x] \in Living
    BY <1>2 DEF Parents
  <1>5. Parents \in Edges
    <2>1. Parents \in [DOMAIN Parents -> Subjects]
      BY <1>3, <1>4 DEF Parents
    <2>2. QED
      BY <1>3, <1>4, <2>1 DEF Edges
  <1>6. ASSUME NEW s \in Living
        PROVE  Chain(Parents, s) \subseteq Living /\ Canonical(merges, s) = s
    <2>1. Closed(Parents, Living)
      BY <1>4 DEF Closed
    <2>2. Chain(Parents, s) \subseteq Living
      BY <1>3, <1>5, <2>1, ChainStep
    <2>3. Canonical(merges, s) = s
      BY <1>1, CanonicalSelf DEF Living
    <2>4. QED
      BY <2>2, <2>3
  <1>7. QED
    BY <1>3, <1>5, <1>6

\* The parents of a scope, of which goals that stand lead to goals that stand.
Scoped(par) ==
  /\ par \in Edges /\ Living \subseteq Subjects
  /\ \A s \in Living : Chain(par, s) \subseteq Living /\ Canonical(merges, s) = s

\* Walking up from a goal and looking down from where the walk led.
LEMMA UpAndDown ==
  ASSUME NEW par, Scoped(par), NEW s \in Living
  PROVE  /\ Above(par, s) = Chain(par, s) /\ s \in Chain(par, s)
         /\ EndOf(par, s, RootFor(par, s)) /\ EndOf(par, s, PageTop(par, s))
         /\ \A r \in Living : s \in Subtree(par, r) <=> r \in Chain(par, s)
         /\ Circling(par, s) => Chain(par, s) \subseteq DOMAIN par
         /\ ~ Circling(par, s) => PageTop(par, s) = RootFor(par, s)
  <1>1. par \in Edges /\ s \in Subjects /\ Living \subseteq Subjects
    BY DEF Scoped
  <1>2. /\ EndOf(par, s, RootFor(par, s)) /\ Above(par, s) = Chain(par, s)
        /\ EndOf(par, s, PageTop(par, s)) /\ s \in Chain(par, s)
    BY <1>1, RootIsEnd, TopIsEnd, ChainClosed
  <1>3. /\ RootFor(par, s) \in DOMAIN par => Chain(par, s) \subseteq DOMAIN par
        /\ RootFor(par, s) \notin DOMAIN par => PageTop(par, s) = RootFor(par, s)
    BY <1>1, <1>2, EndsAgree
  <1>4. \A r \in Living : s \in Subtree(par, r) <=> r \in Chain(par, s)
    BY <1>1, SubtreeIs
  <1>5. QED
    BY <1>2, <1>3, <1>4 DEF Circling

LEMMA RowsShow ==
  ASSUME NEW par, Scoped(par), NEW s \in Living
  PROVE  OnItsRows(par, s)
  <1> DEFINE C == Chain(par, s)
             e == RootFor(par, s)
  <1>1. /\ Above(par, s) = C /\ EndOf(par, s, e) /\ C \subseteq Living
        /\ \A r \in Living : s \in Subtree(par, r) <=> r \in C
        /\ Circling(par, s) => C \subseteq DOMAIN par
    BY UpAndDown DEF Scoped
  <1>2. e \in C /\ (e \in DOMAIN par <=> Circling(par, s))
    BY <1>1 DEF EndOf, Circling
  <1>3. \A r \in C : ~ Circling(par, s) /\ r \notin DOMAIN par => r = e
    <2>1. par \in Edges /\ s \in Subjects
      BY DEF Scoped
    <2>2. QED
      BY <1>2, <2>1, ChainLine
  <1>4. {r \in Wall(par) : s \in Subtree(par, r)} =
          {r \in C : Layer[r] >= 2 \/ r \notin DOMAIN par}
    BY <1>1 DEF Wall, OnWall
  <1> HIDE DEF C, e
  <1>5. {r \in C : Layer[r] >= 2 \/ r \notin DOMAIN par} =
          {r \in C : Layer[r] >= 2} \cup (IF Circling(par, s) THEN {} ELSE {e})
    <2>1. CASE Circling(par, s)
      BY <1>1, <2>1
    <2>2. CASE ~ Circling(par, s)
      <3>1. {r \in C : r \notin DOMAIN par} = {e}
        BY <1>2, <1>3, <2>2
      <3>2. QED
        BY <2>2, <3>1
    <2>3. QED
      BY <2>1, <2>2
  <1>6. QED
    BY <1>1, <1>4, <1>5 DEF OnItsRows, e

LEMMA PageShows ==
  ASSUME NEW par, Scoped(par), NEW s \in Living
  PROVE  OnItsPage(par, s)
  <1> DEFINE top == PageTop(par, s)
             rows == Tree(par, top)
  <1>1. Canonical(merges, s) = s /\ par \in Edges
    BY DEF Scoped
  <1>2. MatterGraph(par, s).root = top /\ MatterGraph(par, s).tree = rows
    BY <1>1 DEF MatterGraph, PageTop
  <1>3. /\ EndOf(par, s, top) /\ (~ Circling(par, s) => top = RootFor(par, s))
        /\ Chain(par, s) \subseteq Living
        /\ \A r \in Living : s \in Subtree(par, r) <=> r \in Chain(par, s)
    BY UpAndDown DEF Scoped
  <1> HIDE DEF top
  <1>4. s \in Subtree(par, top) /\ top \in Subjects
    BY <1>3 DEF EndOf, Scoped
  <1>5. s = top \/ s \in {row.node : row \in rows}
    <2>1. SUFFICES ASSUME s # top
                   PROVE  s \in {row.node : row \in rows}
      OBVIOUS
    <2>2. top \in Chain(par, s) /\ s \in Subjects
      BY <1>3 DEF EndOf, Scoped
    <2>3. s \in DOMAIN par
      BY <1>1, <2>1, <2>2, ChainStep
    <2>4. par[s] \in Subjects /\ Chain(par, s) = {s} \cup Chain(par, par[s])
      BY <1>1, <2>2, <2>3, ChainStep DEF Edges
    <2>5. top \in Chain(par, par[s])
      BY <2>1, <2>2, <2>4
    <2>6. par[s] \in Subtree(par, top)
      BY <1>1, <1>4, <2>4, <2>5, SubtreeIs
    <2>7. [node |-> s, under |-> par[s], truncated |-> s = top] \in rows
      BY <2>3, <2>6 DEF Tree
    <2>8. QED
      BY <2>7
  <1>6. ASSUME ~ Circling(par, s)
        PROVE  top = RootFor(par, s) /\ \A row \in rows : ~ row.truncated
    <2>1. top = RootFor(par, s) /\ top \notin DOMAIN par
      BY <1>3, <1>6 DEF Circling
    <2>2. ASSUME NEW row \in rows PROVE ~ row.truncated
      <3>1. PICK c \in DOMAIN par : row = [node |-> c, under |-> par[c], truncated |-> c = top]
        BY DEF Tree
      <3>2. c # top
        BY <2>1
      <3>3. QED
        BY <3>1, <3>2
    <2>3. QED
      BY <2>1, <2>2
  <1> HIDE DEF rows
  <1>7. QED
    BY <1>2, <1>5, <1>6 DEF OnItsPage

\* The last instant recorded by some votes, if any.
LEMMA LatestIs ==
  ASSUME NEW B, Votes(B), NEW a \in B
  PROVE  a.rec <= Max({0} \cup {b.rec : b \in B})
  <1> DEFINE R == {x \in B \X B : x[1].rec > x[2].rec}
             S == {0} \cup {b.rec : b \in B}
  <1>1. IsFiniteSet(B) /\ \A b \in B : b.rec \in Nat
    BY DEF Votes, Vote
  <1>2. \A x \in B : <<x, x>> \notin R
    BY <1>1
  <1>3. \A x, y, z \in B : <<x, y>> \in R /\ <<y, z>> \in R => <<x, z>> \in R
    BY <1>1
  <1>4. \E x \in B : \A y \in B : <<y, x>> \notin R
    <2> HIDE DEF R
    <2>1. QED
      BY <1>1, <1>2, <1>3, MaximalExists
  <1>5. PICK m \in B : \A b \in B : b.rec <= m.rec
    <2>1. PICK m \in B : \A b \in B : ~ (b.rec > m.rec)
      BY <1>4
    <2>2. QED
      BY <1>1, <2>1
  <1>6. m.rec \in S /\ \A x \in S : m.rec >= x
    BY <1>1, <1>5
  <1>7. Max(S) \in S /\ \A x \in S : Max(S) >= x
    <2> HIDE DEF S
    <2>1. QED
      BY <1>6 DEF Max
  <1>8. a.rec \in S /\ S \subseteq Nat
    BY <1>1
  <1> HIDE DEF S
  <1>9. Max(S) >= a.rec /\ Max(S) \in Nat /\ a.rec \in Nat
    BY <1>7, <1>8
  <1>10. a.rec <= Max(S)
    BY <1>9
  <1>11. QED
    BY <1>10 DEF S

LEMMA EntryCounts ==
  ASSUME NEW par, Scoped(par), Votes(votes), NEW s \in Living
  PROVE  InItsEntry(par, s)
  <1> DEFINE home == Home(par, s)
  <1>1. home \in Living /\ s \in Subtree(par, home)
    <2>1. /\ RootFor(par, s) \in Chain(par, s) /\ s \in Chain(par, s)
          /\ Chain(par, s) \subseteq Living
          /\ \A r \in Living : s \in Subtree(par, r) <=> r \in Chain(par, s)
      BY UpAndDown DEF Scoped, EndOf
    <2>2. QED
      BY <2>1 DEF Home
  <1>2. SUFFICES ASSUME home \in Wall(par), ReadUpTo[s] = None,
                        NEW a \in Activity, End1(merges, a) = s
                 PROVE  /\ home \in Entries(par) /\ a \in Unread(par, home)
                        /\ a.rec <= WallRow(par, home).rollup.latest
    BY DEF InItsEntry
  <1>3. a \in votes /\ Window.start <= a.rec /\ a.rec < Window.end
    BY DEF Activity
  <1>4. home \in Entries(par)
    BY <1>2 DEF Entries, Stirred
  <1>5. a \in Unread(par, home)
    BY <1>1, <1>2, <1>3 DEF Unread
  <1> DEFINE B == {b \in votes : End1(merges, b) \in Subtree(par, home)}
  <1>6. Votes(B) /\ a \in B
    BY <1>1, <1>2, <1>3, FS_Subset DEF Votes
  <1>7. WallRow(par, home).rollup.latest = Max({0} \cup {b.rec : b \in B})
    BY DEF WallRow, Rollup
  <1> HIDE DEF B, home
  <1>8. a.rec <= WallRow(par, home).rollup.latest
    BY <1>6, <1>7, LatestIs
  <1>9. QED
    BY <1>4, <1>5, <1>8

LEMMA BriefIsForWall ==
  ASSUME NEW par, Scoped(par), BriefFails(par)
  PROVE  \E s \in Mine : Circling(par, s)
  <1>1. PICK s \in (Living \cap Mine) \ Done : Home(par, s) \notin Wall(par)
    BY DEF BriefFails, NeedsMe
  <1>2. Layer[s] < 2 /\ Home(par, s) = RootFor(par, s)
    <2>1. ~ (Layer[s] >= 2)
      BY <1>1 DEF Home, Wall, OnWall
    <2>2. Layer[s] \in 1..2
      BY <1>1, ViewsAssumption
    <2>3. QED
      BY <2>1, <2>2 DEF Home
  <1>3. RootFor(par, s) \in Living
    BY <1>1, UpAndDown DEF Scoped, EndOf
  <1>4. Circling(par, s)
    BY <1>1, <1>2, <1>3 DEF Wall, OnWall, Circling
  <1>5. QED
    BY <1>1, <1>4

-----------------------------------------------------------------------------
\* What a theme gathers.

SizeUnder(par, m) == 1 + Cardinality(Descendants(par, Canonical(merges, m)))

SumIter(sum, par, M) ==
  sum = [T \in SUBSET M |->
           IF T = {} THEN 0
           ELSE SizeUnder(par, CHOOSE x \in T : TRUE) + sum[T \ {CHOOSE x \in T : TRUE}]]

UnderAll(par, T) == UNION {Subtree(par, Canonical(merges, m)) : m \in T}

\* Members that are goals, and none of them in the subtree of another one.
Separate(par, M) ==
  /\ \A m \in M : Canonical(merges, m) \in Subjects
  /\ \A m, k \in M : m # k =>
       Subtree(par, Canonical(merges, m)) \cap Subtree(par, Canonical(merges, k)) = {}

\* Subtrees that have nothing in common add up.
LEMMA SubtreesAddUp ==
  ASSUME NEW par \in Edges, NEW M \in SUBSET Subjects, Separate(par, M)
  PROVE  MapThenSumSet(LAMBDA m : 1 + Rollup(par, Canonical(merges, m)).total, M)
           = Cardinality(UnderAll(par, M))
  <1> DEFINE f == [T \in SUBSET M |-> Cardinality(UnderAll(par, T))]
             c == [T \in SUBSET M |-> CHOOSE x \in T : TRUE]
             g == CHOOSE sum : SumIter(sum, par, M)
  <1>1. /\ IsFiniteSet(Subjects) /\ IsFiniteSet(M)
        /\ \A T \in SUBSET M : UnderAll(par, T) \in SUBSET Subjects
    <2>1. \A m \in M : Subtree(par, Canonical(merges, m)) \subseteq Subjects
      BY SubtreeIs DEF Separate
    <2>2. QED
      BY <2>1, ViewsAssumption, FS_Subset DEF UnderAll
  <1>2. \A T \in SUBSET M : T # {} => c[T] \in T
    OBVIOUS
  <1>3. f[{}] = 0
    BY FS_EmptySet DEF UnderAll
  <1>4. ASSUME NEW T \in SUBSET M, T # {}
        PROVE  f[T] = SizeUnder(par, c[T]) + f[T \ {c[T]}]
    <2> DEFINE m == c[T]
               r == Canonical(merges, m)
               A == Subtree(par, r)
               B == UnderAll(par, T \ {m})
    <2>1. m \in T /\ m \in M /\ r \in Subjects
      BY <1>2, <1>4 DEF Separate
    <2>2. f[T] = Cardinality(UnderAll(par, T)) /\ f[T \ {m}] = Cardinality(B)
      BY <1>4
    <2> HIDE DEF f, c, m
    <2>3. UnderAll(par, T) = A \cup B
      BY <2>1 DEF UnderAll
    <2>4. A \cap B = {}
      BY <1>4, <2>1 DEF UnderAll, Separate
    <2>5. /\ IsFiniteSet(A) /\ Cardinality(A) \in Nat
          /\ IsFiniteSet(B) /\ Cardinality(B) \in Nat
      <3>1. A \in SUBSET Subjects /\ B \in SUBSET Subjects
        BY <1>1, <1>4, <2>1, SubtreeIs
      <3> HIDE DEF A, B
      <3>2. QED
        BY <1>1, <3>1, FS_Subset, FS_CardinalityType
    <2>6. Cardinality(A \cup B) = Cardinality(A) + Cardinality(B)
      <3> HIDE DEF A, B
      <3>1. Cardinality(A \cup B) = Cardinality(A) + Cardinality(B) - Cardinality(A \cap B)
        BY <2>5, FS_Union
      <3>2. Cardinality(A \cap B) = 0
        BY <2>4, FS_EmptySet
      <3>3. QED
        BY <2>5, <3>1, <3>2
    <2>7. Cardinality(A) = SizeUnder(par, m)
      <3>1. r \in A /\ Descendants(par, r) = A \ {r}
        BY <2>1, SubtreeIs, ChainClosed
      <3>2. SizeUnder(par, m) = 1 + Cardinality(A \ {r})
        BY <3>1 DEF SizeUnder
      <3> HIDE DEF A, r
      <3>3. Cardinality(A \ {r}) = Cardinality(A) - 1
        BY <2>5, <3>1, FS_RemoveElement
      <3>4. QED
        BY <2>5, <3>2, <3>3
    <2> HIDE DEF A, B, r
    <2>8. f[T] = SizeUnder(par, m) + f[T \ {m}]
      BY <2>2, <2>3, <2>6, <2>7
    <2>9. QED
      BY <2>8 DEF m
  <1>5. SumIter(f, par, M)
    <2>1. f = [T \in SUBSET M |-> f[T]]
      OBVIOUS
    <2>2. \A T \in SUBSET M : c[T] = CHOOSE x \in T : TRUE
      OBVIOUS
    <2> HIDE DEF f, c
    <2>3. \A T \in SUBSET M : f[T] = IF T = {} THEN 0
            ELSE SizeUnder(par, CHOOSE x \in T : TRUE) + f[T \ {CHOOSE x \in T : TRUE}]
      BY <1>3, <1>4, <2>2
    <2>4. QED
      BY <2>1, <2>3 DEF SumIter
  <1>6. SumIter(g, par, M)
    BY <1>5
  <1>7. MapThenSumSet(LAMBDA m : 1 + Rollup(par, Canonical(merges, m)).total, M) = g[M]
    BY DEF MapThenSumSet, MapThenFoldSet, SumIter, SizeUnder, Rollup
  <1>8. f[M] = Cardinality(UnderAll(par, M))
    OBVIOUS
  <1>9. \A T \in SUBSET M : c[T] = CHOOSE x \in T : TRUE
    OBVIOUS
  <1> HIDE DEF f, g, c
  <1>10. g[{}] = f[{}]
    BY <1>3, <1>6 DEF SumIter
  <1>11. ASSUME NEW T \in SUBSET M, T # {}, g[T \ {c[T]}] = f[T \ {c[T]}]
         PROVE  g[T] = f[T]
    <2>1. g[T] = SizeUnder(par, c[T]) + g[T \ {c[T]}]
      BY <1>6, <1>9, <1>11 DEF SumIter
    <2>2. f[T] = SizeUnder(par, c[T]) + f[T \ {c[T]}]
      BY <1>4, <1>11
    <2>3. QED
      BY <1>11, <2>1, <2>2
  <1> DEFINE S == M
  <1>12. g[S] = f[S]
    <2>1. \A T \in SUBSET S : T # {} /\ g[T \ {c[T]}] = f[T \ {c[T]}] => g[T] = f[T]
      BY <1>11
    <2>2. \A T \in SUBSET S : T # {} => c[T] \in T
      BY <1>2
    <2>3. IsFiniteSet(S)
      BY <1>1
    <2> HIDE DEF S
    <2>4. QED
      BY <1>10, <2>1, <2>2, <2>3, FoldUnique, ZenonT(30)
  <1>13. QED
    BY <1>7, <1>8, <1>12

LEMMA ThemesCountOnce ==
  ASSUME NEW par, Scoped(par), merges \in Edges, NEW s, Layer[s] >= 2
  PROVE  GatheredOnce(par, s)
  <1> DEFINE M == Members(s)
             f == [m \in M |-> Canonical(merges, m)]
             real == {Canonical(merges, m) : m \in M}
  <1>1. SUFFICES ASSUME Cardinality(real) = Cardinality(M),
                        \A m \in real : real \cap Descendants(par, m) = {}
                 PROVE  WallRow(par, s).gathered
                          = Cardinality(UNION {Subtree(par, m) : m \in real})
    BY DEF GatheredOnce
  <1>2. M \in SUBSET Subjects /\ IsFiniteSet(M) /\ par \in Edges
    <2>1. M \in SUBSET Subjects
      BY ViewsAssumption DEF Members
    <2> HIDE DEF M
    <2>2. QED
      BY <2>1, ViewsAssumption, FS_Subset DEF Scoped
  <1>3. \A m \in M : Canonical(merges, m) \in Subjects
    BY <1>2, CanonicalInChain
  <1>4. \A m, k \in M : m # k => Canonical(merges, m) # Canonical(merges, k)
    <2>1. f \in Surjection(M, real)
      BY DEF Surjection
    <2>2. f \in Injection(M, real)
      <3> HIDE DEF f, M, real
      <3>1. QED
        BY <1>1, <1>2, <2>1, FS_Surjection
    <2>3. \A m, k \in M : f[m] = f[k] => m = k
      <3> HIDE DEF f, M, real
      <3>1. QED
        BY <2>2 DEF Injection, IsInjective
    <2>4. QED
      BY <2>3
  <1>5. ASSUME NEW m \in M, NEW k \in M, m # k
        PROVE  Subtree(par, Canonical(merges, m)) \cap Subtree(par, Canonical(merges, k)) = {}
    <2> DEFINE p == Canonical(merges, m)
               q == Canonical(merges, k)
    <2>1. p \in real /\ q \in real /\ p # q /\ p \in Subjects /\ q \in Subjects
      BY <1>3, <1>4, <1>5
    <2> HIDE DEF p, q, M
    <2>2. SUFFICES ASSUME NEW x \in Subtree(par, p), x \in Subtree(par, q)
                   PROVE  FALSE
      BY DEF p, q
    <2>3. x \in Subjects /\ p \in Chain(par, x) /\ q \in Chain(par, x)
      BY <1>2, <2>1, <2>2, SubtreeIs
    <2>4. q \in Chain(par, p) \/ p \in Chain(par, q)
      BY <1>2, <2>3, ChainLine
    <2>5. q \in Descendants(par, p) \/ p \in Descendants(par, q)
      BY <1>2, <2>1, <2>4, SubtreeIs
    <2>6. QED
      BY <1>1, <2>1, <2>5
  <1>6. WallRow(par, s).gathered = Cardinality(UnderAll(par, M))
    <2>1. WallRow(par, s).gathered = GatheredTotal(par, s)
      BY DEF WallRow
    <2> HIDE DEF M
    <2>2. MapThenSumSet(LAMBDA m : 1 + Rollup(par, Canonical(merges, m)).total, M)
           = Cardinality(UnderAll(par, M))
      <3>1. Separate(par, M)
        BY <1>3, <1>5 DEF Separate
      <3>2. QED
        BY <1>2, <3>1, SubtreesAddUp
    <2>3. QED
      BY <2>1, <2>2 DEF GatheredTotal, M
  <1>7. UnderAll(par, M) = UNION {Subtree(par, m) : m \in real}
    BY DEF UnderAll
  <1>8. QED
    BY <1>6, <1>7

\* The walk up and the walk down agree about every goal, whatever was merged
\* (GoalGraphProjection, Engine.matters, Engine.brief, Engine.gather_view).
THEOREM GoalsAreShown == Spec => []ShownWhereItBelongs
  <1>1. ASSUME TypeOK, Shape, Gated
        PROVE  ShownWhereItBelongs
    <2>1. Votes(votes) /\ Acyclic(merges) /\ merges \in Edges
      BY <1>1 DEF Shape, Gated, TypeOK
    <2>2. Scoped(Parents)
      BY <1>1, <2>1, ParentsIn DEF Scoped
    <2>3. PICK par : par = Parents
      OBVIOUS
    <2>4. Scoped(par)
      BY <2>2, <2>3
    <2>5. \A s \in Living : OnItsRows(par, s) /\ OnItsPage(par, s) /\ InItsEntry(par, s)
      BY <2>1, <2>4, RowsShow, PageShows, EntryCounts
    <2>6. \A s \in Wall(par) : Layer[s] >= 2 => GatheredOnce(par, s)
      BY <2>1, <2>4, ThemesCountOnce
    <2>7. BriefFails(par) => \E s \in Mine : Circling(par, s)
      BY <2>4, BriefIsForWall
    <2>8. QED
      BY <2>3, <2>5, <2>6, <2>7 DEF ShownWhereItBelongs
  <1>2. QED
    BY <1>1, ShapeAlways, GatedAlways, PTL
=============================================================================
