---------------------------- MODULE RoutingProofs ----------------------------
(***************************************************************************)
(* Proofs about the routing of cards, the tool loop over the same scope,   *)
(* and the clustering of matters.                                          *)
(***************************************************************************)
EXTENDS UnifiedLoop, ThemeClusters, ProjectionProofs

-----------------------------------------------------------------------------
\* Clusters: the strong cores are the classes of an equivalence.

\* S holds both ends of a strong bond or none.
BondClosed(S) == \A p \in Bonds("strong") : p[1] \in S <=> p[2] \in S

LEMMA CoreFacts ==
  ASSUME NEW n \in Nodes
  PROVE  /\ n \in StrongCore(n) /\ StrongCore(n) \subseteq Nodes
         /\ BondClosed(StrongCore(n))
         /\ \A S \in SUBSET Nodes : n \in S /\ BondClosed(S) => StrongCore(n) \subseteq S
  <1>1. StrongCore(n) = {x \in Nodes : \A S \in SUBSET Nodes : n \in S /\ BondClosed(S) => x \in S}
    BY DEF StrongCore, BondClosed
  <1>2. n \in StrongCore(n) /\ StrongCore(n) \subseteq Nodes
    BY <1>1
  <1>3. \A S \in SUBSET Nodes : n \in S /\ BondClosed(S) => StrongCore(n) \subseteq S
    BY <1>1
  <1>4. ASSUME NEW p \in Bonds("strong")
        PROVE  p[1] \in StrongCore(n) <=> p[2] \in StrongCore(n)
    <2>1. p[1] \in Nodes /\ p[2] \in Nodes
      BY DEF Bonds, Pairs
    <2>2. \A S \in SUBSET Nodes : BondClosed(S) => (p[1] \in S <=> p[2] \in S)
      BY DEF BondClosed
    <2>3. QED
      BY <1>1, <2>1, <2>2
  <1>5. QED
    BY <1>2, <1>3, <1>4 DEF BondClosed

\* Whatever is in a core has the same core.
LEMMA CoreOfMember ==
  ASSUME NEW n \in Nodes, NEW x \in StrongCore(n)
  PROVE  StrongCore(x) = StrongCore(n)
  <1>1. x \in Nodes
    BY CoreFacts
  <1>2. StrongCore(x) \subseteq StrongCore(n)
    BY <1>1, CoreFacts
  <1>3. n \in StrongCore(x)
    <2> DEFINE rest == StrongCore(n) \ StrongCore(x)
    <2>1. SUFFICES ASSUME n \notin StrongCore(x) PROVE FALSE
      OBVIOUS
    <2>2. BondClosed(StrongCore(n)) /\ BondClosed(StrongCore(x))
      BY <1>1, CoreFacts
    <2>3. BondClosed(rest)
      BY <2>2 DEF BondClosed
    <2>4. n \in rest /\ rest \subseteq Nodes
      BY <2>1, CoreFacts
    <2>5. StrongCore(n) \subseteq rest
      BY <2>3, <2>4, CoreFacts
    <2>6. x \in StrongCore(x)
      BY <1>1, CoreFacts
    <2>7. QED
      BY <2>5, <2>6
  <1>4. StrongCore(n) \subseteq StrongCore(x)
    BY <1>1, <1>3, CoreFacts
  <1>5. QED
    BY <1>2, <1>4

\* The ends of a strong bond have one core, of more than one matter.
LEMMA BondedCores ==
  ASSUME NEW p \in Bonds("strong")
  PROVE  /\ p[1] \in Nodes /\ p[2] \in Nodes
         /\ StrongCore(p[1]) = StrongCore(p[2])
         /\ Cardinality(StrongCore(p[1])) > 1
         /\ Cardinality(StrongCore(p[2])) > 1
  <1>1. p[1] \in Nodes /\ p[2] \in Nodes /\ p[1] < p[2] /\ Nodes \subseteq Nat
    BY NodesAssumption DEF Bonds, Pairs
  <1>2. p[1] \in StrongCore(p[1]) /\ p[2] \in StrongCore(p[1])
    BY <1>1, CoreFacts DEF BondClosed
  <1>3. StrongCore(p[1]) = StrongCore(p[2])
    BY <1>1, <1>2, CoreOfMember
  <1>4. StrongCore(p[1]) \subseteq Nodes /\ IsFiniteSet(Nodes)
    BY <1>1, CoreFacts, NodesAssumption
  <1>5. IsFiniteSet(StrongCore(p[1]))
    BY <1>4, FS_Subset
  <1>6. {p[1], p[2]} \subseteq StrongCore(p[1]) /\ p[1] # p[2]
    <2>1. \A m, k \in Nat : m < k => m # k
      OBVIOUS
    <2>2. p[1] # p[2]
      BY <1>1, <2>1
    <2>3. QED
      BY <1>2, <2>2
  <1>7. Cardinality({p[1], p[2]}) = 2 
    <2>1. Cardinality({p[1]}) = 1 /\ IsFiniteSet({p[1]})
      BY FS_Singleton
    <2>2. Cardinality({p[1]} \cup {p[2]}) = 2
      BY <1>6, <2>1, FS_AddElement
    <2>3. {p[1]} \cup {p[2]} = {p[1], p[2]}
      OBVIOUS
    <2>4. QED
      BY <2>2, <2>3
  <1>8. Cardinality({p[1], p[2]}) <= Cardinality(StrongCore(p[1]))
    BY <1>5, <1>6, FS_Subset
  <1>9. Cardinality(StrongCore(p[1])) \in Nat
    BY <1>5, FS_CardinalityType
  <1>10. QED
    BY <1>1, <1>3, <1>7, <1>8, <1>9

\* A core of more than one matter is bonded.
LEMMA LargeCoreBonded ==
  ASSUME NEW n \in Nodes, Cardinality(StrongCore(n)) > 1
  PROVE  \E p \in Bonds("strong") : n = p[1] \/ n = p[2]
  <1>1. SUFFICES ASSUME \A p \in Bonds("strong") : n # p[1] /\ n # p[2]
                 PROVE  FALSE
    OBVIOUS
  <1>2. BondClosed({n})
    BY <1>1 DEF BondClosed
  <1>3. StrongCore(n) = {n}
    BY <1>2, CoreFacts
  <1>4. QED
    BY <1>3, FS_Singleton

\* Strong and weak pairs.
LEMMA BondKinds ==
  ASSUME ClusterTypeOK
  PROVE  /\ Bonds("strong") \subseteq Pairs /\ Bonds("weak") \subseteq Pairs
         /\ Bonds("strong") \cap Bonds("weak") = {}
         /\ \A p \in Pairs : p[1] \in Nodes /\ p[2] \in Nodes
  BY DEF ClusterTypeOK, Bonds, Pairs

\* What holds of the components while the pairs are gone through: a joined
\* strong bond has a strong component; until the strong bonds are through no
\* weak one was looked at and a component is within one core; at every time a
\* component meets one large core at most, which it does when it is strong.
Joined == \A p \in Bonds("strong") \ todo : root[p[1]] = root[p[2]] /\ root[p[1]] \in strong
StrongFirst ==
  todo \cap Bonds("strong") # {} =>
    /\ Bonds("weak") \subseteq todo
    /\ \A n, x \in Nodes : root[n] = root[x] => StrongCore(n) = StrongCore(x)
Large(n) == Cardinality(StrongCore(n)) > 1
OneLarge ==
  \A n, x \in Nodes :
    root[n] = root[x] /\ Large(n) /\ Large(x) => StrongCore(n) = StrongCore(x)
StrongIsLarge == \A r \in strong : \E x \in Nodes : root[x] = r /\ Large(x)
Parted ==
  \A p \in Bonds("weak") \ todo :
    root[p[1]] = root[p[2]] \/ (root[p[1]] \in strong /\ root[p[2]] \in strong)
ClusterInv ==
  /\ ClusterTypeOK /\ (\A p \in todo : bond[p] # "none")
  /\ Joined /\ StrongFirst /\ OneLarge /\ StrongIsLarge /\ Parted

LEMMA ClusterStart ==
  ASSUME ClusterInit
  PROVE  ClusterInv
  <1>1. ClusterTypeOK /\ \A p \in todo : bond[p] # "none"
    BY NodesAssumption DEF ClusterInit, ClusterTypeOK, Pairs
  <1>2. Joined /\ Parted /\ StrongIsLarge
    BY DEF ClusterInit, Joined, Parted, StrongIsLarge, Bonds
  <1>3. \A n, x \in Nodes : root[n] = root[x] => n = x
    BY DEF ClusterInit
  <1>4. OneLarge
    BY <1>3 DEF OneLarge
  <1>5. StrongFirst
    BY <1>3 DEF StrongFirst, ClusterInit, Bonds
  <1>6. QED
    BY <1>1, <1>2, <1>4, <1>5 DEF ClusterInv

\* Once the strong bonds are through, a large core is in a strong component.
LEMMA LargeIsStrong ==
  ASSUME ClusterInv, todo \cap Bonds("strong") = {}, NEW n \in Nodes, Large(n)
  PROVE  root[n] \in strong
  <1>1. PICK p \in Bonds("strong") : n = p[1] \/ n = p[2]
    BY LargeCoreBonded DEF Large
  <1>2. QED
    BY <1>1 DEF ClusterInv, Joined

\* What a union does to components, whatever they are.
LEMMA UnionFacts ==
  ASSUME ClusterTypeOK, NEW p \in Pairs, Union(p)
  PROVE  /\ root' \in [Nodes -> Nodes]
         /\ \A n \in Nodes : root'[n] <= n /\ root'[root'[n]] = root'[n]
         /\ strong' \subseteq Nodes
         /\ \A n, x \in Nodes : root[n] = root[x] => root'[n] = root'[x]
         /\ \A n, x \in Nodes : root'[n] = root'[x] =>
              \/ root[n] = root[x]
              \/ root[n] = root[p[1]] /\ root[x] = root[p[2]]
              \/ root[n] = root[p[2]] /\ root[x] = root[p[1]]
         /\ \A n \in Nodes : root[n] \in strong => root'[n] \in strong'
         /\ root'[p[1]] = root'[p[2]]
         /\ bond[p] = "strong" => root'[p[1]] \in strong'
         /\ \A s \in strong' :
              \/ s = root'[p[1]] /\ (bond[p] = "strong" \/ root[p[1]] \in strong
                                    \/ root[p[2]] \in strong)
              \/ s \in strong /\ \A x \in Nodes : root[x] = s => root'[x] = s
  <1> DEFINE l == root[p[1]]
             r == root[p[2]]
             winner == IF l < r THEN l ELSE r
             loser == IF l < r THEN r ELSE l
             firm == bond[p] = "strong" \/ {l, r} \cap strong # {}
  <1>1. /\ p[1] \in Nodes /\ p[2] \in Nodes
        /\ root \in [Nodes -> Nodes] /\ strong \subseteq Nodes
        /\ \A n \in Nodes : root[n] <= n /\ root[root[n]] = root[n]
        /\ \A n \in Nodes : n \in Nat
    BY NodesAssumption DEF Pairs, ClusterTypeOK
  <1>2. /\ root' = [n \in Nodes |-> IF root[n] = loser THEN winner ELSE root[n]]
        /\ strong' = (strong \ {loser}) \cup (IF firm THEN {winner} ELSE {})
    BY DEF Union
  <1>3. /\ {l, r} = {winner, loser} /\ winner \in Nodes /\ loser \in Nodes
        /\ winner <= loser /\ l \in Nodes /\ r \in Nodes
        /\ root[winner] = winner /\ root[loser] = loser
    BY <1>1
  <1>4. firm <=> (bond[p] = "strong" \/ winner \in strong \/ loser \in strong)
    BY <1>3
  <1> HIDE DEF winner, loser, firm
  <1>5. root' \in [Nodes -> Nodes] /\ strong' \subseteq Nodes
    BY <1>1, <1>2, <1>3
  <1>6. \A n \in Nodes : root'[n] <= n
    BY <1>1, <1>2, <1>3
  <1>7. \A n \in Nodes : root'[root'[n]] = root'[n]
    BY <1>1, <1>2, <1>3
  <1>8. \A n, x \in Nodes : root[n] = root[x] => root'[n] = root'[x]
    BY <1>2
  <1>9. \A n, x \in Nodes : root'[n] = root'[x] =>
              \/ root[n] = root[x]
              \/ root[n] = root[p[1]] /\ root[x] = root[p[2]]
              \/ root[n] = root[p[2]] /\ root[x] = root[p[1]]
    BY <1>2, <1>3
  <1>10. root'[p[1]] = winner /\ root'[p[2]] = winner
    BY <1>1, <1>2, <1>3
  <1>11. \A n \in Nodes : root[n] \in strong => root'[n] \in strong'
    BY <1>2, <1>4
  <1>12. bond[p] = "strong" => root'[p[1]] \in strong'
    BY <1>2, <1>4, <1>10
  <1>13. ASSUME NEW s \in strong'
         PROVE  \/ s = root'[p[1]] /\ (bond[p] = "strong" \/ root[p[1]] \in strong
                                    \/ root[p[2]] \in strong)
                \/ s \in strong /\ \A x \in Nodes : root[x] = s => root'[x] = s
    <2>1. CASE firm /\ s = winner
      BY <2>1, <1>3, <1>4, <1>10
    <2>2. CASE s \in strong /\ s # loser
      BY <2>2, <1>2
    <2>3. QED
      BY <2>1, <2>2, <1>2
  <1>14. QED
    BY <1>5, <1>6, <1>7, <1>8, <1>9, <1>10, <1>11, <1>12, <1>13

\* One pair more.
LEMMA JoinStep ==
  ASSUME ClusterInv, Join
  PROVE  ClusterInv'
  <1>1. PICK p \in todo :
          /\ FirstPair(p)
          /\ IF Kept(p) THEN UNCHANGED <<root, strong>> ELSE Union(p)
          /\ todo' = todo \ {p}
    BY DEF Join
  <1>2. bond' = bond
    BY DEF Join
  <1>3. /\ \A S : BondClosed(S)' = BondClosed(S)
        /\ Bonds("strong")' = Bonds("strong") /\ Bonds("weak")' = Bonds("weak")
    BY <1>2 DEF BondClosed, Bonds
  <1>4. \A n : StrongCore(n)' = StrongCore(n) /\ Large(n)' = Large(n)
    BY <1>3 DEF StrongCore, Large
  <1>5. /\ ClusterTypeOK /\ Joined /\ StrongFirst /\ OneLarge /\ StrongIsLarge /\ Parted
        /\ \A q \in todo : bond[q] # "none"
    BY DEF ClusterInv
  <1>6. /\ p \in Pairs /\ p[1] \in Nodes /\ p[2] \in Nodes
        /\ Bonds("strong") \subseteq Pairs /\ Bonds("weak") \subseteq Pairs
        /\ \A q \in Pairs : q[1] \in Nodes /\ q[2] \in Nodes
        /\ bond[p] \in {"weak", "strong"}
        /\ bond[p] = "weak" => p \in Bonds("weak") /\ p \notin Bonds("strong")
        /\ bond[p] = "strong" => p \in Bonds("strong") /\ p \notin Bonds("weak")
    BY <1>5, BondKinds DEF ClusterTypeOK, Bonds
  <1>7. bond[p] = "weak" => todo \cap Bonds("strong") = {}
    BY <1>1 DEF FirstPair
  <1>8. \A q \in todo' : bond'[q] # "none"
    BY <1>1, <1>2, <1>5
  <1>9. CASE Kept(p)
    <2>1. /\ bond[p] = "weak" /\ root' = root /\ strong' = strong
          /\ root[p[1]] \in strong /\ root[p[2]] \in strong
      BY <1>1, <1>9 DEF Kept
    <2>2. ClusterTypeOK'
      BY <1>1, <1>2, <1>5, <2>1 DEF ClusterTypeOK, Pairs
    <2>3. Joined'
      BY <1>1, <1>3, <1>5, <1>6, <2>1 DEF Joined
    <2>4. StrongFirst'
      BY <1>1, <1>3, <1>7, <2>1 DEF StrongFirst
    <2>5. OneLarge' /\ StrongIsLarge'
      BY <1>4, <1>5, <2>1 DEF OneLarge, StrongIsLarge
    <2>6. Parted'
      BY <1>1, <1>3, <1>5, <2>1 DEF Parted
    <2>7. QED
      BY <1>8, <2>2, <2>3, <2>4, <2>5, <2>6 DEF ClusterInv
  <1>10. CASE ~ Kept(p)
    <2>0. Union(p)
      BY <1>1, <1>10
    <2>1. /\ root' \in [Nodes -> Nodes] /\ strong' \subseteq Nodes
          /\ \A n \in Nodes : root'[n] <= n /\ root'[root'[n]] = root'[n]
      BY <2>0, <1>5, <1>6, UnionFacts
    <2>2. \A n, x \in Nodes : root[n] = root[x] => root'[n] = root'[x]
      BY <2>0, <1>5, <1>6, UnionFacts
    <2>3. \A n, x \in Nodes : root'[n] = root'[x] =>
              \/ root[n] = root[x]
              \/ root[n] = root[p[1]] /\ root[x] = root[p[2]]
              \/ root[n] = root[p[2]] /\ root[x] = root[p[1]]
      BY <2>0, <1>5, <1>6, UnionFacts
    <2>4. \A n \in Nodes : root[n] \in strong => root'[n] \in strong'
      BY <2>0, <1>5, <1>6, UnionFacts
    <2>5. /\ root'[p[1]] = root'[p[2]]
          /\ bond[p] = "strong" => root'[p[1]] \in strong'
      BY <2>0, <1>5, <1>6, UnionFacts
    <2>6. \A s \in strong' :
              \/ s = root'[p[1]] /\ (bond[p] = "strong" \/ root[p[1]] \in strong
                                    \/ root[p[2]] \in strong)
              \/ s \in strong /\ \A x \in Nodes : root[x] = s => root'[x] = s
      BY <2>0, <1>5, <1>6, UnionFacts
    <2>7. ClusterTypeOK'
      BY <1>1, <1>2, <1>5, <2>1 DEF ClusterTypeOK, Pairs
    <2>8. Joined'
      BY <1>1, <1>3, <1>5, <1>6, <2>2, <2>4, <2>5 DEF Joined
    <2>9. \A n, x \in Nodes : bond[p] = "strong" /\ root[n] = root[p[1]] /\ root[x] = root[p[2]] =>
            StrongCore(n) = StrongCore(x)
      <3>1. SUFFICES ASSUME bond[p] = "strong", NEW n \in Nodes, NEW x \in Nodes,
                            root[n] = root[p[1]], root[x] = root[p[2]]
                     PROVE  StrongCore(n) = StrongCore(x)
        OBVIOUS
      <3>2. StrongCore(n) = StrongCore(p[1]) /\ StrongCore(x) = StrongCore(p[2])
        BY <1>5, <1>6, <3>1 DEF StrongFirst
      <3>3. StrongCore(p[1]) = StrongCore(p[2])
        BY <1>6, <3>1, BondedCores
      <3>4. QED
        BY <3>2, <3>3
    <2>10. StrongFirst'
      <3>1. SUFFICES ASSUME todo' \cap Bonds("strong") # {}
                     PROVE  /\ Bonds("weak") \subseteq todo'
                            /\ \A n, x \in Nodes : root'[n] = root'[x] => StrongCore(n) = StrongCore(x)
        BY <1>3, <1>4 DEF StrongFirst
      <3>2. bond[p] = "strong" /\ todo \cap Bonds("strong") # {}
        BY <1>1, <1>6, <1>7, <3>1
      <3>3. Bonds("weak") \subseteq todo'
        BY <1>1, <1>5, <1>6, <3>2 DEF StrongFirst
      <3>4. \A n, x \in Nodes : root[n] = root[x] => StrongCore(n) = StrongCore(x)
        BY <1>5, <3>2 DEF StrongFirst
      <3>5. QED
        BY <2>3, <2>9, <3>2, <3>3, <3>4
    <2>11. OneLarge'
      <3>1. SUFFICES ASSUME NEW n \in Nodes, NEW x \in Nodes, root'[n] = root'[x],
                            Large(n), Large(x)
                     PROVE  StrongCore(n) = StrongCore(x)
        BY <1>4 DEF OneLarge
      <3>2. CASE root[n] = root[x]
        BY <3>1, <3>2, <1>5 DEF OneLarge
      <3>3. CASE bond[p] = "strong"
        BY <2>3, <2>9, <3>1, <3>2, <3>3
      <3>4. CASE bond[p] = "weak" /\ root[n] # root[x]
        <4>1. todo \cap Bonds("strong") = {}
          BY <1>7, <3>4
        <4>2. root[n] \in strong /\ root[x] \in strong
          BY <3>1, <4>1, LargeIsStrong
        <4>3. root[p[1]] # root[p[2]] /\ root[p[1]] \in strong /\ root[p[2]] \in strong
          BY <2>3, <3>1, <3>4, <4>2
        <4>4. QED
          BY <1>10, <3>4, <4>3 DEF Kept
      <3>5. QED
        BY <1>6, <3>2, <3>3, <3>4
    <2>12. StrongIsLarge'
      <3>1. SUFFICES ASSUME NEW s \in strong'
                     PROVE  \E x \in Nodes : root'[x] = s /\ Large(x)
        BY <1>4 DEF StrongIsLarge
      <3>2. CASE s \in strong /\ \A x \in Nodes : root[x] = s => root'[x] = s
        BY <1>5, <3>2 DEF StrongIsLarge
      <3>3. CASE s = root'[p[1]] /\ bond[p] = "strong"
        BY <1>6, <3>3, BondedCores DEF Large
      <3>4. CASE s = root'[p[1]] /\ root[p[1]] \in strong
        BY <1>5, <1>6, <2>2, <3>4 DEF StrongIsLarge
      <3>5. CASE s = root'[p[1]] /\ root[p[2]] \in strong
        BY <1>5, <1>6, <2>2, <2>5, <3>5 DEF StrongIsLarge
      <3>6. QED
        BY <2>6, <3>2, <3>3, <3>4, <3>5
    <2>13. Parted'
      BY <1>1, <1>3, <1>5, <1>6, <2>2, <2>4, <2>5 DEF Parted
    <2>14. QED
      BY <1>8, <2>7, <2>8, <2>10, <2>11, <2>12, <2>13 DEF ClusterInv
  <1>11. QED
    BY <1>9, <1>10

\* The invariant says what is asked for once every pair was gone through.
LEMMA ClusterInvSuffices ==
  ASSUME ClusterInv
  PROVE  OneStrongCore
  <1>1. /\ ClusterTypeOK /\ Joined /\ StrongFirst /\ OneLarge /\ StrongIsLarge /\ Parted
    BY DEF ClusterInv
  <1>2. SUFFICES ASSUME todo = {}
                 PROVE  /\ \A n, x \in Nodes : x \in StrongCore(n) => Component(x) = Component(n)
                        /\ \A n, x \in Nodes :
                             Component(n) = Component(x) /\ Large(n) /\ Large(x)
                               => StrongCore(n) = StrongCore(x)
                        /\ \A p \in Bonds("weak") :
                             \/ Component(p[1]) = Component(p[2])
                             \/ \A n \in {p[1], p[2]} : \E x \in Component(n) : Large(x)
    BY DEF OneStrongCore, Large
  <1>3. \A n, x \in Nodes : root[n] = root[x] <=> Component(n) = Component(x)
    BY DEF Component
  <1>4. ASSUME NEW n \in Nodes, NEW x \in StrongCore(n)
        PROVE  x \in Nodes /\ root[x] = root[n]
    <2>1. BondClosed(Component(n))
      BY <1>1, <1>2, BondKinds DEF BondClosed, Component, Joined
    <2>2. n \in Component(n) /\ Component(n) \subseteq Nodes
      BY DEF Component
    <2>3. x \in Component(n)
      BY <2>1, <2>2, CoreFacts
    <2>4. QED
      BY <2>2, <2>3 DEF Component
  <1>5. \A n, x \in Nodes : Component(n) = Component(x) /\ Large(n) /\ Large(x)
                               => StrongCore(n) = StrongCore(x)
    BY <1>1, <1>3 DEF OneLarge
  <1>6. ASSUME NEW p \in Bonds("weak"), Component(p[1]) # Component(p[2]), NEW n \in {p[1], p[2]}
        PROVE  \E x \in Component(n) : Large(x)
    <2>1. p[1] \in Nodes /\ p[2] \in Nodes
      BY <1>1, BondKinds
    <2>2. root[n] \in strong
      BY <1>1, <1>2, <1>3, <1>6, <2>1 DEF Parted
    <2>3. QED
      BY <1>1, <2>2 DEF StrongIsLarge, Component
  <1>7. QED
    BY <1>3, <1>4, <1>5, <1>6

LEMMA ClusterInvSteps ==
  ASSUME ClusterInv, [Join]_clusterVars
  PROVE  ClusterInv'
  <1>1. CASE UNCHANGED clusterVars
    <2>1. bond' = bond /\ root' = root /\ strong' = strong /\ todo' = todo
      BY <1>1 DEF clusterVars
    <2>2. Bonds("strong")' = Bonds("strong") /\ Bonds("weak")' = Bonds("weak")
      BY <2>1 DEF Bonds
    <2>3. \A n : StrongCore(n)' = StrongCore(n) /\ Large(n)' = Large(n)
      BY <2>2 DEF StrongCore, Large
    <2>4. ClusterTypeOK'
      BY <2>1 DEF ClusterInv, ClusterTypeOK
    <2>5. Joined' /\ StrongFirst' /\ OneLarge' /\ StrongIsLarge' /\ Parted'
      BY <2>1, <2>2, <2>3 DEF ClusterInv, Joined, StrongFirst, OneLarge, StrongIsLarge,
        Parted
    <2>6. QED
      BY <2>1, <2>4, <2>5 DEF ClusterInv
  <1>2. QED
    BY <1>1, JoinStep

\* When the clustering is through, strongly bonded matters are together, no
\* component holds two groups of them, and a weak bond is left unjoined only
\* between components that hold a group each (cluster_themes).
THEOREM ClustersHoldOneCore == ClusterSpec => []OneStrongCore
  <1>1. QED
    BY ClusterStart, ClusterInvSteps, ClusterInvSuffices, PTL DEF ClusterSpec

-----------------------------------------------------------------------------
\* The fold of CommitPlan over the plans of a chunk is a walk through them.

\* g is the function a fold of CommitPlan is defined by.
CommitIter(g, m, base, plans, quiet, open) ==
  g = [s \in SUBSET (1..m) |->
         IF s = {} THEN base
         ELSE CommitPlan(g[s \ {Max(s)}], plans[Max(s)], quiet, open)]

LEMMA MaxLast ==
  ASSUME NEW m \in Nat, NEW s \in SUBSET (1..(m + 1)), m + 1 \in s
  PROVE  Max(s) = m + 1
  <1>1. \A y \in s : m + 1 >= y
    OBVIOUS
  <1>2. \A x \in s : (\A y \in s : x >= y) => x = m + 1
    <2>1. \A x \in s : x \in Nat /\ x <= m + 1 
      OBVIOUS
    <2>2. \A x \in s : x >= m + 1 => x = m + 1
      BY <2>1
    <2>3. QED
      BY <2>2
  <1>3. Max(s) \in s /\ \A y \in s : Max(s) >= y
    BY <1>1 DEF Max
  <1>4. QED
    BY <1>2, <1>3

LEMMA MaxIn ==
  ASSUME NEW m \in Nat, NEW s \in SUBSET (1..m), s # {}
  PROVE  Max(s) \in s
  <1>1. \E t \in s : \A x \in s : x <= t
    <2> DEFINE up == {k \in Nat : \A x \in s : x <= k}
    <2>1. m \in up
      OBVIOUS
    <2>2. PICK k \in up : \A j \in up : k <= j
      BY <2>1, MinExists
    <2>3. k \in s
      <3>1. SUFFICES ASSUME k \notin s PROVE FALSE
        OBVIOUS
      <3>2. k \in Nat /\ \A x \in s : x <= k /\ x # k /\ x \in Nat
        BY <3>1
      <3>3. k # 0
        <4>1. PICK x \in s : TRUE
          OBVIOUS
        <4>2. QED
          BY <3>2, <4>1
      <3>4. k - 1 \in up
        BY <3>2, <3>3
      <3>5. QED
        BY <2>2, <3>4
    <2>4. QED
      BY <2>3
  <1>2. QED
    BY <1>1 DEF Max

LEMMA CommitIterExists ==
  ASSUME NEW n \in Nat, NEW base, NEW plans, NEW quiet, NEW open
  PROVE  \E g : CommitIter(g, n, base, plans, quiet, open)
  <1> DEFINE bad == {m \in Nat : ~ \E g : CommitIter(g, m, base, plans, quiet, open)}
  <1>1. SUFFICES ASSUME bad # {} PROVE FALSE
    OBVIOUS
  <1>2. PICK m \in bad : \A k \in bad : m <= k
    BY <1>1, MinExists
  <1>3. m # 0
    <2> DEFINE g == [s \in SUBSET (1..0) |-> base]
    <2>1. \A s \in SUBSET (1..0) : s = {}
      OBVIOUS
    <2>2. CommitIter(g, 0, base, plans, quiet, open)
      BY <2>1 DEF CommitIter
    <2>3. QED
      BY <2>2
  <1>4. PICK f : CommitIter(f, m - 1, base, plans, quiet, open)
    <2>1. m - 1 \in Nat /\ m - 1 \notin bad
      BY <1>2, <1>3
    <2>2. QED
      BY <2>1
  <1> DEFINE g == [s \in SUBSET (1..m) |->
                     IF m \in s THEN CommitPlan(f[s \ {m}], plans[m], quiet, open) ELSE f[s]]
  <1>5. ASSUME NEW s \in SUBSET (1..m)
        PROVE  g[s] = IF s = {} THEN base
                      ELSE CommitPlan(g[s \ {Max(s)}], plans[Max(s)], quiet, open)
    <2>1. CASE m \in s
      <3>1. Max(s) = m
        BY <1>3, <2>1, MaxLast
      <3>2. s \ {m} \in SUBSET (1..m) /\ m \notin s \ {m} /\ s # {}
        BY <2>1
      <3>3. g[s \ {m}] = f[s \ {m}]
        BY <3>2
      <3>4. QED
        BY <2>1, <3>1, <3>2, <3>3
    <2>2. CASE m \notin s
      <3>1. s \in SUBSET (1..(m - 1))
        BY <1>3, <2>2
      <3>2. g[s] = f[s]
        BY <2>2
      <3>3. f[s] = IF s = {} THEN base
                   ELSE CommitPlan(f[s \ {Max(s)}], plans[Max(s)], quiet, open)
        BY <1>4, <3>1 DEF CommitIter
      <3>4. g[s \ {Max(s)}] = f[s \ {Max(s)}]
        BY <2>2
      <3>5. QED
        BY <3>2, <3>3, <3>4
    <2>3. QED
      BY <2>1, <2>2
  <1>6. g = [s \in SUBSET (1..m) |-> g[s]]
    OBVIOUS
  <1>7. CommitIter(g, m, base, plans, quiet, open)
    <2> HIDE DEF g
    <2>1. QED
      BY <1>5, <1>6 DEF CommitIter
  <1>8. QED
    BY <1>2, <1>7

\* What the fold is defined to be.
CommitFold(n, base, plans, quiet, open) ==
  (CHOOSE f : CommitIter(f, n, base, plans, quiet, open))[1..n]

\* A walk through the plans: from base, each plan commits after the one before.
CommitSteps(walk, n, base, plans, quiet, open) ==
  /\ walk[0] = base
  /\ \A k \in 1..n : walk[k] = CommitPlan(walk[k - 1], plans[k], quiet, open)

LEMMA CommitWalk ==
  ASSUME NEW n \in Nat, NEW base, NEW plans, NEW quiet, NEW open
  PROVE  \E walk : /\ CommitSteps(walk, n, base, plans, quiet, open)
                   /\ CommitFold(n, base, plans, quiet, open) = walk[n]
  <1> DEFINE g == CHOOSE f : CommitIter(f, n, base, plans, quiet, open)
             walk == [k \in 0..n |-> g[1..k]]
  <1>1. CommitIter(g, n, base, plans, quiet, open)
    BY CommitIterExists
  <1>2. CommitFold(n, base, plans, quiet, open) = g[1..n]
    BY DEF CommitFold
  <1> HIDE DEF g
  <1>3. walk[0] = base
    <2>1. 1..0 = {} /\ {} \in SUBSET (1..n)
      OBVIOUS
    <2>2. g[{}] = base
      BY <1>1, <2>1 DEF CommitIter
    <2>3. QED
      BY <2>1, <2>2
  <1>4. ASSUME NEW k \in 1..n
        PROVE  walk[k] = CommitPlan(walk[k - 1], plans[k], quiet, open)
    <2>0. k \in 0..n /\ k - 1 \in 0..n
      OBVIOUS
    <2>1. 1..k \in SUBSET (1..n) /\ 1..k # {} /\ (1..k) \ {k} = 1..(k - 1)
      OBVIOUS
    <2>2. Max(1..k) = k
      <3>1. k - 1 \in Nat /\ 1..k \in SUBSET (1..((k - 1) + 1)) /\ (k - 1) + 1 \in 1..k
        OBVIOUS
      <3>2. Max(1..k) = (k - 1) + 1
        BY <3>1, MaxLast
      <3>3. QED
        BY <3>2
    <2>3. g[1..k] = CommitPlan(g[(1..k) \ {Max(1..k)}], plans[Max(1..k)], quiet, open)
      BY <1>1, <2>1 DEF CommitIter
    <2>4. QED
      BY <2>0, <2>1, <2>2, <2>3
  <1>5. CommitSteps(walk, n, base, plans, quiet, open) /\ walk[n] = g[1..n]
    <2>1. walk[n] = g[1..n]
      OBVIOUS
    <2> HIDE DEF walk
    <2>2. QED
      BY <1>3, <1>4, <2>1 DEF CommitSteps
  <1>6. QED
    BY <1>2, <1>5

-----------------------------------------------------------------------------
\* Merges, bindings and rows of the scope, and where keys lead in it.

Outcomes == {"none", "open", "drop", "attach", "new"}
Proposals ==
  [status : {"none", "open", "drop", "attach_subgoal"},
   child : Subjects \cup {NoKey}, parent : Subjects \cup {NoKey}]

BoundTo(bindings) == \A h \in DOMAIN bindings : bindings[h] \in Subjects
Scope ==
  /\ DOMAIN subjects \subseteq Subjects
  /\ merged \in Edges /\ Acyclic(merged)
  /\ BoundTo(bound)

LEMMA HomeStands ==
  ASSUME Scope, NEW c \in Cards, NEW key \in Subjects \cup {NoKey}
  PROVE  Home(c, key) \in Subjects \ DOMAIN merged
  <1> DEFINE k == IF key = NoKey THEN OwnKey[c] ELSE key
  <1>1. k \in Subjects
    BY CardsAssumption
  <1>2. Canonical(merged, k) \in Subjects /\ Canonical(merged, k) \notin DOMAIN merged
    BY <1>1, CanonicalInChain, CanonicalEnds DEF Scope
  <1>3. QED
    BY <1>2 DEF Home

\* The key of a plan is a subject's or none is routed to yet.
LEMMA PlanTypes ==
  ASSUME Scope, NEW c \in Cards, NEW open \in SUBSET Living, NEW p \in Plans(c, open)
  PROVE  /\ p \in PlanType /\ p.card = c
         /\ p.route = "duplicate" => c \in ingested \/ held[c] # "none"
  <1>1. \A s \in Subjects : Canonical(merged, s) \in Subjects
    BY CanonicalInChain DEF Scope
  <1>2. HandleTargets(c) \subseteq Subjects
    BY <1>1 DEF HandleTargets, Scope, BoundTo
  <1>3. /\ ThreadMatches(c) \subseteq Subjects /\ EvidenceMatches(c) \subseteq Subjects
    BY DEF ThreadMatches, EvidenceMatches, Living, Scope
  <1>4. Hint[c] \in Subjects \cup {NoKey}
    BY CardsAssumption
  <1>5. ASSUME NEW route \in {"duplicate", "trusted", "handle", "thread", "evidence",
                              "model", "new", "review"},
               NEW key \in Subjects \cup {NoKey}, NEW q, q = Plan(c, route, key)
        PROVE  q \in PlanType /\ q.card = c /\ q.route = route
    BY <1>5 DEF Plan, PlanType
  <1>6. CASE p \in Recalled(c, open)
    <2>1. CASE c \in ingested \/ held[c] # "none"
      <3>1. p = Plan(c, "duplicate", NoKey)
        BY <1>6, <2>1 DEF Recalled
      <3>2. QED
        BY <1>5, <2>1, <3>1
    <2>2. CASE ~ (c \in ingested \/ held[c] # "none")
      <3>1. Rung(c) \in {"handle", "thread", "evidence"} /\ Matches(c) \subseteq Subjects
        BY <1>2, <1>3 DEF Rung, Matches
      <3> DEFINE own == {"trusted", "handle", "thread", "evidence", "model"}
      <3>2. \E route \in own, key \in Subjects \cup {NoKey} : p = Plan(c, route, key)
        <4>1. Suggested(c, open) \subseteq Subjects
          BY DEF Suggested, Living, Scope
        <4>2. QED
          BY <1>4, <1>6, <2>2, <3>1, <4>1 DEF Recalled
      <3>3. PICK route \in own, key \in Subjects \cup {NoKey} : p = Plan(c, route, key)
        BY <3>2
      <3>4. p \in PlanType /\ p.card = c /\ p.route = route
        BY <1>5, <3>3
      <3>5. QED
        BY <3>4
    <2>3. QED
      BY <2>1, <2>2
  <1>7. CASE p \notin Recalled(c, open)
    <2>1. \E route \in {"model", "new", "review"},
             key \in Subjects \cup {NoKey} : p = Plan(c, route, key)
      <3>0. PICK offered \in Offers(open) : p \in Judged(c, offered)
        BY <1>7 DEF Plans
      <3>1. CASE offered = {}
        BY <3>0, <3>1 DEF Judged
      <3>2. CASE offered # {}
        <4>1. PICK a \in Answers : p = Adjudicated(c, offered, a)
          BY <3>0, <3>2 DEF Judged
        <4>2. a.key \in Subjects
          BY DEF Answers
        <4>3. QED
          BY <4>1, <4>2 DEF Adjudicated
      <3>3. QED
        BY <3>1, <3>2
    <2>2. PICK route \in {"model", "new", "review"},
               key \in Subjects \cup {NoKey} : p = Plan(c, route, key)
      BY <2>1
    <2>3. p \in PlanType /\ p.card = c /\ p.route = route
      BY <1>5, <2>2
    <2>4. QED
      BY <2>3
  <1>8. QED
    BY <1>6, <1>7

-----------------------------------------------------------------------------
\* What one plan does to the rows a chunk is about to commit.

IsRows(db) ==
  DOMAIN db = {"subjects", "bound", "filed", "ingested", "held", "proposal", "clash"}

\* d is db with card c filed under subject s; the proposals are another matter.
Filing(db, d, c, s) ==
  /\ IsRows(d)
  /\ DOMAIN d.subjects = DOMAIN db.subjects \cup {s}
  /\ d.filed = db.filed \cup {<<c, s>>} /\ d.ingested = db.ingested \cup {c}
  /\ d.held = db.held
  /\ d.bound = BindAll(db.bound, c, s)
  /\ d.clash = db.clash \cup ({c} \cap db.ingested)

\* The rows of a scope that holds subject s as well.
Grown(row, rows, s) == DOMAIN row = DOMAIN rows \cup {s}

LEMMA FileFiles ==
  ASSUME NEW db, IsRows(db), NEW c, NEW s, NEW row, Grown(row, db.subjects, s)
  PROVE  /\ Filing(db, File(db, c, s, row), c, s)
         /\ File(db, c, s, row).proposal = db.proposal
         /\ File(db, c, s, row).subjects = row
  BY DEF IsRows, File, Filing, Grown

\* d is db with one plan of card c committed: nothing changes, the card is held
\* or it is filed under a subject that stands.
Unchanged(db, d) == d = db
Holding(db, d, c) ==
  /\ IsRows(d)
  /\ d.subjects = db.subjects /\ d.bound = db.bound /\ d.filed = db.filed
  /\ d.ingested = db.ingested /\ d.proposal = db.proposal /\ d.clash = db.clash
  /\ d.held = [db.held EXCEPT ![c] = IF @ = "none" THEN "open" ELSE @]
Suggesting(db, d, c) ==
  \/ d.proposal = db.proposal
  \/ \E q \in [status : {"none", "open"}, child : Subjects \cup {NoKey},
               parent : Subjects \cup {NoKey}] :
       d.proposal = [db.proposal EXCEPT ![c] = q]

LEMMA SuggestionTypes ==
  ASSUME NEW db, NEW s \in Subjects, NEW open \in SUBSET Subjects
  PROVE  Suggestion(db, s, open) \in
           [status : {"none", "open"}, child : Subjects \cup {NoKey},
            parent : Subjects \cup {NoKey}]
  <1> DEFINE candidates == ParentCandidates(db, s, open)
  <1>1. candidates \subseteq Subjects
    BY DEF ParentCandidates
  <1>2. Cardinality(candidates) = 1 => (CHOOSE x \in candidates : TRUE) \in Subjects
    <2>1. Cardinality({}) = 0
      BY FS_EmptySet
    <2>2. Cardinality(candidates) = 1 => candidates # {}
      BY <2>1
    <2>3. QED
      BY <1>1, <2>2
  <1>3. Suggestion(db, s, open) =
          IF Cardinality(candidates) # 1 THEN NoProposal
          ELSE [status |-> "open", child |-> s, parent |-> CHOOSE x \in candidates : TRUE]
    BY DEF Suggestion
  <1> HIDE DEF candidates
  <1>4. QED
    BY <1>2, <1>3 DEF NoProposal

LEMMA PutRowDomain ==
  ASSUME NEW rows, NEW s, NEW row
  PROVE  DOMAIN PutRow(rows, s, row) = DOMAIN rows \cup {s}
  BY DEF PutRow

LEMMA CommitOutcomes ==
  ASSUME Scope, NEW db, IsRows(db), NEW p \in PlanType, NEW quiet,
         NEW open \in SUBSET Subjects, NEW d, d = CommitPlan(db, p, quiet, open)
  PROVE  \/ p.route = "duplicate" /\ Unchanged(db, d)
         \/ Holding(db, d, p.card)
         \/ \E s \in Subjects \ DOMAIN merged :
              Filing(db, d, p.card, s) /\ Suggesting(db, d, p.card)
  <1> DEFINE c == p.card
             key == IF p.key = NoKey THEN OwnKey[c] ELSE p.key
             s == Home(c, p.key)
             known == s \in DOMAIN db.subjects
             row == IF known /\ c \in quiet THEN db.subjects
                    ELSE PutRow(db.subjects, s, WithEvidence(db.subjects, c, s, key))
             done == File(db, c, s, row)
  <1>1. c \in Cards /\ p.key \in Subjects \cup {NoKey}
    BY DEF PlanType
  <1>2. s \in Subjects \ DOMAIN merged
    BY <1>1, HomeStands
  <1>3. Grown(row, db.subjects, s)
    BY PutRowDomain DEF Grown
  <1>4. ASSUME p.route = "duplicate"
        PROVE  d = db
    BY <1>4 DEF CommitPlan
  <1>10. ASSUME p.route = "review"
         PROVE  d = Hold(db, c)
    BY <1>10 DEF CommitPlan
  <1>11. ASSUME p.route \notin {"duplicate", "review"}
         PROVE  d = IF known THEN done
                    ELSE [done EXCEPT !.proposal[c] = Suggestion(done, s, open)]
    BY <1>11 DEF CommitPlan
  <1> HIDE DEF c, s, row
  <1>5. Filing(db, done, c, s) /\ done.proposal = db.proposal
    BY <1>3, FileFiles
  <1> HIDE DEF known, done
  <1>6. CASE p.route = "duplicate"
    <2>1. d = db
      BY <1>4, <1>6
    <2>2. QED
      BY <1>6, <2>1 DEF Unchanged
  <1>7. CASE p.route = "review"
    <2>1. d = Hold(db, c)
      BY <1>7, <1>10
    <2>2. Holding(db, d, c)
      BY <2>1 DEF Hold, Holding, IsRows
    <2>3. QED
      BY <2>2 DEF c
  <1>8. CASE p.route \notin {"duplicate", "review"}
    <2>1. d = IF known THEN done
              ELSE [done EXCEPT !.proposal[c] = Suggestion(done, s, open)]
      BY <1>8, <1>11
    <2>2. CASE known
      <3>1. Filing(db, d, c, s) /\ Suggesting(db, d, c)
        BY <1>5, <2>1, <2>2 DEF Suggesting
      <3>2. QED
        BY <1>2, <3>1 DEF c
    <2>3. CASE ~ known
      <3>1. PICK q \in [status : {"none", "open"}, child : Subjects \cup {NoKey},
                        parent : Subjects \cup {NoKey}] : q = Suggestion(done, s, open)
        BY <1>2, SuggestionTypes
      <3>2. d = [done EXCEPT !.proposal[c] = q]
        BY <2>1, <2>3, <3>1
      <3>3. IsRows(done)
        BY <1>5 DEF Filing
      <3>4. /\ DOMAIN d = DOMAIN done
            /\ d.subjects = done.subjects /\ d.bound = done.bound /\ d.filed = done.filed
            /\ d.ingested = done.ingested /\ d.held = done.held /\ d.clash = done.clash
            /\ d.proposal = [done.proposal EXCEPT ![c] = q]
        BY <3>2, <3>3 DEF IsRows
      <3>5. Filing(db, d, c, s)
        BY <1>5, <3>3, <3>4 DEF Filing, IsRows
      <3>6. d.proposal = [db.proposal EXCEPT ![c] = q]
        BY <1>5, <3>4
      <3>7. Suggesting(db, d, c)
        BY <3>6 DEF Suggesting
      <3>8. QED
        BY <1>2, <3>5, <3>7 DEF c
    <2>4. QED
      BY <2>2, <2>3
  <1>9. QED
    BY <1>6, <1>7, <1>8

-----------------------------------------------------------------------------
\* What holds of the rows a chunk is about to commit, after any of its plans.

\* One home in the rows without a clash, and proposals of marked cards only,
\* new ones where there was none.
Clean(db) ==
  /\ \A f, g \in db.filed : f[1] = g[1] => f[2] = g[2]
  /\ db.ingested = {f[1] : f \in db.filed}
  /\ \A c \in Cards : db.proposal[c].status # "none" => c \in db.ingested
  /\ \A c \in Cards :
       IF proposal[c].status = "none" THEN db.proposal[c].status \in {"none", "open"}
       ELSE db.proposal[c] = proposal[c]
RowsInv(db) ==
  /\ IsRows(db)
  /\ DOMAIN subjects \subseteq DOMAIN db.subjects /\ DOMAIN db.subjects \subseteq Subjects
  /\ BoundTo(db.bound)
  /\ db.filed \subseteq Cards \X Subjects
  /\ \A f \in db.filed \ filed : f[2] \in DOMAIN db.subjects \ DOMAIN merged
  /\ ingested \subseteq db.ingested
  /\ db.held \in [Cards -> Outcomes]
  /\ \A c \in Cards : db.held[c] = held[c] \/ (held[c] = "none" /\ db.held[c] = "open")
  /\ db.proposal \in [Cards -> Proposals]
  /\ db.clash = {} => Clean(db)

\* Card c is dealt with.
Placed(db, c) == c \in db.ingested \/ db.held[c] # "none"

Homes ==
  /\ filed \subseteq Cards \X Subjects
  /\ held \in [Cards -> Outcomes]
  /\ proposal \in [Cards -> Proposals]
  /\ OneHome
  /\ \A c \in Cards : proposal[c].status # "none" => c \in ingested

LEMMA RowsStart ==
  ASSUME Scope, Homes
  PROVE  RowsInv(Rows)
  <1>1. /\ Rows.subjects = subjects /\ Rows.bound = bound /\ Rows.filed = filed
        /\ Rows.ingested = ingested /\ Rows.held = held /\ Rows.proposal = proposal
        /\ Rows.clash = {} /\ IsRows(Rows)
    BY DEF Rows, IsRows
  <1>2. Clean(Rows)
    BY <1>1 DEF Clean, Homes, OneHome
  <1>3. QED
    BY <1>1, <1>2 DEF RowsInv, Scope, Homes

LEMMA FilingKeeps ==
  ASSUME NEW db, RowsInv(db), NEW d, NEW c \in Cards, NEW s \in Subjects \ DOMAIN merged,
         Filing(db, d, c, s), Suggesting(db, d, c)
  PROVE  /\ RowsInv(d) /\ Placed(d, c)
         /\ \A x \in Cards : Placed(db, x) => Placed(d, x)
  <1>1. /\ DOMAIN d.subjects = DOMAIN db.subjects \cup {s}
        /\ d.filed = db.filed \cup {<<c, s>>} /\ d.ingested = db.ingested \cup {c}
        /\ d.held = db.held /\ d.bound = BindAll(db.bound, c, s)
        /\ d.clash = db.clash \cup ({c} \cap db.ingested) /\ IsRows(d)
    BY DEF Filing
  <1>2. /\ DOMAIN subjects \subseteq DOMAIN db.subjects /\ DOMAIN db.subjects \subseteq Subjects
        /\ BoundTo(db.bound)
        /\ db.filed \subseteq Cards \X Subjects
        /\ \A f \in db.filed \ filed : f[2] \in DOMAIN db.subjects \ DOMAIN merged
        /\ ingested \subseteq db.ingested
        /\ db.held \in [Cards -> Outcomes]
        /\ \A x \in Cards : db.held[x] = held[x] \/ (held[x] = "none" /\ db.held[x] = "open")
        /\ db.proposal \in [Cards -> Proposals]
    BY DEF RowsInv
  <1>3. BoundTo(d.bound)
    BY <1>1, <1>2 DEF BoundTo, BindAll
  <1>4. /\ d.proposal \in [Cards -> Proposals]
        /\ \A x \in Cards \ {c} : d.proposal[x] = db.proposal[x]
        /\ d.proposal[c] = db.proposal[c] \/ d.proposal[c].status \in {"none", "open"}
    <2>1. CASE d.proposal = db.proposal
      BY <1>2, <2>1
    <2>2. CASE d.proposal # db.proposal
      <3>1. PICK q \in [status : {"none", "open"}, child : Subjects \cup {NoKey},
                        parent : Subjects \cup {NoKey}] :
              d.proposal = [db.proposal EXCEPT ![c] = q]
        BY <2>2 DEF Suggesting
      <3>2. q \in Proposals /\ q.status \in {"none", "open"}
        BY DEF Proposals
      <3>3. QED
        BY <1>2, <3>1, <3>2
    <2>3. QED
      BY <2>1, <2>2
  <1>5. ASSUME d.clash = {}
        PROVE  Clean(d)
    <2>1. db.clash = {} /\ c \notin db.ingested
      BY <1>1, <1>5
    <2>2. Clean(db)
      BY <2>1 DEF RowsInv
    <2>3. db.proposal[c].status = "none" /\ proposal[c].status = "none"
      BY <2>1, <2>2 DEF Clean
    <2>4. \A f \in db.filed : f[1] # c
      BY <2>1, <2>2 DEF Clean
    <2>5. \A f, g \in d.filed : f[1] = g[1] => f[2] = g[2]
      BY <1>1, <2>2, <2>4 DEF Clean
    <2>6. d.ingested = {f[1] : f \in d.filed}
      <3>1. db.ingested = {f[1] : f \in db.filed}
        BY <2>2 DEF Clean
      <3>2. <<c, s>>[1] = c
        OBVIOUS
      <3>3. QED
        BY <1>1, <3>1, <3>2
    <2>7. \A x \in Cards : d.proposal[x].status # "none" => x \in d.ingested
      BY <1>1, <1>4, <2>2 DEF Clean
    <2>8. \A x \in Cards :
            IF proposal[x].status = "none" THEN d.proposal[x].status \in {"none", "open"}
            ELSE d.proposal[x] = proposal[x]
      BY <1>4, <2>2, <2>3 DEF Clean
    <2>9. QED
      BY <2>5, <2>6, <2>7, <2>8 DEF Clean
  <1>6. d.filed \subseteq Cards \X Subjects
    BY <1>1, <1>2
  <1>7. \A f \in d.filed \ filed : f[2] \in DOMAIN d.subjects \ DOMAIN merged
    BY <1>1, <1>2
  <1>8. DOMAIN subjects \subseteq DOMAIN d.subjects /\ DOMAIN d.subjects \subseteq Subjects
    BY <1>1, <1>2
  <1>9. RowsInv(d)
    BY <1>1, <1>2, <1>3, <1>4, <1>5, <1>6, <1>7, <1>8 DEF RowsInv
  <1>10. QED
    BY <1>1, <1>9 DEF Placed

LEMMA HoldingKeeps ==
  ASSUME NEW db, RowsInv(db), NEW d, NEW c \in Cards, Holding(db, d, c)
  PROVE  /\ RowsInv(d) /\ Placed(d, c)
         /\ \A x \in Cards : Placed(db, x) => Placed(d, x)
  <1>1. /\ d.subjects = db.subjects /\ d.bound = db.bound /\ d.filed = db.filed
        /\ d.ingested = db.ingested /\ d.proposal = db.proposal /\ d.clash = db.clash
        /\ d.held = [db.held EXCEPT ![c] = IF @ = "none" THEN "open" ELSE @] /\ IsRows(d)
    BY DEF Holding
  <1>2. /\ db.held \in [Cards -> Outcomes]
        /\ \A x \in Cards : db.held[x] = held[x] \/ (held[x] = "none" /\ db.held[x] = "open")
    BY DEF RowsInv
  <1>3. /\ d.held \in [Cards -> Outcomes] /\ d.held[c] # "none"
        /\ \A x \in Cards : d.held[x] = db.held[x] \/ (db.held[x] = "none" /\ d.held[x] = "open")
    BY <1>1, <1>2 DEF Outcomes
  <1>4. Clean(db) => Clean(d)
    BY <1>1 DEF Clean
  <1>5. RowsInv(d)
    BY <1>1, <1>2, <1>3, <1>4 DEF RowsInv
  <1>6. QED
    BY <1>1, <1>3, <1>5 DEF Placed

\* After the plans of a chunk, each of its cards is dealt with and the rows are
\* as they should be unless a mark was there already.
LEMMA CommittedRows ==
  ASSUME Scope, Homes,
         NEW n \in Nat, NEW plans, DOMAIN plans = 1..n,
         \A i \in 1..n : /\ plans[i] \in PlanType
                         /\ plans[i].route = "duplicate" =>
                              plans[i].card \in ingested \/ held[plans[i].card] # "none",
         NEW quiet, NEW open \in SUBSET Subjects,
         NEW walk, CommitSteps(walk, n, Rows, plans, quiet, open)
  PROVE  /\ RowsInv(walk[n])
         /\ \A i \in 1..n : Placed(walk[n], plans[i].card)
  <1> DEFINE Good(k) == RowsInv(walk[k]) /\ \A i \in 1..k : Placed(walk[k], plans[i].card)
             bad == {k \in 0..n : ~ Good(k)}
  <1>1. SUFFICES ASSUME bad # {} PROVE FALSE
    BY DEF bad, Good
  <1>2. PICK k \in bad : \A j \in bad : k <= j
    <2> HIDE DEF Good
    <2>1. bad \in SUBSET Nat
      OBVIOUS
    <2> HIDE DEF bad
    <2>2. QED
      BY <1>1, <2>1, MinExists
  <1>3. k \in 0..n /\ ~ Good(k)
    BY <1>2
  <1>4. k # 0
    <2>1. walk[0] = Rows
      BY DEF CommitSteps
    <2>2. RowsInv(walk[0])
      BY <2>1, RowsStart
    <2>3. Good(0)
      BY <2>2
    <2>4. QED
      BY <1>3, <2>3
  <1>5. k \in 1..n /\ k - 1 \in 0..n /\ k - 1 < k
    BY <1>3, <1>4
  <1>6. Good(k - 1)
    BY <1>2, <1>5
  <1> DEFINE p == plans[k]
  <1>7. walk[k] = CommitPlan(walk[k - 1], p, quiet, open) /\ p \in PlanType /\ p.card \in Cards
    BY <1>5 DEF CommitSteps, PlanType
  <1>8. IsRows(walk[k - 1])
    BY <1>6 DEF RowsInv
  <1>9. \/ p.route = "duplicate" /\ Unchanged(walk[k - 1], walk[k])
        \/ Holding(walk[k - 1], walk[k], p.card)
        \/ \E s \in Subjects \ DOMAIN merged :
             Filing(walk[k - 1], walk[k], p.card, s) /\ Suggesting(walk[k - 1], walk[k], p.card)
    <2> HIDE DEF p
    <2>1. QED
      BY <1>7, <1>8, CommitOutcomes
  <1>10. /\ RowsInv(walk[k]) /\ Placed(walk[k], p.card)
         /\ \A x \in Cards : Placed(walk[k - 1], x) => Placed(walk[k], x)
    <2>1. CASE p.route = "duplicate" /\ Unchanged(walk[k - 1], walk[k])
      <3>1. walk[k] = walk[k - 1] /\ RowsInv(walk[k - 1])
        BY <1>6, <2>1 DEF Unchanged
      <3>2. p.card \in ingested \/ held[p.card] # "none"
        BY <1>5, <2>1
      <3>3. Placed(walk[k - 1], p.card)
        BY <1>7, <3>1, <3>2 DEF RowsInv, Placed
      <3>4. QED
        BY <3>1, <3>3
    <2>2. CASE Holding(walk[k - 1], walk[k], p.card)
      <3> HIDE DEF p
      <3>1. QED
        BY <1>6, <1>7, <2>2, HoldingKeeps
    <2>3. CASE \E s \in Subjects \ DOMAIN merged :
             Filing(walk[k - 1], walk[k], p.card, s) /\ Suggesting(walk[k - 1], walk[k], p.card)
      <3> HIDE DEF p
      <3>1. QED
        BY <1>6, <1>7, <2>3, FilingKeeps
    <2>4. QED
      BY <1>9, <2>1, <2>2, <2>3
  <1>11. \A i \in 1..k : Placed(walk[k], plans[i].card)
    <2>1. TAKE i \in 1..k
    <2>2. CASE i = k
      BY <1>10, <2>2
    <2>3. CASE i # k
      <3>1. i \in 1..(k - 1) /\ i \in 1..n
        BY <1>5, <2>3
      <3>2. plans[i].card \in Cards
        BY <3>1 DEF PlanType
      <3>3. QED
        BY <1>6, <1>10, <3>1, <3>2
    <2>4. QED
      BY <2>2, <2>3
  <1>12. QED
    BY <1>3, <1>10, <1>11

\* A chunk that commits takes effect as its walk does.
LEMMA CommitChunkWalks ==
  ASSUME NEW w \in Workers, NEW n \in Nat, DOMAIN chunk[w].plans = 1..n, CommitChunk(w)
  PROVE  \E quiet, walk : \E open \in SUBSET Subjects :
           /\ CommitSteps(walk, n, Rows, chunk[w].plans, quiet, open)
           /\ walk[n].clash = {} /\ SetRows(walk[n])
  <1>1. PICK quiet \in SUBSET Range(chunk[w].cards), open \in SUBSET Subjects :
          LET commit(db, p) == CommitPlan(db, p, quiet, open)
              db == FoldLeft(commit, Rows, chunk[w].plans)
          IN db.clash = {} /\ SetRows(db)
    BY DEF CommitChunk
  <1> DEFINE commit(db, p) == CommitPlan(db, p, quiet, open)
  <1>2. FoldLeft(commit, Rows, chunk[w].plans) =
          CommitFold(n, Rows, chunk[w].plans, quiet, open)
    BY DEF CommitFold, FoldLeft, MapThenFoldSet, CommitIter
  <1>3. PICK walk : /\ CommitSteps(walk, n, Rows, chunk[w].plans, quiet, open)
                    /\ CommitFold(n, Rows, chunk[w].plans, quiet, open) = walk[n]
    BY CommitWalk
  <1>4. LET db == CommitFold(n, Rows, chunk[w].plans, quiet, open)
        IN  db.clash = {} /\ SetRows(db)
    BY <1>1, <1>2
  <1>5. QED
    BY <1>3, <1>4

-----------------------------------------------------------------------------
\* The invariant of routing.

Chunks ==
  /\ chunk \in [Workers -> [pc : {"idle", "extracted"}, records : SUBSET Records,
                            cards : Seq(Cards), plans : Seq(PlanType)]]
  /\ \A w \in Workers : Len(chunk[w].plans) <= Len(chunk[w].cards)
  /\ \A w \in Workers : \A i \in 1..Len(chunk[w].plans) :
       /\ chunk[w].plans[i].card = chunk[w].cards[i]
       /\ chunk[w].plans[i].route = "duplicate" =>
            chunk[w].cards[i] \in ingested \/ held[chunk[w].cards[i]] # "none"

\* A claim of a parent is written with the acceptance of its proposal.
Decisions ==
  /\ desk \in [Clerks -> Cards \cup {NoKey}]
  /\ parents \subseteq Cards \X Clerks
  /\ \A f \in parents : proposal[f[1]].status = "attach_subgoal"
  /\ \A f, g \in parents : f[1] = g[1] => f = g
  /\ \A c \in Cards : proposal[c].status = "attach_subgoal" => \E f \in parents : f[1] = c

RoutingInv == Scope /\ Homes /\ Chunks /\ Decisions

\* No card becomes undone.
DoneStays ==
  \A c \in Cards : c \in ingested \/ held[c] # "none" => c \in ingested' \/ held'[c] # "none"

LEMMA ScopeFrame ==
  ASSUME Scope, UNCHANGED <<subjects, merged, bound>>
  PROVE  Scope'
  BY DEF Scope, BoundTo

LEMMA HomesFrame ==
  ASSUME Homes, UNCHANGED <<filed, ingested, held, proposal>>
  PROVE  Homes' /\ DoneStays
  BY DEF Homes, OneHome, DoneStays

LEMMA ChunksFrame ==
  ASSUME Chunks, UNCHANGED chunk, DoneStays
  PROVE  Chunks'
  <1>1. ASSUME NEW w \in Workers, NEW i \in 1..Len(chunk[w].plans)
        PROVE  chunk[w].cards[i] \in Cards
    <2>1. /\ chunk[w].cards \in Seq(Cards) /\ chunk[w].plans \in Seq(PlanType)
          /\ Len(chunk[w].plans) <= Len(chunk[w].cards)
      BY DEF Chunks
    <2>2. i \in 1..Len(chunk[w].cards)
      BY <2>1
    <2>3. QED
      BY <2>1, <2>2
  <1>2. QED
    BY <1>1 DEF Chunks, DoneStays

LEMMA DecisionsFrame ==
  ASSUME Decisions, UNCHANGED <<proposal, parents, desk>>
  PROVE  Decisions'
  BY DEF Decisions

\* Rows that take effect leave the scope and the homes in order.
LEMMA RowsTakeEffect ==
  ASSUME Scope, Homes, NEW db, RowsInv(db), db.clash = {}, SetRows(db), UNCHANGED merged
  PROVE  /\ Scope' /\ Homes' /\ DoneStays
         /\ \A f \in filed' \ filed : f[2] \in DOMAIN subjects' /\ f[2] \notin DOMAIN merged'
         /\ \A c \in Cards :
              IF proposal[c].status = "none" THEN proposal'[c].status \in {"none", "open"}
              ELSE proposal'[c] = proposal[c]
  <1>1. /\ subjects' = db.subjects /\ bound' = db.bound /\ filed' = db.filed
        /\ ingested' = db.ingested /\ held' = db.held /\ proposal' = db.proposal
    BY DEF SetRows
  <1>2. Clean(db)
    BY DEF RowsInv
  <1>3. Scope'
    BY <1>1 DEF RowsInv, Scope, BoundTo
  <1>4. OneHome'
    <2>1. \A f, g \in filed' : f[1] = g[1] => f[2] = g[2]
      BY <1>1, <1>2 DEF Clean
    <2>2. ingested' = {f[1] : f \in filed'}
      BY <1>1, <1>2 DEF Clean
    <2>3. ASSUME NEW c \in Cards, held'[c] \in {"attach", "new"}
          PROVE  c \in ingested'
      <3>1. held'[c] = held[c]
        BY <1>1, <2>3 DEF RowsInv
      <3>2. c \in ingested
        BY <2>3, <3>1 DEF Homes, OneHome
      <3>3. QED
        BY <1>1, <3>2 DEF RowsInv
    <2>4. QED
      BY <2>1, <2>2, <2>3 DEF OneHome
  <1>5. Homes'
    BY <1>1, <1>2, <1>4 DEF Homes, RowsInv, Clean
  <1>6. DoneStays
    BY <1>1 DEF DoneStays, RowsInv
  <1>7. \A f \in filed' \ filed : f[2] \in DOMAIN subjects' /\ f[2] \notin DOMAIN merged'
    BY <1>1 DEF RowsInv
  <1>8. \A c \in Cards :
          IF proposal[c].status = "none" THEN proposal'[c].status \in {"none", "open"}
          ELSE proposal'[c] = proposal[c]
    BY <1>1, <1>2 DEF Clean
  <1>9. QED
    BY <1>3, <1>5, <1>6, <1>7, <1>8

\* New proposals are undecided, decided ones stay as they are.
LEMMA DecisionsKept ==
  ASSUME Decisions, Homes, UNCHANGED <<parents, desk>>,
         \A c \in Cards :
           IF proposal[c].status = "none" THEN proposal'[c].status \in {"none", "open"}
           ELSE proposal'[c] = proposal[c]
  PROVE  Decisions'
  <1>1. \A f \in parents : f[1] \in Cards
    BY DEF Decisions
  <1>2. \A f \in parents : proposal'[f[1]].status = "attach_subgoal"
    BY <1>1 DEF Decisions
  <1>3. ASSUME NEW c \in Cards, proposal'[c].status = "attach_subgoal"
        PROVE  \E f \in parents : f[1] = c
    <2>1. proposal[c].status = "attach_subgoal"
      BY <1>3
    <2>2. QED
      BY <2>1 DEF Decisions
  <1>4. QED
    BY <1>2, <1>3 DEF Decisions

\* A chunk commits.
LEMMA CommitStep ==
  ASSUME RoutingInv, NEW w \in Workers, CommitChunk(w)
  PROVE  /\ RoutingInv'
         /\ \A f \in filed' \ filed : f[2] \in DOMAIN subjects' /\ f[2] \notin DOMAIN merged'
         /\ \A c \in Range(chunk[w].cards) : c \in ingested' \/ held'[c] # "none"
         /\ chunk' = [chunk EXCEPT ![w] = Nothing]
  <1>1. Scope /\ Homes /\ Chunks /\ Decisions
    BY DEF RoutingInv
  <1> DEFINE n == Len(chunk[w].plans)
             plans == chunk[w].plans
  <1>2. /\ plans \in Seq(PlanType) /\ chunk[w].cards \in Seq(Cards)
        /\ n = Len(chunk[w].cards) /\ n \in Nat /\ DOMAIN plans = 1..n
        /\ \A i \in 1..n : /\ plans[i] \in PlanType
                           /\ plans[i].card = chunk[w].cards[i]
                           /\ plans[i].route = "duplicate" =>
                                plans[i].card \in ingested \/ held[plans[i].card] # "none"
    <2>1. plans \in Seq(PlanType) /\ chunk[w].cards \in Seq(Cards)
      BY <1>1 DEF Chunks
    <2>2. n = Len(chunk[w].cards) /\ n \in Nat /\ DOMAIN plans = 1..n
      <3>1. Planned(w)
        BY DEF CommitChunk
      <3>2. QED
        BY <2>1, <3>1 DEF Planned
    <2>3. \A i \in 1..n : plans[i] \in PlanType
      BY <2>1
    <2>4. \A i \in 1..n : /\ plans[i].card = chunk[w].cards[i]
                          /\ plans[i].route = "duplicate" =>
                               chunk[w].cards[i] \in ingested \/ held[chunk[w].cards[i]] # "none"
      BY <1>1 DEF Chunks
    <2>5. QED
      BY <2>1, <2>2, <2>3, <2>4
  <1>3. PICK quiet, walk : \E open \in SUBSET Subjects :
          /\ CommitSteps(walk, n, Rows, plans, quiet, open)
          /\ walk[n].clash = {} /\ SetRows(walk[n])
    BY <1>2, CommitChunkWalks
  <1>4. PICK open \in SUBSET Subjects :
          /\ CommitSteps(walk, n, Rows, plans, quiet, open)
          /\ walk[n].clash = {} /\ SetRows(walk[n])
    BY <1>3
  <1>5. /\ RowsInv(walk[n])
        /\ \A i \in 1..n : Placed(walk[n], plans[i].card)
    <2>1. PICK m \in Nat, q \in Seq(PlanType) : m = n /\ q = plans
      BY <1>2
    <2>2. /\ DOMAIN q = 1..m
          /\ \A i \in 1..m : /\ q[i] \in PlanType
                             /\ q[i].route = "duplicate" =>
                                  q[i].card \in ingested \/ held[q[i].card] # "none"
          /\ CommitSteps(walk, m, Rows, q, quiet, open)
      BY <1>2, <1>4, <2>1
    <2>3. RowsInv(walk[m]) /\ \A i \in 1..m : Placed(walk[m], q[i].card)
      BY <1>1, <2>2, CommittedRows
    <2>4. QED
      BY <2>1, <2>3
  <1>6. PICK db : db = walk[n]
    OBVIOUS
  <1> HIDE DEF n, plans
  <1>7. RowsInv(db) /\ db.clash = {} /\ SetRows(db) /\ UNCHANGED <<merged, parents, desk>>
    BY <1>4, <1>5, <1>6 DEF CommitChunk
  <1>8. /\ Scope' /\ Homes' /\ DoneStays
        /\ \A f \in filed' \ filed : f[2] \in DOMAIN subjects' /\ f[2] \notin DOMAIN merged'
    BY <1>1, <1>7, RowsTakeEffect
  <1>9. Decisions'
    <2>1. \A c \in Cards :
            IF proposal[c].status = "none" THEN proposal'[c].status \in {"none", "open"}
            ELSE proposal'[c] = proposal[c]
      BY <1>1, <1>7, RowsTakeEffect
    <2>2. QED
      BY <1>1, <1>7, <2>1, DecisionsKept
  <1>10. chunk' = [chunk EXCEPT ![w] = Nothing]
    BY DEF CommitChunk
  <1>11. Chunks'
    <2>1. Nothing \in [pc : {"idle", "extracted"}, records : SUBSET Records,
                       cards : Seq(Cards), plans : Seq(PlanType)]
      BY DEF Nothing
    <2>2. /\ chunk' \in [Workers -> [pc : {"idle", "extracted"}, records : SUBSET Records,
                                     cards : Seq(Cards), plans : Seq(PlanType)]]
          /\ chunk'[w] = Nothing
          /\ \A v \in Workers \ {w} : chunk'[v] = chunk[v]
      BY <1>1, <1>10, <2>1 DEF Chunks
    <2>3. Len(Nothing.plans) = 0 /\ Len(Nothing.cards) = 0
      BY DEF Nothing
    <2>4. ASSUME NEW v \in Workers
          PROVE  /\ Len(chunk'[v].plans) <= Len(chunk'[v].cards)
                 /\ \A i \in 1..Len(chunk'[v].plans) :
                      /\ chunk'[v].plans[i].card = chunk'[v].cards[i]
                      /\ chunk'[v].plans[i].route = "duplicate" =>
                           chunk'[v].cards[i] \in ingested' \/ held'[chunk'[v].cards[i]] # "none"
      <3>1. CASE v = w
        BY <2>2, <2>3, <3>1
      <3>2. CASE v # w
        <4>1. /\ Len(chunk[v].plans) <= Len(chunk[v].cards)
              /\ chunk[v].plans \in Seq(PlanType) /\ chunk[v].cards \in Seq(Cards)
          BY <1>1 DEF Chunks
        <4>2. \A i \in 1..Len(chunk[v].plans) : chunk[v].cards[i] \in Cards
          BY <4>1
        <4>3. chunk'[v] = chunk[v]
          BY <2>2, <3>2
        <4>4. ASSUME NEW i \in 1..Len(chunk[v].plans)
              PROVE  /\ chunk[v].plans[i].card = chunk[v].cards[i]
                     /\ chunk[v].plans[i].route = "duplicate" =>
                          chunk[v].cards[i] \in ingested' \/ held'[chunk[v].cards[i]] # "none"
          BY <1>1, <1>8, <4>2 DEF Chunks, DoneStays
        <4>5. QED
          BY <4>1, <4>3, <4>4
      <3>3. QED
        BY <3>1, <3>2
    <2>5. QED
      BY <2>2, <2>4 DEF Chunks
  <1>12. ASSUME NEW c \in Range(chunk[w].cards)
         PROVE  c \in ingested' \/ held'[c] # "none"
    <2>1. PICK i \in 1..n : c = plans[i].card
      BY <1>2 DEF Range
    <2>2. Placed(db, c)
      BY <1>5, <1>6, <2>1
    <2>3. QED
      BY <1>7, <2>2 DEF Placed, SetRows
  <1>13. QED
    BY <1>8, <1>9, <1>10, <1>11, <1>12 DEF RoutingInv

\* What a step may do to homes.
SafeStep ==
  \A f \in filed' \ filed : f[2] \in DOMAIN subjects' /\ f[2] \notin DOMAIN merged'

\* A chunk is extracted or routed further, or it is lost.
LEMMA ChunkSteps ==
  ASSUME RoutingInv, NEW w \in Workers, Extract(w) \/ Route(w) \/ LoseChunk(w)
  PROVE  RoutingInv' /\ SafeStep /\ observed' = observed
  <1>1. Scope /\ Homes /\ Chunks /\ Decisions
    BY DEF RoutingInv
  <1>2. UNCHANGED <<subjects, filed, ingested, held, proposal, bound, merged, parents,
                    observed, desk, human>>
    BY DEF Extract, Route, LoseChunk, tables
  <1>3. Scope' /\ Homes' /\ Decisions'
    BY <1>1, <1>2, ScopeFrame, HomesFrame, DecisionsFrame
  <1> DEFINE Hand == [pc : {"idle", "extracted"}, records : SUBSET Records,
                      cards : Seq(Cards), plans : Seq(PlanType)]
             Fits(h) ==
               /\ Len(h.plans) <= Len(h.cards)
               /\ \A i \in 1..Len(h.plans) :
                    /\ h.plans[i].card = h.cards[i]
                    /\ h.plans[i].route = "duplicate" =>
                         h.cards[i] \in ingested \/ held[h.cards[i]] # "none"
  <1>4. chunk \in [Workers -> Hand] /\ \A v \in Workers : Fits(chunk[v])
    BY <1>1 DEF Chunks
  <1>5. \E h \in Hand : Fits(h) /\ chunk' = [chunk EXCEPT ![w] = h]
    <2>1. CASE Extract(w)
      <3>1. PICK K \in SUBSET (Records \ observed) \ {{}}, cards \in Replies :
              chunk' = [chunk EXCEPT ![w] =
                [pc |-> "extracted", records |-> K, cards |-> cards, plans |-> <<>>]]
        BY <2>1 DEF Extract
      <3> DEFINE h == [pc |-> "extracted", records |-> K, cards |-> cards, plans |-> <<>>]
      <3>2. h \in Hand /\ Fits(h)
        <4>1. cards \in Seq(Cards) /\ Len(cards) \in Nat /\ <<>> \in Seq(PlanType) /\ Len(<<>>) = 0
          BY CardsAssumption
        <4>2. QED
          BY <4>1
      <3>3. QED
        BY <3>1, <3>2
    <2>2. CASE Route(w)
      <3> DEFINE i == Len(chunk[w].plans) + 1
                 old == chunk[w]
      <3>1. PICK open \in SUBSET Living :
              /\ i <= Len(old.cards)
              /\ \E p \in Plans(old.cards[i], open) :
                   chunk' = [chunk EXCEPT ![w].plans = Append(@, p)]
        BY <2>2 DEF Route
      <3>2. /\ old \in Hand /\ old.plans \in Seq(PlanType) /\ old.cards \in Seq(Cards)
            /\ Len(old.plans) \in Nat /\ Len(old.cards) \in Nat
        BY <1>4
      <3>3. PICK p \in Plans(old.cards[i], open) :
              chunk' = [chunk EXCEPT ![w] = [old EXCEPT !.plans = Append(old.plans, p)]]
        BY <3>1
      <3>4. old.cards[i] \in Cards
        BY <3>1, <3>2
      <3>5. /\ p \in PlanType /\ p.card = old.cards[i]
            /\ p.route = "duplicate" => old.cards[i] \in ingested \/ held[old.cards[i]] # "none"
        <4>1. PICK c \in Cards : c = old.cards[i]
          BY <3>4
        <4>2. p \in Plans(c, open)
          BY <4>1
        <4>3. QED
          BY <1>1, <4>1, <4>2, PlanTypes
      <3> DEFINE h == [old EXCEPT !.plans = Append(old.plans, p)]
      <3>6. /\ h \in Hand /\ h.plans = Append(old.plans, p) /\ h.cards = old.cards
        <4>0. \A a \in Seq(PlanType), b \in PlanType : Append(a, b) \in Seq(PlanType)
          OBVIOUS
        <4>1. PICK q \in Seq(PlanType) : q = Append(old.plans, p)
          <5> HIDE DEF old, Hand
          <5>1. QED
            BY <3>2, <3>5, <4>0
        <4>2. ASSUME NEW o \in Hand
              PROVE  /\ [o EXCEPT !.plans = q] \in Hand /\ [o EXCEPT !.plans = q].plans = q
                     /\ [o EXCEPT !.plans = q].cards = o.cards
          BY <4>1
        <4>3. QED
          BY <3>2, <4>1, <4>2
      <3>7. /\ Len(h.plans) = i /\ h.plans[i] = p
            /\ \A j \in 1..Len(old.plans) : h.plans[j] = old.plans[j]
        BY <3>2, <3>5, <3>6
      <3>8. Fits(old)
        BY <1>4
      <3> HIDE DEF h, old
      <3>9. ASSUME NEW j \in 1..Len(h.plans)
            PROVE  /\ h.plans[j].card = h.cards[j]
                   /\ h.plans[j].route = "duplicate" =>
                         h.cards[j] \in ingested \/ held[h.cards[j]] # "none"
        <4>1. CASE j = i
          BY <3>5, <3>6, <3>7, <4>1
        <4>2. CASE j # i
          <5>1. j \in 1..Len(old.plans)
            BY <3>2, <3>7, <4>2 DEF old
          <5>2. QED
            BY <3>6, <3>7, <3>8, <5>1
        <4>3. QED
          BY <4>1, <4>2
      <3>10. Fits(h)
        BY <3>1, <3>6, <3>7, <3>9
      <3>11. QED
        BY <3>3, <3>6, <3>10 DEF h
    <2>3. CASE LoseChunk(w)
      <3>1. Nothing \in Hand /\ Fits(Nothing)
        <4>1. Nothing \in Hand /\ Len(Nothing.plans) = 0 /\ Len(Nothing.cards) = 0
          BY DEF Nothing
        <4>2. QED
          BY <4>1
      <3>2. QED
        BY <2>3, <3>1 DEF LoseChunk
    <2>4. QED
      BY <2>1, <2>2, <2>3
  <1>6. chunk' \in [Workers -> Hand] /\ \A v \in Workers : Fits(chunk'[v])
    <2> HIDE DEF Hand, Fits
    <2>1. QED
      BY <1>4, <1>5
  <1>7. Chunks'
    BY <1>2, <1>6 DEF Chunks
  <1>8. QED
    BY <1>2, <1>3, <1>7 DEF RoutingInv, SafeStep

\* A reviewer drops a held card.
LEMMA DropStep ==
  ASSUME Scope, Homes, NEW c \in Cards, Drop(c)
  PROVE  Scope' /\ Homes' /\ DoneStays /\ SafeStep
  <1>1. /\ held' = [held EXCEPT ![c] = "drop"]
        /\ UNCHANGED <<subjects, merged, bound, filed, ingested, proposal>>
    BY DEF Drop
  <1>2. held' \in [Cards -> Outcomes] /\ \A x \in Cards : held'[x] = held[x] \/ held'[x] = "drop"
    BY <1>1 DEF Homes, Outcomes
  <1>3. Scope'
    BY <1>1, ScopeFrame
  <1>4. QED
    BY <1>1, <1>2, <1>3 DEF Homes, OneHome, DoneStays, SafeStep

\* A reviewer settles where a held card goes.
LEMMA SettleStep ==
  ASSUME Scope, Homes, NEW c \in Cards, NEW key \in Subjects \cup {NoKey},
         NEW action \in {"attach", "new"}, Settle(c, action, key)
  PROVE  /\ Scope' /\ Homes' /\ DoneStays /\ SafeStep /\ UNCHANGED <<proposal, merged>>
  <1> DEFINE s == Home(c, key)
             own == IF key = NoKey THEN OwnKey[c] ELSE key
             row == PutRow(subjects, s, WithEvidence(subjects, c, s, own))
             rows == Rows
             d == File(rows, c, s, row)
  <1>1. d.clash = {} /\ SetRows([d EXCEPT !.held[c] = action]) /\ UNCHANGED merged
    BY DEF Settle
  <1>2. s \in Subjects \ DOMAIN merged
    BY HomeStands
  <1>3. RowsInv(rows) /\ IsRows(rows) /\ rows.subjects = subjects /\ rows.proposal = proposal
        /\ rows.held = held
    BY RowsStart DEF RowsInv, Rows
  <1>4. Grown(row, rows.subjects, s)
    BY <1>3, PutRowDomain DEF Grown
  <1> HIDE DEF rows, row, s
  <1>5. Filing(rows, d, c, s) /\ d.proposal = rows.proposal
    BY <1>3, <1>4, FileFiles
  <1> HIDE DEF d
  <1>6. Suggesting(rows, d, c)
    BY <1>5 DEF Suggesting
  <1>7. RowsInv(d)
    BY <1>2, <1>3, <1>5, <1>6, FilingKeeps
  <1>8. /\ subjects' = d.subjects /\ bound' = d.bound /\ filed' = d.filed /\ ingested' = d.ingested
        /\ proposal' = d.proposal /\ held' = [d.held EXCEPT ![c] = action]
    <2>1. IsRows(d)
      BY <1>7 DEF RowsInv
    <2>2. QED
      BY <1>1, <2>1 DEF SetRows, IsRows
  <1>9. Clean(d) /\ c \in d.ingested /\ d.held = held
    BY <1>1, <1>3, <1>5, <1>7 DEF RowsInv, Filing
  <1>10. /\ held' \in [Cards -> Outcomes] /\ held'[c] # "none"
         /\ \A x \in Cards \ {c} : held'[x] = held[x]
    BY <1>8, <1>9 DEF Homes, Outcomes
  <1>11. Scope'
    BY <1>1, <1>7, <1>8 DEF RowsInv, Scope, BoundTo
  <1>12. OneHome'
    <2>1. \A f, g \in filed' : f[1] = g[1] => f[2] = g[2]
      BY <1>8, <1>9 DEF Clean
    <2>2. ingested' = {f[1] : f \in filed'}
      BY <1>8, <1>9 DEF Clean
    <2>3. ASSUME NEW x \in Cards, held'[x] \in {"attach", "new"}
          PROVE  x \in ingested'
      <3>1. CASE x = c
        BY <1>8, <1>9, <3>1
      <3>2. CASE x # c
        BY <1>7, <1>8, <1>10, <2>3, <3>2 DEF Homes, OneHome, RowsInv
      <3>3. QED
        BY <3>1, <3>2
    <2>4. QED
      BY <2>1, <2>2, <2>3 DEF OneHome
  <1>13. Homes'
    BY <1>7, <1>8, <1>9, <1>10, <1>12 DEF Homes, RowsInv, Clean
  <1>14. DoneStays
    BY <1>7, <1>8, <1>10 DEF DoneStays, RowsInv
  <1>15. SafeStep
    BY <1>1, <1>7, <1>8 DEF SafeStep, RowsInv
  <1>16. QED
    BY <1>1, <1>3, <1>5, <1>8, <1>11, <1>13, <1>14, <1>15

LEMMA AttachStep ==
  ASSUME Scope, Homes, NEW c \in Cards, Attach(c) \/ AsNew(c)
  PROVE  /\ Scope' /\ Homes' /\ DoneStays /\ SafeStep
         /\ UNCHANGED <<proposal, merged, parents, given, observed, chunk, desk, human>>
  <1>1. PICK key \in Subjects \cup {NoKey}, action \in {"attach", "new"} : Settle(c, action, key)
    BY DEF Attach, AsNew, Scope
  <1>2. UNCHANGED <<merged, parents, given, observed, chunk, desk, human>>
    BY <1>1 DEF Settle
  <1>3. QED
    BY <1>1, <1>2, SettleStep

\* Proposals are decided.
LEMMA ProposalSteps ==
  ASSUME RoutingInv,
         \/ \E c \in Cards : DropProposal(c)
         \/ \E k \in Clerks : ReadProposal(k) \/ AcceptProposal(k)
  PROVE  RoutingInv' /\ SafeStep /\ observed' = observed
  <1>1. Scope /\ Homes /\ Chunks /\ Decisions
    BY DEF RoutingInv
  <1>2. UNCHANGED <<subjects, merged, bound, filed, ingested, held, chunk, observed>>
    BY DEF DropProposal, ReadProposal, AcceptProposal, tables
  <1>3. Scope' /\ SafeStep /\ DoneStays
    BY <1>1, <1>2, ScopeFrame DEF SafeStep, DoneStays
  <1>4. Chunks'
    BY <1>1, <1>2, <1>3, ChunksFrame
  <1>5. NoKey \notin Cards
    BY CardsAssumption
  <1>6. \A q \in Proposals : /\ [q EXCEPT !.status = "drop"] \in Proposals
                             /\ [q EXCEPT !.status = "drop"].status = "drop"
                             /\ [q EXCEPT !.status = "attach_subgoal"] \in Proposals
                             /\ [q EXCEPT !.status = "attach_subgoal"].status = "attach_subgoal"
    BY DEF Proposals
  <1>7. proposal \in [Cards -> Proposals] /\ \A c \in Cards : proposal[c].status # "none" => c \in ingested
    BY <1>1 DEF Homes
  <1>8. ASSUME proposal' \in [Cards -> Proposals],
               \A c \in Cards : proposal'[c].status # "none" => c \in ingested
        PROVE  Homes'
    BY <1>1, <1>2, <1>8 DEF Homes, OneHome
  <1>9. CASE \E c \in Cards : DropProposal(c)
    <2>1. PICK c \in Cards : DropProposal(c)
      BY <1>9
    <2>2. /\ proposal[c].status = "open" /\ UNCHANGED <<parents, desk>>
          /\ proposal' = [proposal EXCEPT ![c] = [proposal[c] EXCEPT !.status = "drop"]]
      BY <2>1 DEF DropProposal
    <2>3. /\ proposal' \in [Cards -> Proposals] /\ proposal'[c].status = "drop"
          /\ \A x \in Cards \ {c} : proposal'[x] = proposal[x]
      BY <1>6, <1>7, <2>2
    <2>4. Homes'
      BY <1>7, <1>8, <2>2, <2>3
    <2>5. \A f \in parents : f[1] \in Cards /\ f[1] # c
      BY <1>1, <2>2 DEF Decisions
    <2>6. Decisions'
      BY <1>1, <2>2, <2>3, <2>5 DEF Decisions
    <2>7. QED
      BY <1>2, <1>3, <1>4, <2>4, <2>6 DEF RoutingInv
  <1>10. CASE \E k \in Clerks : ReadProposal(k)
    <2>1. PICK k \in Clerks : ReadProposal(k)
      BY <1>10
    <2>2. UNCHANGED <<proposal, parents>> /\ \E c \in Cards : desk' = [desk EXCEPT ![k] = c]
      BY <2>1 DEF ReadProposal, tables
    <2>3. Decisions'
      BY <1>1, <2>2 DEF Decisions
    <2>4. Homes'
      BY <1>7, <1>8, <2>2
    <2>5. QED
      BY <1>2, <1>3, <1>4, <2>3, <2>4 DEF RoutingInv
  <1>11. CASE \E k \in Clerks : AcceptProposal(k)
    <2>1. PICK k \in Clerks : AcceptProposal(k)
      BY <1>11
    <2>2. desk' = [desk EXCEPT ![k] = NoKey] /\ desk[k] \in Cards
      BY <1>1, <2>1 DEF AcceptProposal, Decisions
    <2>3. PICK c \in Cards : c = desk[k]
      BY <2>2
    <2>4. desk' \in [Clerks -> Cards \cup {NoKey}]
      BY <1>1, <2>2 DEF Decisions
    <2>5. CASE proposal[c].status # "open"
      <3>1. UNCHANGED <<proposal, parents>>
        BY <2>1, <2>3, <2>5 DEF AcceptProposal, StillOpen
      <3>2. Decisions'
        BY <1>1, <2>4, <3>1 DEF Decisions
      <3>3. Homes'
        BY <1>7, <1>8, <3>1
      <3>4. QED
        BY <1>2, <1>3, <1>4, <3>2, <3>3 DEF RoutingInv
    <2>6. CASE proposal[c].status = "open"
      <3>1. /\ proposal' = [proposal EXCEPT ![c] = [proposal[c] EXCEPT !.status = "attach_subgoal"]]
            /\ parents' = parents \cup {<<c, k>>}
        BY <2>1, <2>3, <2>6 DEF AcceptProposal, StillOpen
      <3>2. /\ proposal' \in [Cards -> Proposals] /\ proposal'[c].status = "attach_subgoal"
            /\ \A x \in Cards \ {c} : proposal'[x] = proposal[x]
        BY <1>6, <1>7, <3>1
      <3>3. Homes'
        BY <1>7, <1>8, <2>6, <3>2
      <3>4. \A f \in parents : f[1] \in Cards /\ f[1] # c
        BY <1>1, <2>6 DEF Decisions
      <3>5. <<c, k>>[1] = c /\ <<c, k>> \in parents'
        BY <3>1
      <3>6. \A f, g \in parents' : f[1] = g[1] => f = g
        BY <1>1, <3>1, <3>4, <3>5 DEF Decisions
      <3>7. \A f \in parents' : proposal'[f[1]].status = "attach_subgoal"
        BY <1>1, <3>1, <3>2, <3>4, <3>5 DEF Decisions
      <3>8. ASSUME NEW x \in Cards, proposal'[x].status = "attach_subgoal"
            PROVE  \E f \in parents' : f[1] = x
        <4>1. CASE x = c
          BY <3>5, <4>1
        <4>2. CASE x # c
          BY <1>1, <3>1, <3>2, <3>8, <4>2 DEF Decisions
        <4>3. QED
          BY <4>1, <4>2
      <3>9. parents' \subseteq Cards \X Clerks
        BY <1>1, <3>1 DEF Decisions
      <3>10. Decisions'
        BY <2>4, <3>6, <3>7, <3>8, <3>9 DEF Decisions
      <3>11. QED
        BY <1>2, <1>3, <1>4, <3>3, <3>10 DEF RoutingInv
    <2>7. QED
      BY <2>5, <2>6
  <1>12. QED
    BY <1>9, <1>10, <1>11

\* People merge and unmerge matters.
LEMMA MergeSteps ==
  ASSUME Scope, MergeMatters \/ UnmergeMatters
  PROVE  Scope' /\ UNCHANGED <<subjects, filed, ingested, held, proposal, bound, parents, given,
                               observed, chunk, desk>>
  <1>1. UNCHANGED <<subjects, filed, ingested, held, proposal, bound, parents, given,
                    observed, chunk, desk>>
    BY DEF MergeMatters, UnmergeMatters, tables
  <1>2. merged' \in Edges /\ Acyclic(merged')
    <2>1. CASE MergeMatters
      <3>1. PICK s, t \in DOMAIN subjects :
              /\ MergeAllowed(DOMAIN subjects, merged, s, t)
              /\ merged' = AddEdge(merged, s, t)
        BY <2>1 DEF MergeMatters
      <3>2. s \in Subjects /\ t \in Subjects
        BY DEF Scope
      <3>3. QED
        BY <3>1, <3>2, AddEdgeAcyclic DEF Scope
    <2>2. CASE UnmergeMatters
      <3>1. PICK s \in DOMAIN merged : merged' = DropEdge(merged, s)
        BY <2>2 DEF UnmergeMatters
      <3>2. QED
        BY <3>1, DropEdgeAcyclic DEF Scope
    <2>3. QED
      BY <2>1, <2>2
  <1>3. QED
    BY <1>1, <1>2 DEF Scope, BoundTo

\* Handles are bound and unbound.
LEMMA BindSteps ==
  ASSUME Scope, Homes, BindHandle \/ UnbindHandle \/ BackfillHandles
  PROVE  Scope' /\ UNCHANGED <<subjects, merged, filed, ingested, held, proposal, parents, given,
                               observed, chunk, desk>>
  <1>1. PICK bindings : Rebind(bindings) /\ BoundTo(bindings)
    <2>1. CASE BindHandle
      <3>1. PICK h \in Handles \ DOMAIN bound, s \in DOMAIN subjects :
              Rebind(BindOne(bound, h, Canonical(merged, s)))
        BY <2>1 DEF BindHandle
      <3>2. Canonical(merged, s) \in Subjects
        BY CanonicalInChain DEF Scope
      <3>3. BoundTo(BindOne(bound, h, Canonical(merged, s)))
        BY <3>2 DEF Scope, BoundTo, BindOne
      <3>4. QED
        BY <3>1, <3>3
    <2>2. CASE UnbindHandle
      <3>1. PICK h \in DOMAIN bound : Rebind([x \in DOMAIN bound \ {h} |-> bound[x]])
        BY <2>2 DEF UnbindHandle
      <3>2. BoundTo([x \in DOMAIN bound \ {h} |-> bound[x]])
        BY DEF Scope, BoundTo
      <3>3. QED
        BY <3>1, <3>2
    <2>3. CASE BackfillHandles
      <3>1. PICK D \in SUBSET (Handles \ DOMAIN bound) \ {{}} :
              \E owner \in [D -> DOMAIN subjects] :
                Rebind([h \in DOMAIN bound \cup D |-> IF h \in D THEN owner[h] ELSE bound[h]])
        BY <2>3 DEF BackfillHandles
      <3>2. PICK owner \in [D -> DOMAIN subjects] :
              Rebind([h \in DOMAIN bound \cup D |-> IF h \in D THEN owner[h] ELSE bound[h]])
        BY <3>1
      <3>3. BoundTo([h \in DOMAIN bound \cup D |-> IF h \in D THEN owner[h] ELSE bound[h]])
        BY DEF Scope, BoundTo
      <3>4. QED
        BY <3>2, <3>3
    <2>4. QED
      BY <2>1, <2>2, <2>3
  <1>2. QED
    BY <1>1 DEF Rebind, Scope, BoundTo

\* Records become observed with every card of their chunk dealt with.
NoLoss ==
  \A w \in Workers : observed' # observed /\ chunk'[w] # chunk[w] =>
    \A c \in Range(chunk[w].cards) : c \in ingested' \/ held'[c] # "none"

LEMMA RoutingStart ==
  ASSUME RoutingInit
  PROVE  RoutingInv
  <1>1. Scope
    <2>1. merged \in Edges /\ Acyclic(merged)
      BY NoEdgesAcyclic DEF RoutingInit
    <2>2. QED
      BY <2>1 DEF RoutingInit, Scope, BoundTo
  <1>2. Homes
    BY DEF RoutingInit, Homes, OneHome, Outcomes, Proposals, NoProposal
  <1>3. Chunks
    <2>1. /\ Nothing \in [pc : {"idle", "extracted"}, records : SUBSET Records,
                          cards : Seq(Cards), plans : Seq(PlanType)]
          /\ Len(Nothing.plans) = 0 /\ Len(Nothing.cards) = 0
      BY DEF Nothing
    <2>2. chunk = [w \in Workers |-> Nothing]
      BY DEF RoutingInit
    <2>3. QED
      BY <2>1, <2>2 DEF Chunks
  <1>4. Decisions
    BY DEF RoutingInit, Decisions, NoProposal
  <1>5. QED
    BY <1>1, <1>2, <1>3, <1>4 DEF RoutingInv

LEMMA RoutingStep ==
  ASSUME RoutingInv, RoutingNext
  PROVE  RoutingInv' /\ SafeStep /\ NoLoss
  <1>1. Scope /\ Homes /\ Chunks /\ Decisions
    BY DEF RoutingInv
  <1>2. CASE \E w \in Workers : Extract(w) \/ Route(w) \/ LoseChunk(w)
    BY <1>2, ChunkSteps DEF NoLoss
  <1>3. CASE \E w \in Workers : CommitChunk(w)
    <2>1. PICK w \in Workers : CommitChunk(w)
      BY <1>3
    <2>2. /\ RoutingInv' /\ SafeStep
          /\ \A c \in Range(chunk[w].cards) : c \in ingested' \/ held'[c] # "none"
          /\ chunk' = [chunk EXCEPT ![w] = Nothing]
      BY <2>1, CommitStep DEF SafeStep
    <2>3. \A v \in Workers : chunk'[v] # chunk[v] => v = w
      BY <1>1, <2>2 DEF Chunks
    <2>4. QED
      BY <2>2, <2>3 DEF NoLoss
  <1>4. CASE \E c \in Cards : Drop(c)
    <2>1. UNCHANGED <<chunk, observed, proposal, parents, desk>>
      BY <1>4 DEF Drop
    <2>2. Scope' /\ Homes' /\ DoneStays /\ SafeStep
      BY <1>1, <1>4, DropStep
    <2>3. QED
      BY <1>1, <2>1, <2>2, ChunksFrame, DecisionsFrame DEF RoutingInv, NoLoss
  <1>5. CASE \E c \in Cards : Attach(c) \/ AsNew(c)
    <2>1. /\ Scope' /\ Homes' /\ DoneStays /\ SafeStep
          /\ UNCHANGED <<chunk, observed, proposal, parents, desk>>
      BY <1>1, <1>5, AttachStep
    <2>2. QED
      BY <1>1, <2>1, ChunksFrame, DecisionsFrame DEF RoutingInv, NoLoss
  <1>6. CASE \/ \E c \in Cards : DropProposal(c)
             \/ \E k \in Clerks : ReadProposal(k) \/ AcceptProposal(k)
    BY <1>6, ProposalSteps DEF NoLoss
  <1>7. CASE MergeMatters \/ UnmergeMatters
    <2>1. Scope' /\ UNCHANGED <<filed, ingested, held, proposal, parents, observed, chunk, desk>>
      BY <1>1, <1>7, MergeSteps
    <2>2. Homes' /\ DoneStays
      BY <1>1, <2>1, HomesFrame
    <2>3. QED
      BY <1>1, <2>1, <2>2, ChunksFrame, DecisionsFrame DEF RoutingInv, NoLoss, SafeStep
  <1>8. CASE BindHandle \/ UnbindHandle \/ BackfillHandles
    <2>1. Scope' /\ UNCHANGED <<filed, ingested, held, proposal, parents, observed, chunk, desk>>
      BY <1>1, <1>8, BindSteps
    <2>2. Homes' /\ DoneStays
      BY <1>1, <2>1, HomesFrame
    <2>3. QED
      BY <1>1, <2>1, <2>2, ChunksFrame, DecisionsFrame DEF RoutingInv, NoLoss, SafeStep
  <1>9. QED
    BY <1>2, <1>3, <1>4, <1>5, <1>6, <1>7, <1>8 DEF RoutingNext

LEMMA RoutingStutter ==
  ASSUME RoutingInv, UNCHANGED routingVars
  PROVE  RoutingInv'
  <1>1. Scope /\ Homes /\ Chunks /\ Decisions
    BY DEF RoutingInv
  <1>2. /\ UNCHANGED <<subjects, merged, bound>> /\ UNCHANGED <<filed, ingested, held, proposal>>
        /\ UNCHANGED chunk /\ UNCHANGED <<proposal, parents, desk>>
    BY DEF routingVars
  <1>3. QED
    BY <1>1, <1>2, ScopeFrame, HomesFrame, ChunksFrame, DecisionsFrame DEF RoutingInv

LEMMA RoutingAlways ==
  RoutingSpec => []RoutingInv
  <1>1. RoutingInit => RoutingInv
    BY RoutingStart
  <1>2. RoutingInv /\ [RoutingNext]_routingVars => RoutingInv'
    BY RoutingStep, RoutingStutter
  <1>3. QED
    BY <1>1, <1>2, PTL DEF RoutingSpec

\* A card has one home and is marked when and only when it has, for any cards,
\* workers and reviewers: routes, retries, lost chunks and resolutions in any
\* order (Engine._commit_routing_outcome, Engine.resolve_review).
THEOREM CardsHaveOneHome == RoutingSpec => []OneHome
  <1>1. RoutingInv => OneHome
    BY DEF RoutingInv, Homes
  <1>2. QED
    BY <1>1, RoutingAlways, PTL

LEMMA ClaimsCounted ==
  ASSUME RoutingInv
  PROVE  DecidedOnce
  <1>1. Decisions
    BY DEF RoutingInv
  <1>2. ASSUME NEW c \in Cards
        PROVE  Cardinality({f \in parents : f[1] = c}) =
                 IF proposal[c].status = "attach_subgoal" THEN 1 ELSE 0
    <2>1. CASE proposal[c].status = "attach_subgoal"
      <3>1. PICK g \in parents : g[1] = c
        BY <1>1, <2>1 DEF Decisions
      <3>2. {f \in parents : f[1] = c} = {g}
        BY <1>1, <3>1 DEF Decisions
      <3>3. QED
        BY <2>1, <3>2, FS_Singleton
    <2>2. CASE proposal[c].status # "attach_subgoal"
      <3>1. {f \in parents : f[1] = c} = {}
        BY <1>1, <2>2 DEF Decisions
      <3>2. QED
        BY <2>2, <3>1, FS_EmptySet
    <2>3. QED
      BY <2>1, <2>2
  <1>3. QED
    BY <1>2 DEF DecidedOnce

\* A proposed parent is accepted once at most and leaves one claim then
\* (Engine._resolve_subgoal_review).
THEOREM ProposalsAreDecidedOnce == RoutingSpec => []DecidedOnce
  <1>1. QED
    BY ClaimsCounted, RoutingAlways, PTL

\* Claims are stored under a subject that exists and stands, whatever was
\* merged, unmerged or bound since the card was routed
\* (Engine._commit_record_chunk, Engine.resolve_review).
THEOREM CardsGoToLiving == RoutingSpec => RoutedToLiving
  <1>1. RoutingInv /\ [RoutingNext]_routingVars =>
          [\A f \in filed' \ filed :
             f[2] \in DOMAIN subjects' /\ f[2] \notin DOMAIN merged']_routingVars
    BY RoutingStep DEF SafeStep
  <1>2. QED
    BY <1>1, RoutingAlways, PTL DEF RoutingSpec, RoutedToLiving

\* Observed records leave no card behind: each was stored or waits for a
\* reviewer, duplicates of earlier cards included (Engine._commit_record_chunk).
THEOREM CardsAreNotLost == RoutingSpec => NoCardLost
  <1>1. RoutingInv /\ [RoutingNext]_routingVars =>
          [\A w \in Workers : observed' # observed /\ chunk'[w] # chunk[w] =>
             \A c \in Range(chunk[w].cards) : c \in ingested' \/ held'[c] # "none"]_routingVars
    BY RoutingStep DEF NoLoss
  <1>2. QED
    BY <1>1, RoutingAlways, PTL DEF RoutingSpec, NoCardLost

-----------------------------------------------------------------------------
\* The tool loop: the fold of ValidateIntent over a batch is a walk as well.

\* g is the function a fold of ValidateIntent is defined by.
ValidateIter(g, m, base, batch, w) ==
  g = [s \in SUBSET (1..m) |->
         IF s = {} THEN base
         ELSE ValidateIntent(g[s \ {Max(s)}], batch[Max(s)], w)]

LEMMA ValidateIterExists ==
  ASSUME NEW n \in Nat, NEW base, NEW batch, NEW w
  PROVE  \E g : ValidateIter(g, n, base, batch, w)
  <1> DEFINE bad == {m \in Nat : ~ \E g : ValidateIter(g, m, base, batch, w)}
  <1>1. SUFFICES ASSUME bad # {} PROVE FALSE
    OBVIOUS
  <1>2. PICK m \in bad : \A k \in bad : m <= k
    BY <1>1, MinExists
  <1>3. m # 0
    <2> DEFINE g == [s \in SUBSET (1..0) |-> base]
    <2>1. \A s \in SUBSET (1..0) : s = {}
      OBVIOUS
    <2>2. ValidateIter(g, 0, base, batch, w)
      BY <2>1 DEF ValidateIter
    <2>3. QED
      BY <2>2
  <1>4. PICK f : ValidateIter(f, m - 1, base, batch, w)
    <2>1. m - 1 \in Nat /\ m - 1 \notin bad
      BY <1>2, <1>3
    <2>2. QED
      BY <2>1
  <1> DEFINE g == [s \in SUBSET (1..m) |->
                     IF m \in s THEN ValidateIntent(f[s \ {m}], batch[m], w) ELSE f[s]]
  <1>5. ASSUME NEW s \in SUBSET (1..m)
        PROVE  g[s] = IF s = {} THEN base
                      ELSE ValidateIntent(g[s \ {Max(s)}], batch[Max(s)], w)
    <2>1. CASE m \in s
      <3>1. Max(s) = m
        BY <1>3, <2>1, MaxLast
      <3>2. s \ {m} \in SUBSET (1..m) /\ m \notin s \ {m} /\ s # {}
        BY <2>1
      <3>3. g[s \ {m}] = f[s \ {m}]
        BY <3>2
      <3>4. QED
        BY <2>1, <3>1, <3>2, <3>3
    <2>2. CASE m \notin s
      <3>1. s \in SUBSET (1..(m - 1))
        BY <1>3, <2>2
      <3>2. g[s] = f[s]
        BY <2>2
      <3>3. f[s] = IF s = {} THEN base
                   ELSE ValidateIntent(f[s \ {Max(s)}], batch[Max(s)], w)
        BY <1>4, <3>1 DEF ValidateIter
      <3>4. g[s \ {Max(s)}] = f[s \ {Max(s)}]
        BY <2>2
      <3>5. QED
        BY <3>2, <3>3, <3>4
    <2>3. QED
      BY <2>1, <2>2
  <1>6. g = [s \in SUBSET (1..m) |-> g[s]]
    OBVIOUS
  <1>7. ValidateIter(g, m, base, batch, w)
    <2> HIDE DEF g
    <2>1. QED
      BY <1>5, <1>6 DEF ValidateIter
  <1>8. QED
    BY <1>2, <1>7

\* What the fold is defined to be.
ValidateFold(n, base, batch, w) ==
  (CHOOSE f : ValidateIter(f, n, base, batch, w))[1..n]

\* A walk through the intents of a batch.
ValidateSteps(walk, n, base, batch, w) ==
  /\ walk[0] = base
  /\ \A k \in 1..n : walk[k] = ValidateIntent(walk[k - 1], batch[k], w)

LEMMA ValidateWalk ==
  ASSUME NEW n \in Nat, NEW base, NEW batch, NEW w
  PROVE  \E walk : /\ ValidateSteps(walk, n, base, batch, w)
                   /\ ValidateFold(n, base, batch, w) = walk[n]
  <1> DEFINE g == CHOOSE f : ValidateIter(f, n, base, batch, w)
             walk == [k \in 0..n |-> g[1..k]]
  <1>1. ValidateIter(g, n, base, batch, w)
    BY ValidateIterExists
  <1>2. ValidateFold(n, base, batch, w) = g[1..n]
    BY DEF ValidateFold
  <1> HIDE DEF g
  <1>3. walk[0] = base
    <2>1. 1..0 = {} /\ {} \in SUBSET (1..n)
      OBVIOUS
    <2>2. g[{}] = base
      BY <1>1, <2>1 DEF ValidateIter
    <2>3. QED
      BY <2>1, <2>2
  <1>4. ASSUME NEW k \in 1..n
        PROVE  walk[k] = ValidateIntent(walk[k - 1], batch[k], w)
    <2>0. k \in 0..n /\ k - 1 \in 0..n
      OBVIOUS
    <2>1. 1..k \in SUBSET (1..n) /\ 1..k # {} /\ (1..k) \ {k} = 1..(k - 1)
      OBVIOUS
    <2>2. Max(1..k) = k
      <3>1. k - 1 \in Nat /\ 1..k \in SUBSET (1..((k - 1) + 1)) /\ (k - 1) + 1 \in 1..k
        OBVIOUS
      <3>2. Max(1..k) = (k - 1) + 1
        BY <3>1, MaxLast
      <3>3. QED
        BY <3>2
    <2>3. g[1..k] = ValidateIntent(g[(1..k) \ {Max(1..k)}], batch[Max(1..k)], w)
      BY <1>1, <2>1 DEF ValidateIter
    <2>4. QED
      BY <2>0, <2>1, <2>2, <2>3
  <1>5. ValidateSteps(walk, n, base, batch, w) /\ walk[n] = g[1..n]
    <2>1. walk[n] = g[1..n]
      OBVIOUS
    <2> HIDE DEF walk
    <2>2. QED
      BY <1>3, <1>4, <2>1 DEF ValidateSteps
  <1>6. QED
    BY <1>2, <1>5

-----------------------------------------------------------------------------
\* The invariant of the loop, and what a batch may store.

Sessions ==
  [pc : {"idle", "loop", "ended", "exhausted"}, window : SUBSET Records,
   shown : SUBSET Subjects, calls : Nat, emissions : Nat]
Windows ==
  /\ session \in [Loopers -> Sessions]
  /\ \A w \in Loopers : session[w].pc # "idle" => session[w].window \in DOMAIN WindowCard

LoopInv == Scope /\ Homes /\ Windows

\* Session w may write about x: it declares x, or x was shown to it and stands.
MayTell(w, x) ==
  \/ x = DeclaredKey[session[w].window]
  \/ x \in session[w].shown /\ x \notin DOMAIN merged
Admitted(w, v) ==
  /\ v.declared \subseteq {DeclaredKey[session[w].window]}
  /\ v.creates \subseteq {DeclaredKey[session[w].window]}
  /\ \A a \in v.accepted :
       /\ a = [subject |-> a.subject, object |-> a.object, window |-> a.window]
       /\ a.window = session[w].window /\ MayTell(w, a.subject)
       /\ a.object = NoKey \/ MayTell(w, a.object)

LEMMA NamedMayBeTold ==
  ASSUME Scope, NEW w, NEW name \in Subjects \cup {New, Ref}, NEW declared,
         declared \subseteq {DeclaredKey[session[w].window]},
         NEW s \in SubjectOf(name, w, declared)
  PROVE  MayTell(w, s) /\ (name = New => s = DeclaredKey[session[w].window])
  <1>1. CASE name = New
    BY <1>1 DEF SubjectOf, MayTell
  <1>2. CASE name = Ref
    BY <1>2 DEF SubjectOf, MayTell, New, Ref
  <1>3. CASE name \notin {New, Ref}
    <2>1. name \in Subjects
      BY <1>3
    <2>2. s = Canonical(merged, name) /\ s \in session[w].shown
      BY <1>3 DEF SubjectOf
    <2>3. Canonical(merged, name) \notin DOMAIN merged
      BY <2>1, CanonicalEnds DEF Scope
    <2>4. QED
      BY <1>3, <2>2, <2>3 DEF MayTell
  <1>4. QED
    BY <1>1, <1>2, <1>3

Intents == [subject : Subjects \cup {New, Ref}, object : Names, good : BOOLEAN]

LEMMA ValidateKeeps ==
  ASSUME Scope, NEW w, NEW v, Admitted(w, v), NEW intent \in Intents
  PROVE  Admitted(w, ValidateIntent(v, intent, w))
  <1> DEFINE dk == DeclaredKey[session[w].window]
             declared == IF intent.subject = New THEN {dk} ELSE v.declared
             stored == {[subject |-> s, object |-> o, window |-> session[w].window] :
                          s \in SubjectOf(intent.subject, w, declared),
                          o \in Objects(intent.object, w, declared)}
             kept == {a \in stored : intent.good /\ EdgeAllowed(a.subject, a.object)}
             new == [declared |-> declared,
                     creates |-> v.creates \cup
                       (IF intent.subject = New THEN {a.subject : a \in kept} ELSE {}),
                     accepted |-> v.accepted \cup kept]
  <1>1. ValidateIntent(v, intent, w) = new
    BY DEF ValidateIntent
  <1>2. declared \subseteq {dk} /\ intent.subject \in Subjects \cup {New, Ref}
        /\ intent.object \in Names
    BY DEF Admitted, Intents
  <1>3. ASSUME NEW a \in kept
        PROVE  /\ a = [subject |-> a.subject, object |-> a.object, window |-> a.window]
               /\ a.window = session[w].window /\ MayTell(w, a.subject)
               /\ a.object = NoKey \/ MayTell(w, a.object)
               /\ intent.subject = New => a.subject = dk
    <2>1. PICK s \in SubjectOf(intent.subject, w, declared),
               o \in Objects(intent.object, w, declared) :
            a = [subject |-> s, object |-> o, window |-> session[w].window]
      OBVIOUS
    <2> HIDE DEF declared, kept
    <2>2. MayTell(w, s) /\ (intent.subject = New => s = dk)
      BY <1>2, NamedMayBeTold
    <2>3. o = NoKey \/ MayTell(w, o)
      <3>1. CASE intent.object = NoKey
        BY <3>1 DEF Objects
      <3>2. CASE intent.object # NoKey
        <4>1. intent.object \in Subjects \cup {New, Ref}
          BY <1>2, <3>2 DEF Names
        <4>2. o \in SubjectOf(intent.object, w, declared)
          BY <3>2 DEF Objects
        <4>3. QED
          BY <1>2, <4>1, <4>2, NamedMayBeTold
      <3>3. QED
        BY <3>1, <3>2
    <2>4. QED
      BY <2>1, <2>2, <2>3
  <1> HIDE DEF kept, declared
  <1>4. Admitted(w, new)
    BY <1>2, <1>3 DEF Admitted
  <1>5. QED
    BY <1>1, <1>4

LEMMA BatchClosed ==
  ASSUME Scope, NEW w, NEW n \in Nat, NEW batch, \A i \in 1..n : batch[i] \in Intents,
         NEW walk, ValidateSteps(walk, n, Validation, batch, w)
  PROVE  Admitted(w, walk[n])
  <1> DEFINE bad == {k \in 0..n : ~ Admitted(w, walk[k])}
  <1>1. SUFFICES ASSUME bad # {} PROVE FALSE
    OBVIOUS
  <1>2. PICK k \in bad : \A j \in bad : k <= j
    <2>1. bad \in SUBSET Nat
      OBVIOUS
    <2> HIDE DEF bad
    <2>2. QED
      BY <1>1, <2>1, MinExists
  <1>3. k \in 0..n /\ ~ Admitted(w, walk[k])
    BY <1>2
  <1>4. k # 0
    <2>1. walk[0] = Validation
      BY DEF ValidateSteps
    <2>2. Admitted(w, Validation)
      BY DEF Admitted, Validation
    <2>3. QED
      BY <1>3, <2>1, <2>2
  <1>5. k \in 1..n /\ k - 1 \in 0..n /\ k - 1 < k
    BY <1>3, <1>4
  <1>6. Admitted(w, walk[k - 1])
    BY <1>2, <1>5
  <1>7. walk[k] = ValidateIntent(walk[k - 1], batch[k], w) /\ batch[k] \in Intents
    BY <1>5 DEF ValidateSteps
  <1>8. QED
    BY <1>3, <1>6, <1>7, ValidateKeeps

\* What an emission stores was told to it or declared by it.
LEMMA EmissionClosed ==
  ASSUME Scope, NEW w \in Loopers, EmitBatch(w)
  PROVE  \E v : /\ Admitted(w, v)
                /\ claims' = claims \cup v.accepted /\ subjects' = EmissionRows(v, w)
  <1>1. PICK batch \in Batches :
          LET step(v, intent) == ValidateIntent(v, intent, w)
              v == FoldLeft(step, Validation, batch)
          IN /\ claims' = claims \cup v.accepted
             /\ subjects' = EmissionRows(v, w)
    BY DEF EmitBatch
  <1> DEFINE n == Len(batch)
             step(v, intent) == ValidateIntent(v, intent, w)
  <1>2. batch \in Seq(Intents)
    BY WindowsAssumption DEF Intents
  <1>3. n \in Nat /\ DOMAIN batch = 1..n /\ \A i \in 1..n : batch[i] \in Intents
    BY <1>2
  <1>4. FoldLeft(step, Validation, batch) = ValidateFold(n, Validation, batch, w)
    <2> HIDE DEF n
    <2>1. QED
      BY <1>3 DEF ValidateFold, FoldLeft, MapThenFoldSet, ValidateIter
  <1> HIDE DEF n
  <1>5. PICK walk : /\ ValidateSteps(walk, n, Validation, batch, w)
                    /\ ValidateFold(n, Validation, batch, w) = walk[n]
    BY <1>3, ValidateWalk
  <1>6. Admitted(w, walk[n])
    BY <1>3, <1>5, BatchClosed
  <1>7. LET v == ValidateFold(n, Validation, batch, w)
        IN /\ claims' = claims \cup v.accepted
           /\ subjects' = EmissionRows(v, w)
    BY <1>1, <1>4
  <1>8. QED
    BY <1>5, <1>6, <1>7

\* What a step of the loop may do.
ToldStep ==
  \A a \in claims' \ claims :
    \E w \in Loopers :
      /\ a.window = session[w].window
      /\ \A s \in {a.subject, a.object} \ {NoKey, DeclaredKey[a.window]} :
           s \in session[w].shown \ DOMAIN merged
EndedStep ==
  \A w \in Loopers :
    observed' # observed /\ session'[w] # session[w] =>
      /\ session[w].pc # "loop"
      /\ session[w].pc = "exhausted" => held'[WindowCard[session[w].window]] # "none"

LEMMA LoopStart ==
  ASSUME LoopInit
  PROVE  LoopInv
  <1>1. RoutingInit
    BY DEF LoopInit
  <1>2. Scope /\ Homes
    BY <1>1, RoutingStart DEF RoutingInv
  <1>3. Windows
    <2>1. NoSession \in Sessions /\ NoSession.pc = "idle"
      BY DEF NoSession, Sessions
    <2>2. QED
      BY <2>1 DEF LoopInit, Windows
  <1>4. QED
    BY <1>2, <1>3 DEF LoopInv

\* A session that changes is a session still.
LEMMA SessionChange ==
  ASSUME Windows, NEW w \in Loopers, NEW new \in Sessions,
         new.pc # "idle" => new.window \in DOMAIN WindowCard,
         session' = [session EXCEPT ![w] = new]
  PROVE  Windows' /\ \A v \in Loopers \ {w} : session'[v] = session[v]
  BY DEF Windows

\* A call is counted, whatever the session has seen.
LEMMA SessionCalls ==
  ASSUME NEW o \in Sessions, NEW more \in SUBSET Subjects
  PROVE  /\ LET new == [o EXCEPT !.calls = @ + 1, !.shown = @ \cup more]
            IN new \in Sessions /\ new.pc = o.pc /\ new.window = o.window
         /\ LET new == [o EXCEPT !.calls = @ + 1, !.emissions = @ + 1]
            IN new \in Sessions /\ new.pc = o.pc /\ new.window = o.window
  <1>1. o.shown \in SUBSET Subjects /\ o.calls \in Nat /\ o.emissions \in Nat
    BY DEF Sessions
  <1>2. PICK p \in Nat : p = o.calls + 1
    BY <1>1
  <1>3. PICK q \in Nat : q = o.emissions + 1
    BY <1>1
  <1>4. PICK seen \in SUBSET Subjects : seen = o.shown \cup more
    BY <1>1
  <1>5. LET new == [o EXCEPT !.calls = p, !.shown = seen]
        IN new \in Sessions /\ new.pc = o.pc /\ new.window = o.window
    BY DEF Sessions
  <1>6. LET new == [o EXCEPT !.calls = p, !.emissions = q]
        IN new \in Sessions /\ new.pc = o.pc /\ new.window = o.window
    BY DEF Sessions
  <1>7. QED
    BY <1>2, <1>3, <1>4, <1>5, <1>6

\* The steps that change nothing but the session at work.
LEMMA SessionSteps ==
  ASSUME LoopInv, NEW w \in Loopers,
         Open(w) \/ Look(w) \/ Finished(w) \/ Exhausted(w) \/ LoseSession(w)
  PROVE  LoopInv' /\ ToldStep /\ EndedStep
  <1>1. Scope /\ Homes /\ Windows
    BY DEF LoopInv
  <1>2. UNCHANGED <<subjects, merged, bound, filed, ingested, held, proposal, observed, claims>>
    BY DEF Open, Look, Finished, Exhausted, LoseSession, routingVars, tables
  <1>3. Scope' /\ Homes' /\ ToldStep /\ EndedStep
    BY <1>1, <1>2, ScopeFrame, HomesFrame DEF ToldStep, EndedStep
  <1> DEFINE Fits(h) == h.pc # "idle" => h.window \in DOMAIN WindowCard
  <1>4. session \in [Loopers -> Sessions] /\ session[w] \in Sessions /\ Fits(session[w])
    BY <1>1 DEF Windows
  <1>5. \E new \in Sessions : Fits(new) /\ session' = [session EXCEPT ![w] = new]
    <2>1. CASE Open(w)
      <3>1. PICK K \in DOMAIN WindowCard : \E shown \in PreRoutes(WindowCard[K]) :
              session' = [session EXCEPT ![w] =
                [NoSession EXCEPT !.pc = "loop", !.window = K, !.shown = shown]]
        BY <2>1 DEF Open
      <3>2. PICK shown \in PreRoutes(WindowCard[K]) :
              session' = [session EXCEPT ![w] =
                [NoSession EXCEPT !.pc = "loop", !.window = K, !.shown = shown]]
        BY <3>1
      <3>3. K \subseteq Records
        BY WindowsAssumption
      <3>4. shown \subseteq Subjects
        <4>1. \A s \in Subjects : Canonical(merged, s) \in Subjects
          BY <1>1, CanonicalInChain DEF Scope
        <4>2. Matches(WindowCard[K]) \subseteq Subjects
          BY <1>1, <4>1 DEF Matches, HandleTargets, ThreadMatches, EvidenceMatches, Living,
            Rung, Scope, BoundTo
        <4>3. QED
          BY <4>2 DEF PreRoutes
      <3> DEFINE new == [NoSession EXCEPT !.pc = "loop", !.window = K, !.shown = shown]
      <3>5. new \in Sessions /\ new.window = K
        BY <3>3, <3>4 DEF NoSession, Sessions
      <3>6. QED
        BY <3>2, <3>5
    <2>2. CASE Look(w)
      <3>1. PICK keys \in SUBSET DOMAIN subjects :
              session' = [session EXCEPT
                ![w].calls = @ + 1,
                ![w].shown = @ \cup {Canonical(merged, s) : s \in keys}]
        BY <2>2 DEF Look
      <3>2. {Canonical(merged, s) : s \in keys} \subseteq Subjects
        BY <1>1, CanonicalInChain DEF Scope
      <3>3. PICK more \in SUBSET Subjects : more = {Canonical(merged, s) : s \in keys}
        BY <3>2
      <3> DEFINE new == [session[w] EXCEPT !.calls = @ + 1, !.shown = @ \cup more]
      <3>4. session' = [session EXCEPT ![w] = new]
        BY <1>4, <3>1, <3>3
      <3>5. new \in Sessions /\ new.pc = session[w].pc /\ new.window = session[w].window
        BY <1>4, SessionCalls
      <3>6. QED
        BY <1>4, <3>4, <3>5
    <2>3. CASE Finished(w)
      <3> DEFINE new == [session[w] EXCEPT !.pc = "ended"]
      <3>1. session' = [session EXCEPT ![w] = new] /\ session[w].pc = "loop"
        BY <2>3 DEF Finished
      <3>2. new \in Sessions /\ new.window = session[w].window
        BY <1>4 DEF Sessions
      <3>3. QED
        BY <1>4, <3>1, <3>2
    <2>4. CASE Exhausted(w)
      <3> DEFINE new == [session[w] EXCEPT !.pc = "exhausted"]
      <3>1. session' = [session EXCEPT ![w] = new] /\ session[w].pc = "loop"
        BY <2>4 DEF Exhausted
      <3>2. new \in Sessions /\ new.window = session[w].window
        BY <1>4 DEF Sessions
      <3>3. QED
        BY <1>4, <3>1, <3>2
    <2>5. CASE LoseSession(w)
      <3>1. NoSession \in Sessions /\ NoSession.pc = "idle"
        BY DEF NoSession, Sessions
      <3>2. QED
        BY <2>5, <3>1 DEF LoseSession
    <2>6. QED
      BY <2>1, <2>2, <2>3, <2>4, <2>5
  <1>6. Windows'
    BY <1>1, <1>5, SessionChange
  <1>7. QED
    BY <1>3, <1>6 DEF LoopInv

\* A batch is emitted.
LEMMA EmitStep ==
  ASSUME LoopInv, NEW w \in Loopers, EmitBatch(w)
  PROVE  LoopInv' /\ ToldStep /\ EndedStep
  <1>1. Scope /\ Homes /\ Windows
    BY DEF LoopInv
  <1>2. /\ UNCHANGED <<merged, bound, filed, ingested, held, proposal, observed>>
        /\ session[w].pc = "loop"
        /\ session' = [session EXCEPT ![w].calls = @ + 1, ![w].emissions = @ + 1]
    BY DEF EmitBatch, Calling
  <1>3. PICK v : /\ Admitted(w, v)
                 /\ claims' = claims \cup v.accepted /\ subjects' = EmissionRows(v, w)
    BY <1>1, EmissionClosed
  <1>4. session[w] \in Sessions /\ session[w].window \in DOMAIN WindowCard
    BY <1>1, <1>2 DEF Windows
  <1>5. Scope'
    <2>1. v.creates \subseteq Subjects
      BY <1>3, <1>4, WindowsAssumption DEF Admitted
    <2>2. DOMAIN subjects' = DOMAIN subjects \cup v.creates
      BY <1>3 DEF EmissionRows
    <2>3. QED
      BY <1>1, <1>2, <2>1, <2>2 DEF Scope, BoundTo
  <1>6. Homes'
    BY <1>1, <1>2, HomesFrame
  <1>7. Windows'
    <2> DEFINE new == [session[w] EXCEPT !.calls = @ + 1, !.emissions = @ + 1]
    <2>1. session' = [session EXCEPT ![w] = new]
      BY <1>1, <1>2 DEF Windows, Sessions
    <2>2. new \in Sessions /\ new.window = session[w].window
      BY <1>4, SessionCalls
    <2>3. QED
      BY <1>1, <1>4, <2>1, <2>2, SessionChange
  <1>8. ToldStep
    <2>1. SUFFICES ASSUME NEW a \in claims' \ claims
                   PROVE  /\ a.window = session[w].window
                          /\ \A s \in {a.subject, a.object} \ {NoKey, DeclaredKey[a.window]} :
                               s \in session[w].shown \ DOMAIN merged
      BY DEF ToldStep
    <2>2. a \in v.accepted
      BY <1>3
    <2>3. QED
      BY <1>3, <2>2 DEF Admitted, MayTell
  <1>9. QED
    BY <1>2, <1>5, <1>6, <1>7, <1>8 DEF LoopInv, EndedStep

\* A window is finalized.
LEMMA FinalizeStep ==
  ASSUME LoopInv, NEW w \in Loopers, Finalize(w)
  PROVE  LoopInv' /\ ToldStep /\ EndedStep
  <1>1. Scope /\ Homes /\ Windows
    BY DEF LoopInv
  <1>2. /\ session[w].pc \in {"ended", "exhausted"}
        /\ held' = LeaveForReview(w) /\ session' = [session EXCEPT ![w] = NoSession]
        /\ UNCHANGED <<subjects, merged, bound, filed, ingested, proposal, claims>>
    BY DEF Finalize
  <1>3. PICK c \in Cards : c = WindowCard[session[w].window]
    BY <1>1, <1>2, WindowsAssumption DEF Windows
  <1>4. /\ held' = IF session[w].pc = "exhausted" /\ held[c] = "none"
                   THEN [held EXCEPT ![c] = "open"] ELSE held
        /\ held \in [Cards -> Outcomes]
    BY <1>1, <1>2, <1>3 DEF LeaveForReview, Homes
  <1>5. /\ held' \in [Cards -> Outcomes]
        /\ \A x \in Cards : held'[x] = held[x] \/ held'[x] = "open"
        /\ session[w].pc = "exhausted" => held'[c] # "none"
    BY <1>4 DEF Outcomes
  <1>6. Homes'
    BY <1>1, <1>2, <1>5 DEF Homes, OneHome
  <1>7. Scope'
    BY <1>1, <1>2, ScopeFrame
  <1>8. Windows' /\ \A v \in Loopers \ {w} : session'[v] = session[v]
    <2>1. NoSession \in Sessions /\ NoSession.pc = "idle"
      BY DEF NoSession, Sessions
    <2>2. QED
      BY <1>1, <1>2, <2>1, SessionChange
  <1>9. EndedStep
    BY <1>2, <1>3, <1>5, <1>8 DEF EndedStep
  <1>10. QED
    BY <1>2, <1>6, <1>7, <1>8, <1>9 DEF LoopInv, ToldStep

LEMMA LoopSteps ==
  ASSUME LoopInv, LoopNext
  PROVE  LoopInv' /\ ToldStep /\ EndedStep
  <1>1. Scope /\ Homes /\ Windows
    BY DEF LoopInv
  <1>2. CASE \E w \in Loopers : \/ Open(w) \/ Look(w) \/ EmitBatch(w) \/ Finished(w)
                                \/ Exhausted(w) \/ Finalize(w) \/ LoseSession(w)
    BY <1>2, SessionSteps, EmitStep, FinalizeStep
  <1>3. CASE /\ \/ \E c \in Cards : Drop(c) \/ Attach(c) \/ AsNew(c)
                \/ MergeMatters \/ UnmergeMatters
             /\ UNCHANGED <<session, claims>>
    <2>1. Scope' /\ Homes' /\ UNCHANGED observed
      <3>1. CASE \E c \in Cards : Drop(c)
        BY <1>1, <3>1, DropStep DEF Drop
      <3>2. CASE \E c \in Cards : Attach(c) \/ AsNew(c)
        BY <1>1, <3>2, AttachStep
      <3>3. CASE MergeMatters \/ UnmergeMatters
        <4>1. Scope' /\ UNCHANGED <<filed, ingested, held, proposal, observed>>
          BY <1>1, <3>3, MergeSteps
        <4>2. QED
          BY <1>1, <4>1, HomesFrame
      <3>4. QED
        BY <1>3, <3>1, <3>2, <3>3
    <2>2. Windows'
      BY <1>1, <1>3 DEF Windows
    <2>3. QED
      BY <1>3, <2>1, <2>2 DEF LoopInv, ToldStep, EndedStep
  <1>4. QED
    BY <1>2, <1>3 DEF LoopNext

LEMMA LoopAlways ==
  LoopSpec => []LoopInv
  <1>1. LoopInit => LoopInv
    BY LoopStart
  <1>2. LoopInv /\ [LoopNext]_loopVars => LoopInv'
    <2>1. ASSUME LoopInv, UNCHANGED loopVars PROVE LoopInv'
      <3>1. /\ UNCHANGED <<subjects, merged, bound>> /\ UNCHANGED <<filed, ingested, held, proposal>>
            /\ UNCHANGED session
        BY <2>1 DEF loopVars, routingVars
      <3>2. Scope' /\ Homes'
        BY <2>1, <3>1, ScopeFrame, HomesFrame DEF LoopInv
      <3>3. Windows'
        BY <2>1, <3>1 DEF LoopInv, Windows
      <3>4. QED
        BY <3>2, <3>3 DEF LoopInv
    <2>2. QED
      BY <2>1, LoopSteps
  <1>3. QED
    BY <1>1, <1>2, PTL DEF LoopSpec

\* A session writes about what it was shown and what stands at that moment, or
\* about what it declares itself, for any batches and whatever people merge
\* between a look and an emission (UnifiedLoopSession._validate_intent).
THEOREM LoopsStayInTheirWorld == LoopSpec => ClosedWorld
  <1>1. LoopInv /\ [LoopNext]_loopVars =>
          [\A a \in claims' \ claims :
             \E w \in Loopers :
               /\ a.window = session[w].window
               /\ \A s \in {a.subject, a.object} \ {NoKey, DeclaredKey[a.window]} :
                    s \in session[w].shown \ DOMAIN merged]_loopVars
    BY LoopSteps DEF ToldStep
  <1>2. QED
    BY <1>1, LoopAlways, PTL DEF LoopSpec, ClosedWorld

\* No window is observed in the middle of a session, and one whose session ran
\* into its bounds has a review (Engine._finalize_unified_chunk).
THEOREM WindowsAreNotAbandoned == LoopSpec => NoWindowAbandoned
  <1>1. LoopInv /\ [LoopNext]_loopVars =>
          [\A w \in Loopers :
             observed' # observed /\ session'[w] # session[w] =>
               /\ session[w].pc # "loop"
               /\ session[w].pc = "exhausted" =>
                    held'[WindowCard[session[w].window]] # "none"]_loopVars
    BY LoopSteps DEF EndedStep
  <1>2. QED
    BY <1>1, LoopAlways, PTL DEF LoopSpec, NoWindowAbandoned

-----------------------------------------------------------------------------
\* The types of the scope: everything in it speaks of subjects that have rows.

RowType == [threads : SUBSET Boundaries, sources : SUBSET Records]
Offering(q, known) ==
  q = NoProposal \/
    /\ q.status \in {"open", "drop", "attach_subgoal"}
    /\ {q.child, q.parent} \subseteq known
Typed(db) ==
  /\ \A s \in DOMAIN db.subjects : db.subjects[s] \in RowType
  /\ DOMAIN db.bound \subseteq Handles
  /\ \A h \in DOMAIN db.bound : db.bound[h] \in DOMAIN db.subjects
  /\ db.filed \subseteq Cards \X DOMAIN db.subjects
  /\ \A c \in Cards : Offering(db.proposal[c], DOMAIN db.subjects)
MergesKnown ==
  \A x \in DOMAIN merged : {x, merged[x]} \subseteq DOMAIN subjects

\* Merges do not lead out of the rows.
LEMMA ResolvesToKnown ==
  ASSUME Scope, MergesKnown, NEW s \in DOMAIN subjects
  PROVE  Canonical(merged, s) \in DOMAIN subjects
  <1>1. Closed(merged, DOMAIN subjects)
    BY DEF MergesKnown, Closed
  <1>2. Chain(merged, s) \subseteq DOMAIN subjects
    BY <1>1 DEF Chain, Scope
  <1>3. Canonical(merged, s) \in Chain(merged, s)
    BY CanonicalInChain DEF Scope
  <1>4. QED
    BY <1>2, <1>3

LEMMA EvidenceTyped ==
  ASSUME NEW rows, \A x \in DOMAIN rows : rows[x] \in RowType,
         NEW c \in Cards, NEW s, NEW key
  PROVE  WithEvidence(rows, c, s, key) \in RowType
  <1>1. Thread[c] \in Boundaries /\ Cites[c] \subseteq Records
    BY CardsAssumption DEF Boundaries
  <1>2. \A x \in DOMAIN rows : rows[x].threads \subseteq Boundaries /\ rows[x].sources \subseteq Records
    BY DEF RowType
  <1>3. QED
    BY <1>1, <1>2 DEF WithEvidence, RowType

LEMMA PutRowTyped ==
  ASSUME NEW rows, \A x \in DOMAIN rows : rows[x] \in RowType, NEW s, NEW row \in RowType
  PROVE  /\ DOMAIN PutRow(rows, s, row) = DOMAIN rows \cup {s}
         /\ \A x \in DOMAIN rows \cup {s} : PutRow(rows, s, row)[x] \in RowType
  BY DEF PutRow

\* Rows after a card is filed.
LEMMA FileTyped ==
  ASSUME NEW db, IsRows(db), Typed(db), NEW c \in Cards, NEW s,
         NEW row, DOMAIN row = DOMAIN db.subjects \cup {s},
         \A x \in DOMAIN row : row[x] \in RowType
  PROVE  Typed(File(db, c, s, row))
  <1> DEFINE d == File(db, c, s, row)
  <1>1. /\ d.subjects = row /\ d.filed = db.filed \cup {<<c, s>>}
        /\ d.bound = BindAll(db.bound, c, s) /\ d.proposal = db.proposal
    BY DEF File, IsRows
  <1> HIDE DEF d
  <1>2. Marks[c] \subseteq Handles
    BY DEF Handles
  <1>3. DOMAIN d.bound \subseteq Handles /\ \A h \in DOMAIN d.bound : d.bound[h] \in DOMAIN row
    BY <1>1, <1>2 DEF BindAll, Typed
  <1>4. \A x \in Cards : Offering(d.proposal[x], DOMAIN row)
    BY <1>1 DEF Typed, Offering
  <1>5. d.filed \subseteq Cards \X DOMAIN row
    BY <1>1 DEF Typed
  <1>6. Typed(d)
    BY <1>1, <1>3, <1>4, <1>5 DEF Typed
  <1>7. QED
    BY <1>6 DEF d

\* The parent that is suggested has a row, as the child has.
LEMMA SuggestionTyped ==
  ASSUME Scope, MergesKnown, NEW db, DOMAIN subjects \subseteq DOMAIN db.subjects,
         DOMAIN db.subjects \subseteq Subjects,
         db.filed \subseteq Cards \X DOMAIN db.subjects,
         NEW s \in DOMAIN db.subjects, NEW open \in SUBSET Subjects
  PROVE  Offering(Suggestion(db, s, open), DOMAIN db.subjects)
  <1> DEFINE candidates == ParentCandidates(db, s, open)
  <1>1. candidates \subseteq DOMAIN db.subjects
    <2>1. ASSUME NEW x \in DOMAIN db.subjects
          PROVE  Canonical(merged, x) \in DOMAIN db.subjects
      <3>1. Closed(merged, DOMAIN db.subjects)
        BY DEF MergesKnown, Closed
      <3>2. Chain(merged, x) \subseteq DOMAIN db.subjects
        BY <3>1 DEF Chain
      <3>3. Canonical(merged, x) \in Chain(merged, x)
        BY CanonicalInChain DEF Scope
      <3>4. QED
        BY <3>2, <3>3
    <2>2. QED
      BY <2>1 DEF ParentCandidates
  <1>2. Cardinality(candidates) = 1 => (CHOOSE x \in candidates : TRUE) \in DOMAIN db.subjects
    <2>1. Cardinality({}) = 0
      BY FS_EmptySet
    <2>2. Cardinality(candidates) = 1 => candidates # {}
      BY <2>1
    <2>3. QED
      BY <1>1, <2>2
  <1>3. Suggestion(db, s, open) =
          IF Cardinality(candidates) # 1 THEN NoProposal
          ELSE [status |-> "open", child |-> s, parent |-> CHOOSE x \in candidates : TRUE]
    BY DEF Suggestion
  <1> HIDE DEF candidates
  <1>4. QED
    BY <1>2, <1>3 DEF Offering

\* Rows a chunk is about to commit, of a scope that has grown.
Grows(db) ==
  /\ IsRows(db) /\ Typed(db)
  /\ DOMAIN subjects \subseteq DOMAIN db.subjects /\ DOMAIN db.subjects \subseteq Subjects
  /\ DOMAIN db.proposal = Cards

LEMMA PlanGrows ==
  ASSUME Scope, MergesKnown, NEW db, Grows(db), NEW p \in PlanType, NEW quiet,
         NEW open \in SUBSET Subjects, NEW d, d = CommitPlan(db, p, quiet, open)
  PROVE  Grows(d)
  <1> DEFINE c == p.card
             key == IF p.key = NoKey THEN OwnKey[c] ELSE p.key
             s == Home(c, p.key)
             known == s \in DOMAIN db.subjects
             row == IF known /\ c \in quiet THEN db.subjects
                    ELSE PutRow(db.subjects, s, WithEvidence(db.subjects, c, s, key))
             done == File(db, c, s, row)
  <1>0. IsRows(db) /\ Typed(db)
    BY DEF Grows
  <1>1. c \in Cards /\ p.key \in Subjects \cup {NoKey}
    BY DEF PlanType
  <1>2. s \in Subjects
    BY <1>1, HomeStands
  <1>3. /\ DOMAIN row = DOMAIN db.subjects \cup {s}
        /\ \A x \in DOMAIN row : row[x] \in RowType
    <2>1. \A x \in DOMAIN db.subjects : db.subjects[x] \in RowType
      BY <1>0 DEF Typed
    <2>2. CASE known /\ c \in quiet
      BY <2>1, <2>2
    <2>3. CASE ~ (known /\ c \in quiet)
      <3> DEFINE new == WithEvidence(db.subjects, c, s, key)
      <3>1. row = PutRow(db.subjects, s, new)
        BY <2>3
      <3>2. /\ DOMAIN PutRow(db.subjects, s, new) = DOMAIN db.subjects \cup {s}
            /\ \A x \in DOMAIN db.subjects \cup {s} :
                 PutRow(db.subjects, s, new)[x] \in RowType
        <4> HIDE DEF s, key, c, row
        <4>1. new \in RowType
          BY <1>1, <2>1, EvidenceTyped
        <4> HIDE DEF new
        <4>2. QED
          BY <2>1, <4>1, PutRowTyped
      <3> HIDE DEF row, s, key, c, new
      <3>3. QED
        BY <3>1, <3>2
    <2>4. QED
      BY <2>2, <2>3
  <1>4. ASSUME p.route = "duplicate" PROVE d = db
    BY <1>4 DEF CommitPlan
  <1>5. ASSUME p.route = "review" PROVE d = Hold(db, c)
    BY <1>5 DEF CommitPlan
  <1>6. ASSUME p.route \notin {"duplicate", "review"}
        PROVE  d = IF known THEN done
                   ELSE [done EXCEPT !.proposal[c] = Suggestion(done, s, open)]
    BY <1>6 DEF CommitPlan
  <1> HIDE DEF c, s, row
  <1>7. Grows(done) /\ done.subjects = row
    <2>1. Typed(done)
      BY <1>0, <1>1, <1>3, FileTyped
    <2>2. IsRows(done) /\ done.subjects = row /\ done.proposal = db.proposal
      BY <1>0 DEF File, IsRows
    <2> HIDE DEF done
    <2>3. QED
      BY <1>2, <1>3, <2>1, <2>2 DEF Grows
  <1> HIDE DEF known, done
  <1>8. CASE p.route = "duplicate"
    BY <1>4, <1>8
  <1>9. CASE p.route = "review"
    <2>1. d = Hold(db, c)
      BY <1>5, <1>9
    <2>2. /\ IsRows(d) /\ d.subjects = db.subjects /\ d.bound = db.bound
          /\ d.filed = db.filed /\ d.proposal = db.proposal
      BY <1>0, <2>1 DEF Hold, IsRows
    <2>3. QED
      BY <2>2 DEF Grows, Typed
  <1>10. CASE p.route \notin {"duplicate", "review"}
    <2>1. CASE known
      BY <1>6, <1>7, <1>10, <2>1
    <2>2. CASE ~ known
      <3> DEFINE q == Suggestion(done, s, open)
      <3>1. Offering(q, DOMAIN done.subjects)
        <4>1. s \in DOMAIN done.subjects
          BY <1>3, <1>7
        <4>2. QED
          BY <1>7, <4>1, SuggestionTyped DEF Grows, Typed
      <3> HIDE DEF q
      <3>2. d = [done EXCEPT !.proposal[c] = q]
        BY <1>6, <1>10, <2>2 DEF q
      <3>3. IsRows(done) /\ DOMAIN done.proposal = Cards
        BY <1>7 DEF Grows
      <3>4. /\ DOMAIN d = DOMAIN done
            /\ d.subjects = done.subjects /\ d.bound = done.bound /\ d.filed = done.filed
            /\ d.proposal = [done.proposal EXCEPT ![c] = q]
        BY <3>2, <3>3 DEF IsRows
      <3>5. \A x \in Cards : Offering(d.proposal[x], DOMAIN d.subjects)
        <4>1. \A x \in Cards : d.proposal[x] = IF x = c THEN q ELSE done.proposal[x]
          BY <3>3, <3>4
        <4>2. QED
          BY <1>7, <3>1, <3>4, <4>1 DEF Grows, Typed
      <3>6. Typed(d)
        BY <1>7, <3>4, <3>5 DEF Grows, Typed
      <3>7. DOMAIN d.proposal = Cards
        BY <3>3, <3>4
      <3>8. IsRows(d)
        BY <3>3, <3>4 DEF IsRows
      <3>9. QED
        BY <1>7, <3>4, <3>6, <3>7, <3>8 DEF Grows
    <2>3. QED
      BY <2>1, <2>2
  <1>11. QED
    BY <1>8, <1>9, <1>10

LEMMA WalkGrows ==
  ASSUME Scope, MergesKnown, Grows(Rows),
         NEW n \in Nat, NEW plans, \A i \in 1..n : plans[i] \in PlanType,
         NEW quiet, NEW open \in SUBSET Subjects,
         NEW walk, CommitSteps(walk, n, Rows, plans, quiet, open)
  PROVE  Grows(walk[n])
  <1> DEFINE bad == {k \in 0..n : ~ Grows(walk[k])}
  <1>1. SUFFICES ASSUME bad # {} PROVE FALSE
    OBVIOUS
  <1>2. PICK k \in bad : \A j \in bad : k <= j
    <2>1. bad \in SUBSET Nat
      OBVIOUS
    <2> HIDE DEF bad
    <2>2. QED
      BY <1>1, <2>1, MinExists
  <1>3. k \in 0..n /\ ~ Grows(walk[k])
    BY <1>2
  <1>4. k # 0
    <2>1. walk[0] = Rows
      BY DEF CommitSteps
    <2>2. QED
      BY <1>3, <2>1
  <1>5. k \in 1..n /\ k - 1 \in 0..n /\ k - 1 < k
    BY <1>3, <1>4
  <1>6. Grows(walk[k - 1])
    BY <1>2, <1>5
  <1>7. walk[k] = CommitPlan(walk[k - 1], plans[k], quiet, open) /\ plans[k] \in PlanType
    BY <1>5 DEF CommitSteps
  <1>8. QED
    BY <1>3, <1>6, <1>7, PlanGrows

-----------------------------------------------------------------------------
\* The steps of routing keep the types.

ScopeTyped == MergesKnown /\ Typed(Rows)

LEMMA RowsAre ==
  /\ IsRows(Rows) /\ Rows.subjects = subjects /\ Rows.bound = bound
  /\ Rows.filed = filed /\ Rows.proposal = proposal
  BY DEF Rows, IsRows

LEMMA RowsGrow ==
  ASSUME Scope, Homes, ScopeTyped
  PROVE  Grows(Rows)
  BY RowsAre DEF Scope, Homes, ScopeTyped, Grows

LEMMA TypedFrame ==
  ASSUME ScopeTyped, UNCHANGED <<subjects, merged, bound, filed, proposal>>
  PROVE  ScopeTyped'
  <1>1. /\ IsRows(Rows)' /\ Rows'.subjects = subjects /\ Rows'.bound = bound
        /\ Rows'.filed = filed /\ Rows'.proposal = proposal
    BY DEF Rows, IsRows
  <1>2. Typed(Rows)'
    BY <1>1, RowsAre DEF ScopeTyped, Typed, Offering, RowType
  <1>3. QED
    BY <1>2 DEF ScopeTyped, MergesKnown

\* The scope becomes what a transaction made of it.
LEMMA GrownRows ==
  ASSUME ScopeTyped, NEW db, Grows(db), UNCHANGED merged,
         subjects' = db.subjects, bound' = db.bound, filed' = db.filed, proposal' = db.proposal
  PROVE  ScopeTyped'
  <1>1. /\ Rows'.subjects = db.subjects /\ Rows'.bound = db.bound
        /\ Rows'.filed = db.filed /\ Rows'.proposal = db.proposal
    BY DEF Rows
  <1>2. Typed(db) /\ DOMAIN subjects \subseteq DOMAIN db.subjects
    BY DEF Grows
  <1>3. Typed(Rows)'
    BY <1>1, <1>2 DEF Typed, Offering, RowType
  <1>4. QED
    BY <1>2, <1>3 DEF ScopeTyped, MergesKnown

LEMMA SettleTyped ==
  ASSUME Scope, Homes, ScopeTyped, NEW c \in Cards, Attach(c) \/ AsNew(c)
  PROVE  ScopeTyped'
  <1>1. PICK key \in Subjects \cup {NoKey}, action \in {"attach", "new"} : Settle(c, action, key)
    BY DEF Attach, AsNew, Scope
  <1> DEFINE s == Home(c, key)
             own == IF key = NoKey THEN OwnKey[c] ELSE key
             row == PutRow(subjects, s, WithEvidence(subjects, c, s, own))
             d == File(Rows, c, s, row)
  <1>2. SetRows([d EXCEPT !.held[c] = action]) /\ UNCHANGED merged
    BY <1>1 DEF Settle
  <1>3. s \in Subjects
    BY HomeStands
  <1>4. Grows(Rows)
    BY RowsGrow
  <1>5. \A x \in DOMAIN subjects : subjects[x] \in RowType
    BY RowsAre DEF ScopeTyped, Typed
  <1>6. /\ DOMAIN row = DOMAIN subjects \cup {s}
        /\ \A x \in DOMAIN row : row[x] \in RowType
    <2> DEFINE new == WithEvidence(subjects, c, s, own)
    <2>1. /\ DOMAIN PutRow(subjects, s, new) = DOMAIN subjects \cup {s}
          /\ \A x \in DOMAIN subjects \cup {s} : PutRow(subjects, s, new)[x] \in RowType
      <3> HIDE DEF s, own
      <3>1. new \in RowType
        BY <1>5, EvidenceTyped
      <3> HIDE DEF new
      <3>2. QED
        BY <1>5, <3>1, PutRowTyped
    <2>2. QED
      BY <2>1
  <1> HIDE DEF s, row
  <1>7. Typed(d)
    BY <1>4, <1>6, RowsAre, FileTyped DEF Grows
  <1>8. IsRows(d) /\ d.subjects = row /\ d.proposal = proposal
    BY RowsAre DEF File, IsRows
  <1> HIDE DEF d
  <1>9. Grows(d)
    BY <1>3, <1>4, <1>6, <1>7, <1>8, RowsAre DEF Grows
  <1>10. /\ subjects' = d.subjects /\ bound' = d.bound /\ filed' = d.filed
         /\ proposal' = d.proposal
    BY <1>2, <1>8 DEF SetRows, IsRows
  <1>11. QED
    BY <1>2, <1>9, <1>10, GrownRows

LEMMA CommitTyped ==
  ASSUME Scope, Homes, Chunks, ScopeTyped, NEW w \in Workers, CommitChunk(w)
  PROVE  ScopeTyped'
  <1>1. chunk[w].plans \in Seq(PlanType)
    BY DEF Chunks
  <1>2. PICK n \in Nat : n = Len(chunk[w].plans)
    BY <1>1
  <1>3. DOMAIN chunk[w].plans = 1..n /\ \A i \in 1..n : chunk[w].plans[i] \in PlanType
    BY <1>1, <1>2
  <1>4. PICK quiet, walk : \E open \in SUBSET Subjects :
          /\ CommitSteps(walk, n, Rows, chunk[w].plans, quiet, open)
          /\ walk[n].clash = {} /\ SetRows(walk[n])
    BY <1>3, CommitChunkWalks
  <1>5. PICK open \in SUBSET Subjects :
          /\ CommitSteps(walk, n, Rows, chunk[w].plans, quiet, open)
          /\ walk[n].clash = {} /\ SetRows(walk[n])
    BY <1>4
  <1>6. Grows(Rows) /\ MergesKnown
    BY RowsGrow DEF ScopeTyped
  <1>7. Grows(walk[n])
    BY <1>3, <1>5, <1>6, WalkGrows
  <1>8. UNCHANGED merged
    BY DEF CommitChunk
  <1>9. QED
    BY <1>5, <1>7, <1>8, GrownRows DEF SetRows

\* A proposal that is open becomes a decided one.
LEMMA DecideTyped ==
  ASSUME Homes, ScopeTyped, NEW c \in Cards, proposal[c].status = "open",
         NEW status \in {"drop", "attach_subgoal"},
         proposal' = [proposal EXCEPT ![c].status = status],
         UNCHANGED <<subjects, merged, bound, filed>>
  PROVE  ScopeTyped'
  <1>1. /\ Rows'.subjects = subjects /\ Rows'.bound = bound
        /\ Rows'.filed = filed /\ Rows'.proposal = proposal'
    BY DEF Rows
  <1>2. proposal \in [Cards -> Proposals]
    BY DEF Homes
  <1>3. Offering(proposal[c], DOMAIN subjects) /\ proposal[c] # NoProposal
    BY RowsAre DEF ScopeTyped, Typed, NoProposal
  <1>4. /\ proposal'[c].status = status /\ proposal'[c].child = proposal[c].child
        /\ proposal'[c].parent = proposal[c].parent
        /\ \A x \in Cards \ {c} : proposal'[x] = proposal[x]
    BY <1>2 DEF Proposals
  <1>5. \A x \in Cards : Offering(proposal'[x], DOMAIN subjects)
    BY <1>3, <1>4, RowsAre DEF Offering, ScopeTyped, Typed
  <1>6. Typed(Rows)'
    BY <1>1, <1>5, RowsAre DEF ScopeTyped, Typed, Offering, RowType
  <1>7. QED
    BY <1>6 DEF ScopeTyped, MergesKnown

LEMMA MergeTyped ==
  ASSUME Scope, ScopeTyped, MergeMatters \/ UnmergeMatters
  PROVE  ScopeTyped'
  <1>1. UNCHANGED <<subjects, filed, proposal, bound>>
    BY DEF MergeMatters, UnmergeMatters, tables
  <1>2. Typed(Rows)'
    <2>1. /\ Rows'.subjects = subjects /\ Rows'.bound = bound
          /\ Rows'.filed = filed /\ Rows'.proposal = proposal
      BY <1>1 DEF Rows
    <2>2. QED
      BY <2>1, RowsAre DEF ScopeTyped, Typed, Offering, RowType
  <1>3. MergesKnown'
    <2>1. CASE MergeMatters
      <3>1. PICK s, t \in DOMAIN subjects : merged' = AddEdge(merged, s, t)
        BY <2>1 DEF MergeMatters
      <3>2. QED
        BY <1>1, <3>1 DEF ScopeTyped, MergesKnown, AddEdge
    <2>2. CASE UnmergeMatters
      BY <1>1, <2>2 DEF UnmergeMatters, DropEdge, ScopeTyped, MergesKnown
    <2>3. QED
      BY <2>1, <2>2
  <1>4. QED
    BY <1>2, <1>3 DEF ScopeTyped

LEMMA BindTyped ==
  ASSUME Scope, ScopeTyped, BindHandle \/ UnbindHandle \/ BackfillHandles
  PROVE  ScopeTyped'
  <1> DEFINE Fits(b) == DOMAIN b \subseteq Handles /\ \A h \in DOMAIN b : b[h] \in DOMAIN subjects
  <1>1. Fits(bound)
    BY RowsAre DEF ScopeTyped, Typed
  <1>2. PICK bindings : Rebind(bindings) /\ Fits(bindings)
    <2>1. CASE BindHandle
      <3>1. PICK h \in Handles \ DOMAIN bound, s \in DOMAIN subjects :
              Rebind(BindOne(bound, h, Canonical(merged, s)))
        BY <2>1 DEF BindHandle
      <3>2. Canonical(merged, s) \in DOMAIN subjects
        BY ResolvesToKnown DEF ScopeTyped
      <3>3. Fits(BindOne(bound, h, Canonical(merged, s)))
        BY <1>1, <3>2 DEF BindOne
      <3> HIDE DEF Fits
      <3>4. QED
        BY <3>1, <3>3
    <2>2. CASE UnbindHandle
      <3>1. PICK h \in DOMAIN bound : Rebind([x \in DOMAIN bound \ {h} |-> bound[x]])
        BY <2>2 DEF UnbindHandle
      <3>2. Fits([x \in DOMAIN bound \ {h} |-> bound[x]])
        BY <1>1
      <3> HIDE DEF Fits
      <3>3. QED
        BY <3>1, <3>2
    <2>3. CASE BackfillHandles
      <3>1. PICK D \in SUBSET (Handles \ DOMAIN bound) \ {{}} :
              \E owner \in [D -> DOMAIN subjects] :
                Rebind([h \in DOMAIN bound \cup D |-> IF h \in D THEN owner[h] ELSE bound[h]])
        BY <2>3 DEF BackfillHandles
      <3>2. PICK owner \in [D -> DOMAIN subjects] :
              Rebind([h \in DOMAIN bound \cup D |-> IF h \in D THEN owner[h] ELSE bound[h]])
        BY <3>1
      <3>3. Fits([h \in DOMAIN bound \cup D |-> IF h \in D THEN owner[h] ELSE bound[h]])
        BY <1>1
      <3> HIDE DEF Fits
      <3>4. QED
        BY <3>2, <3>3
    <2>4. QED
      BY <2>1, <2>2, <2>3
  <1>3. UNCHANGED <<subjects, merged, filed, proposal>> /\ bound' = bindings
    BY <1>2 DEF Rebind
  <1>4. Typed(Rows)'
    <2>1. /\ Rows'.subjects = subjects /\ Rows'.bound = bindings
          /\ Rows'.filed = filed /\ Rows'.proposal = proposal
      BY <1>3 DEF Rows
    <2>2. QED
      BY <1>2, <2>1, RowsAre DEF ScopeTyped, Typed, Offering, RowType
  <1>5. QED
    BY <1>3, <1>4 DEF ScopeTyped, MergesKnown

\* Records are observed after they were given.
Staged ==
  /\ observed \subseteq given /\ given \subseteq Records
  /\ \A w \in Workers : chunk[w].records \subseteq given
  /\ human \in 0..MaxHuman

RoutingTyped == RoutingInv /\ ScopeTyped /\ Staged

LEMMA RoutingTypedSuffices ==
  ASSUME RoutingTyped
  PROVE  RoutingTypeOK
  <1>1. Scope /\ Homes /\ Chunks /\ Decisions /\ MergesKnown /\ Typed(Rows) /\ Staged
    BY DEF RoutingTyped, RoutingInv, ScopeTyped
  <1>2. ingested \subseteq Cards
    BY <1>1 DEF Homes, OneHome
  <1>3. ASSUME NEW w \in Workers
        PROVE  /\ chunk[w].pc \in {"idle", "extracted"}
               /\ \A i \in DOMAIN chunk[w].plans :
                    /\ chunk[w].plans[i] \in PlanType
                    /\ chunk[w].plans[i].card = chunk[w].cards[i]
    <2>1. chunk[w].pc \in {"idle", "extracted"} /\ chunk[w].plans \in Seq(PlanType)
      BY <1>1 DEF Chunks
    <2>2. DOMAIN chunk[w].plans = 1..Len(chunk[w].plans)
      BY <2>1
    <2>3. \A i \in 1..Len(chunk[w].plans) : chunk[w].plans[i] \in PlanType
      BY <2>1
    <2>4. QED
      BY <1>1, <2>1, <2>2, <2>3 DEF Chunks
  <1>4. /\ \A s \in DOMAIN subjects : subjects[s] \in RowType
        /\ DOMAIN bound \subseteq Handles
        /\ \A h \in DOMAIN bound : bound[h] \in DOMAIN subjects
        /\ filed \subseteq Cards \X DOMAIN subjects
        /\ \A c \in Cards : Offering(proposal[c], DOMAIN subjects)
    BY <1>1, RowsAre DEF Typed
  <1>5. held \in [Cards -> {"none", "open", "drop", "attach", "new"}]
    BY <1>1 DEF Homes, Outcomes
  <1>6. DOMAIN subjects \subseteq Subjects /\ merged \in Edges /\ DOMAIN merged \subseteq DOMAIN subjects
    BY <1>1 DEF Scope, MergesKnown
  <1>7. parents \subseteq Cards \X Clerks /\ desk \in [Clerks -> Cards \cup {NoKey}]
    BY <1>1 DEF Decisions
  <1>8. QED
    BY <1>1, <1>2, <1>3, <1>4, <1>5, <1>6, <1>7 DEF RoutingTypeOK, RowType, Offering, Staged

LEMMA RoutingTypedBegins ==
  ASSUME RoutingInit
  PROVE  RoutingTyped
  <1>1. RoutingInv
    BY RoutingStart
  <1>2. ScopeTyped
    BY RowsAre DEF RoutingInit, ScopeTyped, MergesKnown, Typed, Offering, NoEdges
  <1>3. Staged
    BY CardsAssumption DEF RoutingInit, Staged, Nothing
  <1>4. QED
    BY <1>1, <1>2, <1>3 DEF RoutingTyped

LEMMA StagedSteps ==
  ASSUME Chunks, Staged, RoutingNext
  PROVE  Staged'
  <1> DEFINE Hand == [pc : {"idle", "extracted"}, records : SUBSET Records,
                      cards : Seq(Cards), plans : Seq(PlanType)]
  <1>1. chunk \in [Workers -> Hand]
    BY DEF Chunks
  <1> HIDE DEF Hand
  <1>2. CASE \E w \in Workers : Extract(w)
    <2>1. PICK w \in Workers : Extract(w)
      BY <1>2
    <2>2. PICK K \in SUBSET (Records \ observed), cards \in Replies :
            /\ given' = given \cup K
            /\ chunk' = [chunk EXCEPT ![w] =
                 [pc |-> "extracted", records |-> K, cards |-> cards, plans |-> <<>>]]
      BY <2>1 DEF Extract
    <2>3. UNCHANGED <<observed, human>>
      BY <2>1 DEF Extract
    <2>4. \A v \in Workers : chunk'[v].records \in {chunk[v].records, K}
      BY <1>1, <2>2
    <2>5. QED
      BY <2>2, <2>3, <2>4 DEF Staged
  <1>3. CASE \E w \in Workers : Route(w)
    <2>1. PICK w \in Workers : Route(w)
      BY <1>3
    <2>2. PICK p : chunk' = [chunk EXCEPT ![w].plans = Append(@, p)]
      BY <2>1 DEF Route
    <2>3. UNCHANGED <<given, observed, human>>
      BY <2>1 DEF Route
    <2>4. \A v \in Workers : chunk'[v].records = chunk[v].records
      BY <1>1, <2>2 DEF Hand
    <2>5. QED
      BY <2>3, <2>4 DEF Staged
  <1>4. CASE \E w \in Workers : CommitChunk(w) \/ LoseChunk(w)
    <2>1. PICK w \in Workers : CommitChunk(w) \/ LoseChunk(w)
      BY <1>4
    <2>2. /\ chunk' = [chunk EXCEPT ![w] = Nothing] /\ UNCHANGED <<given, human>>
          /\ observed' \in {observed, observed \cup chunk[w].records}
      BY <2>1 DEF CommitChunk, LoseChunk
    <2>3. \A v \in Workers : chunk'[v].records \in {chunk[v].records, {}}
      BY <1>1, <2>2 DEF Nothing
    <2>4. QED
      BY <2>2, <2>3 DEF Staged
  <1>5. CASE \/ \E c \in Cards : Drop(c) \/ Attach(c) \/ AsNew(c) \/ DropProposal(c)
             \/ \E k \in Clerks : ReadProposal(k) \/ AcceptProposal(k)
             \/ UnmergeMatters \/ BackfillHandles
    <2>1. UNCHANGED <<given, observed, chunk, human>>
      BY <1>5 DEF Drop, Attach, AsNew, Settle, DropProposal, ReadProposal, AcceptProposal,
                  UnmergeMatters, BackfillHandles, Rebind
    <2>2. QED
      BY <2>1 DEF Staged
  <1>6. CASE MergeMatters \/ BindHandle \/ UnbindHandle
    <2>1. Decide /\ UNCHANGED <<given, observed, chunk>>
      BY <1>6 DEF MergeMatters, BindHandle, UnbindHandle, Rebind
    <2>2. QED
      BY <2>1, CardsAssumption DEF Staged, Decide
  <1>7. QED
    BY <1>2, <1>3, <1>4, <1>5, <1>6 DEF RoutingNext

LEMMA ScopeTypedSteps ==
  ASSUME RoutingInv, ScopeTyped, RoutingNext
  PROVE  ScopeTyped'
  <1>1. Scope /\ Homes /\ Chunks
    BY DEF RoutingInv
  <1>2. CASE \/ \E w \in Workers : Extract(w) \/ Route(w) \/ LoseChunk(w)
             \/ \E c \in Cards : Drop(c)
             \/ \E k \in Clerks : ReadProposal(k)
    <2>1. UNCHANGED <<subjects, merged, bound, filed, proposal>>
      BY <1>2 DEF Extract, Route, LoseChunk, Drop, ReadProposal, tables
    <2>2. QED
      BY <2>1, TypedFrame
  <1>3. CASE \E w \in Workers : CommitChunk(w)
    BY <1>1, <1>3, CommitTyped
  <1>4. CASE \E c \in Cards : Attach(c) \/ AsNew(c)
    BY <1>1, <1>4, SettleTyped
  <1>5. CASE \E c \in Cards : DropProposal(c)
    <2>1. PICK c \in Cards : DropProposal(c)
      BY <1>5
    <2>2. /\ proposal[c].status = "open" /\ proposal' = [proposal EXCEPT ![c].status = "drop"]
          /\ UNCHANGED <<subjects, merged, bound, filed>>
      BY <2>1 DEF DropProposal
    <2>3. QED
      BY <1>1, <2>2, DecideTyped
  <1>6. CASE \E k \in Clerks : AcceptProposal(k)
    <2>1. PICK k \in Clerks : AcceptProposal(k)
      BY <1>6
    <2>2. desk[k] \in Cards
      BY <2>1 DEF AcceptProposal, RoutingInv, Decisions
    <2>3. PICK c \in Cards : c = desk[k]
      BY <2>2
    <2>4. /\ UNCHANGED <<subjects, merged, bound, filed>>
          /\ \/ proposal[c].status = "open"
                /\ proposal' = [proposal EXCEPT ![c].status = "attach_subgoal"]
             \/ UNCHANGED proposal
      BY <2>1, <2>3 DEF AcceptProposal, StillOpen
    <2>5. QED
      BY <1>1, <2>4, DecideTyped, TypedFrame
  <1>7. CASE MergeMatters \/ UnmergeMatters
    BY <1>1, <1>7, MergeTyped
  <1>8. CASE BindHandle \/ UnbindHandle \/ BackfillHandles
    BY <1>1, <1>8, BindTyped
  <1>9. QED
    BY <1>2, <1>3, <1>4, <1>5, <1>6, <1>7, <1>8 DEF RoutingNext

LEMMA RoutingTypedStays ==
  ASSUME RoutingTyped, UNCHANGED routingVars
  PROVE  RoutingTyped'
  <1>1. RoutingInv /\ ScopeTyped /\ Staged
    BY DEF RoutingTyped
  <1>2. UNCHANGED <<subjects, merged, bound, filed, proposal>>
    BY DEF routingVars
  <1>3. Staged'
    BY <1>1 DEF routingVars, Staged
  <1>4. QED
    BY <1>1, <1>2, <1>3, RoutingStutter, TypedFrame DEF RoutingTyped

LEMMA RoutingTypedSteps ==
  ASSUME RoutingTyped, [RoutingNext]_routingVars
  PROVE  RoutingTyped'
  <1>1. ASSUME RoutingNext PROVE RoutingTyped'
    <2>1. RoutingInv /\ ScopeTyped /\ Staged /\ Chunks
      BY DEF RoutingTyped, RoutingInv
    <2>2. QED
      BY <1>1, <2>1, RoutingStep, ScopeTypedSteps, StagedSteps DEF RoutingTyped
  <1>2. QED
    BY <1>1, RoutingTypedStays

\* Whatever is filed, bound, held or proposed is so under a subject that has a
\* row, and merges lead from rows to rows (Engine._commit_record_chunk,
\* Engine.resolve_review, Engine.merge_subjects).
THEOREM RoutingTypesCorrect == RoutingSpec => []RoutingTypeOK
  <1>1. QED
    BY RoutingTypedBegins, RoutingTypedSteps, RoutingTypedSuffices, PTL DEF RoutingSpec

-----------------------------------------------------------------------------
\* The types of the loop: a session has seen records that were given and
\* subjects that have rows.

InBounds(o) ==
  /\ o.window \subseteq given /\ o.shown \subseteq DOMAIN subjects
  /\ o.calls \in 0..MaxToolCalls /\ o.emissions \in 0..MaxEmissions
ClaimType ==
  [subject : Subjects, object : Subjects \cup {NoKey}, window : SUBSET Records]
Telling ==
  /\ \A w \in Loopers : InBounds(session[w])
  /\ claims \subseteq ClaimType

LoopTyped == LoopInv /\ RoutingTyped /\ Telling

LEMMA LoopTypedSuffices ==
  ASSUME LoopTyped
  PROVE  RoutingTypeOK /\ LoopTypeOK
  <1>1. \A w \in Loopers : session[w].pc \in {"idle", "loop", "ended", "exhausted"}
    BY DEF LoopTyped, LoopInv, Windows, Sessions
  <1>2. QED
    BY <1>1, RoutingTypedSuffices DEF LoopTyped, Telling, InBounds, ClaimType, LoopTypeOK

LEMMA LoopTypedBegins ==
  ASSUME LoopInit
  PROVE  LoopTyped
  <1>1. LoopInv /\ RoutingTyped
    BY LoopStart, RoutingTypedBegins DEF LoopInit
  <1>2. InBounds(NoSession)
    BY WindowsAssumption DEF InBounds, NoSession
  <1>3. Telling
    BY <1>2 DEF LoopInit, Telling
  <1>4. QED
    BY <1>1, <1>3 DEF LoopTyped

\* What one session does leaves the others in their bounds.
LEMMA TellingChange ==
  ASSUME Windows, Telling, NEW w \in Loopers, NEW new, session' = [session EXCEPT ![w] = new],
         InBounds(new)', given \subseteq given', DOMAIN subjects \subseteq DOMAIN subjects',
         claims' \subseteq ClaimType
  PROVE  Telling'
  <1>1. ASSUME NEW v \in Loopers
        PROVE  InBounds(session[v])'
    <2>1. CASE v = w
      <3>1. session'[v] = new
        BY <2>1 DEF Windows
      <3>2. QED
        BY <3>1 DEF InBounds
    <2>2. CASE v # w
      <3>1. session'[v] = session[v] /\ InBounds(session[v])
        BY <2>2 DEF Windows, Telling
      <3>2. QED
        BY <3>1 DEF InBounds
    <2>3. QED
      BY <2>1, <2>2
  <1>2. QED
    BY <1>1 DEF Telling, ClaimType

\* The matches of a window have rows.
LEMMA MatchesKnown ==
  ASSUME Scope, ScopeTyped, NEW c
  PROVE  Matches(c) \subseteq DOMAIN subjects
  <1>1. \A s \in DOMAIN subjects : Canonical(merged, s) \in DOMAIN subjects
    BY ResolvesToKnown DEF ScopeTyped
  <1>2. \A h \in DOMAIN bound : bound[h] \in DOMAIN subjects
    BY RowsAre DEF ScopeTyped, Typed
  <1>3. QED
    BY <1>1, <1>2 DEF Matches, HandleTargets, ThreadMatches, EvidenceMatches, Living, Rung

\* The scope stays as it is, and so do the records that were observed.
LEMMA RoutingTypedFrame ==
  ASSUME RoutingTyped, UNCHANGED <<tables, merged, parents, observed, chunk, desk, human>>,
         given \subseteq given', given' \subseteq Records
  PROVE  RoutingTyped'
  <1>1. Scope /\ Homes /\ Chunks /\ Decisions /\ ScopeTyped /\ Staged
    BY DEF RoutingTyped, RoutingInv
  <1>2. UNCHANGED <<subjects, filed, ingested, held, proposal, bound>>
    BY DEF tables
  <1>3. Scope' /\ Homes' /\ Decisions' /\ DoneStays
    BY <1>1, <1>2, ScopeFrame, HomesFrame, DecisionsFrame
  <1>4. Chunks'
    BY <1>1, <1>3, ChunksFrame
  <1>5. ScopeTyped'
    BY <1>1, <1>2, TypedFrame
  <1>6. Staged'
    BY <1>1 DEF Staged
  <1>7. QED
    BY <1>3, <1>4, <1>5, <1>6 DEF RoutingTyped, RoutingInv

LEMMA SessionTyped ==
  ASSUME LoopTyped, NEW w \in Loopers,
         Open(w) \/ Look(w) \/ Finished(w) \/ Exhausted(w) \/ LoseSession(w)
  PROVE  RoutingTyped' /\ Telling'
  <1>1. Scope /\ Windows /\ RoutingTyped /\ ScopeTyped /\ Staged /\ Telling
    BY DEF LoopTyped, LoopInv, RoutingTyped
  <1>2. InBounds(session[w]) /\ session[w] \in Sessions
    BY <1>1 DEF Telling, Windows
  <1>3. InBounds(NoSession)
    BY WindowsAssumption DEF InBounds, NoSession
  <1>4. CASE Open(w)
    <2>1. PICK K \in DOMAIN WindowCard :
            /\ given' = given \cup K
            /\ \E shown \in PreRoutes(WindowCard[K]) :
                 session' = [session EXCEPT ![w] =
                   [NoSession EXCEPT !.pc = "loop", !.window = K, !.shown = shown]]
      BY <1>4 DEF Open
    <2>2. PICK shown \in PreRoutes(WindowCard[K]) :
            session' = [session EXCEPT ![w] =
              [NoSession EXCEPT !.pc = "loop", !.window = K, !.shown = shown]]
      BY <2>1
    <2>3. UNCHANGED <<tables, merged, parents, observed, chunk, desk, human, claims>>
      BY <1>4 DEF Open
    <2>4. K \subseteq Records /\ given \subseteq Records
      BY <1>1, WindowsAssumption DEF Staged
    <2>5. RoutingTyped'
      BY <1>1, <2>1, <2>3, <2>4, RoutingTypedFrame
    <2> DEFINE new == [NoSession EXCEPT !.pc = "loop", !.window = K, !.shown = shown]
    <2>6. shown \subseteq DOMAIN subjects
      BY <1>1, MatchesKnown DEF PreRoutes
    <2>7. UNCHANGED subjects
      BY <2>3 DEF tables
    <2>8. InBounds(new)'
      BY <1>3, <2>1, <2>6, <2>7 DEF InBounds, NoSession
    <2> HIDE DEF new
    <2>9. Telling'
      BY <1>1, <2>1, <2>2, <2>3, <2>7, <2>8, TellingChange DEF Telling, new
    <2>10. QED
      BY <2>5, <2>9
  <1>5. ASSUME ~ Open(w)
        PROVE  UNCHANGED <<routingVars, claims>>
    BY <1>5 DEF Look, Finished, Exhausted, LoseSession
  <1>6. ASSUME NEW new, session' = [session EXCEPT ![w] = new], InBounds(new), ~ Open(w)
        PROVE  RoutingTyped' /\ Telling'
    <2>1. UNCHANGED <<given, subjects, claims>> /\ UNCHANGED routingVars
      BY <1>5, <1>6 DEF routingVars
    <2>2. InBounds(new)'
      BY <1>6, <2>1 DEF InBounds
    <2>3. Telling'
      BY <1>1, <1>6, <2>1, <2>2, TellingChange DEF Telling
    <2>4. QED
      BY <1>1, <2>1, <2>3, RoutingTypedStays
  <1>7. CASE Look(w) /\ ~ Open(w)
    <2>1. PICK keys \in SUBSET DOMAIN subjects :
            session' = [session EXCEPT
              ![w].calls = @ + 1,
              ![w].shown = @ \cup {Canonical(merged, s) : s \in keys}]
      BY <1>7 DEF Look
    <2>2. {Canonical(merged, s) : s \in keys} \subseteq DOMAIN subjects
      BY <1>1, ResolvesToKnown DEF ScopeTyped
    <2>3. PICK more \in SUBSET DOMAIN subjects : more = {Canonical(merged, s) : s \in keys}
      BY <2>2
    <2> DEFINE new == [session[w] EXCEPT !.calls = @ + 1, !.shown = @ \cup more]
    <2>4. session' = [session EXCEPT ![w] = new]
      BY <1>1, <2>1, <2>3 DEF Windows
    <2>5. session[w].calls < MaxToolCalls
      BY <1>7 DEF Look, Calling
    <2>6. InBounds(new)
      BY <1>2, <2>5, WindowsAssumption DEF InBounds, Sessions
    <2> HIDE DEF new
    <2>7. QED
      BY <1>6, <1>7, <2>4, <2>6
  <1>8. CASE (Finished(w) \/ Exhausted(w)) /\ ~ Open(w)
    <2>1. PICK pc \in {"ended", "exhausted"} : session' = [session EXCEPT ![w].pc = pc]
      BY <1>8 DEF Finished, Exhausted
    <2> DEFINE new == [session[w] EXCEPT !.pc = pc]
    <2>2. session' = [session EXCEPT ![w] = new]
      BY <1>1, <2>1 DEF Windows
    <2>3. InBounds(new)
      BY <1>2 DEF InBounds, Sessions
    <2> HIDE DEF new
    <2>4. QED
      BY <1>6, <1>8, <2>2, <2>3
  <1>9. CASE LoseSession(w) /\ ~ Open(w)
    BY <1>3, <1>6, <1>9 DEF LoseSession
  <1>10. QED
    BY <1>4, <1>7, <1>8, <1>9

LEMMA EmitTyped ==
  ASSUME LoopTyped, NEW w \in Loopers, EmitBatch(w)
  PROVE  RoutingTyped' /\ Telling'
  <1>1. Scope /\ Homes /\ Chunks /\ Decisions /\ Windows /\ ScopeTyped /\ Staged /\ Telling
    BY DEF LoopTyped, LoopInv, RoutingTyped, RoutingInv
  <1>2. /\ session[w].pc = "loop" /\ session[w].calls < MaxToolCalls
        /\ session[w].emissions < MaxEmissions
        /\ session' = [session EXCEPT ![w].calls = @ + 1, ![w].emissions = @ + 1]
        /\ UNCHANGED <<merged, bound, filed, ingested, held, proposal, parents, given,
                       observed, chunk, desk, human>>
    BY DEF EmitBatch, Calling
  <1>3. PICK v : /\ Admitted(w, v)
                 /\ claims' = claims \cup v.accepted /\ subjects' = EmissionRows(v, w)
    BY <1>1, EmissionClosed
  <1>4. PICK K \in DOMAIN WindowCard : K = session[w].window
    BY <1>1, <1>2 DEF Windows
  <1>5. K \subseteq Records /\ WindowCard[K] \in Cards /\ DeclaredKey[K] \in Subjects
    BY WindowsAssumption
  <1>6. InBounds(session[w]) /\ session[w] \in Sessions
    BY <1>1 DEF Telling, Windows
  <1>7. DOMAIN subjects' = DOMAIN subjects \cup v.creates
    BY <1>3 DEF EmissionRows
  <1>8. \A s \in DOMAIN subjects' : subjects'[s] \in RowType
    <2>1. \A s \in DOMAIN subjects : subjects[s] \in RowType
      BY <1>1, RowsAre DEF ScopeTyped, Typed
    <2>2. Thread[WindowCard[K]] \in Boundaries
      BY <1>5 DEF Boundaries
    <2>3. [threads |-> {Thread[WindowCard[K]]}, sources |-> K] \in RowType
      BY <1>5, <2>2 DEF RowType
    <2>4. ASSUME NEW s \in DOMAIN subjects', s \in DOMAIN subjects
          PROVE  subjects'[s] \in RowType
      <3>1. subjects[s] \in RowType
        BY <2>1, <2>4
      <3>2. /\ [subjects[s] EXCEPT !.sources = @ \cup K] \in RowType
            /\ [subjects[s] EXCEPT !.sources = @] \in RowType
        BY <1>5, <3>1 DEF RowType
      <3>3. subjects'[s] \in {[subjects[s] EXCEPT !.sources = @ \cup K],
                              [subjects[s] EXCEPT !.sources = @]}
        BY <1>3, <1>4, <1>7, <2>4 DEF EmissionRows
      <3>4. QED
        BY <3>2, <3>3
    <2>5. ASSUME NEW s \in DOMAIN subjects', s \notin DOMAIN subjects
          PROVE  subjects'[s] \in RowType
      BY <1>3, <1>4, <1>7, <2>3, <2>5 DEF EmissionRows
    <2>6. QED
      BY <2>4, <2>5
  <1>9. ScopeTyped'
    <2>1. /\ Rows'.subjects = subjects' /\ Rows'.bound = bound
          /\ Rows'.filed = filed /\ Rows'.proposal = proposal
      BY <1>2 DEF Rows
    <2>2. DOMAIN subjects \subseteq DOMAIN subjects'
      BY <1>7
    <2>3. /\ DOMAIN bound \subseteq Handles
          /\ \A h \in DOMAIN bound : bound[h] \in DOMAIN subjects'
          /\ filed \subseteq Cards \X DOMAIN subjects'
      BY <1>1, <2>2, RowsAre DEF ScopeTyped, Typed
    <2>4. \A c \in Cards : Offering(proposal[c], DOMAIN subjects')
      BY <1>1, <2>2, RowsAre DEF ScopeTyped, Typed, Offering
    <2>5. Typed(Rows)'
      BY <1>8, <2>1, <2>3, <2>4 DEF Typed, Offering, RowType
    <2>6. MergesKnown'
      BY <1>1, <1>2, <2>2 DEF ScopeTyped, MergesKnown
    <2>7. QED
      BY <2>5, <2>6 DEF ScopeTyped
  <1>10. RoutingTyped'
    <2>1. Scope'
      <3>1. v.creates \subseteq Subjects
        BY <1>3, <1>4, <1>5 DEF Admitted
      <3>2. QED
        BY <1>1, <1>2, <1>7, <3>1 DEF Scope, BoundTo
    <2>2. Homes' /\ DoneStays /\ Decisions'
      BY <1>1, <1>2, HomesFrame, DecisionsFrame
    <2>3. Chunks'
      BY <1>1, <1>2, <2>2, ChunksFrame
    <2>4. Staged'
      BY <1>1, <1>2 DEF Staged
    <2>5. QED
      BY <1>9, <2>1, <2>2, <2>3, <2>4 DEF RoutingTyped, RoutingInv
  <1>11. v.accepted \subseteq ClaimType
    <2>1. SUFFICES ASSUME NEW a \in v.accepted PROVE a \in ClaimType
      OBVIOUS
    <2>2. session[w].shown \subseteq Subjects
      BY <1>6 DEF Sessions
    <2>3. \A x : MayTell(w, x) => x \in Subjects
      BY <1>4, <1>5, <2>2 DEF MayTell
    <2>4. /\ a = [subject |-> a.subject, object |-> a.object, window |-> a.window]
          /\ a.window = K /\ MayTell(w, a.subject) /\ (a.object = NoKey \/ MayTell(w, a.object))
      BY <1>3, <1>4 DEF Admitted
    <2>5. a.window \in SUBSET Records /\ a.subject \in Subjects
          /\ a.object \in Subjects \cup {NoKey}
      BY <1>5, <2>3, <2>4
    <2>6. QED
      BY <2>4, <2>5 DEF ClaimType
  <1>12. Telling'
    <2>0. PICK new : new = [session[w] EXCEPT !.calls = @ + 1, !.emissions = @ + 1]
      OBVIOUS
    <2>1. session' = [session EXCEPT ![w] = new]
      BY <1>1, <1>2, <2>0 DEF Windows, Sessions
    <2>2. InBounds(new)'
      <3>1. /\ session[w].calls + 1 \in 0..MaxToolCalls
            /\ session[w].emissions + 1 \in 0..MaxEmissions
        BY <1>2, <1>6, WindowsAssumption DEF InBounds
      <3>2. /\ new.window = session[w].window /\ new.shown = session[w].shown
            /\ new.calls = session[w].calls + 1 /\ new.emissions = session[w].emissions + 1
        <4>1. PICK p, q : p = session[w].calls + 1 /\ q = session[w].emissions + 1
          OBVIOUS
        <4>2. new = [session[w] EXCEPT !.calls = p, !.emissions = q]
          BY <2>0, <4>1
        <4>3. QED
          BY <1>6, <4>1, <4>2 DEF Sessions
      <3>3. QED
        BY <1>2, <1>6, <1>7, <3>1, <3>2 DEF InBounds
    <2>3. claims' \subseteq ClaimType
      BY <1>1, <1>3, <1>11 DEF Telling
    <2>4. QED
      BY <1>1, <1>2, <1>7, <2>1, <2>2, <2>3, TellingChange
  <1>13. QED
    BY <1>10, <1>12

LEMMA FinalizeTyped ==
  ASSUME LoopTyped, NEW w \in Loopers, Finalize(w)
  PROVE  RoutingTyped' /\ Telling'
  <1>1. Scope /\ Homes /\ Chunks /\ Decisions /\ Windows /\ ScopeTyped /\ Staged /\ Telling
    BY DEF LoopTyped, LoopInv, RoutingTyped, RoutingInv
  <1>2. /\ session[w].pc \in {"ended", "exhausted"}
        /\ observed' = observed \cup session[w].window
        /\ held' = LeaveForReview(w) /\ session' = [session EXCEPT ![w] = NoSession]
        /\ UNCHANGED <<subjects, merged, bound, filed, ingested, proposal, parents, given,
                       chunk, desk, human, claims>>
    BY DEF Finalize
  <1>3. Scope' /\ Homes'
    BY FinalizeStep DEF LoopTyped, LoopInv
  <1>4. DoneStays
    <2>1. held \in [Cards -> Outcomes]
      BY <1>1 DEF Homes
    <2>2. \A c \in Cards : held'[c] = held[c] \/ held'[c] = "open"
      BY <1>2, <2>1 DEF LeaveForReview
    <2>3. QED
      BY <1>2, <2>2 DEF DoneStays
  <1>5. Chunks' /\ Decisions'
    BY <1>1, <1>2, <1>4, ChunksFrame, DecisionsFrame
  <1>6. ScopeTyped'
    BY <1>1, <1>2, TypedFrame
  <1>7. InBounds(session[w]) /\ InBounds(NoSession)
    BY <1>1, WindowsAssumption DEF Telling, InBounds, NoSession
  <1>8. Staged'
    BY <1>1, <1>2, <1>7 DEF Staged, InBounds
  <1>9. Telling'
    <2>1. InBounds(NoSession)'
      BY <1>2, <1>7 DEF InBounds
    <2>2. QED
      BY <1>1, <1>2, <2>1, TellingChange DEF Telling
  <1>10. QED
    BY <1>3, <1>5, <1>6, <1>8, <1>9 DEF RoutingTyped, RoutingInv

\* A row stays where it is.
LEMMA RowsStay ==
  ASSUME Scope, Homes, NEW c \in Cards, Attach(c) \/ AsNew(c)
  PROVE  DOMAIN subjects \subseteq DOMAIN subjects'
  <1>1. PICK key, action : Settle(c, action, key)
    BY DEF Attach, AsNew
  <1>2. \E s, row : subjects' = PutRow(subjects, s, row)
    BY <1>1 DEF Settle, SetRows, File, Rows
  <1>3. QED
    BY <1>2 DEF PutRow

LEMMA LoopTypedSteps ==
  ASSUME LoopTyped, [LoopNext]_loopVars
  PROVE  LoopTyped'
  <1>1. LoopInv /\ RoutingTyped /\ Telling /\ Scope /\ Homes
    BY DEF LoopTyped, LoopInv
  <1>2. LoopInv'
    <2>1. ASSUME UNCHANGED loopVars PROVE LoopInv'
      <3>1. /\ UNCHANGED <<subjects, merged, bound>> /\ UNCHANGED <<filed, ingested, held, proposal>>
            /\ UNCHANGED session
        BY <2>1 DEF loopVars, routingVars
      <3>2. Scope' /\ Homes'
        BY <1>1, <3>1, ScopeFrame, HomesFrame
      <3>3. Windows'
        BY <1>1, <3>1 DEF LoopInv, Windows
      <3>4. QED
        BY <3>2, <3>3 DEF LoopInv
    <2>2. QED
      BY <1>1, <2>1, LoopSteps
  <1>3. CASE \E w \in Loopers : \/ Open(w) \/ Look(w) \/ EmitBatch(w) \/ Finished(w)
                                \/ Exhausted(w) \/ Finalize(w) \/ LoseSession(w)
    BY <1>2, <1>3, SessionTyped, EmitTyped, FinalizeTyped DEF LoopTyped
  <1>4. CASE /\ \/ \E c \in Cards : Drop(c) \/ Attach(c) \/ AsNew(c)
                \/ MergeMatters \/ UnmergeMatters
             /\ UNCHANGED <<session, claims>>
    <2>1. RoutingNext
      BY <1>4 DEF RoutingNext
    <2>2. RoutingTyped'
      BY <1>1, <2>1, RoutingTypedSteps
    <2>3. UNCHANGED given
      BY <1>4 DEF Drop, Attach, AsNew, Settle, MergeMatters, UnmergeMatters
    <2>4. DOMAIN subjects \subseteq DOMAIN subjects'
      <3>1. CASE \E c \in Cards : Attach(c) \/ AsNew(c)
        BY <1>1, <3>1, RowsStay
      <3>2. CASE \/ \E c \in Cards : Drop(c)
                 \/ MergeMatters \/ UnmergeMatters
        BY <3>2 DEF Drop, MergeMatters, UnmergeMatters, tables
      <3>3. QED
        BY <1>4, <3>1, <3>2
    <2>5. Telling'
      BY <1>1, <1>4, <2>3, <2>4 DEF Telling, InBounds, ClaimType
    <2>6. QED
      BY <1>2, <2>2, <2>5 DEF LoopTyped
  <1>5. CASE UNCHANGED loopVars
    <2>1. UNCHANGED routingVars /\ UNCHANGED <<session, claims>>
      BY <1>5 DEF loopVars
    <2>2. RoutingTyped'
      BY <1>1, <2>1, RoutingTypedStays
    <2>3. Telling'
      BY <1>1, <2>1 DEF Telling, InBounds, ClaimType, routingVars
    <2>4. QED
      BY <1>2, <2>2, <2>3 DEF LoopTyped
  <1>6. QED
    BY <1>3, <1>4, <1>5 DEF LoopNext

\* A session has seen subjects that have rows and records that were given, and
\* its claims are about such subjects (UnifiedLoopSession, Engine._finalize_unified_chunk).
THEOREM LoopTypesCorrect == LoopSpec => [](RoutingTypeOK /\ LoopTypeOK)
  <1>1. QED
    BY LoopTypedBegins, LoopTypedSteps, LoopTypedSuffices, PTL DEF LoopSpec

=============================================================================
