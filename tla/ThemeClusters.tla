--------------------------- MODULE ThemeClusters ---------------------------
(***************************************************************************)
(* The deterministic clustering of root matters, cluster_themes: a union   *)
(* over the strong bonds, then over the weak ones.                         *)
(*                                                                         *)
(* Two matters bond strongly when they share a handle or two title words,  *)
(* weakly when all they share is one distinctive word; a conversation that *)
(* both are cited from is no bond.  Any graph of bonds comes of some       *)
(* titles and handles, so the bonds are free.                              *)
(***************************************************************************)
EXTENDS Integers, FiniteSets

CONSTANTS
  Nodes,       \* natural numbers: the candidates in the order of their keys
  MinCluster   \* theme_min_cluster

VARIABLES
  bond,        \* [pairs -> "none", "weak" or "strong"]
  root,        \* [nodes -> the least node of its component so far]
  strong,      \* the roots of components joined over a strong bond
  todo         \* the pairs still to be gone through

ASSUME NodesAssumption == Nodes \subseteq Nat /\ IsFiniteSet(Nodes)

clusterVars == <<bond, root, strong, todo>>

Pairs == {p \in Nodes \X Nodes : p[1] < p[2]}
Bonds(kind) == {p \in Pairs : bond[p] = kind}

ClusterTypeOK ==
  /\ bond \in [Pairs -> {"none", "weak", "strong"}]
  /\ root \in [Nodes -> Nodes] /\ \A n \in Nodes : root[n] <= n /\ root[root[n]] = root[n]
  /\ strong \subseteq Nodes /\ todo \subseteq Pairs

ClusterInit ==
  /\ bond \in [Pairs -> {"none", "weak", "strong"}]
  /\ root = [n \in Nodes |-> n]
  /\ strong = {}
  /\ todo = {p \in Pairs : bond[p] # "none"}

\* The first pair of the tier; weak pairs wait for the strong ones.
FirstPair(p) ==
  /\ p \in todo
  /\ bond[p] = "weak" => todo \cap Bonds("strong") = {}
  /\ \A q \in todo :
       bond[q] = bond[p] /\ q # p => p[1] < q[1] \/ (p[1] = q[1] /\ p[2] < q[2])

\* Two components become one under the lesser root, strong when a part was or
\* the bond is.
Union(p) ==
  LET l == root[p[1]]
      r == root[p[2]]
      winner == IF l < r THEN l ELSE r
      loser == IF l < r THEN r ELSE l
      firm == bond[p] = "strong" \/ {l, r} \cap strong # {}
  IN /\ root' = [n \in Nodes |-> IF root[n] = loser THEN winner ELSE root[n]]
     /\ strong' = (strong \ {loser}) \cup (IF firm THEN {winner} ELSE {})

\* Slip: every bond joins.
KeptNever(p) == FALSE

\* A weak bond joins no two components that are strong both.
Kept(p) ==
  bond[p] = "weak" /\ root[p[1]] # root[p[2]] /\ {root[p[1]], root[p[2]]} \subseteq strong

Join ==
  /\ \E p \in todo :
       /\ FirstPair(p)
       /\ IF Kept(p) THEN UNCHANGED <<root, strong>> ELSE Union(p)
       /\ todo' = todo \ {p}
  /\ UNCHANGED bond

ClusterSpec == ClusterInit /\ [][Join]_clusterVars

\* The components that are large enough are the clusters.
Component(n) == {x \in Nodes : root[x] = root[n]}
Clusters == {C \in {Component(n) : n \in Nodes} : Cardinality(C) >= MinCluster}

-----------------------------------------------------------------------------

\* The nodes connected with n over strong bonds.
StrongCore(n) ==
  LET closed(S) == \A p \in Bonds("strong") : p[1] \in S <=> p[2] \in S
  IN {x \in Nodes : \A S \in SUBSET Nodes : n \in S /\ closed(S) => x \in S}

\* When all pairs were gone through, the components are what SPEC 28.1 asks
\* for, whatever the graph: strongly connected matters are together, no
\* component holds two groups of them, and a matter that belongs to none is
\* left apart only from what it shares no word with (cluster_themes).
OneStrongCore ==
  todo = {} =>
    /\ \A n, x \in Nodes : x \in StrongCore(n) => Component(x) = Component(n)
    /\ \A n, x \in Nodes :
         /\ Component(n) = Component(x)
         /\ Cardinality(StrongCore(n)) > 1 /\ Cardinality(StrongCore(x)) > 1
         => StrongCore(n) = StrongCore(x)
    /\ \A p \in Bonds("weak") :
         \/ Component(p[1]) = Component(p[2])
         \/ \A n \in {p[1], p[2]} : \E x \in Component(n) : Cardinality(StrongCore(x)) > 1
=============================================================================
