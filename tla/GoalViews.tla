------------------------------ MODULE GoalViews ------------------------------
(***************************************************************************)
(* What is read off the goal graph: the wall with its rollups, the tree    *)
(* of a goal, the gathered view of a theme, and the brief.  They are pure  *)
(* functions of the tables; what a status or a blocker says is a constant, *)
(* and a gathered goal is one of this scope.                               *)
(***************************************************************************)
EXTENDS GoalGraph

CONSTANTS
  Layer,       \* 2 for themes, 1 for the matters they gather
  Gathers,     \* the <<theme, matter>> pairs of the gathers predicate
  Done,        \* the subjects whose status is a completed one
  Blocked,     \* the subjects with a blocker
  Mine,        \* the subjects that name the reader
  ReadUpTo,    \* the read watermarks; None for what was never opened
  Window       \* the window of a brief

\* gather_rejection: what may be gathered, on the subjects both ends resolve to.
GatherAllowed(edges, theme, matter) ==
  LET from == Canonical(edges, theme)
      to == Canonical(edges, matter)
  IN  from # to /\ Layer[from] >= 2 /\ Layer[from] > Layer[to]

ASSUME ViewsAssumption ==
  /\ IsFiniteSet(Subjects)
  /\ Layer \in [Subjects -> 1..2]
  /\ Gathers \subseteq Subjects \X Subjects
  /\ \A g \in Gathers : GatherAllowed(NoEdges, g[1], g[2])
  /\ Done \cup Blocked \cup Mine \subseteq Subjects
  /\ ReadUpTo \in [Subjects -> Nat \cup {None}]
  /\ Window \in [start : Nat, end : Nat]

-----------------------------------------------------------------------------
\* project_goal_graph: its nodes, the parent of a node, and its children.
Living == Subjects \ DOMAIN merges

\* Slip: the parent of a goal is taken as it was written.
ParentsAsWritten ==
  [s \in {x \in Living : Parent(votes, merges, x) # None} |->
     (CHOOSE a \in Ballot(votes, merges, s, "part_of") :
        a.op = "ASSERT" /\ End2(merges, a) = Parent(votes, merges, s)).key]

Parents == [s \in {x \in Living : Parent(votes, merges, x) # None} |->
              Parent(votes, merges, s)]

Children(par, s) == {c \in DOMAIN par : par[c] = s}

\* The walk up from s stands at Up(par, s)[n] after n steps.
Up(par, s) ==
  LET up[n \in 0..Cardinality(Subjects)] ==
        IF n = 0 THEN s
        ELSE IF up[n - 1] \in DOMAIN par THEN par[up[n - 1]] ELSE up[n - 1]
  IN  up

\* root_for: the walk stops without a parent, or where it has been before.
RootFor(par, s) ==
  LET up == Up(par, s)
      stops(n) == up[n] \notin DOMAIN par \/ up[n] \in {up[m] : m \in 0..(n - 1)}
  IN  up[Min({n \in DOMAIN up : stops(n)})]

\* matter_graph: its own walk stops one step before it has been there.
ParentChain(par, s) ==
  LET up == Up(par, s)
      stops(n) == up[n] \notin DOMAIN par \/ par[up[n]] \in {up[m] : m \in 0..n}
  IN  [n \in 0..Min({m \in DOMAIN up : stops(m)}) |-> up[n]]

\* descendants: the walk down, without its start.
Descendants(par, s) ==
  LET down[n \in 0..Cardinality(Subjects)] ==
        IF n = 0 THEN Children(par, s)
        ELSE down[n - 1] \cup UNION {Children(par, c) : c \in down[n - 1]}
  IN  down[Cardinality(Subjects)] \ {s}

Subtree(par, s) == {s} \cup Descendants(par, s)

\* rollup
Rollup(par, s) ==
  [total |-> Cardinality(Descendants(par, s)),
   completed |-> Cardinality(Descendants(par, s) \cap Done),
   blocked |-> Descendants(par, s) \cap Blocked,
   latest |-> Max({0} \cup
     {a.rec : a \in {b \in votes : End1(merges, b) \in Subtree(par, s)}})]

\* tree: a child met before is shown without its own children.
Tree(par, s) ==
  {[node |-> c, under |-> par[c], truncated |-> c = s] :
     c \in {d \in DOMAIN par : par[d] \in Subtree(par, s)}}

\* matter_graph
MatterGraph(par, s) ==
  LET chain == ParentChain(par, Canonical(merges, s))
      top == chain[Max(DOMAIN chain)]
  IN  [root |-> top, chain |-> chain, children |-> Children(par, Canonical(merges, s)),
       tree |-> Tree(par, top), rollup |-> Rollup(par, top)]

-----------------------------------------------------------------------------
\* gather_view: one member for every reference, as it was written.
Members(s) == {g[2] : g \in {h \in Gathers : Canonical(merges, h[1]) = s}}
GatheredTotal(par, s) ==
  MapThenSumSet(LAMBDA m : 1 + Rollup(par, Canonical(merges, m)).total, Members(s))
GatheredBlocked(par, s) ==
  UNION {Subtree(par, Canonical(merges, m)) \cap Blocked : m \in Members(s)}

\* matters: the rows of the wall.
OnWall(par, s) == Layer[s] >= 2 \/ s \notin DOMAIN par
Wall(par) == {s \in Living : OnWall(par, s)}
WallRow(par, s) ==
  [rollup |-> Rollup(par, s),
   gathered |-> IF Layer[s] >= 2 THEN GatheredTotal(par, s) ELSE 0,
   blocked |-> IF Layer[s] >= 2 THEN GatheredBlocked(par, s) ELSE {}]

-----------------------------------------------------------------------------
\* brief: the row a goal is reported under.
Home(par, s) == IF Layer[s] >= 2 THEN s ELSE RootFor(par, s)

\* brief_assertions, and the entries they make.
Activity == {a \in votes : Window.start <= a.rec /\ a.rec < Window.end}
Stirred == {End1(merges, a) : a \in Activity}
Entries(par) == {Home(par, s) : s \in Stirred} \cap Wall(par)

\* The assertions an entry counts as unseen.
Unread(par, r) ==
  {a \in votes :
     LET s == End1(merges, a)
     IN  /\ s \in Subtree(par, r) /\ a.rec < Window.end
         /\ IF ReadUpTo[s] = None THEN Window.start <= a.rec ELSE a.rec > ReadUpTo[s]}

\* The rows that ask for the reader; a row that is not on the wall raises.
NeedsMe(par) == {Home(par, s) : s \in (Living \cap Mine) \ Done}
BriefFails(par) == ~ (NeedsMe(par) \subseteq Wall(par))

-----------------------------------------------------------------------------
\* The goals at or above s, and whether the walk up ends in a cycle.
Above(par, s) == {Up(par, s)[n] : n \in DOMAIN Up(par, s)}
Circling(par, s) == RootFor(par, s) \in DOMAIN par

\* The rows of the wall that show s are its root and the themes above it.
OnItsRows(par, s) ==
  {r \in Wall(par) : s \in Subtree(par, r)} =
    {r \in Above(par, s) : Layer[r] >= 2} \cup
    (IF Circling(par, s) THEN {} ELSE {RootFor(par, s)})

\* The page of s shows the tree of the same root, whole.
OnItsPage(par, s) ==
  LET page == MatterGraph(par, s)
  IN  /\ s = page.root \/ s \in {row.node : row \in page.tree}
      /\ ~ Circling(par, s) =>
           page.root = RootFor(par, s) /\ \A row \in page.tree : ~ row.truncated

\* What happened to s is counted under its own entry of the brief.
InItsEntry(par, s) ==
  Home(par, s) \in Wall(par) /\ ReadUpTo[s] = None =>
    \A a \in Activity : End1(merges, a) = s =>
      /\ Home(par, s) \in Entries(par)
      /\ a \in Unread(par, Home(par, s))
      /\ a.rec <= WallRow(par, Home(par, s)).rollup.latest

\* A theme counts the goals it gathers once, but for merged and nested members.
GatheredOnce(par, s) ==
  LET real == {Canonical(merges, m) : m \in Members(s)}
  IN  /\ Cardinality(real) = Cardinality(Members(s))
      /\ \A m \in real : real \cap Descendants(par, m) = {}
      => WallRow(par, s).gathered = Cardinality(UNION {Subtree(par, m) : m \in real})

\* Every goal is found where the wall, its page and the brief look for it: the
\* walk up and the walk down agree, whatever was merged.  Goals that lead into a
\* part_of cycle are shown by no row but that of a theme, and they alone make
\* the brief fail (GoalGraphProjection, Engine.matters, Engine.brief,
\* Engine.gather_view).
ShownWhereItBelongs ==
  \A par \in {Parents} :
    /\ \A s \in Living :
         OnItsRows(par, s) /\ OnItsPage(par, s) /\ InItsEntry(par, s)
    /\ \A s \in Wall(par) : Layer[s] >= 2 => GatheredOnce(par, s)
    /\ BriefFails(par) => \E s \in Mine : Circling(par, s)
=============================================================================
