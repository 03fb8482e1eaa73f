----------------------------- MODULE MCGoalGraph -----------------------------
(***************************************************************************)
(* Small scopes for TLC: three goals, human edits that place a goal, move  *)
(* it and take it back, loop emissions that vote against them, and a theme *)
(* pass that gathers what has no parent.                                   *)
(***************************************************************************)
EXTENDS ElectionLoop, GoalViews

CONSTANTS g1, g2, g3

MCKind == [p \in {"part_of", "spawned_from"} |-> "SINGLE"]
MCRank == [k \in {g1, g2, g3, Star} |->
             CASE k = g1 -> 1 [] k = g2 -> 2 [] k = g3 -> 3 [] k = Star -> 0]

Edge(s, p, op, k, vf, src) ==
  [subj |-> s, pred |-> p, op |-> op, key |-> k, vf |-> vf, src |-> src]
Says(s, k, vf, src) == Edge(s, "part_of", "ASSERT", k, vf, src)
Alone(E) == {<<e, e>> : e \in E}

TreeEdits ==
  {Says(g1, g2, 1, "x"), Says(g2, g1, 1, "x"),
   Edge(g1, "part_of", "RETRACT", Star, 2, "x"),
   Edge(g2, "spawned_from", "ASSERT", g3, 1, "x")}
TreeEmissions ==
  Alone({Says(g3, g1, 1, "y"), Edge(g1, "part_of", "RETRACT", g2, 2, "y")}) \cup
  {<<Says(g1, g3, 1, "y"), Says(g1, g3, 2, "z")>>,
   <<Says(g1, g3, 1, "y"), Says(g1, g2, 1, "z")>>}
TreeMerges == {<<g2, g1>>}
TreeThemes == {[root |-> g3, members |-> {g1, g2}]}

\* A theme that was told two goals belong to it; g1 was opened, g2 asks for the
\* reader.
ThemeLayer == [s \in {g1, g2, g3} |-> IF s = g3 THEN 2 ELSE 1]
ThemeGathers == {<<g3, g1>>, <<g3, g2>>}
WhatWasRead == [s \in {g1, g2, g3} |-> IF s = g1 THEN 2 ELSE None]
BriefWindow == [start |-> 2, end |-> 6]

RaceEdits == {Says(g1, g2, 1, "x"), Says(g2, g1, 1, "x")}
=============================================================================
