SPECIFICATION Spec
CONSTANTS
  g1 = g1
  g2 = g2
  g3 = g3
  None = None
  Star = Star
  Subjects = {g1, g2, g3}
  Predicates = {"part_of", "spawned_from"}
  Kind <- MCKind
  Retractable = {}
  HumanWeight = 2
  Sources = {"x", "y", "z", "theme"}
  IdRank <- MCRank
  Edits <- TreeEdits
  Emissions <- TreeEmissions
  Themes <- TreeThemes
  MergePairs <- TreeMerges
  MaxClock = 5
  Layer <- ThemeLayer
  Gathers <- ThemeGathers
  Done = {g1}
  Blocked = {g2}
  Mine = {g1, g2}
  ReadUpTo <- WhatWasRead
  Window <- BriefWindow
  MaxInflight = 2
INVARIANTS
  TypeOK
  HumanOutweighed
  ElectionIsTheWalk
  ShownWhereItBelongs
PROPERTIES
  ElectionMovesForCause
  OutvotedHumanNoticed
  CyclesHaveACause
CHECK_DEADLOCK FALSE
