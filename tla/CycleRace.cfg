SPECIFICATION Spec
CONSTANTS
  g1 = g1
  g2 = g2
  g3 = g3
  None = None
  Star = Star
  Subjects = {g1, g2, g3}
  Predicates = {"part_of", "spawned_from"}
  Kind <- MCKind
  Retractable = {}
  HumanWeight = 2
  Sources = {"x", "y", "z", "theme"}
  IdRank <- MCRank
  Edits <- RaceEdits
  Emissions = {}
  Themes = {}
  MergePairs = {}
  MaxClock = 3
  Layer <- ThemeLayer
  Gathers <- ThemeGathers
  Done = {g1}
  Blocked = {g2}
  Mine = {g1, g2}
  ReadUpTo <- WhatWasRead
  Window <- BriefWindow
  MaxInflight = 2
PROPERTIES
  AdmissionKeepsAcyclic
CHECK_DEADLOCK FALSE
