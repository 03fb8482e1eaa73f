SPECIFICATION Spec
CONSTANTS
  s1 = s1
  s2 = s2
  s3 = s3
  a = a
  b = b
  w1 = w1
  w2 = w2
  None = None
  Star = Star
  Predicates = {"status", "blocked_by", "decision"}
  Kind <- MCKind
  Retractable = {"decision"}
  StatusPredicates = {"status"}
  BlockerPredicates = {"blocked_by"}
  SemanticPredicates = {"decision"}
  CompletionPredicate = "status"
  CompletedValues = {b}
  Keys = {a, b}
  Sources = {"chat"}
  CardIds = {"c1", "c2", "c3", "c4", "c5", "c6"}
  MaxInflight = 1
  Subjects = {s1, s2, s3}
  Cards <- MergeCards
  Batches <- MergeBatches
  Corrections <- MergeCorrections
  Proposals <- MergeProposals
  MergeOps <- TwoMergeOps
  Dreamers = {}
  MaxClock = 6
INVARIANT MergeNeverRefused
CHECK_DEADLOCK FALSE
