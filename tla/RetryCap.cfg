SPECIFICATION Spec
CONSTANTS
  m1 = m1
  m2 = m2
  c1 = c1
  c2 = c2
  th = th
  r1 = r1
  r2 = r2
  r3 = r3
  i1 = i1
  None = None
  Kind <- MCKind
  Content <- MCContent
  Container <- MCContainer
  Tasks = {m1}
  Records = {r1, r2, r3}
  Answers = {"x"}
  Flushers = {"sched", "caller"}
  Scheduler = "sched"
  MaxAttempts = 2
  MaxCrashes = 0
PROPERTY FailedForGood
CHECK_DEADLOCK FALSE
