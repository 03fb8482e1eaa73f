SPECIFICATION Spec
CONSTANTS
  Nil = Nil
  k1 = k1
  k2 = k2
  k3 = k3
  c1 = c1
  c2 = c2
  c3 = c3
  c4 = c4
  c5 = c5
  handle = handle
  w1 = w1
  w2 = w2
  Subjects = {k1, k2, k3}
  Records = {1, 2}
  Cards <- AllCards
  Cites <- AllCites
  Thread <- AllThreads
  Marks <- AllMarks
  Hint <- AllHints
  OwnKey <- AllOwnKeys
  Mailed = {c4}
  Replies <- CardReplies
  NoKey = Nil
  MinShared = 2
  SharePercent = 50
  Workers = {1, 2}
  Clerks = {1, 2}
  MaxHuman = 1
  Loopers = {1}
  WindowCard <- WindowCards
  DeclaredKey <- DeclaredKeys
  Batches <- IntentBatches
  MaxToolCalls = 3
  MaxEmissions = 2
  Nodes = {1, 2, 3, 4}
  MinCluster = 2
  MaxNews = 1
  MaxMishaps = 1
  Scenes = {"routing", "loop", "mail", "accounts", "service", "staging", "themes", "clusters", "store"}
  Runtimes = {1, 2}
  Loop = 1
  InitialWindow = 1
  Unparsed = {2}
  MaxUid = 2
  MaxValidity = 2
  MaxResets = 1
  MaxFailures = 1
  Accounts = {1}
  Command = 1
  Nobody = Nil
  Editors = {2}
  MaxEdits = 2
  MaxRestarts = 1
  MaxEvents = 2
  BatchSize = 1
  MaxAttempts = 2
  Messages = {1, 2}
  Matters <- StagedMatters
  Alerting = {2}
  Extractors = {1, 2}
  MaxTime = 1
  Roots <- ThemeRoots
  Drafts <- ThemeDrafts
  Mode = "auto"
  Passes = {1, 2}
  NoParent = Nil
  MaxPeople = 2
  Threads = {1, 2}
  MaxNesting = 2
  MaxCalls = 2
  MaxCount = 3
INVARIANTS
  TypeOK
  OneHome
  DecidedOnce
  NoMailLost
  MarkedWasReceived
  OneOpenProposal
  OneStrongCore
PROPERTIES
  RoutedToLiving
  NoCardLost
  ClosedWorld
  NoWindowAbandoned
  EventsDeliveredWhenServed
  MailComesInWhenServed
  NothingTakenBack
  TransactionsAreAtomic
CHECK_DEADLOCK FALSE
