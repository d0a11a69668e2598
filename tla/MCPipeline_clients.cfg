\* Two clients compete for two jobs; a crash, a lost statement, a cancellation.
SPECIFICATION Spec
CONSTANTS
  NoClient = NoClient
  NoKey = NoKey
  NoCopy = NoCopy
  Job = {j1, j2}
  Client = {c1, c2}
  Worker = {w1}
  KeyOf <- MCNoKeys
  Priority <- SamePriority
  SmallIntMax = 2
  BufferSize = 2
  ResultsSize = 1
  BatchSize = 2
  PolicyMax = 2
  Error <- OneError
  NotFound = "notFound"
  DiscardErrors = {}
  RetryableErrors = {}
  Polls <- AllJobs
  Handles <- AllJobs
  Budget <- MCBudget
  MCCrashes = 1
  MCErrors = 1
  MCShutdowns = 0
  MCCtxCancels = 0
  MCCancels = 1
SYMMETRY Symmetry
INVARIANTS
  ExclusiveDelivery
  CopyIsCurrent
  AttemptsBounded
  ErrorHistory
PROPERTIES
  SettledForGood
  ImplementsDelivery
CHECK_DEADLOCK FALSE
