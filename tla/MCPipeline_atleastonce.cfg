\* Fair behaviours with one crash; the other client stays up.
SPECIFICATION FairSpec
CONSTANTS
  NoClient = NoClient
  NoKey = NoKey
  NoCopy = NoCopy
  Job = {j1}
  Client = {c1, c2}
  Worker = {w1}
  KeyOf <- MCNoKeys
  Priority <- SamePriority
  SmallIntMax = 2
  BufferSize = 1
  ResultsSize = 1
  BatchSize = 2
  PolicyMax = 2
  Error <- OneError
  NotFound = "notFound"
  DiscardErrors = {}
  RetryableErrors = {}
  Polls <- AllJobs
  Handles <- AllJobs
  Budget <- MCBudget
  MCCrashes = 1
  MCErrors = 0
  MCShutdowns = 0
  MCCtxCancels = 0
  MCCancels = 0
PROPERTIES
  AtLeastOnce
CHECK_DEADLOCK FALSE
