\* Fair behaviours of a client with two workers, which may be shut down or have its context cancelled.
SPECIFICATION FairSpec
CONSTANTS
  NoClient = NoClient
  NoKey = NoKey
  NoCopy = NoCopy
  Job = {j1, j2}
  Client = {c1}
  Worker = {w1, w2}
  KeyOf <- MCNoKeys
  Priority <- SamePriority
  SmallIntMax = 2
  BufferSize = 1
  ResultsSize = 1
  BatchSize = 2
  PolicyMax = 2
  Error <- OneError
  NotFound = "notFound"
  DiscardErrors = {}
  RetryableErrors = {}
  Polls <- AllJobs
  Handles <- AllJobs
  Budget <- MCBudget
  MCCrashes = 0
  MCErrors = 0
  MCShutdowns = 1
  MCCtxCancels = 1
  MCCancels = 0
PROPERTIES
  EventuallySettled
  ShutdownCompletes
CHECK_DEADLOCK FALSE
