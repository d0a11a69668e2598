\* A cancelled job comes back.
SPECIFICATION Spec
CONSTANTS
  NoClient = NoClient
  NoKey = NoKey
  NoCopy = NoCopy
  Job = {j1}
  Client = {c1}
  Worker = {w1}
  KeyOf <- MCNoKeys
  Priority <- SamePriority
  SmallIntMax = 2
  BufferSize = 1
  ResultsSize = 1
  BatchSize = 2
  PolicyMax = 2
  Error <- OneError
  NotFound = "notFound"
  DiscardErrors = {}
  RetryableErrors = {}
  Polls <- AllJobs
  Handles <- AllJobs
  Budget <- MCBudget
  MCCrashes = 0
  MCErrors = 0
  MCShutdowns = 0
  MCCtxCancels = 0
  MCCancels = 1
PROPERTIES
  CancelledStaysEnded
CHECK_DEADLOCK FALSE
