\* One client, three jobs of which two share a key: full channels, lists of errors, a kind without a handler, a shutdown, a cancellation.
SPECIFICATION Spec
CONSTANTS
  NoClient = NoClient
  NoKey = NoKey
  NoCopy = NoCopy
  Job = {j1, j2, j3}
  Client = {c1}
  Worker = {w1}
  KeyOf <- MCSharedKey
  Priority <- OneUrgent
  SmallIntMax = 2
  BufferSize = 2
  ResultsSize = 1
  BatchSize = 2
  PolicyMax = 2
  Error <- MCError
  NotFound = "notFound"
  DiscardErrors <- MCDiscard
  RetryableErrors <- MCRetryable
  Polls <- AllJobs
  Handles <- OneUnhandled
  Budget <- MCBudget
  MCCrashes = 0
  MCErrors = 0
  MCShutdowns = 1
  MCCtxCancels = 0
  MCCancels = 1
INVARIANTS
  TypeOK
  SendNeverBlocks
  NoSilentLoss
  UniqueLiveKey
CHECK_DEADLOCK FALSE
