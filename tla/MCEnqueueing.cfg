\* Two callers, three requests, one statement that fails.
SPECIFICATION FairSpec
CONSTANTS
  Caller = {c1, c2}
  Key = {"k", "l"}
  NoKey = NoKey
  BadParams = BadParams
  Makes <- MCMakes
  c1 = c1
  c2 = c2
  MaxRequests = 3
  MaxErrors = 1
  MaxEnds = 1
INVARIANTS
  UniqueLiveKey
  AnswersHold
  TxAllOrNothing
  PartialBatch
  RefusedForTwin
PROPERTIES
  RequestEnds
CHECK_DEADLOCK FALSE
