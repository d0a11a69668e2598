\* A client that two goroutines start, shut down and close.
SPECIFICATION FairSpec
CONSTANTS
  main = main
  signal = signal
  Caller = {main, signal}
  Threshold = 2
  Budget <- Few
INVARIANTS
  OnePipeline
  DoneIsDeregistered
  WorkerIsListed
PROPERTIES
  StopReturns
  DeadIsUnlisted
CHECK_DEADLOCK FALSE
