\* One goroutine, as in the examples, and nothing that goes wrong.
SPECIFICATION Spec
CONSTANTS
  main = main
  signal = signal
  Caller = {main}
  Threshold = 2
  Budget <- Never
INVARIANT CloseIsSafe
CHECK_DEADLOCK FALSE
