\* A job with up to three attempts; delays of 4 and 5 ticks, the latter cut, with a jitter of 1.
SPECIFICATION Spec
CONSTANTS
  PolicyMax = 3
  Initial = 4
  Exponent = 2
  MaxBackoff = 5
  Delays = {0, 3}
  MaxEntries = 2
  Budget <- EachOnce
INVARIANTS
  LogAgrees
  LogExplained
PROPERTIES
  WaitsAsDue
CHECK_DEADLOCK FALSE
