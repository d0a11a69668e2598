\* One process, workflows of up to three steps of every kind.
SPECIFICATION Spec
CONSTANTS
  Client = {c1}
  Call <- AllCall
  AutoId <- MCAutoId
  JobKind = {"email"}
  MaxSteps = 3
  MaxRuns = 1
INVARIANTS
  OwnFunctions
  RefusesOnlyReduce
  CompletedCalledAll
  KeysCoverPlan
  
CHECK_DEADLOCK FALSE
