\* Every kind of step; a rerun, a cancellation, a crash, a failing statement.
SPECIFICATION FairSpec
CONSTANTS
  StepId <- FullSteps
  Plan <- FullPlan
  Registered <- FullSteps
  Emits = {"b", "k"}
  MaxExec = 2
  Rerunner = {r1}
  Budget <- MCBudget
  MCCancels = 1
  MCCrashes = 1
  MCErrors = 1
  MaxEvents = 1
INVARIANTS
  SingleExecution
  DurablePrefix
  ReplayedOnce
  MapOutputKept
PROPERTIES
  RunEnds
CHECK_DEADLOCK FALSE
