\* Two processes create their clients at once; every failure once.
SPECIFICATION Spec
CONSTANTS
  Client = {c1, c2}
  Conn = {k1, k2}
  NoSession = NoSession
  LastVersion = 3
  AutoMigrate <- Everybody
  Budget <- EachOnce
INVARIANTS
  AppliedInOrder
  OpenHasSchema
  OneMigrator
  LeakExplained
CHECK_DEADLOCK FALSE
