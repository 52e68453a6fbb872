SPECIFICATION FairSpec
CONSTANTS
  t1 = t1  t2 = t2  t3 = t3  t4 = t4
  acc = acc  x = x  y = y
  Ids <- MCIds3
  Symbols <- MCSymbols
  AccSymbol = acc
  Owners = {o1}
  NoId = NoId
  NoOwner = NoOwner
  Cap = 2
  Results = {"COMPLETED"}
  CaptureExpiry = FALSE
  RedisFaults = FALSE
  AdminRetry = TRUE
  OldRelease = FALSE
  MaxCrashes = 1
  MaxDrift = 1
  MaxList = 3
INVARIANTS
  MaintenanceQuiet
PROPERTIES
  ImplementsQueue
  EventuallyClaimed
  AcceptanceRuns
CHECK_DEADLOCK FALSE
