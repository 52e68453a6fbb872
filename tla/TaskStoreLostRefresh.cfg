SPECIFICATION Spec
CONSTANTS
  t1 = t1  t2 = t2  t3 = t3  t4 = t4
  acc = acc  x = x  y = y
  Ids <- MCIds2
  Symbols <- MCSymbols
  AccSymbol = acc
  Owners = {}
  NoId = NoId
  NoOwner = NoOwner
  Cap = 2
  Results = {"COMPLETED"}
  CaptureExpiry = TRUE
  RedisFaults = FALSE
  AdminRetry = FALSE
  OldRelease = FALSE
  MaxCrashes = 1
  MaxDrift = 1
  MaxList = 3
PROPERTIES
  QueuedUntilClaimed
CHECK_DEADLOCK FALSE
