SPECIFICATION Spec
CONSTANTS
  t1 = t1  t2 = t2  t3 = t3  t4 = t4
  acc = acc  x = x  y = y
  Ids <- MCIds2
  Symbols <- MCSymbols
  AccSymbol = acc
  Owners = {o1}
  NoId = NoId
  NoOwner = NoOwner
  Cap = 1
  Results = {"COMPLETED"}
  CaptureExpiry = FALSE
  RedisFaults = FALSE
  AdminRetry = FALSE
  OldRelease = FALSE
  MaxCrashes = 1
  MaxDrift = 1
  MaxList = 3
INVARIANTS
  CapRespected
CHECK_DEADLOCK FALSE
