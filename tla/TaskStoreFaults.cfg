SPECIFICATION Spec
CONSTANTS
  t1 = t1  t2 = t2  t3 = t3  t4 = t4
  acc = acc  x = x  y = y
  Ids <- MCIds2
  Symbols <- MCSymbols
  AccSymbol = acc
  Owners = {o1}
  NoId = NoId
  NoOwner = NoOwner
  Cap = 2
  Results = {"COMPLETED", "MARKET_SNAPSHOT"}
  CaptureExpiry = TRUE
  RedisFaults = TRUE
  AdminRetry = FALSE
  OldRelease = FALSE
  MaxCrashes = 1
  MaxDrift = 1
  MaxList = 3
SYMMETRY IdSymmetry
INVARIANTS
  LeaseExclusive
  QueuedIsListed
  OneTaskPerSymbol
  SymbolIndexSound
  OrphansAreInert
CHECK_DEADLOCK FALSE
