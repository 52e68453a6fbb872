SPECIFICATION ServicesSpec
CONSTANTS
  Parts = {"store", "loop", "pool", "memory"}
  t1 = t1  t2 = t2  t3 = t3  t4 = t4
  acc = acc  x = x  y = y
  Ids <- MCIds4
  Symbols <- MCSymbols3
  AccSymbol = acc
  Owners = {}
  NoId = NoId
  NoOwner = NoOwner
  Cap = 3
  Results = {"PARTIAL"}
  CaptureExpiry = FALSE
  RedisFaults = FALSE
  AdminRetry = TRUE
  OldRelease = FALSE
  MaxCrashes = 1
  MaxDrift = 1
  MaxList = 3
  Requests = {q1, q2, q3}
  MaxQueue = 2
  Leases = TRUE
  Faults = TRUE
  Conns = {k1, k2, k3}
  Refills = {f1, f2}
  NoConn = NoConn
  MaxSessions = 2
  MaxGeneration = 4
  MaxIssued = 5
  MemSymbols = {s1, s2}
  MemAcceptances = {a1}
  MemOwners = {d1, d2}
  MemPendingCap = 2
  MemNone = MemNone
  WlGroups = {1, 2}
  WlPrimary = 1
  WlSymbols = {1, 2, 3}
  WlLimit = 2
  MuUsers = {u1}
  MuTokens = {k1, k2}
  MuHandlers = {h1, h2}
  MuAttempts = 2
  MuMaxChanges = 1
  MuNone = MuNone
  FfSymbols = {w}
  FfWatched = {w}
  FfFields = {p, q}
  FfGaps = {{}, {q}}
  FfMinute = 2
  FfFresh = 1
  FfTtl = 1
  FfDay = 4
  FfOpenTicks = {1, 2, 3}
  FfEnd = 4
  FfNone = FfNone
  RsMinutes = {1}
  RsRules = {r1}
  RsPollers = {p1, p2}
  RsSlots = {s1}
  RsNone = RsNone
  EvTasks = {"followed", "other"}
  EvFollowed <- OnePage
  EvRetention = 2
  EvLimit = 2
  EvMaxId = 6
  CatNode <- FiveCodes
  CatNodes <- TwoCategories
  CatTolerant = {"lof"}
  CatDropped = {2}
  CatPage = 2
  CatMinimum = 2
  CatTenths = 5
  CatKept = 2
  CatStale = 1
  CatMaxChanges = 2
  CatMaxVersions = 3
  AdHandlers = {h1, h2}
  AdPasswords = {w1, w2}
  AdFirst = w1
  AdLimit = 2
  AdWindow = 2
  AdTtl = 2
  AdCap = 1
  AdEnd = 3
INVARIANTS
  RunningHasRunner
  NoLostWakeup
  SingleUse
  ReadyIsCurrent
PROPERTIES
  PromptClaim
  PolledClaim
  ClosedInTheEnd
  MemKeepsOrder
CHECK_DEADLOCK FALSE
