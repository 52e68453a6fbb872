SPECIFICATION FairSpec
CONSTANTS
  Sessions = {s1}
  Roles = {core, fund}
  Ops = {o1, o2}
  Pollers = {p1}
  NoSession = NoSession
  NoOp = NoOp
  MaxSockets = 0
  Faults = {}
  MaxFaults = 2
  UnknownDetect = FALSE
  ManualPower = FALSE
PROPERTIES
  OperationLeaseEnds
