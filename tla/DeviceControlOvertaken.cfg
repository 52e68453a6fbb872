SPECIFICATION Spec
CONSTANTS
  Sessions = {s1}
  Roles = {core}
  Ops = {o1, o2}
  Pollers = {p1}
  NoSession = NoSession
  NoOp = NoOp
  MaxSockets = 1
  Faults = {"overtaken"}
  MaxFaults = 2
  UnknownDetect = FALSE
  ManualPower = FALSE
PROPERTIES
  OwnershipLasts
