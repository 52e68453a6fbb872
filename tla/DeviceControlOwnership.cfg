SPECIFICATION Spec
CONSTANTS
  Sessions = {s1, s2}
  Roles = {core}
  Ops = {o1, o2}
  Pollers = {p1}
  NoSession = NoSession
  NoOp = NoOp
  MaxSockets = 1
  Faults = {"overtaken", "late report", "lost reply", "lost list", "lost result", "hidden task", "API restart", "broker restart"}
  MaxFaults = 1
  UnknownDetect = TRUE
  ManualPower = TRUE
SYMMETRY Symmetry
INVARIANTS
  OwnedMeansPaused
  GateHolds
  DeviceExclusive
PROPERTIES
  NoEarlyRelease
