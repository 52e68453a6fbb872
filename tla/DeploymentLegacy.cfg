CONSTANTS
  Roles = {core, interactive}
  Owners = {o1, o2}
  MaxFaults = 0
  Legacy = TRUE
SPECIFICATION Spec
INVARIANT JournalReadable
CHECK_DEADLOCK FALSE
