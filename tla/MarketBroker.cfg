SPECIFICATION BrokerSpec
CONSTANTS
  Clients = {c1, c2}
  Codes = {A}
  Readers = {r}
  NoCode = NoCode
  Batch = TRUE
  MaxSequence = 2
  MaxLocks = 2
  MaxQueue = 2
  MaxRequests = 3
  MaxFlips = 1
INVARIANTS OnItsWay SingleRefresh ClosedIsRead
PROPERTIES NeverOlder
SYMMETRY ClientSymmetry
CONSTRAINT FewChanges
CHECK_DEADLOCK FALSE
