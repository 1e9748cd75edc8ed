CONSTANTS
  Clients = {a, b}
  Mains = {m}
  Cpus = 2
  SubCounts = {1, 2, 3}
  MaxUnits = 1
  Room = 1
SPECIFICATION Spec
INVARIANTS SlotFilled WatchedOnce
CHECK_DEADLOCK FALSE
PROPERTIES ImplementsService Served
