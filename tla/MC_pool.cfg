SPECIFICATION FairSpec
CONSTANTS
  NumThreads = 2
  Devices = {"root", "first", "second"}
  SubDevices = {"first", "second"}
  core_start <- Start
  core_count <- Count
  MaxCommands = 3
  MaxGroups = 5
  GroupCounts = {0, 5}
  MaxWGs = 2
  MinWGs = 1
  UINT = 16
  Drained = TRUE
  None = None
INVARIANTS KernelsAlive  IInv
PROPERTIES CommandsDone PoolStops ImplementsPool
CHECK_DEADLOCK FALSE
