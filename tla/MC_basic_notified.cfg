SPECIFICATION BasicFairSpec
CONSTANTS
  Hosts = {h1}
  Blocking = {}
  Drivers = {}
  Queues = {q1}
  InOrder = {}
  Owners <- AllOwners
  Kinds = {"task"}
  Explicit = {TRUE}
  UserStatuses <- Success
  OrderlyFailure = FALSE
  SingleBarrier = FALSE
  MaxEvents = 2
  MaxUser = 1
  MaxWait = 1
  None = None
PROPERTIES CommandsFinish
CHECK_DEADLOCK FALSE
