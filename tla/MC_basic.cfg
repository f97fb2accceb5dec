SPECIFICATION BasicSpec
CONSTANTS
  Hosts = {h1, h2}
  Blocking = {}
  Drivers = {}
  Queues = {q1}
  InOrder = {}
  Owners <- AllOwners
  Kinds = {"task"}
  Explicit = {TRUE}
  UserStatuses <- Either
  OrderlyFailure = TRUE
  SingleBarrier = FALSE
  MaxEvents = 4
  MaxUser = 1
  MaxWait = 1
  None = None
INVARIANTS BasicPlaces
PROPERTIES ImplementsGraph
CHECK_DEADLOCK FALSE
