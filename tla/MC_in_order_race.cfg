SPECIFICATION Spec
CONSTANTS
  Hosts = {h1, h2}
  Blocking = {}
  Drivers = {d1, d2}
  Queues = {q1}
  InOrder = {q1}
  Owners <- AllOwners
  Kinds = {"task"}
  Explicit = {TRUE}
  UserStatuses <- Success
  OrderlyFailure = FALSE
  SingleBarrier = FALSE
  MaxEvents = 2
  MaxUser = 0
  MaxWait = 0
  None = None
INVARIANTS DependencyOrder
CHECK_DEADLOCK FALSE
