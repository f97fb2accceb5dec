SPECIFICATION Spec
CONSTANTS
  Hosts = {h1, h2}
  Blocking = {}
  Drivers = {d1, d2}
  Queues = {q1}
  InOrder = {}
  Owners <- AllOwners
  Kinds = {"task", "marker", "barrier", "waitBarrier"}
  Explicit = {TRUE, FALSE}
  UserStatuses <- Success
  OrderlyFailure = FALSE
  SingleBarrier = TRUE
  MaxEvents = 3
  MaxUser = 1
  MaxWait = 2
  None = None
SYMMETRY ThreadSymmetry
INVARIANTS SafeInv DependencyOrder NoLostWakeup DispatchedOnce QueueAccounting LivePointers FreedClean
CHECK_DEADLOCK FALSE
