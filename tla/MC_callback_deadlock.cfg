SPECIFICATION Spec
CONSTANTS
  Hosts = {h1}
  Drivers = {d1}
  OwnEventOnly = FALSE
  MaxEvents = 3
  MaxUser = 1
  MaxCallbacks = 1
  None = None
INVARIANTS CallbacksMayEnqueue
CHECK_DEADLOCK FALSE
