SPECIFICATION FairSpec
CONSTANTS
  Hosts = {h1}
  Drivers = {d1}
  OwnEventOnly = TRUE
  MaxEvents = 3
  MaxUser = 1
  MaxCallbacks = 2
  None = None
INVARIANTS IInv CalledOnce UpdatedLocked StatusHolds CallOrder
PROPERTIES CallbacksCalled CallsReturn
CHECK_DEADLOCK FALSE
