SPECIFICATION FairSpec
CONSTANTS
  Hosts = {h1, h2, h3}
  Blocking = {h2, h3}
  Drivers = {d1}
  Queues = {q1}
  InOrder = {q1}
  Owners <- FreeOwners
  Kinds = {"task"}
  Explicit = {TRUE, FALSE}
  UserStatuses <- Success
  OrderlyFailure = FALSE
  SingleBarrier = FALSE
  MaxEvents = 2
  MaxUser = 1
  MaxWait = 2
  None = None
INVARIANTS IInv
PROPERTIES FinishSound CallsReturn CommandsFinish EventsFreed
CHECK_DEADLOCK FALSE
