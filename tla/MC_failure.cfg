SPECIFICATION FairSpec
CONSTANTS
  Hosts = {h1, h2}
  Blocking = {}
  Drivers = {d1}
  Queues = {q1, q2}
  InOrder = {}
  Owners <- OwnQueues
  Kinds = {"task"}
  Explicit = {TRUE}
  UserStatuses <- Either
  OrderlyFailure = TRUE
  SingleBarrier = FALSE
  MaxEvents = 3
  MaxUser = 2
  MaxWait = 1
  None = None
 
PROPERTIES ImplementsGraph ImplementsFairGraph
CHECK_DEADLOCK FALSE
