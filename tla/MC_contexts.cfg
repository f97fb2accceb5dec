SPECIFICATION FairSpec
CONSTANTS
  Threads = {t1, t2}
  Contexts = {c1, c2}
  NumDevices = 2
  Reinitable <- FirstOnly
  FirstAlone = TRUE
  MaxRefs = 2
  MaxFaults = 1
  UINT = 8
  None = None
INVARIANTS IInv ListReady DevicesBalanced
PROPERTIES CallsReturn
