SPECIFICATION FairSpec
CONSTANTS
  Threads = {t1, t2}
  Buffers = {b1, b2}
  Pointers = {p1}
  SamePointer = FALSE
  MayFail = TRUE
  MaxCommands = 4
  None = None
INVARIANTS RefsCounted MappingAlive MapCounted
PROPERTIES BuffersFreed
CHECK_DEADLOCK FALSE
