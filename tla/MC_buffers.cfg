SPECIFICATION Spec
CONSTANTS
  Threads = {t1, t2}
  Base <- TwoBases
  Size <- TwoSizes
  Alignment = 2
  MaxChunks = 4
  Requests = {1, 3}
  Strategies = {"wasteful", "tight"}
INVARIANTS NothingLost
PROPERTIES ImplementsSpace
SYMMETRY ThreadSymmetry
