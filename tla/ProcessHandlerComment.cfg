SPECIFICATION Spec
CONSTANTS
  Threads = {p1, p2}
  MayThrow = FALSE
PROPERTY NothingAddedAfterStart
CHECK_DEADLOCK FALSE
