SPECIFICATION Spec
CONSTANTS
  Threads = {p1, p2, p3, p4}
  MayThrow = TRUE
SYMMETRY ThreadSymmetry
INVARIANTS HandlerIsSound TasksRunOnce
PROPERTY KeepsLifecycle
\* every thread may have made its call and be done
CHECK_DEADLOCK FALSE
