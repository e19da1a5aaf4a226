SPECIFICATION OSSpec
CONSTANTS
  Threads = {c1, c2, starter, waiterThread, detacherThread}
  Clients = {c1, c2}
  Starter = starter
  Waiter = waiterThread
  Detacher = detacherThread
  Readers = {"stdout", "stderr"}
  MaxOutput = 1
  MayThrow = TRUE
  MayShutdown = TRUE
INVARIANT OutputIsSound
\* every thread may have made its call and be done
CHECK_DEADLOCK FALSE
