SPECIFICATION FairSpec
CONSTANTS
  Tasks = {t1, t2, t3}
  NoTask = NoTask
  CancelQueued = TRUE
INVARIANT ManagerIsSound
PROPERTIES NothingStartsAfterDispose RunsInOrder ReportedUnlessWedged
\* the Executor stops after dispose() and the program ends
CHECK_DEADLOCK FALSE
