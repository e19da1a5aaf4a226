SPECIFICATION Spec
CONSTANTS
  Clients = {"c", "d"}
  MaxStarts = 2
  MaxRuns = 2
  DelayIn = TRUE
  DelayOut = TRUE
  Fade = TRUE
  Prefer = "sw"
  MaxPending = 2
  Letters = {"a"}
  MaxLength = 6
  N = 3
  Sizes = {10, 20}
  MaxLoops = 3
  Handlers = {"f", "g"}
  MaxHolds = 2
  Requests = {1, 2, 3}
  Timed = {1, 2}
  Sync = {3}
INVARIANTS
  WindowIsRight PageIsRight CutIsRight PollingIsSound HandlersAreRight CountIsRight
PROPERTY TipIsRight
\* the sessions, the log and the loops are bounded
CHECK_DEADLOCK FALSE
