SPECIFICATION BackgroundSpec
CONSTANTS
  Callers = {s1, s2, a1}
  Async = {a1}
  Spurious = TRUE
  Threads = {p1, p2, p3}
  Aliases = {"a", "b"}
  MaxInits = 2
  MaxAdds = 2
  MayFail = TRUE
  Files = {"f", "g"}
  CAPTURE_COUNTER = 2
  Second = 2
  MaxTime = 3
  MaxChanges = 2
INVARIANTS CallsAreSound ServerIsSound TrackerIsSound
PROPERTIES CallsReturn HandlerAnswers AliasIsServed SeenInTheEnd
\* calls return or are stuck, a server is disposed of, time is bounded
CHECK_DEADLOCK FALSE
