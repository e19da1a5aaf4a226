SPECIFICATION Spec
CONSTANTS
  Projects = {p1, p2}
  NoProject = NoProject
  Broken = Broken
  MaxEdits = 2
INVARIANT ProjectIsSound
PROPERTIES KeepsSession PublisherStops
\* the application may be closed
CHECK_DEADLOCK FALSE
