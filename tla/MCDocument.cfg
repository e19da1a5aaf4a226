SPECIFICATION Spec
CONSTANT Owners = {a, b}
SYMMETRY Symmetry
INVARIANTS
  QueryIsRight OrderIsRight PositionsAreRight ContentIsRight CacheIsSound
  InputIsSound
\* queries, runs and operations are bounded, and a list is sorted once
CHECK_DEADLOCK FALSE
