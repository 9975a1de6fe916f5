CONSTANTS
  Queries = {q1, q2, q3}
  Keys = {k1, k2}
  MaxDBs = 3
  Entries = {p, q}
  MaxSubmits = 2
  MaxEdits = 1
  Titles = {p}
  MaxImports = 2
  MaxAttempts = 2
  People = {p, q}
  MaxClicks = 2
  MaxOthers = 1
SPECIFICATION DatabasesSpec
\* Each part may end: the calls and the handles are so many
CHECK_DEADLOCK FALSE
SYMMETRY DatabasesSymmetry
INVARIANTS TypeOK PooledIsOpen OnlyDropLoses
PROPERTIES ClosedForCause SavedForCause
