SPECIFICATION Spec
CONSTANTS
  None = None
  Dirs = {d1, d2}
  Runtimes = {docker}
  LegacyDBs = {legacy}
  Pids = {p1, p2, p3}
  Calls = {c1, c2}
SYMMETRY Symmetry
INVARIANTS ServingIsRecorded ReportsAreTrue
