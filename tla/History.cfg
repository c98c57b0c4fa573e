SPECIFICATION Spec
CONSTANTS
  r1 = r1
  r2 = r2
  a = a
  b = b
  Runs = {r1, r2}
  Jobs = {a, b}
  Readers = {"x"}
  Limit = 1
  Keep = 1
  MaxTime = 2
SYMMETRY Alike
INVARIANTS
  YoungRunsKept
  ViewsWhole
  OrphansOnlyOverlong
CHECK_DEADLOCK FALSE
