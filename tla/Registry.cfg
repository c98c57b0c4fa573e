SPECIFICATION Spec
CONSTANTS
  x = x
  y = y
  w = w
  Commands = {x, y, w}
  Refs <- SomeRefs
  Contents = {"c1", "c2"}
  Image = "image"
  Repos = {"org/hello", "lab/hello"}
  Tags = {"v1"}
  Digests = {"c1", "c2", "image"}
  None = "none"
  FileOf <- SameFile
  Dirs = {"home", "tmp"}
  Cwd <- Elsewhere
  MaxTime = 1
  MaxFaults = 2
SYMMETRY AnyOrder
INVARIANTS
  ManifestsComplete
  PulledIsNamed
  ResolvesToSaved
CHECK_DEADLOCK FALSE
