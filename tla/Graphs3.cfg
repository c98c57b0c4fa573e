SPECIFICATION Spec
CONSTANTS
  Nodes = {"a", "b", "c"}
  Graphs <- AllGraphs
INVARIANTS
  ValidateVerdict
  BuildVerdict
  ReplayExact
CHECK_DEADLOCK FALSE
