SPECIFICATION Spec
CONSTANTS
  YamlJobs = {"a", "b", "c"}
  Foreach = {}
  Items <- NoFunction
  DependsOn <- TwiceDeps
  InputFrom <- NoFunction
  When <- TwiceWhen
  FailFast = {}
  MaxParallel = 2
  MaxAttempts = 1
  Preflight = {}
  Pulled = {}
  LeastConn = FALSE
PROPERTIES
  SucceededIsFinal
CHECK_DEADLOCK FALSE
