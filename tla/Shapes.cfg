SPECIFICATION Spec
CONSTANTS
  YamlJobs <- ShapesJobs
  Foreach = {"f"}
  Items <- TwoItems
  DependsOn <- ShapesDeps
  InputFrom <- FanIn
  When <- ShapesWhen
  FailFast = {}
  MaxParallel = 2
  MaxAttempts = 2
  Preflight = {}
  Pulled = {}
  LeastConn = FALSE
INVARIANTS
  DependenciesFirst
  SuccessMeansSettled
  FanInComplete
  ConditionsSettled
CHECK_DEADLOCK FALSE
