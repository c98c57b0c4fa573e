SPECIFICATION FairSpec
CONSTANTS
  YamlJobs = {"a", "b", "c", "d"}
  Foreach = {}
  Items <- NoFunction
  DependsOn <- DiamondDeps
  InputFrom <- NoFunction
  When <- NoFunction
  FailFast = {}
  MaxParallel = 2
  MaxAttempts = 3
  Preflight = {"b"}
  Pulled = {"b"}
  LeastConn = TRUE
INVARIANTS
  TypeOK
  InFlightAccounting
  KeptIsSound
PROPERTIES
  ImplementsContract
  RunReturns
CHECK_DEADLOCK FALSE
