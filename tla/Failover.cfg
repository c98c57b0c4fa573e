SPECIFICATION FairSpec
CONSTANTS
  w1 = w1
  w2 = w2
  Dispatches = {"a", "s"}
  Async = {"a"}
  Workers = {w1, w2}
  Lists <- OneOrBoth
  MaxTries = 2
  MaxFaults = 2
INVARIANTS
  AgainOnlyAfterLoss
  HonestResult
  FailsOverWhileItCan
  WorkerTellsTruth
PROPERTIES
  DispatchEnds
CHECK_DEADLOCK FALSE
