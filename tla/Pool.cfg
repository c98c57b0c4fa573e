SPECIFICATION FairPoolSpec
CONSTANTS
  Workers = {"w1", "w2"}
  Drivers = {"file", "table"}
  Static <- TwoStatic
  Srv <- TwoSrv
  Strategies <- TwoStrategies
  MaxJobs = 3
  MaxFaults = 1
  MaxAdmin = 2
INVARIANTS
  ExcludedAfterFailure
  ListsAreDue
PROPERTIES
  ExclusionLasts
  RunsGetWorkers
CHECK_DEADLOCK FALSE
