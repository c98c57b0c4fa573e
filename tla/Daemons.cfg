SPECIFICATION FairSpec
CONSTANTS
  Schedules = {"s2", "s3"}
  Daemons = {"d1", "d2"}
  Upcoming <- Occurrences
  Horizon = 4
  MaxFaults = 1
INVARIANTS
  OnceUnlessLate
  OneLossAFault
PROPERTIES
  DueIsServed
CHECK_DEADLOCK FALSE
