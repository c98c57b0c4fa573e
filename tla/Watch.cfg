SPECIFICATION FairWatchSpec
CONSTANTS
  Capacity = 1
  MaxSaves = 3
INVARIANT SaveIsNotForgotten
PROPERTIES
  LastSaveIsRun
  ThreadEnds
  RunsStop
CHECK_DEADLOCK FALSE
