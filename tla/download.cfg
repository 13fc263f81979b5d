SPECIFICATION FairSpec
CONSTANTS
  Tasks = 2
  Halted <- MCHalted
  Limit = 2
  MaxFailures = 3
  From = 2
  To = 6
  MaxTime = 7
  MaxRuns = 2
INVARIANTS
  NoHoles
  ReplayConsistent
  OneUnfinishedPerRun
PROPERTIES
  TaskEnds
