SPECIFICATION Spec
CONSTANTS
  Period = 6
  MaxWork = 4
  Lag = 3
  MaxTime = 48
INVARIANTS
  CandlesAdvance
  EmptyOnlyWhileLate
