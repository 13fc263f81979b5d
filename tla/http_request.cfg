SPECIFICATION FairSpec
CONSTANTS
  RetryCount = 3
  MaxFailures = 3
INVARIANTS
  OutcomeKnown
PROPERTIES
  RequestEnds
