SPECIFICATION FairSpec
CONSTANTS
  Candles <- MCCandles
  Requests <- MCRequests
  Quantity = 10
  FeePerMille = 100
  MaxPasses = 2
  MaxOrders = 3
INVARIANTS
  EngineTypeOK
  ActiveOrdersQueuedOnce
  OneLegExecutes
  PendingWaitsForTrigger
PROPERTIES
  PassEnds
