SPECIFICATION StrategySpec
CONSTANTS
  Candles <- MCCandles
  Requests <- MCRequests
  Quantity = 10
  FeePerMille = 100
  MaxPasses = 4
  MaxOrders = 9
  BuyPrices = {3, 4}
INVARIANTS
  PositionProtected
  ShortOnlyByCommission
PROPERTIES
  ImplementsBrackets
  TriggersWerePending
