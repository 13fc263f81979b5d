SPECIFICATION GridSpec
CONSTANTS
  None = None
  Candles <- MCCandles
  MaxCandles = 6
  MaxOrders = 20
  Quantities <- MCQuantities
  Prices <- MCPrices
  InitialBalance = 2400
  InitialPosition = 0
  CommissionPerMille = 100
  GridCount = 2
  SpacingPct = 25
  MinNotional = 700
  Period = 1
  RsiPrice <- MCRsiPrice
INVARIANTS
  InitialOrderMeetsMinimum
