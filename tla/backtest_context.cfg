SPECIFICATION Spec
CONSTANTS
  Candles <- MCCandles
  MaxCandles = 2
  MaxOrders = 3
  Quantities <- MCQuantities
  Prices <- MCPrices
  InitialBalance = 40
  InitialPosition = 10
  CommissionPerMille = 100
INVARIANTS
  ContextTypeOK
  Solvent
PROPERTIES
  NoLookAhead
  FillCreatesNoValue
  ImplementsContract
