SPECIFICATION Spec
CONSTANTS
  None = None
  Period = 3
  Candles <- MCCandles
  RingSize = 3
  CycleSize = 2
  RsiPeriod = 3
  MaxCandles = 8
INVARIANTS
  RangeIsWindow
  SumsOfWindow
  AveragesOfOneHour
  MaxPeriodWarmsUp
