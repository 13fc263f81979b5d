SPECIFICATION Spec
CONSTANTS
  None = None
  GridCount = 2
  SpacingPct = 25
  MinNotional = 7
  Period = 1
  RsiPrice <- MCRsiPrice
  Prices <- MCPrices
  Accounts <- MCAccounts
  RetryCount = 3
  FirstOrderId = 6
  IdWidth = 10
  MaxRounds = 3
  MaxLost = 1
  MaxRestarts = 1
INVARIANTS
  TradeTypeOK
  BookAgrees
  PollMissesNothing
  OrphansBounded
PROPERTIES
  NothingDroppedSilently
  KeepsContract
