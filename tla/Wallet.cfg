SPECIFICATION Spec
CONSTANTS
  Scenarios <- MCScenarios
  Sessions <- MCSessions
  NoSession = NoSession
  MaxScore = 7
  Lag = 2
  MinFee = 1
  Miner = "M"
  Subsidy = 4
  UnbondMaturity = 2
  CoinbaseMaturity = 2
  MaxSupply = 100
  Activation <- FromGenesis
INVARIANTS BuiltIsAccepted BondsHold PoolDrains SwapSafe
PROPERTIES BobIsPaid
CHECK_DEADLOCK FALSE
