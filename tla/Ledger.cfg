CONSTANTS
  Id = {0, 1, 2, 3, 4, 5}
  Genesis = 0
  NoBlock = NoBlock
  NoPruning = NoPruning
  K = 1
  Work = {1}
  Payload <- BasicPayload
  GenesisTxs <- LockGenesisTxs
  FinalityDepth = 2
  NoFinality = NoFinality
  GenesisSubsidy = 4
  HalvingEra = 2
  NoView = NoView
  MaxParents = 2
  UnbondMaturity = 2
  CoinbaseMaturity = 2
  MaxSupply = 22
  Activation <- LockActivation
SPECIFICATION Spec
INVARIANTS ViewsExact SupplyExact RegistryBacked SupplyCapped SpendsObeyRules
CHECK_DEADLOCK FALSE
