CONSTANTS
  Id = {0, 1, 2, 3, 4, 5}
  Genesis = 0
  NoBlock = NoBlock
  NoPruning = NoPruning
  K = 1
  Work = {1, 2}
  Payload <- MCPayload
  GenesisTxs <- MCGenesisTxs
  FinalityDepth = 2
  NoFinality = NoFinality
  GenesisSubsidy = 4
  HalvingEra = 2
  NoView = NoView
  MaxParents = 2
  UnbondMaturity = 2
  CoinbaseMaturity = 2
  MaxSupply = 22
  Activation <- NoActivation
  INTERVAL = 2
  WINDOW = 2
  MAX_FACTOR = 2
  MIN_WORK = 1
  Keys = {"V", "W"}
  NoKey = NoKey
  Draw <- MCDraw
  OutputSpace = 4
  EPOCH_LENGTH = 2
  RATE_NUM = 1
  RATE_DEN = 1
  STAKE_NOMINAL_WORK = 1
  Time <- MCTime
  Rewired <- MCRewired
SPECIFICATION RestoreSpec
INVARIANTS SnapshotRestores CheckpointRestores
CONSTRAINT FewHeavy
