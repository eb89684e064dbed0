CONSTANTS
  Id = {0, 1, 2, 3, 4}
  Genesis = 0
  NoBlock = NoBlock
  NoPruning = NoPruning
  K = 1
  INTERVAL = 2
  WINDOW = 1
  MAX_FACTOR = 2
  MIN_WORK = 1
  GenesisWork = 2
  GapOf <- McGapOf
  MaxParents = 2
  MaxBlobs = 2
  PayloadDepths = {NoPruning, 1}
  TxsOf <- McTxsOf
  PaidTo <- McPaidTo
  HashBits = 4
  FILTER_K = 1
  LocatorDense = 2
  MaxCount = 2
  Messages <- McMessages
  W16 = 4
  MAX_FRAME = 21
  MAX_HEADERS = 3
  MAX_LOCATOR_IDS = 5
  MAX_MERKLE_PATH = 3
SPECIFICATION Spec
INVARIANTS PhoneChainConnected AnswersExact SessionInStep
PROPERTIES ServedChainAccepted
CHECK_DEADLOCK FALSE
