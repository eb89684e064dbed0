CONSTANTS
  Block = {1, 2, 3}
  Parents <- MCParents
  Staked = {3}
  MAX_INVENTORY_IDS = 3
  MAX_HEADERS = 3
  MAX_GETBODIES = 3
  MAX_BODIES = 2
  Node = {n1, n2}
  NoConn = NoConn
  InitiallyBehind = {n1}
  Early = {1}
  MaxSlow = 1
  MaxCrashes = 1
SPECIFICATION Spec
INVARIANTS BodiesApplyInOrder
PROPERTIES ExchangesEnd CatchesUp
