CONSTANTS
  Blocks = {0, 1, 2, 3, 4}
  Parents <- MCParents
  Own = {0, 1, 2, 4}
  Spread = {1}
  Addresses = {1}
  Pays <- MCPays
  Cap = 1
  Bodies <- MCBodies
  MaxCrashes = 2
  MaxFaults = 1
  MaxLost = 1
SPECIFICATION ServiceSpec
INVARIANTS LogCovers FaucetCapped
PROPERTIES DurableAcked ToldSurvives
