CONSTANTS
  BITS = 3
  Live = {0, 4, 6}
  Seeds = {5, 7}
  Fallbacks = {7}
  MAX_ADDRS = 1
  K = 1
  ALPHA = 1
  ROUNDS = 10
  STRIKES = 2
  TargetPeers = 1
  MaxEdges = 3
  MaxStrikes = 2
  MaxWaiting = 3
SPECIFICATION Spec
INVARIANTS LookupFinds
PROPERTIES TablesHold
CONSTRAINT Few
