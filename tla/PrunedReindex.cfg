CONSTANTS
  Id = {0, 1, 2, 3, 4, 5}
  Genesis = 0
  NoBlock = NoBlock
  NoPruning = NoPruning
  K = 1
  Work = {1}
  Depths = {1}
  MaxParents = 2
  ROOT_CAPACITY = 8
  CHILD_RESERVE = 4
SPECIFICATION Spec
INVARIANTS ReindexCompletes
CHECK_DEADLOCK FALSE
