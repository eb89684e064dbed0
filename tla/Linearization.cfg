CONSTANTS
  Id = {0, 1, 2, 3, 4, 5}
  Genesis = 0
  NoBlock = NoBlock
  NoPruning = NoPruning
  K = 1
  Work = {1, 2}
  Depths = {NoPruning, 1}
  MaxParents = 3
  ROOT_CAPACITY = 40
  CHILD_RESERVE = 16
SPECIFICATION Spec
INVARIANTS ReplicasAgree
PROPERTIES ArchiveFollowsRule OrderSound EvictionSound
CHECK_DEADLOCK FALSE
