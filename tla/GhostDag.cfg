CONSTANTS
  Id = {0, 1, 2, 3, 4, 5}
  Genesis = 0
  NoBlock = NoBlock
  K = 1
  Work = {1, 2}
  MaxParents = 3
SPECIFICATION Spec
INVARIANTS TypeOK ColouringSound WeightInv
PROPERTIES ImplementsAtomicDag
ACTION_CONSTRAINT Bounds
CONSTRAINT SixthOnPlain
CHECK_DEADLOCK FALSE
