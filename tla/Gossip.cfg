CONSTANTS
  Name = {1, 2, 3}
  MaxMessages = 4
  MaxBytes = 12
  Window = 2
  ScoreValid = 1
  ScoreDuplicate <- MCScoreDuplicate
  ScoreInvalid <- MCScoreInvalid
  BanThreshold <- MCBanThreshold
  MaxScore = 2
  MinScore <- MCMinScore
  Block = {11, 12}
  Tx = {21}
  Below <- MCBelow
  MaxTick = 5
  MaxCalls = 4
  MaxQuiet = 4
SPECIFICATION Spec
INVARIANTS Floods MeshSettles
PROPERTIES BansHold
CHECK_DEADLOCK FALSE
