SPECIFICATION Spec
CONSTANTS
  Addresses = {1, 2, 3, 4, 5}
  Coverages = {v1, v2}
  States = {f1, f2}
  Scores <- MCScores
  LogZero <- MCLogZero
  BeamWidth <- MCBeamWidth
  Settings <- MCSettings
  DiversityRoom = 2
  ArcFactor = 1
SYMMETRY Symmetry
INVARIANTS
  StackInv
  NothingGoodLost
  BestKept
PROPERTIES
  LimitsRise
CHECK_DEADLOCK FALSE
