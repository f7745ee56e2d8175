SPECIFICATION CacheSpec
CONSTANTS
  Sentences = {c1, c2}
  Keys = {k1, k2}
  Capacity = 3
  MaxWrappers = 4
  MaxHeld = 1
  MaxRevision = 1
  ClockSteps <- MCClockSteps
  NoKey = NoKey
SYMMETRY Symmetry
INVARIANTS
  HeldAlive
  HistorySound
  NothingLeaks
PROPERTIES
  NewestStays
