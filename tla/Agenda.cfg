SPECIFICATION Spec
CONSTANTS
  c1 = c1
  c2 = c2
  Workers = {w1, w2}
  Clients = {c1, c2}
  Occurs <- MCOccurs
  Estimate <- MCEstimate
  Frequent <- MCFrequent
  Calls <- MCCallsOf
  SampleSizes = {0, 1, 2}
  MinDiverse = 2
  JobWorkers = 1
  None = None
INVARIANTS
  AgendaInv
  SampleSound
PROPERTIES
  ReadyIsFinal
  Served
