SPECIFICATION Spec
CONSTANTS
  c1 = c1
  c2 = c2
  Workers = {w1, w2}
  Clients = {c1, c2}
  Occurs <- MCOccurs
  Estimate <- MCEstimate
  Frequent <- MCFrequent
  Calls <- MCCallsOf
  SampleSizes = {1}
  MinDiverse = 2
  JobWorkers = 1
  None = None
PROPERTY LookupReturns
