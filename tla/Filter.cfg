\* Both formats; every ARPA section ends in the middle of a batch.
SPECIFICATION FairSpec
CONSTANTS
  w1 = w1
  w2 = w2
  Workers <- MCWorkers
  Queue = 4
  BatchSize = 2
  Inputs <- MCGood
  None = none
INVARIANTS
  BatchInv
  OutputInOrder
PROPERTIES
  EndAfterOutput
  Completes
