\* ARPA format; a section ends with its batch, and the program may stop for ever.
SPECIFICATION FairSpec
CONSTANTS
  w1 = w1
  w2 = w2
  Workers <- MCWorkers
  Queue = 4
  BatchSize = 2
  Inputs <- MCEven
  None = none
CHECK_DEADLOCK FALSE
PROPERTIES
  Completes
