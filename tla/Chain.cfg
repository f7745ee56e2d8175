\* Three blocks of two entries, a source, a pruner, a forwarder and a reader; used twice, with an
\* input that is empty, ends in the middle of a block or ends with a full block.
SPECIFICATION Spec
CONSTANTS
  Workers = 4
  BlockCount = 3
  BlockSize = 2
  Totals <- MCTotals
  Rounds = 2
  Kept <- MCKept
  NoBlock = NoBlock
INVARIANTS
  RingInv
  PoisonLast
  Delivered
PROPERTIES
  Completes
