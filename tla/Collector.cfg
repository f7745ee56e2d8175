\* Seven sentences, written in any order.
SPECIFICATION CallsSpec
CONSTANTS
  Count = 7
INVARIANTS
  CollectorInv
  Complete
