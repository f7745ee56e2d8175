\* Two producers, two consumers, a ring of two slots; one copy may throw.  A thread
\* stops after its calls.
SPECIFICATION FairSpec
CONSTANTS
  Size = 2
  Producers = {p1, p2}
  Consumers = {c1, c2}
  PerThread = 2
  MaxThrows = 1
  NoItem = noItem
  Torn = torn
INVARIANTS
  SlotInv
PROPERTIES
  ImplementsFIFO
  AllDelivered
