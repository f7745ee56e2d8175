\* Sentences of five words under every constraint of at most two zones and two walls.
SPECIFICATION Spec
CONSTANTS
  Size = 5
  IdBits = 4
  MaxPhrase = 3
  Options <- MCOptions
  Limits <- MCLimits
  Constraints <- MCConstraints
  Starts <- MCStarts
INVARIANTS
  SearchInv
  NoDeadEnd
  ZoneFinished
  WallKept
  LocalWallKept
  IdDistinct
