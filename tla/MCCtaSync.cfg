SPECIFICATION Spec
CONSTANTS
  WarpCount = 3
  MaxTiles = 2
INVARIANTS
  NoRace
  ReadsItsStage
  BarrierIsWhole
PROPERTY EveryWarpEnds
CHECK_DEADLOCK FALSE
