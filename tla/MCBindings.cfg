SPECIFICATION Spec
CONSTANTS
  Arenas = {"a1", "a2"}
  MaxCommands = 3
  Filled <- MCFilled
  MaxStrays = 1
INVARIANTS
  OneOwner
  OperandsDisjoint
  RunsOnItsHandles
  PairComplete
CHECK_DEADLOCK FALSE
