SPECIFICATION FairSpec
CONSTANTS
  s1 = s1
  s2 = s2
  Sets <- MCSets
  NoSet = NoSet
  MaxCommands = 2
  MaxLaunches = 3
CHECK_DEADLOCK FALSE
INVARIANTS
  TypeOK
  FixedBindingsHeld
  OneReplay
  ReadyMeansReplayed
PROPERTIES
  NoReplayAfterFailure
  ImplementsLease
  ReplaySettles
