SPECIFICATION FairSpec
CONSTANTS
  s1 = s1
  s2 = s2
  other = other
  Sets <- MCSets
  ForeignSets <- MCForeignSets
  NoSet = NoSet
  MaxCommands = 2
  MaxId = 7
CHECK_DEADLOCK FALSE
INVARIANTS
  TypeOK
  NoHostAccessInFlight
  ResourcesOutliveWork
  NeverMiscounted
  ReadyMeansDone
  PairNeverStranded
  NoScopeAfterFailure
PROPERTIES
  OnlyCleanBindingsReturn
  ImplementsLease
  CompletionSettles
