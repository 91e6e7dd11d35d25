SPECIFICATION FairVoteSpec
CONSTANTS
  LanesPerWarp = 2
CHECK_DEADLOCK FALSE
INVARIANTS
  NoFlagRace
  BarriersAligned
  VerdictIsConsensus
PROPERTIES
  VoteEnds
