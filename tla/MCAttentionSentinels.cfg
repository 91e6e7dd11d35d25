SPECIFICATION Spec
CONSTANTS
  Jobs <- MCSentinelJobs
  PageSize = 2
  MaxNumPages = 3
  TokenParallelMin = 3
  GridLimit = 64
  TiledQueryRows = 2
  TiledKvRows = 2
  TiledPartitions = 3
  TiledGqaGroupSize = 2
  TiledMin = 5
  RmsWarps = 2
  Lanes = 2
  HeadDim = 4
  MergeWarps = 3
INVARIANT SentinelsUnchanged
CHECK_DEADLOCK FALSE
