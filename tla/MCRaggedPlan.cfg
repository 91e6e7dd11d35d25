SPECIFICATION Spec
CONSTANTS
  Jobs <- MCPlanJobs
  PageSize = 16
  MaxNumPages = 3
  TokenParallelMin = 64
  GridLimit = 2147483647
  TiledQueryRows = 16
  TiledKvRows = 64
  TiledPartitions = 8
  TiledGqaGroupSize = 4
  TiledMin = 256
  RmsWarps = 8
  Lanes = 32
  HeadDim = 128
  MergeWarps = 8
INVARIANT LongPlansLaunch
CHECK_DEADLOCK FALSE
