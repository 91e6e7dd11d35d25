SPECIFICATION Spec
CONSTANTS
  PageSize = 2
  MaxNumPages = 2
  QueryHeads = 1
  KeyHeads = 1
  Tables <- MCTables
CHECK_DEADLOCK FALSE
INVARIANTS
  GuardsThePageTable
  OneWriterPerSlot
