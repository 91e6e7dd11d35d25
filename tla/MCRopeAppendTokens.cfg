SPECIFICATION Spec
CONSTANTS
  PageSize = 2
  MaxNumPages = 3
  Threads = 3
  Tokens = 3
  QueryHeads = 1
  KeyHeads = 1
  Metadata <- MCMetadata
CHECK_DEADLOCK FALSE
INVARIANTS
  TypeOK
  WritesOnlyByContract
  AcceptsTheContract
  OneWriterPerSlot
