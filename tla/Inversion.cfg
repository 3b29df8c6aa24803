SPECIFICATION Spec
CONSTANTS
  Words <- MCWords
  Documents <- MCDocuments
  MaxDocs = 5
  BufferSizes <- MCBufferSizes
  ChunkLimits <- MCChunkLimits
INVARIANTS
  TypeOK
  NoOverrun
  BufferHolds
  NextChunkKnown
  DiskFits
  CompactionSafe
  DumpedKept
  PostingsHeld
PROPERTIES
  ImplementsIndex
\* The build ends.
CHECK_DEADLOCK FALSE
