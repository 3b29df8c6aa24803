SPECIFICATION Spec
CONSTANTS
  Words <- MCWords
  Documents <- MCDocuments
  MaxDocs = 2
  BufferSizes <- MCBufferSizes
  ChunkLimits <- MCChunkLimits
INVARIANT MemoryLimit
\* The build ends.
CHECK_DEADLOCK FALSE
