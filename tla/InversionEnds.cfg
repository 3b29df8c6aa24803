SPECIFICATION Spec
CONSTANTS
  Words <- MCWords
  Documents <- MCDocuments
  MaxDocs = 3
  BufferSizes <- MCBufferSizes
  ChunkLimits <- MCChunkLimits
PROPERTY BuildEnds
\* The build ends.
CHECK_DEADLOCK FALSE
