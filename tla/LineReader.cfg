CONSTANTS
  MAX = 2
  BUF = 2
  Longest = 5
  Streams <- MCStreams
SPECIFICATION FairSpec
INVARIANTS
  TypeOK
  ChunkingIrrelevant
  MemoryBounded
PROPERTIES
  HangupEndsReading
CHECK_DEADLOCK FALSE
