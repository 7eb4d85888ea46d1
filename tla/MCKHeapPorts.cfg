CONSTANTS
  MemorySize = 64
  Granularity = 4
  Word = 4096
  Sizes <- PortSizes
SPECIFICATION FairSpec
INVARIANTS
  InsideChunk
  NoSpill
PROPERTIES
  ImplementsStrictPool
