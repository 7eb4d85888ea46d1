CONSTANTS
  MemorySize = 32
  Granularity = 4
  Word = 4096
  Sizes <- MixedSizes
SPECIFICATION Spec
INVARIANTS
  InsideChunk
