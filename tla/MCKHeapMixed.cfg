CONSTANTS
  MemorySize = 32
  Granularity = 4
  Word = 4096
  Sizes <- MixedSizes
SPECIFICATION FairSpec
INVARIANTS
  HeapInv
  LiveDisjoint
  UsedIsSum
  PanicOnlyWhenFull
PROPERTIES
  TakesFirstFit
  CallReturns
  ImplementsLoosePool
