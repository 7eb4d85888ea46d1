CONSTANTS
  Word = 65536
  MemMap <- Machine
  KernelEnd = 5000
  KernelPages = 10
  Counts <- Two
  MappedCounts <- One
  EarlyClients = FALSE
  Entries = 4
  KheapHeader = 28
  KheapSize = 4096
  Granularity = 4
SPECIFICATION FairBootSpec
INVARIANTS
  PagesInv
  GrantsExclusive
  FreeUsedBalance
  BitsAccounted
  RegionsApart
  KernelProtected
  KernelIdentity
  GrantsReachable
PROPERTIES
  NullMeansFull
  TakesFirstFit
  RequestReturns
  ImplementsPool
  BootsAllocator
