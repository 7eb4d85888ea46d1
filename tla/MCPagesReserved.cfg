CONSTANTS
  Word = 32768
  MemMap <- Machine
  KernelEnd <- InOnePage
  KernelPages = 2
  Counts <- Three
  MappedCounts <- One
  EarlyClients = FALSE
SPECIFICATION Spec
INVARIANTS
  ReservedNotGranted
