CONSTANTS
  Entries = 4
  KernelEnd = 5000
  Frames <- SomeFrames
  EarlyClients = TRUE
SPECIFICATION Spec
INVARIANTS
  NeverAborts
