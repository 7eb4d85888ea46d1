CONSTANTS
  Word = 12
  DEVICES = 3
  FUNCTIONS = 2
  Machines <- SomeMachines
SPECIFICATION FairSpec
INVARIANTS
  AhciFound
  FoundOnce
  OnlyWindowsRead
PROPERTIES
  WalkEnds
