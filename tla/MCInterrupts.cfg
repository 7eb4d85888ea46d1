CONSTANTS
  Lines <- SomeLines
  Letters <- OneLetter
  Others <- OneOther
  Word = 3
  MaxKeys = 2
SPECIFICATION FairSpec
INVARIANTS
  InterruptsInv
  HandlersDoNotNest
  ReadyBeforeSti
  KeysEchoed
PROPERTIES
  TimerServed
  KeyboardServed
