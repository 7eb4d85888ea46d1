CONSTANTS
  Lines <- SomeLines
  Letters <- OneLetter
  Others <- OneOther
  Word = 3
  MaxKeys = 2
SPECIFICATION Spec
INVARIANTS
  RegistersRestored
