CONSTANTS
  VGA_WIDTH = 3
  VGA_HEIGHT = 2
  Word = 64
  MainChars <- Plain
  KeyChars <- OneKey
  MaxChars = 4
SPECIFICATION Spec
INVARIANTS
  Reentrant
CHECK_DEADLOCK FALSE
