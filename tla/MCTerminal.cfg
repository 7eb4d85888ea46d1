CONSTANTS
  VGA_WIDTH = 3
  VGA_HEIGHT = 2
  Word = 64
  MainChars <- Messages
  KeyChars <- Keyboard
  MaxChars = 6
SPECIFICATION Spec
INVARIANTS
  CursorOnScreen
  ShowsText
CHECK_DEADLOCK FALSE
