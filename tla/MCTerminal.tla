------------------------------ MODULE MCTerminal ------------------------------
(***************************************************************************)
(* Instances of Terminal for TLC, on a screen of two rows and three        *)
(* columns: the kernel prints M, the user types k.                         *)
(***************************************************************************)
EXTENDS Terminal

Messages == {"M", "newline", "clear"}
Keyboard == {"k", "newline", "tab", "backspace"}
OneKey == {"k"}
Plain == {"M", "newline"}
===============================================================================
