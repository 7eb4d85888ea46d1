----------------------------- MODULE MCInterrupts -----------------------------
(***************************************************************************)
(* Instances of Interrupts for TLC: the timer, a line of the master that   *)
(* is masked and one of the slave; a letter and a key without a character. *)
(***************************************************************************)
EXTENDS Interrupts

SomeLines == {0, 4, 12}
OneLetter == {"a"}
OneOther == {"shift"}
===============================================================================
