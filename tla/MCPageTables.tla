---------------------------- MODULE MCPageTables ----------------------------
(***************************************************************************)
(* An instance of PageTables for TLC: directory and tables of 4 entries,   *)
(* so 16 pages.  A kernel that ends inside page 1 leaves the directory at  *)
(* 2..4, the tables at 5..8 and seven pages for callers.                   *)
(***************************************************************************)
EXTENDS PageTables

(* A frame of the kernel's (a wrong request) and one of a device. *)
SomeFrames == {3, 12}
=============================================================================
