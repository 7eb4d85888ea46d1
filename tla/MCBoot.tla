-------------------------------- MODULE MCBoot --------------------------------
(***************************************************************************)
(* An instance of Boot for TLC: a machine of 15 pages, two of which are    *)
(* not available, with its map stored in page 12; a bitmap of 16 bits, as  *)
(* many as 4 page tables of 4 entries map.  The kernel ends in page 1, the *)
(* heap of one page in page 2; the directory takes pages 3 to 5 and the    *)
(* tables 6 to 9.  The map of the machine makes the allocator reserve      *)
(* pages 12 and 13, which leaves 10, 11, 14 and the bit of a page 15 that  *)
(* does not exist.                                                         *)
(***************************************************************************)
EXTENDS Boot

Area(first, pages, available) ==
  [addr |-> first * PageSize, len |-> pages * PageSize, available |-> available, at |-> 12]

Machine == <<Area(0, 11, TRUE), Area(11, 2, FALSE), Area(13, 2, TRUE)>>

(* Runs of two pages, and single pages that are mapped. *)
Two == {2}
One == {1}
===============================================================================
