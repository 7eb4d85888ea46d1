------------------------ MODULE MCPageFrameAllocator ------------------------
(***************************************************************************)
(* An instance of PageFrameAllocator for TLC: a machine of 6 pages, 3 and  *)
(* 5 of which are not available.  Its map is stored in page 3, the kernel  *)
(* is two pages with its page tables.  The bitmap has 8 bits, two more     *)
(* than there are pages.                                                   *)
(***************************************************************************)
EXTENDS PageFrameAllocator

Area(first, pages, available) ==
  [addr |-> first * PageSize, len |-> pages * PageSize, available |-> available, at |-> 3]

Machine ==
  <<Area(0, 3, TRUE), Area(3, 1, FALSE), Area(4, 1, TRUE), Area(5, 1, FALSE)>>

(* The kernel ends in the middle of page 1, where the bitmap begins. *)
InOnePage == 5000

(* Runs of three pages, and single pages that are mapped. *)
Three == {3}
One == {1}
=============================================================================
