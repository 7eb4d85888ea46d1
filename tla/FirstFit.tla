------------------------------ MODULE FirstFit ------------------------------
(***************************************************************************)
(* The search loop that kmalloc (kheap.c), pfa_request_pages and           *)
(* pfa_request_mpages (page_frame_allocator.c) each spell out: walk a      *)
(* bitmap of n cells for a run of `want' clear bits.  A scan is the loop's *)
(* two counters and the length wanted; the outer loop is `index', the      *)
(* inner one `offset'.  The operators take the bitmap as an argument, so   *)
(* that each allocator applies them to its own.                            *)
(***************************************************************************)
EXTENDS Integers

(* The two loops on entry: index = 0, offset = 0. *)
StartScan(want) == [index |-> 0, offset |-> 0, want |-> want]

(* The cell the inner loop looks at. *)
Cell(s) == s.index + s.offset

(* Mutant: <= where the code has <. *)
InLoopOneMore(s, n) == s.index <= n

(* Condition of the outer loop. *)
InLoop(s, n) == s.index < n

(* Condition of the inner loop.  Its second conjunct keeps bitmap_get inside
   the bitmap; it also ends the inner loop early when the bitmap does. *)
Probing(s, n) == s.offset < s.want /\ Cell(s) < n

(* bitmap_get is true: the run is not contiguous free memory. *)
Hit(s, n, bits) == Probing(s, n) /\ Cell(s) \in bits

(* The inner loop's increment. *)
Advance(s) == [s EXCEPT !.offset = @ + 1]

(* index = index + offset, break, and the outer loop's increment. *)
SkipPast(s) == [index |-> Cell(s) + 1, offset |-> 0, want |-> s.want]

(* Neither loop has found an obstacle: the code takes the run at `index'. *)
Found(s, n) == InLoop(s, n) /\ ~Probing(s, n)

-----------------------------------------------------------------------------
(* What the loop is for, said without the loop. *)

(* The cells of a run of w cells that starts at i. *)
Run(i, w) == i .. i + w - 1

(* The part of the run that lies inside the bitmap is clear.  This is all the
   inner loop establishes: cells at n and beyond are not looked at. *)
Fits(i, w, n, bits) == \A c \in Run(i, w) : c < n => c \notin bits

(* Everything the loop knows at its head: no earlier start fits, and the
   cells already probed are clear. *)
ScanInv(s, n, bits) ==
  /\ s.offset <= s.want
  /\ \A i \in 0 .. s.index - 1 : i < n => ~Fits(i, s.want, n, bits)
  /\ \A c \in Run(s.index, s.offset) : c < n /\ c \notin bits
=============================================================================
