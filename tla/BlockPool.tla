------------------------------ MODULE BlockPool -----------------------------
(***************************************************************************)
(* What an allocator over a row of NCells equal cells promises, without    *)
(* bitmap, scan or counters: a granted run shares no cell with any run     *)
(* still held nor with a cell the owner has withdrawn, a release gives     *)
(* back exactly one run, and a request is refused only when no start would *)
(* do.  The kernel heap and the page frame allocator are both shown to     *)
(* implement it.                                                           *)
(*                                                                         *)
(* Strict = TRUE is the promise a caller expects: the run lies wholly      *)
(* inside the pool.  Strict = FALSE is the weaker one the code keeps for   *)
(* every mix of lengths: only the part inside the pool is exclusive.       *)
(***************************************************************************)
EXTENDS Integers

CONSTANTS NCells, Lengths, Strict

VARIABLES held,     \* runs granted and not yet released, <<start, length>>
          taken,    \* cells the owner has withdrawn from the pool for good
          refused   \* the last request found no room

poolVars == <<held, taken, refused>>

Cells(r) == {c \in r[1] .. r[1] + r[2] - 1 : c < NCells}

Vacant(i, w) ==
  /\ Cells(<<i, w>>) \cap taken = {}
  /\ \A r \in held : Cells(<<i, w>>) \cap Cells(r) = {}

Room(i, w) == Vacant(i, w) /\ (Strict => i + w <= NCells)

PoolInit == held = {} /\ taken = {} /\ refused = FALSE

(* Cells nobody holds leave the pool. *)
Withdraw ==
  /\ taken \subseteq taken' /\ taken' \subseteq 0 .. NCells - 1
  /\ \A r \in held : (taken' \ taken) \cap Cells(r) = {}
  /\ UNCHANGED <<held, refused>>

Grant(w) ==
  \E i \in 0 .. NCells - 1 :
    /\ Room(i, w)
    /\ held' = held \cup {<<i, w>>}
    /\ refused' = FALSE
    /\ UNCHANGED taken

Release ==
  \E r \in held : held' = held \ {r} /\ UNCHANGED <<taken, refused>>

Refuse(w) ==
  /\ \A i \in 0 .. NCells - 1 : ~Room(i, w)
  /\ refused' = TRUE
  /\ UNCHANGED <<held, taken>>

PoolNext == Withdraw \/ Release \/ \E w \in Lengths : Grant(w) \/ Refuse(w)

PoolSpec == PoolInit /\ [][PoolNext]_poolVars
=============================================================================
