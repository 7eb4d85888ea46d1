------------------------------- MODULE KHeap --------------------------------
(***************************************************************************)
(* The kernel heap (kernel/kernel/kheap.c): one chunk of memory divided    *)
(* into granules ("blocks"), a bitmap with one bit per block in front of   *)
(* it, first-fit allocation and sized free.                                *)
(*                                                                         *)
(* A call of kmalloc is a scan, one step per bit looked at, which ends in  *)
(* a grant or in PANIC.  Pointers are block indices: the code's pointer is *)
(* chunk.start + index * granularity.  bitmap_set does not check its       *)
(* index, and the chunk starts right behind the bitmap buffer, so a bit    *)
(* set past the bitmap is a write into the chunk: `spilled' records it.    *)
(***************************************************************************)
EXTENDS FirstFit, FiniteSets

CONSTANTS
  MemorySize,   \* kheap_add's memory_size: bytes in the chunk
  Granularity,  \* kheap_add's granularity: bytes in a block
  Word,         \* size_t and uint32_t count modulo Word (2^32)
  Sizes         \* the request sizes the callers use

ASSUME KHeapAssumption ==
  /\ Granularity \in Nat \ {0}
  /\ Word \in Nat \ {0}
  /\ MemorySize \in 0 .. Word - 1
  /\ Sizes \subseteq 0 .. Word - 1

VARIABLES
  bitmap,   \* the blocks whose bit is set
  spilled,  \* the bit indices past the bitmap that bitmap_set has written
  used,     \* kheap->chunk.used
  pc,       \* "idle", "scan" (inside kmalloc) or "panic"
  req,      \* kmalloc's argument; 0 when no call is under way
  scan,     \* kmalloc's loop counters; they go with the call
  live      \* the blocks the callers hold: [index, size]

vars == <<bitmap, spilled, used, pc, req, scan, live>>

(***************************************************************************)
(* Sizes                                                                   *)
(***************************************************************************)

(* KHEAP_BITMAP_SIZE(x, granularity): the sum wraps before the division. *)
BlockCount(x) == ((x + Granularity - 1) % Word) \div Granularity

(* kheap->bitmap.size, in bytes; what does not fill a byte is dropped. *)
BitmapSize == BlockCount(MemorySize) \div 8

(* Number of bits the loops of kmalloc range over. *)
NBits == BitmapSize * 8

(* The blocks that an allocation of `size' at `index' stands for. *)
BlocksOf(b) == Run(b.index, BlockCount(b.size))

InBitmap(S) == {c \in S : c < NBits}
PastBitmap(S) == {c \in S : c >= NBits}

-----------------------------------------------------------------------------
TypeOK ==
  /\ bitmap \subseteq 0 .. NBits - 1
  /\ spilled \subseteq Nat
  /\ used \in 0 .. Word - 1
  /\ pc \in {"idle", "scan", "panic"}
  /\ req \in Nat
  /\ scan \in [index : Nat, offset : Nat, want : Nat]
  /\ live \subseteq [index : Nat, size : Sizes]

(* kheap_add has cleared the bitmap and filled in the headers. *)
Init ==
  /\ bitmap = {}
  /\ spilled = {}
  /\ used = 0
  /\ pc = "idle"
  /\ req = 0
  /\ scan = StartScan(0)
  /\ live = {}

-----------------------------------------------------------------------------
(* kmalloc is called: block_count is computed, both loops start. *)
Kmalloc(size) ==
  /\ pc = "idle"
  /\ pc' = "scan"
  /\ req' = size
  /\ scan' = StartScan(BlockCount(size))
  /\ UNCHANGED <<bitmap, spilled, used, live>>

ProbeFree ==
  /\ pc = "scan"
  /\ InLoop(scan, NBits)
  /\ Probing(scan, NBits)
  /\ ~Hit(scan, NBits, bitmap)
  /\ scan' = Advance(scan)
  /\ UNCHANGED <<bitmap, spilled, used, pc, req, live>>

(* Mutant: after a hit the search resumes one block too far. *)
ProbeUsedOvershoot ==
  /\ pc = "scan"
  /\ InLoop(scan, NBits)
  /\ Hit(scan, NBits, bitmap)
  /\ scan' = [SkipPast(scan) EXCEPT !.index = @ + 1]
  /\ UNCHANGED <<bitmap, spilled, used, pc, req, live>>

(* Mutant: after a hit the search restarts from the hit itself. *)
ProbeUsedStuck ==
  /\ pc = "scan"
  /\ InLoop(scan, NBits)
  /\ Hit(scan, NBits, bitmap)
  /\ scan' = [scan EXCEPT !.index = Cell(scan), !.offset = 0]
  /\ UNCHANGED <<bitmap, spilled, used, pc, req, live>>

(* Mutant: `index' moves on but `offset' is not reset. *)
ProbeUsedKeepOffset ==
  /\ pc = "scan"
  /\ InLoop(scan, NBits)
  /\ Hit(scan, NBits, bitmap)
  /\ scan' = [scan EXCEPT !.index = Cell(scan) + 1]
  /\ UNCHANGED <<bitmap, spilled, used, pc, req, live>>

ProbeUsed ==
  /\ pc = "scan"
  /\ InLoop(scan, NBits)
  /\ Hit(scan, NBits, bitmap)
  /\ scan' = SkipPast(scan)
  /\ UNCHANGED <<bitmap, spilled, used, pc, req, live>>

(* Mutant: `used' counts whole blocks on allocation, bytes on free. *)
GrantRounded ==
  /\ pc = "scan"
  /\ Found(scan, NBits)
  /\ LET run == Run(scan.index, scan.want) IN
       /\ bitmap' = bitmap \cup InBitmap(run)
       /\ spilled' = spilled \cup PastBitmap(run)
  /\ used' = (used + scan.want * Granularity) % Word
  /\ live' = live \cup {[index |-> scan.index, size |-> req]}
  /\ pc' = "idle"
  /\ req' = 0
  /\ scan' = StartScan(0)

(* The run is taken: its bits are set, whether the bitmap has them or not,
   the bytes are accounted, and the pointer goes to the caller. *)
Grant ==
  /\ pc = "scan"
  /\ Found(scan, NBits)
  /\ LET run == Run(scan.index, scan.want) IN
       /\ bitmap' = bitmap \cup InBitmap(run)
       /\ spilled' = spilled \cup PastBitmap(run)
  /\ used' = (used + req) % Word
  /\ live' = live \cup {[index |-> scan.index, size |-> req]}
  /\ pc' = "idle"
  /\ req' = 0
  /\ scan' = StartScan(0)

(* The outer loop ran out of blocks. *)
Panic ==
  /\ pc = "scan"
  /\ ~InLoop(scan, NBits)
  /\ pc' = "panic"
  /\ UNCHANGED <<bitmap, spilled, used, req, scan, live>>

(* PANIC never returns: while (1) { }. *)
Halted == pc = "panic" /\ UNCHANGED vars

(* Mutant: the last block of the run stays marked. *)
KfreeShort(b) ==
  /\ pc = "idle"
  /\ bitmap' = bitmap \ Run(b.index, BlockCount(b.size) - 1)
  /\ spilled' = spilled \cup PastBitmap(BlocksOf(b))
  /\ used' = (used - b.size) % Word
  /\ live' = live \ {b}
  /\ UNCHANGED <<pc, req, scan>>

(* Mutant: one block too many is released. *)
KfreeLong(b) ==
  /\ pc = "idle"
  /\ bitmap' = bitmap \ Run(b.index, BlockCount(b.size) + 1)
  /\ spilled' = spilled \cup PastBitmap(BlocksOf(b))
  /\ used' = (used - b.size) % Word
  /\ live' = live \ {b}
  /\ UNCHANGED <<pc, req, scan>>

(* kfree(ptr, size) by the holder of the block, with the size it asked for:
   the contract of a free that is told the size. *)
Kfree(b) ==
  /\ pc = "idle"
  /\ bitmap' = bitmap \ BlocksOf(b)
  /\ spilled' = spilled \cup PastBitmap(BlocksOf(b))
  /\ used' = (used - b.size) % Word
  /\ live' = live \ {b}
  /\ UNCHANGED <<pc, req, scan>>

KmallocLoop == ProbeFree \/ ProbeUsed \/ Grant \/ Panic

Next ==
  \/ \E size \in Sizes : Kmalloc(size)
  \/ KmallocLoop
  \/ \E b \in live : Kfree(b)
  \/ Halted

Spec == Init /\ [][Next]_vars

(* The processor keeps executing kmalloc: the loops wait for nothing, and an
   interrupt handler that preempts them returns. *)
FairSpec == Spec /\ WF_vars(KmallocLoop)

-----------------------------------------------------------------------------
(* Safety *)

(* The callers ask for sizes whose rounding up does not wrap. *)
NoWrap == \A size \in Sizes : size + Granularity <= Word

(* Two blocks the callers hold at the same time have no granule in common,
   neither inside the bitmap nor past its end: kmalloc never hands out memory
   that is still in use, whatever was allocated and freed before. *)
LiveDisjoint ==
  \A a, b \in live : a # b => BlocksOf(a) \cap BlocksOf(b) = {}

(* The bitmap is exactly what the callers hold: kfree(ptr, size) undoes its
   kmalloc and nothing else, so no block leaks and none is freed early. *)
BitmapExact == bitmap = UNION {InBitmap(BlocksOf(b)) : b \in live}

(* chunk.used is the bytes of the live blocks, across any number of calls. *)
Bytes == UNION {{b} \X (1 .. b.size) : b \in live}
UsedIsSum == used = Cardinality(Bytes) % Word

(* kmalloc reaches its PANIC only if every start in the bitmap collides with
   a block some caller holds: skipping from a hit loses no candidate. *)
PanicOnlyWhenFull ==
  pc = "panic" =>
    \A i \in 0 .. NBits - 1 :
      \E b \in live : BlocksOf(b) \cap InBitmap(Run(i, scan.want)) # {}

(* A block a caller holds has at least the bytes it asked for: "Round up"
   (kheap.h:12). *)
RequestCovered ==
  \A b \in live : BlockCount(b.size) * Granularity >= b.size

(* At most one block reaches past the bitmap.  kmalloc's inner loop stops at
   the end of the bitmap, so the last free run may be granted although it is
   too short; it can happen once until that block is freed. *)
OneOverrun ==
  \A b, d \in live : PastBitmap(BlocksOf(b)) # {} /\ PastBitmap(BlocksOf(d)) # {} => b = d

(* Everything a caller holds lies inside the chunk kheap_add was given. *)
InsideChunk ==
  \A b \in live : b.index * Granularity + b.size <= MemorySize

(* bitmap_set is only called for bits the bitmap has: the chunk, which starts
   right behind the bitmap buffer, is never written by the allocator. *)
NoSpill == spilled = {}

-----------------------------------------------------------------------------
(* The inductive invariant behind the safety properties. *)

(* The loops of kmalloc work on the request they were entered with, and what
   they have passed is known to be taken. *)
ScanKnows ==
  pc = "scan" =>
    /\ req \in Sizes
    /\ scan.want = BlockCount(req)
    /\ ScanInv(scan, NBits, bitmap)

(* Every block starts at a bit the bitmap has, and no two share one. *)
LiveApart ==
  /\ \A b \in live : b.index < NBits
  /\ \A a, b \in live :
       a # b => InBitmap(BlocksOf(a)) \cap InBitmap(BlocksOf(b)) = {}

(* At PANIC no start of the bitmap fits. *)
PanicKnows ==
  pc = "panic" =>
    \A i \in 0 .. NBits - 1 : ~Fits(i, scan.want, NBits, bitmap)

(* The bookkeeping, the scan in progress and the blocks held agree. *)
HeapInv ==
  /\ TypeOK
  /\ ScanKnows
  /\ LiveApart
  /\ BitmapExact
  /\ PanicKnows

(* All requests take q blocks, and q divides the bitmap.  This is how the
   kernel uses its heap: 16 bytes at a time out of 0x80000, in blocks of 4. *)
Uniform(q) ==
  /\ q \in Nat \ {0}
  /\ NBits % q = 0
  /\ \A size \in Sizes : BlockCount(size) = q

(* Then every run starts at a multiple of q, a search is only ever off a
   multiple while it walks through a block in use, and nothing spills. *)
UniformInv(q) ==
  /\ spilled = {}
  /\ \A b \in live : b.index % q = 0
  /\ pc = "scan" /\ scan.index < NBits /\ scan.index % q # 0 =>
       scan.offset = 0 /\ scan.index \in bitmap

-----------------------------------------------------------------------------
(* What a step may never do *)

(* kmalloc is first-fit: the run it takes is the lowest one that is clear. *)
TakesFirstFit ==
  [][live \subseteq live' /\ live # live' =>
       \A i \in 0 .. scan.index - 1 : ~Fits(i, scan.want, NBits, bitmap)]_vars

-----------------------------------------------------------------------------
(* Liveness *)

(* Every kmalloc comes to an end: it returns a block or reaches PANIC. *)
CallReturns == pc = "scan" ~> pc # "scan"

-----------------------------------------------------------------------------
(* Refinement: what a caller sees is a pool of blocks. *)

Held == {<<b.index, BlockCount(b.size)>> : b \in live}

Counts == {BlockCount(size) : size \in Sizes}

LoosePool == INSTANCE BlockPool WITH
               NCells <- NBits, Lengths <- Counts, Strict <- FALSE,
               held <- Held, taken <- {}, refused <- pc = "panic"

StrictPool == INSTANCE BlockPool WITH
                NCells <- NBits, Lengths <- Counts, Strict <- TRUE,
                held <- Held, taken <- {}, refused <- pc = "panic"

(* For any mix of sizes the heap keeps the weak promise: a granted run shares
   no block of the bitmap with another one, and PANIC means no run is left. *)
ImplementsLoosePool == LoosePool!PoolSpec

(* When all requests take the same number of blocks and that number divides
   the bitmap, it keeps the promise a caller expects: runs lie inside. *)
ImplementsStrictPool == StrictPool!PoolSpec
=============================================================================
