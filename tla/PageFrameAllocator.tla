------------------------- MODULE PageFrameAllocator -------------------------
(***************************************************************************)
(* The physical page allocator                                             *)
(* (kernel/arch/i386/paging/page_frame_allocator.c): a bitmap with one bit *)
(* per 4096-byte page, built at boot from the multiboot memory map, three  *)
(* byte counters, and first-fit requests.                                  *)
(*                                                                         *)
(* A request is a scan, one step per bit, as in FirstFit.  Locking, freeing*)
(* and reserving a run of pages is one step: its loop touches each page    *)
(* once and nothing runs in between.  bitmap_get and bitmap_set do not     *)
(* check their index: what a bit past the bitmap reads as is not up to     *)
(* this code (the kernel heap is there), so it is chosen, and the bits     *)
(* written there are recorded in `spilled'.                                *)
(***************************************************************************)
EXTENDS FirstFit, FiniteSetsExt

CONSTANTS
  Word,          \* uint32_t counts modulo Word (2^32)
  MemMap,        \* the memory map: a sequence of [addr, len in bytes,
                 \* available, at]; the entry itself is stored in page `at'
  KernelEnd,     \* KERNEL_END, in bytes, when the bitmap is put there
  KernelPages,   \* page_count of ptm_initialize's pfa_lock_pages(KERNEL_START)
  Counts,        \* the page_counts asked for without mapping them
  MappedCounts,  \* the page_counts asked for with pfa_request_mpage(s)
  EarlyClients   \* requests are made before ptm_initialize (kernel.c:70)

PageSize == 4096

(* Memory sizes are summed in a uint32_t. *)
Total(S) == MapThenSumSet(LAMBDA i : MemMap[i].len % Word, S) % Word
MemorySize == Total(DOMAIN MemMap)
AvailableSize == Total({i \in DOMAIN MemMap : MemMap[i].available})

(* bitmap_size, in bytes. *)
BitmapSize == (MemorySize \div PageSize) \div 8 + 1

NBits == BitmapSize * 8

(* NUM_PAGES, which divides by 4098. *)
NumPages(bytes) == (bytes % Word) \div 4098 + 1

InBitmap(S) == {c \in S : c < NBits}
PastBitmap(S) == {c \in S : c >= NBits}

(* The pages locked for the bitmap's own buffer. *)
BufferPages == Run(KernelEnd \div PageSize, NumPages(BitmapSize))

(* The pages reserved for an entry of the map. *)
EntryPages(e) == Run(e.at, NumPages(e.len))

ASSUME PageFrameAssumption ==
  /\ Word \in Nat \ {0}
  /\ MemorySize \in 0 .. Word - 1
  /\ AvailableSize \in 0 .. Word - 1
  /\ KernelEnd \in Nat
  /\ KernelPages \in Nat
  /\ Counts \subseteq Nat \ {0} /\ MappedCounts \subseteq Nat \ {0}
  /\ EarlyClients \in BOOLEAN
  /\ \A e \in DOMAIN MemMap :
       MemMap[e] \in [addr : Nat, len : Nat, available : BOOLEAN, at : Nat]

VARIABLES
  phase,         \* "sum", "init", "reserve": boot; "idle", "scan"; "panic"
  entry,         \* mmap: the entry that the second loop is at
  memmapTag,     \* tag->type is MULTIBOOT_TAG_TYPE_MMAP
  bitmap,        \* the pages whose bit is set
  spilled,       \* bit indices past the bitmap that bitmap_set has written
  freeMemory, usedMemory, reservedMemory,  \* the counters
  req,           \* the request under way: [count, mapping]
  scan,          \* its loop counters
  result,        \* what the last request returned: "none", "null" or "page"
  held,          \* runs the callers hold: [index, count]
  taken,         \* pages locked or reserved, not on request
  mapped,        \* pages identity mapped by pfa_request_mpage(s)
  kernelLocked   \* ptm_initialize has locked the kernel

bits == <<bitmap, spilled>>
counters == <<freeMemory, usedMemory, reservedMemory>>
call == <<req, scan, result>>
boot == <<entry, memmapTag, kernelLocked>>
vars == <<phase, bits, counters, call, held, taken, mapped, boot>>

NoRequest == [count |-> 0, mapping |-> FALSE]

PagesOf(r) == Run(r.index, r.count)

TypeOK ==
  /\ phase \in {"sum", "init", "reserve", "idle", "scan", "panic"}
  /\ entry \in Nat \ {0}
  /\ memmapTag \in BOOLEAN
  /\ bitmap \subseteq 0 .. NBits - 1
  /\ spilled \subseteq Nat
  /\ freeMemory \in 0 .. Word - 1
  /\ usedMemory \in 0 .. Word - 1
  /\ reservedMemory \in 0 .. Word - 1
  /\ req \in [count : Nat, mapping : BOOLEAN]
  /\ scan \in [index : Nat, offset : Nat, want : Nat]
  /\ result \in {"none", "null", "page"}
  /\ held \subseteq [index : Nat, count : Nat]
  /\ taken \subseteq 0 .. NBits - 1
  /\ mapped \subseteq Nat
  /\ kernelLocked \in BOOLEAN

(* tags->memory_map is the last tag of its type, or whatever is at address 0
   when the boot loader gave none. *)
Init ==
  /\ phase = "sum"
  /\ entry = 1
  /\ memmapTag \in BOOLEAN
  /\ bitmap = {} /\ spilled = {}
  /\ freeMemory = 0 /\ usedMemory = 0 /\ reservedMemory = 0
  /\ req = NoRequest /\ scan = StartScan(0) /\ result = "none"
  /\ held = {} /\ taken = {} /\ mapped = {}
  /\ kernelLocked = FALSE

-----------------------------------------------------------------------------
(* Runs of pages: pfa_lock_pages, pfa_free_pages, pfa_reserve_pages.  Each   *)
(* page whose bit is not yet as wanted is changed and counted, the others    *)
(* are left alone; `seen' are the pages past the bitmap that read as if they *)
(* had to be changed.                                                        *)

(* Mutant: pages already locked are counted again. *)
RecountingLockPages(S) ==
  \E seen \in SUBSET PastBitmap(S) :
    LET bytes == PageSize * Cardinality(InBitmap(S) \cup seen) IN
      /\ bitmap' = bitmap \cup InBitmap(S)
      /\ spilled' = spilled \cup seen
      /\ freeMemory' = (freeMemory - bytes) % Word
      /\ usedMemory' = (usedMemory + bytes) % Word
      /\ UNCHANGED reservedMemory

LockPages(S) ==
  \E seen \in SUBSET PastBitmap(S) :
    LET bytes == PageSize * Cardinality((InBitmap(S) \ bitmap) \cup seen) IN
      /\ bitmap' = bitmap \cup InBitmap(S)
      /\ spilled' = spilled \cup seen
      /\ freeMemory' = (freeMemory - bytes) % Word
      /\ usedMemory' = (usedMemory + bytes) % Word
      /\ UNCHANGED reservedMemory

(* Mutant: freed pages stay accounted as used. *)
LeakyFreePages(S) ==
  \E seen \in SUBSET PastBitmap(S) :
    LET bytes == PageSize * Cardinality((InBitmap(S) \cap bitmap) \cup seen) IN
      /\ bitmap' = bitmap \ S
      /\ spilled' = spilled \cup seen
      /\ freeMemory' = (freeMemory + bytes) % Word
      /\ UNCHANGED <<usedMemory, reservedMemory>>

FreePages(S) ==
  \E seen \in SUBSET PastBitmap(S) :
    LET bytes == PageSize * Cardinality((InBitmap(S) \cap bitmap) \cup seen) IN
      /\ bitmap' = bitmap \ S
      /\ spilled' = spilled \cup seen
      /\ freeMemory' = (freeMemory + bytes) % Word
      /\ usedMemory' = (usedMemory - bytes) % Word
      /\ UNCHANGED reservedMemory

ReservePages(S) ==
  \E seen \in SUBSET PastBitmap(S) :
    LET bytes == PageSize * Cardinality((InBitmap(S) \ bitmap) \cup seen) IN
      /\ bitmap' = bitmap \cup InBitmap(S)
      /\ spilled' = spilled \cup seen
      /\ reservedMemory' = (reservedMemory + bytes) % Word
      /\ UNCHANGED <<freeMemory, usedMemory>>

-----------------------------------------------------------------------------
(* pfa_read_multiboot_memory_map *)

(* The first loop: memory_size and free_memory. *)
SumMemory ==
  /\ phase = "sum"
  /\ freeMemory' = (freeMemory + AvailableSize) % Word
  /\ phase' = "init"
  /\ UNCHANGED <<bits, usedMemory, reservedMemory, call, held, taken, mapped, boot>>

(* The tag turns out not to be a memory map, after it has been used as one. *)
NoMemoryMap ==
  /\ phase = "init"
  /\ ~memmapTag
  /\ phase' = "panic"
  /\ UNCHANGED <<bits, counters, call, held, taken, mapped, boot>>

(* init_bitmap, then the bitmap's own pages are locked. *)
InitBitmap ==
  /\ phase = "init"
  /\ memmapTag
  /\ LockPages(BufferPages)
  /\ taken' = taken \cup InBitmap(BufferPages)
  /\ phase' = "reserve"
  /\ UNCHANGED <<call, held, mapped, boot>>

(* The second loop at an entry that is not available.  The pages reserved are
   those from the entry's own address on, not from mmap->addr. *)
ReserveEntry ==
  /\ phase = "reserve"
  /\ entry \in DOMAIN MemMap
  /\ ~MemMap[entry].available
  /\ LET S == EntryPages(MemMap[entry]) IN
       /\ ReservePages(S)
       /\ taken' = taken \cup InBitmap(S)
  /\ entry' = entry + 1
  /\ UNCHANGED <<phase, call, held, mapped, memmapTag, kernelLocked>>

SkipEntry ==
  /\ phase = "reserve"
  /\ entry \in DOMAIN MemMap
  /\ MemMap[entry].available
  /\ entry' = entry + 1
  /\ UNCHANGED <<phase, bits, counters, call, held, taken, mapped, memmapTag, kernelLocked>>

(* initialized = true *)
Initialized ==
  /\ phase = "reserve"
  /\ entry \notin DOMAIN MemMap
  /\ phase' = "idle"
  /\ UNCHANGED <<bits, counters, call, held, taken, mapped, boot>>

(* ptm_initialize's pfa_lock_pages(KERNEL_START, kernel_pages); KERNEL_START
   is 0 (linker.ld:9). *)
LockKernel ==
  /\ phase = "idle"
  /\ ~kernelLocked
  /\ LockPages(0 .. KernelPages - 1)
  /\ taken' = taken \cup InBitmap(0 .. KernelPages - 1)
  /\ kernelLocked' = TRUE
  /\ UNCHANGED <<phase, entry, memmapTag, call, held, mapped>>

-----------------------------------------------------------------------------
(* Requests *)

Requests == [count : Counts, mapping : {FALSE}] \cup [count : MappedCounts, mapping : {TRUE}]

(* pfa_request_page, pfa_request_pages, pfa_request_mpage, pfa_request_mpages
   are called; the single-page ones are a run of one. *)
Request(r) ==
  /\ phase = "idle"
  /\ kernelLocked \/ EarlyClients
  /\ phase' = "scan"
  /\ req' = r
  /\ scan' = StartScan(r.count)
  /\ UNCHANGED <<bits, counters, result, held, taken, mapped, boot>>

ProbeFree ==
  /\ phase = "scan"
  /\ InLoop(scan, NBits)
  /\ Probing(scan, NBits)
  /\ ~Hit(scan, NBits, bitmap)
  /\ scan' = Advance(scan)
  /\ UNCHANGED <<phase, bits, counters, req, result, held, taken, mapped, boot>>

(* Mutant: after a hit the search resumes one page too far. *)
ProbeUsedOvershoot ==
  /\ phase = "scan"
  /\ InLoop(scan, NBits)
  /\ Hit(scan, NBits, bitmap)
  /\ scan' = [SkipPast(scan) EXCEPT !.index = @ + 1]
  /\ UNCHANGED <<phase, bits, counters, req, result, held, taken, mapped, boot>>

(* Mutant: the search resumes at the hit itself. *)
ProbeUsedStuck ==
  /\ phase = "scan"
  /\ InLoop(scan, NBits)
  /\ Hit(scan, NBits, bitmap)
  /\ scan' = [scan EXCEPT !.index = Cell(scan), !.offset = 0]
  /\ UNCHANGED <<phase, bits, counters, req, result, held, taken, mapped, boot>>

(* Mutant: `index' moves on but `offset' is not reset. *)
ProbeUsedKeepOffset ==
  /\ phase = "scan"
  /\ InLoop(scan, NBits)
  /\ Hit(scan, NBits, bitmap)
  /\ scan' = [scan EXCEPT !.index = Cell(scan) + 1]
  /\ UNCHANGED <<phase, bits, counters, req, result, held, taken, mapped, boot>>

ProbeUsed ==
  /\ phase = "scan"
  /\ InLoop(scan, NBits)
  /\ Hit(scan, NBits, bitmap)
  /\ scan' = SkipPast(scan)
  /\ UNCHANGED <<phase, bits, counters, req, result, held, taken, mapped, boot>>

(* The run is mapped if that was asked for, locked, and its address returned;
   the address of page 0 is NULL, which tells the caller that it got nothing. *)
Grant ==
  /\ phase = "scan"
  /\ Found(scan, NBits)
  /\ LET new == [index |-> scan.index, count |-> req.count] IN
       /\ LockPages(PagesOf(new))
       /\ mapped' = IF req.mapping THEN mapped \cup PagesOf(new) ELSE mapped
       /\ result' = IF scan.index = 0 THEN "null" ELSE "page"
       /\ held' = IF scan.index = 0 THEN held ELSE held \cup {new}
  /\ phase' = "idle"
  /\ req' = NoRequest
  /\ scan' = StartScan(0)
  /\ UNCHANGED <<taken, boot>>

(* The outer loop ran out of pages. *)
OutOfPages ==
  /\ phase = "scan"
  /\ ~InLoop(scan, NBits)
  /\ result' = "null"
  /\ phase' = "idle"
  /\ req' = NoRequest
  /\ scan' = StartScan(0)
  /\ UNCHANGED <<bits, counters, held, taken, mapped, boot>>

(* pfa_free_page(s) by the holder of the run. *)
Free(r) ==
  /\ phase = "idle"
  /\ FreePages(PagesOf(r))
  /\ held' = held \ {r}
  /\ UNCHANGED <<phase, call, taken, mapped, boot>>

(* PANIC never returns. *)
Halted == phase = "panic" /\ UNCHANGED vars

RequestLoop == ProbeFree \/ ProbeUsed \/ Grant \/ OutOfPages

Next ==
  \/ SumMemory \/ NoMemoryMap \/ InitBitmap
  \/ ReserveEntry \/ SkipEntry \/ Initialized
  \/ LockKernel
  \/ \E r \in Requests : Request(r)
  \/ RequestLoop
  \/ \E r \in held : Free(r)
  \/ Halted

Spec == Init /\ [][Next]_vars

(* The loops of a request wait for nothing, so the processor runs them on. *)
FairSpec == Spec /\ WF_vars(RequestLoop)

-----------------------------------------------------------------------------
(* Safety *)

(* Runs that callers hold at the same time share no page, and none of them
   has a page that the kernel locked or reserved for itself: a request never
   hands out a page twice, whatever was requested and freed before. *)
GrantsExclusive ==
  /\ \A r, q \in held : r # q => PagesOf(r) \cap PagesOf(q) = {}
  /\ \A r \in held : PagesOf(r) \cap taken = {}

(* The bitmap is exactly what is withdrawn or held: freeing undoes a request
   and nothing else, so no page leaks. *)
BitsExact == bitmap = taken \cup UNION {InBitmap(PagesOf(r)) : r \in held}

(* Bytes move between free_memory and used_memory and are never lost, even
   when a run overruns the bitmap. *)
FreeUsedBalance == phase # "sum" => (freeMemory + usedMemory) % Word = AvailableSize

(* used_memory and reserved_memory together count the set bits, as long as no
   bit past the bitmap was touched. *)
BitsAccounted ==
  spilled = {} =>
    (usedMemory + reservedMemory) % Word = (PageSize * Cardinality(bitmap)) % Word

(* Once ptm_initialize has locked the kernel's pages they stay locked. *)
KernelStaysLocked == kernelLocked => InBitmap(0 .. KernelPages - 1) \subseteq bitmap

(* "Find contiguous page_count pages" (pfa.h:36): the pages of a run are
   pages the bitmap knows. *)
GrantsInBitmap == \A r \in held : PagesOf(r) \subseteq 0 .. NBits - 1

(* "Reserve pages of unusable/reserved memory" (page_frame_allocator.c:88): no
   caller holds a page of an entry that is not available. *)
ReservedNotGranted ==
  \A i \in DOMAIN MemMap :
    ~MemMap[i].available =>
      \A r \in held, c \in InBitmap(0 .. NBits - 1) :
        c \in PagesOf(r) =>
          (c + 1) * PageSize <= MemMap[i].addr \/ c * PageSize >= MemMap[i].addr + MemMap[i].len

-----------------------------------------------------------------------------
(* The inductive invariant behind the safety properties, for callers that
   make their requests after ptm_initialize. *)

(* The loops of a request know what they have passed, and work on the request
   they were entered with. *)
ScanKnows ==
  phase = "scan" =>
    /\ req \in Requests
    /\ scan.want = req.count
    /\ ScanInv(scan, NBits, bitmap)

(* Every run starts in the bitmap; no two share one of its pages. *)
HeldApart ==
  /\ \A r \in held : r.index < NBits /\ r.count # 0
  /\ \A r, q \in held : r # q => InBitmap(PagesOf(r)) \cap InBitmap(PagesOf(q)) = {}
  /\ \A r \in held : PagesOf(r) \cap taken = {}

(* Nobody is served before the kernel's pages are locked. *)
InOrder ==
  /\ ~kernelLocked => held = {} /\ phase # "scan"
  /\ kernelLocked => phase \in {"idle", "scan"} /\ InBitmap(0 .. KernelPages - 1) \subseteq taken

(* Bitmap, runs held, withdrawn pages and the request under way agree. *)
PagesInv ==
  /\ TypeOK
  /\ ScanKnows
  /\ HeldApart
  /\ BitsExact
  /\ InOrder

-----------------------------------------------------------------------------
(* What a step may never do *)

(* A request answers NULL only if no start in the bitmap fits: NULL is never
   the address of a page that was found. *)
NullMeansFull ==
  [][phase = "scan" /\ phase' = "idle" /\ result' = "null" =>
       \A i \in 0 .. NBits - 1 : ~Fits(i, scan.want, NBits, bitmap)]_vars

(* Requests are first-fit: a page is only handed out if no lower start was
   possible. *)
TakesFirstFit ==
  [][held \subseteq held' /\ held # held' =>
       \A i \in 0 .. scan.index - 1 : ~Fits(i, scan.want, NBits, bitmap)]_vars

-----------------------------------------------------------------------------
(* Liveness *)

(* Every request is answered. *)
RequestReturns == phase = "scan" ~> phase = "idle"

-----------------------------------------------------------------------------
(* Refinement: what callers see is a pool of pages. *)

Held == {<<r.index, r.count>> : r \in held}

Pool == INSTANCE BlockPool WITH
          NCells <- NBits, Lengths <- Counts \cup MappedCounts, Strict <- FALSE,
          held <- Held, taken <- taken, refused <- result = "null"

(* With the kernel locked first, every step of the allocator withdraws,
   grants, releases or refuses pages as the pool does, or is invisible. *)
ImplementsPool == Pool!PoolSpec
=============================================================================
