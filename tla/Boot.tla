--------------------------------- MODULE Boot ---------------------------------
(***************************************************************************)
(* How kernel_main (kernel/kernel.c) lays out memory: the page frame       *)
(* allocator's bitmap, the kernel heap, then the page directory and the    *)
(* page tables are put behind the kernel, each at KERNEL_END, which the    *)
(* one before must have moved.  Nothing is protected until ptm_initialize  *)
(* locks all of it with the allocator; after that, pages are requested,    *)
(* and mapped.                                                             *)
(*                                                                         *)
(* PageFrameAllocator and PageTables are the two components; the heap is   *)
(* only the memory that it takes.                                          *)
(***************************************************************************)
EXTENDS PageFrameAllocator

CONSTANTS
  Entries,      \* entries of a page directory and of a page table (1024)
  KheapHeader,  \* sizeof(kheap_t)
  KheapSize,    \* kheap_size of kernel_main
  Granularity   \* kheap_granularity

(* kheap_memory_size_of, with KHEAP_BITMAP_SIZE *)
KheapMemorySize == KheapHeader + ((KheapSize + Granularity - 1) \div Granularity) \div 8 + KheapSize

VARIABLES
  stage,    \* what kernel_main does next: "heap", "acpi", "paging" or "main"
  end,      \* KERNEL_END, in bytes, until ptm_initialize
  parts,    \* the memory taken: name -> [from, to], to being the first byte behind
  (* the page tables; `paging' is where ptm_initialize is *)
  paging, kernelEnd, pd, entries, physEntries, tables, next, lockedPages, cr3

T == INSTANCE PageTables WITH
       KernelEnd <- KernelEnd + BitmapSize + KheapMemorySize, Frames <- {},
       EarlyClients <- TRUE, phase <- paging

ASSUME BootAssumption ==
  /\ Granularity \in Nat \ {0} /\ {KheapHeader, KheapSize} \subseteq Nat
  /\ T!PageTablesAssumption
  /\ NBits <= Entries * Entries
  /\ T!FinalEnd <= NBits
  /\ KernelPages = T!NumPages(T!FinalEnd * PageSize)
  /\ MappedCounts \subseteq {1}

layout == <<stage, end, parts>>
ptm == <<paging, kernelEnd, pd, entries, physEntries, tables, next, lockedPages, cr3>>
bootVars == <<vars, layout, ptm>>

BootInit ==
  /\ Init
  /\ stage = "heap"
  /\ end = KernelEnd
  /\ parts = [p \in {"image"} |-> [from |-> 0, to |-> KernelEnd]]
  /\ paging = "boot" /\ kernelEnd = 0 /\ pd = 0
  /\ entries = [i \in T!Index |-> 0] /\ physEntries = [i \in T!Index |-> 0]
  /\ tables = <<>> /\ next = 0 /\ lockedPages = 0 /\ cr3 = 0

-----------------------------------------------------------------------------
(* The memory taken, with one part more at KERNEL_END. *)
WithPart(part, size) ==
  [p \in DOMAIN parts \cup {part} |->
     IF p = part THEN [from |-> end, to |-> end + size] ELSE parts[p]]

(* KERNEL_END moves on behind the part. *)
TakeMemory(part, size) ==
  /\ parts' = WithPart(part, size)
  /\ end' = end + size

(* pfa_read_multiboot_memory_map *)
ReadMemoryMap ==
  /\ \/ SumMemory \/ NoMemoryMap \/ ReserveEntry \/ SkipEntry \/ Initialized
     \/ Halted
  /\ UNCHANGED <<layout, ptm>>

PlaceBitmap ==
  /\ InitBitmap
  /\ TakeMemory("bitmap", BitmapSize)
  /\ UNCHANGED <<stage, ptm>>

(* Mutant: KERNEL_END is left where the heap begins. *)
KheapAddInPlace ==
  /\ stage = "heap" /\ phase = "idle"
  /\ parts' = WithPart("heap", KheapMemorySize)
  /\ stage' = "acpi"
  /\ UNCHANGED <<vars, end, ptm>>

(* kheap_add *)
KheapAdd ==
  /\ stage = "heap" /\ phase = "idle"
  /\ TakeMemory("heap", KheapMemorySize)
  /\ stage' = "acpi"
  /\ UNCHANGED <<vars, ptm>>

(* acpi_init maps pages before there is a directory: it may abort. *)
AcpiInit ==
  /\ stage = "acpi"
  /\ \/ T!EarlyMapAborts /\ UNCHANGED stage
     \/ paging = "boot" /\ stage' = "paging" /\ UNCHANGED ptm
     \/ T!Halted /\ UNCHANGED stage
  /\ UNCHANGED <<vars, end, parts>>

-----------------------------------------------------------------------------
(* ptm_initialize: KERNEL_END is rounded up, then PageTables takes over. *)

RoundUp ==
  /\ stage = "paging" /\ kernelEnd = 0
  /\ kernelEnd' = (end + 4095) \div 4096
  /\ UNCHANGED <<vars, layout, paging, pd, entries, physEntries, tables, next, lockedPages, cr3>>

MakeTables ==
  /\ kernelEnd # 0
  /\ T!PlaceDirectory \/ T!CreateTable \/ T!TablesDone \/ T!IdentityMap \/ T!IdentityDone
  /\ UNCHANGED <<vars, layout>>

(* Mutant: the kernel is locked as far as the tables. *)
LockEverythingButTables ==
  /\ T!LockKernel
  /\ LockPages(0 .. pd - 1)
  /\ taken' = taken \cup InBitmap(0 .. pd - 1)
  /\ kernelLocked' = TRUE
  /\ UNCHANGED <<phase, entry, memmapTag, call, held, mapped, layout>>

(* pfa_lock_pages(KERNEL_START, kernel_pages) *)
LockEverything ==
  /\ T!LockKernel
  /\ LockPages(0 .. lockedPages' - 1)
  /\ taken' = taken \cup InBitmap(0 .. lockedPages' - 1)
  /\ kernelLocked' = TRUE
  /\ UNCHANGED <<phase, entry, memmapTag, call, held, mapped, layout>>

EnablePaging ==
  /\ T!Load
  /\ stage' = "main"
  /\ UNCHANGED <<vars, end, parts>>

-----------------------------------------------------------------------------
(* Whoever wants pages from now on. *)

(* Mutant: the page is handed out unmapped. *)
MapNothing(page) == UNCHANGED ptm

(* pfa_request_mpage: ptm_map_addr(address, address, true, true) *)
MapToItself(page) == T!MapRequest(page, page)

GrantPages ==
  /\ Grant
  /\ IF req.mapping THEN MapToItself(scan.index) ELSE UNCHANGED ptm

Serve ==
  \/ (ProbeFree \/ ProbeUsed \/ OutOfPages) /\ UNCHANGED ptm
  \/ GrantPages

Clients ==
  /\ stage = "main"
  /\ \/ (\E r \in Requests : Request(r)) /\ UNCHANGED ptm
     \/ (\E r \in held : Free(r)) /\ UNCHANGED ptm
     \/ Serve
  /\ UNCHANGED layout

BootNext ==
  \/ ReadMemoryMap \/ PlaceBitmap \/ KheapAdd \/ AcpiInit
  \/ RoundUp \/ MakeTables \/ LockEverything \/ EnablePaging
  \/ Clients

BootSpec == BootInit /\ [][BootNext]_bootVars

FairBootSpec == BootSpec /\ WF_bootVars(Clients /\ Serve)

-----------------------------------------------------------------------------
(* All the memory taken so far, by page. *)

PagesOfPart(p) == parts[p].from \div PageSize .. (parts[p].to - 1) \div PageSize
DirectoryPages == IF pd = 0 THEN {} ELSE pd .. pd + T!DirectoryPages - 1
Occupied == (UNION {PagesOfPart(p) : p \in DOMAIN parts}) \cup DirectoryPages \cup DOMAIN tables

(* What is laid out behind the kernel does not overlap: no two parts share a
   byte, directory and tables share no page with a part or one another, and
   every directory entry has a table of its own. *)
RegionsApart ==
  /\ \A p, q \in DOMAIN parts : p = q \/ parts[p].to <= parts[q].from \/ parts[q].to <= parts[p].from
  /\ (DirectoryPages \cup DOMAIN tables) \cap UNION {PagesOfPart(p) : p \in DOMAIN parts} = {}
  /\ T!TablesApart

(* From when ptm_initialize has locked the kernel, every page of it, its
   heap, the bitmap, the directory and the tables is locked for good and
   nobody holds it. *)
KernelProtected ==
  lockedPages # 0 => Occupied \subseteq bitmap /\ \A r \in held : PagesOf(r) \cap Occupied = {}

(* What is handed out mapped can be used at its own address, and so can
   everything that the kernel has taken. *)
GrantsReachable ==
  cr3 # 0 => \A page \in mapped \cup Occupied : T!Walk(page) = T!Entry(page, TRUE, TRUE)

(* When paging is turned on, everything below KERNEL_END translates to itself,
   and the processor walks the tables that ptm_map_addr changes. *)
KernelIdentity == T!TypeOK /\ T!KernelIdentity

(* Step by step the allocator is the one of PageFrameAllocator, with its
   clients behind ptm_initialize: what is shown of that holds in the kernel. *)
BootsAllocator == Spec

-----------------------------------------------------------------------------
(* The inductive invariant behind them. *)

(* Where the parts end up. *)
Plan ==
  [image  |-> [from |-> 0, to |-> KernelEnd],
   bitmap |-> [from |-> KernelEnd, to |-> KernelEnd + BitmapSize],
   heap   |-> [from |-> KernelEnd + BitmapSize, to |-> KernelEnd + BitmapSize + KheapMemorySize]]

HasTaken(names, last) ==
  parts = [p \in names |-> Plan[p]] /\ end = Plan[last].to

(* The parts are taken in order while the allocator comes up, the heap when it
   is idle; the kernel is locked just before paging is turned on, and nobody
   has a page mapped before that. *)
LayoutInv ==
  /\ stage \in {"heap", "acpi", "paging", "main"}
  /\ stage = "heap" =>
       /\ paging = "boot" /\ kernelEnd = 0 /\ phase # "scan"
       /\ phase \in {"sum", "init", "panic"} => HasTaken({"image"}, "image")
       /\ phase \in {"reserve", "idle"} => HasTaken({"image", "bitmap"}, "bitmap")
  /\ stage # "heap" => HasTaken({"image", "bitmap", "heap"}, "heap") /\ phase \in {"idle", "scan"}
  /\ stage = "acpi" => paging \in {"boot", "aborted"} /\ kernelEnd = 0
  /\ stage = "paging" => paging \notin {"running", "aborted"} /\ (kernelEnd = 0 => paging = "boot")
  /\ stage = "main" <=> paging = "running"
  /\ stage # "main" => phase # "scan" /\ held = {} /\ mapped = {}
  /\ kernelLocked <=> paging \in {"load", "running"}

(* Table i, and the entry of a page. *)
TablePage(i) == T!FirstFreePage + T!DirectoryPages + i * T!TablePages
Slot(page) == tables[TablePage(T!PdeIndex(page))][T!PteIndex(page)]

(* The first n directory entries have their tables, one behind the other. *)
HasTables(n) ==
  /\ pd = T!FirstFreePage
  /\ entries = [i \in T!Index |-> IF i < n THEN TablePage(i) ELSE 0]
  /\ physEntries = entries
  /\ DOMAIN tables = {TablePage(i) : i \in 0 .. n - 1}
  /\ kernelEnd = TablePage(n)
  /\ \A i \in 0 .. n - 1 : tables[TablePage(i)] \in [T!Index -> T!PTEs]

(* A page is mapped to itself or not at all: those below n are. *)
MapsToItself(n) ==
  /\ \A page \in T!Pages : Slot(page) \in {T!NoEntry, T!Entry(page, TRUE, TRUE)}
  /\ \A page \in 0 .. n - 1 : Slot(page) = T!Entry(page, TRUE, TRUE)

PagingInv ==
  /\ paging \in {"boot", "tables", "identity", "lock", "load", "running", "aborted"}
  /\ paging \in {"boot", "aborted"} =>
       /\ kernelEnd \in {0, T!FirstFreePage} /\ pd = 0 /\ next = 0
       /\ entries = [i \in T!Index |-> 0] /\ physEntries = [i \in T!Index |-> 0]
       /\ DOMAIN tables = {}
  /\ paging = "tables" =>
       /\ next \in 0 .. Entries /\ HasTables(next)
       /\ \A i \in 0 .. next - 1, j \in T!Index : tables[TablePage(i)][j] = T!NoEntry
  /\ paging = "identity" => HasTables(Entries) /\ next \in 0 .. kernelEnd /\ MapsToItself(next)
  /\ paging \in {"lock", "load", "running"} =>
       HasTables(Entries) /\ next = kernelEnd /\ MapsToItself(kernelEnd)
  /\ lockedPages = IF paging \in {"load", "running"} THEN KernelPages ELSE 0
  /\ cr3 = IF paging = "running" THEN pd ELSE 0
  /\ \A page \in mapped : page \in T!Pages /\ Slot(page) = T!Entry(page, TRUE, TRUE)

KernelInv == PagesInv /\ LayoutInv /\ PagingInv
===============================================================================
