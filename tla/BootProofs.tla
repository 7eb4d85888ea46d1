------------------------------ MODULE BootProofs ------------------------------
(***************************************************************************)
(* Theorems about the kernel that Boot composes, for every memory map,     *)
(* kernel size, heap and size of page tables.                              *)
(***************************************************************************)
EXTENDS Boot, PageFrameProofs

-----------------------------------------------------------------------------
(* Constants *)

(* NUM_PAGES gives a page to the tables and three to the directory. *)
LEMMA PtmSizes == T!TablePages = 1 /\ T!DirectoryPages = 3
BY DEF T!TablePages, T!DirectoryPages, T!NumPages

(* Sizes are natural numbers, and the parts take something, so that the page
   tables do not begin at page 0. *)
LEMMA BootSizes ==
  /\ KernelEnd \in Nat /\ BitmapSize \in Nat \ {0} /\ KheapMemorySize \in Nat
  /\ NBits \in Nat /\ Entries \in Nat \ {0} /\ T!FirstFreePage \in Nat \ {0}
<1>1. MemorySize \in Nat /\ KernelEnd \in Nat
  BY PageFrameAssumption
<1>2. BitmapSize \in Nat \ {0}
  BY <1>1 DEF BitmapSize, PageSize
<1>3. /\ Granularity \in Nat \ {0} /\ KheapHeader \in Nat /\ KheapSize \in Nat
      /\ Entries \in Nat \ {0}
  BY BootAssumption DEF T!PageTablesAssumption
<1>4. (KheapSize + Granularity - 1) \div Granularity \in Nat
  BY <1>3
<1>5. KheapMemorySize \in Nat
  BY <1>3, <1>4 DEF KheapMemorySize
<1>6. T!FirstFreePage \in Nat \ {0}
  BY <1>1, <1>2, <1>5 DEF T!FirstFreePage
<1> QED BY <1>1, <1>2, <1>3, <1>5, <1>6, SizesNat

(* The page tables: one behind the other, behind the directory, all of them
   mapped. *)
LEMMA TablePlaces ==
  /\ \A i \in Int : TablePage(i) = T!FirstFreePage + 3 + i
  /\ \A i \in Nat : TablePage(i) \in Nat \ {0}
  /\ T!FinalEnd = TablePage(Entries)
  /\ T!FinalEnd \in Nat /\ T!FinalEnd <= Entries * Entries
  /\ KernelPages = T!NumPages(T!FinalEnd * 4096) /\ KernelPages \in Nat \ {0}
<1>1. \A i \in Int : TablePage(i) = T!FirstFreePage + 3 + i
  BY PtmSizes, BootSizes DEF TablePage
<1>2. T!FinalEnd = T!FirstFreePage + 3 + Entries
  BY PtmSizes, BootSizes DEF T!FinalEnd
<1>3. T!FinalEnd <= Entries * Entries /\ KernelPages = T!NumPages(T!FinalEnd * 4096)
  BY BootAssumption DEF T!PageTablesAssumption, PageSize
<1>4. KernelPages \in Nat \ {0}
  BY <1>2, <1>3, BootSizes DEF T!NumPages
<1> QED BY <1>1, <1>2, <1>3, <1>4, BootSizes

(* Directory index and table index name a page, and no other. *)
LEMMA PageIndexes ==
  ASSUME NEW page \in T!Pages
  PROVE  /\ T!PdeIndex(page) \in T!Index /\ T!PteIndex(page) \in T!Index
         /\ page = Entries * T!PdeIndex(page) + T!PteIndex(page)
<1>1. Entries \in Nat \ {0} /\ page \in Nat /\ page < Entries * Entries
  BY BootSizes DEF T!Pages
<1>2. /\ page % Entries \in 0 .. Entries - 1 /\ page \div Entries \in Int
      /\ page = Entries * (page \div Entries) + (page % Entries)
  BY <1>1, DivMod
<1>3. page \div Entries >= 0
  BY <1>1
<1>4. page \div Entries < Entries
  <2> SUFFICES ASSUME page \div Entries >= Entries PROVE FALSE
    BY <1>1, <1>2
  <2>1. Entries * (page \div Entries) >= Entries * Entries
    BY <1>1, <1>2
  <2> QED BY <1>1, <1>2, <2>1
<1> QED BY <1>1, <1>2, <1>3, <1>4 DEF T!PdeIndex, T!PteIndex, T!Index

-----------------------------------------------------------------------------
(* The composed kernel is an allocator as PageFrameAllocator describes it. *)

(* Where the first part is when the kernel starts. *)
LEMMA TakenAtStart ==
  ASSUME parts = [p \in {"image"} |-> [from |-> 0, to |-> KernelEnd]], end = KernelEnd
  PROVE  HasTaken({"image"}, "image")
BY DEF HasTaken, Plan

(* Taking memory at KERNEL_END puts the next part where the plan has it. *)
LEMMA TakesBitmap ==
  ASSUME HasTaken({"image"}, "image"), TakeMemory("bitmap", BitmapSize)
  PROVE  HasTaken({"image", "bitmap"}, "bitmap")'
BY DEF HasTaken, TakeMemory, Plan, WithPart

LEMMA TakesHeap ==
  ASSUME HasTaken({"image", "bitmap"}, "bitmap"), TakeMemory("heap", KheapMemorySize)
  PROVE  HasTaken({"image", "bitmap", "heap"}, "heap")'
BY DEF HasTaken, TakeMemory, Plan, WithPart

(* kernel_main gets to lock the kernel with an idle allocator, and hands it
   the page count that the allocator's constant stands for. *)
LEMMA LocksOnce ==
  ASSUME KernelInv, T!LockKernel
  PROVE  /\ phase = "idle" /\ ~kernelLocked /\ held = {} /\ stage = "paging"
         /\ lockedPages' = KernelPages
<1>1. paging = "lock" /\ lockedPages' = T!NumPages(kernelEnd * 4096)
  BY DEF T!LockKernel
<1>2. stage = "paging" /\ phase = "idle" /\ ~kernelLocked /\ held = {}
  BY <1>1 DEF KernelInv, LayoutInv
<1>3. kernelEnd = T!FinalEnd
  BY <1>1, TablePlaces DEF KernelInv, PagingInv, HasTables
<1> QED BY <1>1, <1>2, <1>3, TablePlaces

(* Every step of kernel_main, of ptm_initialize or of a caller is a step of
   the allocator or leaves it alone. *)
LEMMA StepsOfAllocator ==
  ASSUME KernelInv, [BootNext]_bootVars
  PROVE  [Next]_vars
<1>1. CASE ReadMemoryMap
  BY <1>1 DEF ReadMemoryMap, Next
<1>2. CASE PlaceBitmap
  BY <1>2 DEF PlaceBitmap, Next
<1>3. CASE KheapAdd \/ AcpiInit \/ RoundUp \/ MakeTables \/ EnablePaging
  BY <1>3 DEF KheapAdd, AcpiInit, RoundUp, MakeTables, EnablePaging
<1>4. CASE LockEverything
  <2>1. T!LockKernel
    BY <1>4 DEF LockEverything
  <2>2. LockKernel
    BY <1>4, <2>1, LocksOnce DEF LockEverything, LockKernel
  <2> QED BY <2>2 DEF Next
<1>5. CASE Clients
  <2>1. CASE \E r \in Requests : Request(r)
    BY <2>1 DEF Next
  <2>2. CASE \E r \in held : Free(r)
    BY <2>2 DEF Next
  <2>3. CASE Serve
    BY <2>3 DEF Serve, GrantPages, Next, RequestLoop
  <2> QED BY <1>5, <2>1, <2>2, <2>3 DEF Clients
<1>6. CASE UNCHANGED bootVars
  BY <1>6 DEF bootVars
<1> QED BY <1>1, <1>2, <1>3, <1>4, <1>5, <1>6 DEF BootNext

-----------------------------------------------------------------------------
(* KernelInv is inductive: the layout. *)

LEMMA KernelInvInit == BootInit => KernelInv
<1> SUFFICES ASSUME BootInit PROVE KernelInv
  OBVIOUS
<1>1. PagesInv
  BY PagesInvInit DEF BootInit
<1>2. LayoutInv
  BY TakenAtStart DEF BootInit, Init, LayoutInv
<1>3. PagingInv
  BY DEF BootInit, Init, PagingInv
<1> QED BY <1>1, <1>2, <1>3 DEF KernelInv

(* What the allocator does at boot and for its callers takes no memory at
   KERNEL_END, but for the bitmap. *)
LEMMA AllocatorKeepsLayout ==
  ASSUME KernelInv, ReadMemoryMap \/ PlaceBitmap \/ Clients
  PROVE  LayoutInv'
<1> USE DEF KernelInv, LayoutInv
<1>1. CASE ReadMemoryMap
  <2>1. phase \in {"sum", "init", "reserve", "panic"} /\ UNCHANGED <<held, mapped, kernelLocked>>
    BY <1>1 DEF ReadMemoryMap, SumMemory, NoMemoryMap, ReserveEntry, SkipEntry, Initialized,
                Halted, boot, vars
  <2>2. stage = "heap"
    BY <2>1
  <2>3. \/ phase \in {"sum", "init", "panic"} /\ phase' \in {"init", "panic"}
        \/ phase = "reserve" /\ phase' \in {"reserve", "idle"}
    BY <1>1 DEF ReadMemoryMap, SumMemory, NoMemoryMap, ReserveEntry, SkipEntry, Initialized,
                Halted, vars
  <2>4. UNCHANGED <<stage, end, parts, paging, kernelEnd>>
    BY <1>1 DEF ReadMemoryMap, layout, ptm
  <2> QED BY <2>1, <2>2, <2>3, <2>4 DEF HasTaken
<1>2. CASE PlaceBitmap
  <2>1. /\ phase = "init" /\ phase' = "reserve" /\ stage = "heap"
        /\ UNCHANGED <<held, mapped, kernelLocked>>
    BY <1>2 DEF PlaceBitmap, InitBitmap, boot
  <2>2. UNCHANGED <<stage, paging, kernelEnd>> /\ TakeMemory("bitmap", BitmapSize)
    BY <1>2 DEF PlaceBitmap, ptm
  <2>3. HasTaken({"image", "bitmap"}, "bitmap")'
    BY <2>1, <2>2, TakesBitmap
  <2> QED BY <2>1, <2>2, <2>3
<1>3. CASE Clients
  <2>1. stage = "main" /\ UNCHANGED <<stage, end, parts>>
    BY <1>3 DEF Clients, layout
  <2>2. UNCHANGED <<paging, kernelEnd>>
    BY <1>3 DEF Clients, Serve, GrantPages, ptm, MapToItself, T!MapRequest
  <2>3. phase' \in {"idle", "scan"} /\ UNCHANGED kernelLocked
    BY <1>3 DEF Clients, Serve, GrantPages, Request, Free, ProbeFree, ProbeUsed, OutOfPages, Grant, boot
  <2> QED BY <2>1, <2>2, <2>3 DEF HasTaken
<1> QED BY <1>1, <1>2, <1>3

(* kernel_main and ptm_initialize go through their stages in order. *)
LEMMA BootKeepsLayout ==
  ASSUME KernelInv, KheapAdd \/ AcpiInit \/ RoundUp \/ MakeTables \/ LockEverything \/ EnablePaging
  PROVE  LayoutInv'
<1> USE DEF KernelInv, LayoutInv
<1>1. CASE KheapAdd
  <2>1. HasTaken({"image", "bitmap", "heap"}, "heap")'
    BY <1>1, TakesHeap DEF KheapAdd
  <2>2. ~kernelLocked /\ held = {} /\ mapped = {}
    BY <1>1 DEF KheapAdd
  <2> QED BY <1>1, <2>1, <2>2 DEF KheapAdd, ptm, vars, boot
<1>2. CASE AcpiInit
  BY <1>2 DEF AcpiInit, T!EarlyMapAborts, T!Halted, T!vars, ptm, vars, boot, HasTaken
<1>3. CASE RoundUp
  <2>1. kernelEnd' # 0
    <3>1. end = KernelEnd + BitmapSize + KheapMemorySize
      BY <1>3 DEF RoundUp, HasTaken, Plan
    <3>2. kernelEnd' = T!FirstFreePage
      BY <1>3, <3>1 DEF RoundUp, T!FirstFreePage
    <3> QED BY <3>2, BootSizes
  <2> QED BY <1>3, <2>1 DEF RoundUp, layout, vars, boot, HasTaken
<1>4. CASE MakeTables
  <2>1. /\ paging \in {"boot", "tables", "identity"} /\ kernelEnd # 0
        /\ paging' \in {"tables", "identity", "lock"} /\ UNCHANGED <<stage, end, parts>>
    BY <1>4 DEF MakeTables, T!PlaceDirectory, T!CreateTable, T!TablesDone, T!IdentityMap,
                T!IdentityDone, layout
  <2>2. stage = "paging"
    BY <2>1
  <2>3. UNCHANGED <<phase, held, mapped, kernelLocked>>
    BY <1>4 DEF MakeTables, vars, boot
  <2>4. kernelEnd' # 0
    <3>1. kernelEnd \in Nat
      <4>1. CASE paging = "boot"
        BY <4>1, BootSizes DEF PagingInv
      <4>2. CASE paging = "tables"
        BY <4>2, TablePlaces DEF PagingInv, HasTables
      <4>3. CASE paging = "identity"
        BY <4>3, BootSizes, TablePlaces DEF PagingInv, HasTables
      <4> QED BY <2>1, <4>1, <4>2, <4>3
    <3>2. kernelEnd' \in {kernelEnd, kernelEnd + 3, kernelEnd + 1}
      BY <1>4, PtmSizes DEF MakeTables, T!PlaceDirectory, T!CreateTable, T!TablesDone,
                            T!IdentityMap, T!IdentityDone
    <3> QED BY <2>1, <3>1, <3>2
  <2> QED BY <2>1, <2>2, <2>3, <2>4 DEF HasTaken
<1>5. CASE LockEverything
  <2>1. /\ phase = "idle" /\ held = {} /\ stage = "paging" /\ paging' = "load"
        /\ kernelEnd' # 0
    BY <1>5, LocksOnce DEF LockEverything, T!LockKernel
  <2>2. UNCHANGED <<phase, stage, end, parts, held, mapped>> /\ kernelLocked' = TRUE
    BY <1>5 DEF LockEverything, layout
  <2> QED BY <2>1, <2>2 DEF HasTaken
<1>6. CASE EnablePaging
  <2>1. paging = "load" /\ paging' = "running" /\ stage' = "main" /\ UNCHANGED <<end, parts, phase, kernelLocked>>
    BY <1>6 DEF EnablePaging, T!Load, vars, boot
  <2> QED BY <2>1 DEF HasTaken
<1> QED BY <1>1, <1>2, <1>3, <1>4, <1>5, <1>6

-----------------------------------------------------------------------------
(* KernelInv is inductive: the page tables. *)

(* ptm_map_addr finds the table of a page and maps that page, if it is not
   mapped to itself already; no other page is touched. *)
LEMMA MapsOnePage ==
  ASSUME HasTables(Entries), NEW page \in T!Pages,
         Slot(page) \in {T!NoEntry, T!Entry(page, TRUE, TRUE)},
         T!MapAddr(page, page, TRUE, TRUE), UNCHANGED <<kernelEnd, pd, entries, physEntries>>
  PROVE  /\ HasTables(Entries)'
         /\ \A q \in T!Pages :
              tables'[TablePage(T!PdeIndex(q))][T!PteIndex(q)] =
                IF q = page THEN T!Entry(page, TRUE, TRUE) ELSE Slot(q)
<1> DEFINE t == TablePage(T!PdeIndex(page))
           k == T!PteIndex(page)
           e == T!Entry(page, TRUE, TRUE)
<1>1. \A q \in T!Pages :
        /\ T!PdeIndex(q) \in 0 .. Entries - 1 /\ T!PteIndex(q) \in T!Index
        /\ q = Entries * T!PdeIndex(q) + T!PteIndex(q)
  BY PageIndexes DEF T!Index
<1>2. Entries \in Nat \ {0} /\ page \in Nat
  BY BootSizes DEF T!Pages
<1>3. \A i \in Int, j \in Int : TablePage(i) = TablePage(j) => i = j
  BY TablePlaces, BootSizes
<1>4. /\ DOMAIN tables = {TablePage(i) : i \in 0 .. Entries - 1}
      /\ \A i \in 0 .. Entries - 1 : tables[TablePage(i)] \in [T!Index -> T!PTEs]
  BY DEF HasTables
<1>5. entries[T!PdeIndex(page)] = t
  <2>1. T!PdeIndex(page) \in T!Index /\ T!PdeIndex(page) < Entries
    BY <1>1, <1>2 DEF T!Index
  <2> QED BY <2>1 DEF HasTables
<1>6. tables' = [tables EXCEPT ![t][k] = IF @.present THEN @ ELSE e]
  BY <1>5 DEF T!MapAddr
<1>7. (IF Slot(page).present THEN Slot(page) ELSE e) = e
  <2>1. e.present = TRUE /\ T!NoEntry.present = FALSE
    BY DEF T!NoEntry, T!Entry
  <2>2. CASE Slot(page) = T!NoEntry
    BY <2>1, <2>2
  <2>3. CASE Slot(page) = e
    BY <2>3, Zenon
  <2> QED BY <2>2, <2>3
<1>8. t \in DOMAIN tables /\ tables[t] \in [T!Index -> T!PTEs] /\ k \in T!Index
  BY <1>1, <1>4
<1>9. tables' = [tables EXCEPT ![t] = [tables[t] EXCEPT ![k] = e]]
  BY <1>6, <1>7, <1>8 DEF Slot
<1>10. e \in T!PTEs
  BY <1>2 DEF T!Entry, T!PTEs
<1>11. HasTables(Entries)'
  <2>1. DOMAIN tables' = {TablePage(i) : i \in 0 .. Entries - 1}
    BY <1>4, <1>9
  <2>2. [tables[t] EXCEPT ![k] = e] \in [T!Index -> T!PTEs]
    BY <1>8, <1>10
  <2>3. ASSUME NEW i \in 0 .. Entries - 1
        PROVE  tables'[TablePage(i)] \in [T!Index -> T!PTEs]
    BY <1>4, <1>9, <2>2
  <2> QED BY <2>1, <2>3 DEF HasTables
<1>12. ASSUME NEW q \in T!Pages
       PROVE  tables'[TablePage(T!PdeIndex(q))][T!PteIndex(q)] = IF q = page THEN e ELSE Slot(q)
  <2>1. CASE q = page
    BY <2>1, <1>8, <1>9
  <2>2. CASE q # page
    <3>1. T!PdeIndex(q) # T!PdeIndex(page) \/ T!PteIndex(q) # k
      BY <2>2, <1>1
    <3>2. CASE T!PdeIndex(q) # T!PdeIndex(page)
      <4>1. TablePage(T!PdeIndex(q)) # t /\ TablePage(T!PdeIndex(q)) \in DOMAIN tables
        BY <3>2, <1>1, <1>3, <1>4
      <4> QED BY <4>1, <1>9, <2>2 DEF Slot
    <3>3. CASE T!PdeIndex(q) = T!PdeIndex(page) /\ T!PteIndex(q) # k
      BY <3>3, <1>1, <1>8, <1>9, <2>2 DEF Slot
    <3> QED BY <3>1, <3>2, <3>3
  <2> QED BY <2>1, <2>2
<1> QED BY <1>11, <1>12

(* Steps that leave the page tables alone, and map no page. *)
LEMMA SamePaging ==
  ASSUME PagingInv, UNCHANGED ptm, UNCHANGED mapped
  PROVE  PagingInv'
BY DEF PagingInv, ptm, HasTables, MapsToItself, Slot

LEMMA RoundUpPaging ==
  ASSUME KernelInv, RoundUp
  PROVE  PagingInv'
<1>1. paging = "boot" /\ mapped = {} /\ end = KernelEnd + BitmapSize + KheapMemorySize
  BY DEF KernelInv, LayoutInv, RoundUp, HasTaken, Plan
<1>2. kernelEnd' = T!FirstFreePage
  BY <1>1 DEF RoundUp, T!FirstFreePage
<1>3. UNCHANGED <<mapped, paging, pd, entries, physEntries, tables, next, lockedPages, cr3>>
  BY DEF RoundUp, vars
<1> QED BY <1>1, <1>2, <1>3 DEF KernelInv, PagingInv

(* The directory and, one round after the other, the tables are put where
   HasTables has them. *)
LEMMA PlaceDirectoryPaging ==
  ASSUME KernelInv, kernelEnd # 0, T!PlaceDirectory, UNCHANGED mapped
  PROVE  PagingInv'
<1>1. paging = "boot" /\ mapped = {} /\ kernelEnd = T!FirstFreePage /\ DOMAIN tables = {}
  BY DEF KernelInv, LayoutInv, PagingInv, T!PlaceDirectory
<1>2. /\ pd' = T!FirstFreePage /\ kernelEnd' = TablePage(0)
      /\ entries' = [i \in T!Index |-> 0] /\ physEntries' = [i \in T!Index |-> 0]
      /\ next' = 0 /\ paging' = "tables" /\ UNCHANGED <<tables, lockedPages, cr3>>
  BY <1>1, PtmSizes, TablePlaces, BootSizes DEF T!PlaceDirectory
<1>3. entries' = [i \in T!Index |-> IF i < 0 THEN TablePage(i) ELSE 0]
  BY <1>2, BootSizes DEF T!Index
<1>4. HasTables(0)'
  BY <1>1, <1>2, <1>3 DEF HasTables
<1>5. HasTables(next)'
  BY <1>2, <1>4 DEF HasTables
<1> QED BY <1>1, <1>2, <1>5, BootSizes DEF KernelInv, PagingInv

LEMMA CreateTablePaging ==
  ASSUME KernelInv, T!CreateTable, UNCHANGED mapped
  PROVE  PagingInv'
<1> DEFINE fresh == [i \in T!Index |-> T!NoEntry]
<1>1. /\ paging = "tables" /\ mapped = {} /\ next \in 0 .. Entries - 1 /\ HasTables(next)
      /\ \A i \in 0 .. next - 1, j \in T!Index : tables[TablePage(i)][j] = T!NoEntry
      /\ lockedPages = 0 /\ cr3 = 0
  BY BootSizes DEF KernelInv, LayoutInv, PagingInv, T!CreateTable
<1>2. kernelEnd = TablePage(next) /\ kernelEnd' = TablePage(next + 1) /\ next' = next + 1
  BY <1>1, PtmSizes, TablePlaces, BootSizes DEF HasTables, T!CreateTable
<1>3. \A i \in 0 .. next - 1 : TablePage(i) # TablePage(next)
  BY <1>1, TablePlaces, BootSizes
<1>4. /\ DOMAIN tables' = {TablePage(i) : i \in 0 .. next}
      /\ tables'[TablePage(next)] = fresh
      /\ \A i \in 0 .. next - 1 : tables'[TablePage(i)] = tables[TablePage(i)]
  <2>1. tables' = [t \in DOMAIN tables \cup {kernelEnd} |-> IF t = kernelEnd THEN fresh ELSE tables[t]]
    BY DEF T!CreateTable
  <2>2. DOMAIN tables = {TablePage(i) : i \in 0 .. next - 1}
    BY <1>1 DEF HasTables
  <2>3. DOMAIN tables \cup {kernelEnd} = {TablePage(i) : i \in 0 .. next}
    BY <1>1, <1>2, <2>2
  <2> QED BY <1>2, <1>3, <2>1, <2>2, <2>3
<1>5. fresh \in [T!Index -> T!PTEs]
  BY DEF T!NoEntry, T!PTEs
<1>6. entries' = [i \in T!Index |-> IF i < next + 1 THEN TablePage(i) ELSE 0]
  <2>1. entries' = [entries EXCEPT ![next] = TablePage(next)]
    BY <1>2 DEF T!CreateTable
  <2>2. entries = [i \in T!Index |-> IF i < next THEN TablePage(i) ELSE 0]
    BY <1>1 DEF HasTables
  <2>3. \A i \in T!Index : i < next + 1 <=> i < next \/ i = next
    BY <1>1, BootSizes DEF T!Index
  <2>4. next \in T!Index
    BY <1>1 DEF T!Index
  <2> QED BY <2>1, <2>2, <2>3, <2>4
<1>7. physEntries' = entries' /\ pd' = T!FirstFreePage
  BY <1>1 DEF HasTables, T!CreateTable
<1>8. \A i \in 0 .. next : i = next \/ i \in 0 .. next - 1
  BY <1>1
<1>9. \A i \in 0 .. next : tables'[TablePage(i)] \in [T!Index -> T!PTEs]
  BY <1>1, <1>4, <1>5, <1>8 DEF HasTables
<1>10. \A i \in 0 .. next, j \in T!Index : tables'[TablePage(i)][j] = T!NoEntry
  BY <1>1, <1>4, <1>8
<1>11. HasTables(next)'
  <2>1. next' - 1 = next /\ next' = next + 1
    BY <1>1, <1>2
  <2> QED BY <2>1, <1>2, <1>4, <1>6, <1>7, <1>9 DEF HasTables
<1>12. next' \in 0 .. Entries /\ next' - 1 = next
  BY <1>1, <1>2, BootSizes
<1>13. paging' = "tables" /\ UNCHANGED <<mapped, lockedPages, cr3>>
  BY <1>1 DEF T!CreateTable
<1> QED BY <1>1, <1>10, <1>11, <1>12, <1>13 DEF PagingInv

(* The tables are complete, and nothing is mapped yet. *)
LEMMA TablesDonePaging ==
  ASSUME KernelInv, T!TablesDone, UNCHANGED mapped
  PROVE  PagingInv'
<1>1. /\ paging = "tables" /\ mapped = {} /\ next = Entries /\ HasTables(Entries)
      /\ \A i \in 0 .. Entries - 1, j \in T!Index : tables[TablePage(i)][j] = T!NoEntry
      /\ lockedPages = 0 /\ cr3 = 0
  BY BootSizes DEF KernelInv, LayoutInv, PagingInv, T!TablesDone
<1>2. /\ UNCHANGED <<mapped, kernelEnd, pd, entries, physEntries, tables, lockedPages, cr3>>
      /\ next' = 0 /\ paging' = "identity"
  BY DEF T!TablesDone
<1>3. \A page \in T!Pages : tables[TablePage(T!PdeIndex(page))][T!PteIndex(page)] = T!NoEntry
  BY <1>1, PageIndexes DEF T!Index
<1>4. HasTables(Entries)' /\ kernelEnd' \in Nat
  BY <1>1, <1>2, TablePlaces, BootSizes DEF HasTables
<1>5. MapsToItself(next)'
  <2>1. 0 .. next' - 1 = {}
    BY <1>2
  <2>2. \A page \in T!Pages :
          tables'[TablePage(T!PdeIndex(page))][T!PteIndex(page)] \in {T!NoEntry, T!Entry(page, TRUE, TRUE)}
    BY <1>2, <1>3
  <2> QED BY <2>1, <2>2 DEF MapsToItself, Slot
<1> QED BY <1>1, <1>2, <1>4, <1>5 DEF PagingInv

(* A round of the second loop maps the page that is next. *)
LEMMA IdentityMapPaging ==
  ASSUME KernelInv, T!IdentityMap, UNCHANGED mapped
  PROVE  PagingInv'
<1>1. /\ paging = "identity" /\ mapped = {} /\ HasTables(Entries) /\ MapsToItself(next)
      /\ next \in 0 .. kernelEnd /\ next < kernelEnd /\ lockedPages = 0 /\ cr3 = 0
  BY DEF KernelInv, LayoutInv, PagingInv, T!IdentityMap
<1>2. kernelEnd \in Nat /\ kernelEnd <= Entries * Entries /\ Entries * Entries \in Nat
  BY <1>1, TablePlaces, BootSizes DEF HasTables
<1>3. next \in T!Pages /\ next \in Nat
  BY <1>1, <1>2 DEF T!Pages
<1>4. Slot(next) \in {T!NoEntry, T!Entry(next, TRUE, TRUE)}
  BY <1>1, <1>3 DEF MapsToItself
<1>5. /\ T!MapAddr(next, next, TRUE, TRUE) /\ next' = next + 1 /\ paging' = "identity"
      /\ UNCHANGED <<kernelEnd, pd, entries, physEntries, lockedPages, cr3>>
  BY <1>1 DEF T!IdentityMap
<1>6. PICK page \in T!Pages : page = next
  BY <1>3
<1>7. /\ HasTables(Entries)'
      /\ \A q \in T!Pages :
           tables'[TablePage(T!PdeIndex(q))][T!PteIndex(q)] =
             IF q = page THEN T!Entry(page, TRUE, TRUE) ELSE Slot(q)
  BY <1>1, <1>4, <1>5, <1>6, MapsOnePage
<1>8. MapsToItself(next)'
  <2>1. ASSUME NEW q \in T!Pages
        PROVE  tables'[TablePage(T!PdeIndex(q))][T!PteIndex(q)] \in {T!NoEntry, T!Entry(q, TRUE, TRUE)}
    BY <1>1, <1>7 DEF MapsToItself
  <2>2. ASSUME NEW q \in 0 .. next
        PROVE  tables'[TablePage(T!PdeIndex(q))][T!PteIndex(q)] = T!Entry(q, TRUE, TRUE)
    <3>1. q \in T!Pages /\ (q = page \/ q \in 0 .. next - 1)
      BY <1>1, <1>2, <1>6 DEF T!Pages
    <3>2. q \in 0 .. next - 1 => Slot(q) = T!Entry(q, TRUE, TRUE)
      BY <1>1 DEF MapsToItself
    <3> QED BY <1>7, <3>1, <3>2
  <2>3. next' - 1 = next
    BY <1>3, <1>5
  <2> QED BY <2>1, <2>2, <2>3 DEF MapsToItself, Slot
<1>9. next' \in 0 .. kernelEnd'
  BY <1>1, <1>2, <1>5
<1> QED BY <1>1, <1>5, <1>7, <1>8, <1>9 DEF PagingInv

(* The second loop is through, the kernel is locked, paging is turned on. *)
LEMMA IdentityDonePaging ==
  ASSUME KernelInv, T!IdentityDone, UNCHANGED mapped
  PROVE  PagingInv'
<1>1. /\ paging = "identity" /\ mapped = {} /\ HasTables(Entries) /\ MapsToItself(next)
      /\ next \in 0 .. kernelEnd /\ next >= kernelEnd /\ lockedPages = 0 /\ cr3 = 0
  BY DEF KernelInv, LayoutInv, PagingInv, T!IdentityDone
<1>2. kernelEnd \in Nat
  BY <1>1, TablePlaces, BootSizes DEF HasTables
<1>3. next = kernelEnd
  BY <1>1, <1>2
<1>4. /\ UNCHANGED <<mapped, kernelEnd, pd, entries, physEntries, tables, next, lockedPages, cr3>>
      /\ paging' = "lock"
  BY DEF T!IdentityDone
<1>5. MapsToItself(kernelEnd)
  BY <1>1, <1>3
<1> QED BY <1>1, <1>3, <1>4, <1>5 DEF PagingInv, HasTables, MapsToItself, Slot

LEMMA LockEverythingPaging ==
  ASSUME KernelInv, LockEverything
  PROVE  PagingInv'
<1>1. T!LockKernel /\ UNCHANGED mapped
  BY DEF LockEverything
<1>2. lockedPages' = KernelPages
  BY <1>1, LocksOnce
<1>3. /\ paging = "lock" /\ paging' = "load"
      /\ UNCHANGED <<kernelEnd, pd, entries, physEntries, tables, next, cr3>>
  BY <1>1 DEF T!LockKernel
<1> QED BY <1>1, <1>2, <1>3 DEF KernelInv, PagingInv, HasTables, MapsToItself, Slot

LEMMA EnablePagingPaging ==
  ASSUME KernelInv, EnablePaging
  PROVE  PagingInv'
<1>1. /\ paging = "load" /\ paging' = "running" /\ cr3' = pd
      /\ UNCHANGED <<mapped, kernelEnd, pd, entries, physEntries, tables, next, lockedPages>>
  BY DEF EnablePaging, T!Load, vars
<1> QED BY <1>1 DEF KernelInv, PagingInv, HasTables, MapsToItself, Slot

(* A caller gets a page mapped: one page, which the tables have an entry for,
   and which was not mapped to anything else. *)
LEMMA GrantPaging ==
  ASSUME KernelInv, Ordered, stage = "main", GrantPages
  PROVE  PagingInv'
<1> DEFINE new == [index |-> scan.index, count |-> req.count]
<1>1. Grant /\ paging = "running"
  BY DEF GrantPages, KernelInv, LayoutInv
<1>2. /\ req \in Requests /\ scan.index < NBits /\ scan.index \in Nat
      /\ mapped' = IF req.mapping THEN mapped \cup PagesOf(new) ELSE mapped
  <2>1. req \in Requests /\ scan.index < NBits /\ scan \in Scans
    BY <1>1, GrantFacts DEF KernelInv
  <2>2. scan.index \in Nat
    BY <2>1 DEF Scans
  <2>3. mapped' = IF req.mapping THEN mapped \cup PagesOf(new) ELSE mapped
    BY <1>1 DEF Grant
  <2> QED BY <2>1, <2>2, <2>3
<1>3. CASE ~req.mapping
  BY <1>2, <1>3, SamePaging DEF GrantPages, KernelInv
<1>4. CASE req.mapping
  <2>1. req.count = 1
    <3>1. req.count \in MappedCounts
      BY <1>2, <1>4 DEF Requests
    <3> QED BY <3>1, BootAssumption
  <2>2. PagesOf(new) = {scan.index}
    BY <1>2, <2>1 DEF PagesOf, Run
  <2>3. scan.index \in T!Pages
    BY <1>2, BootAssumption, BootSizes DEF T!Pages
  <2>4. HasTables(Entries) /\ next = kernelEnd /\ MapsToItself(kernelEnd) /\ lockedPages = KernelPages /\ cr3 = pd
        /\ \A page \in mapped : page \in T!Pages /\ Slot(page) = T!Entry(page, TRUE, TRUE)
    BY <1>1 DEF KernelInv, PagingInv
  <2>5. /\ T!MapAddr(scan.index, scan.index, TRUE, TRUE)
        /\ UNCHANGED <<paging, kernelEnd, pd, entries, physEntries, next, lockedPages, cr3>>
    BY <1>4 DEF GrantPages, MapToItself, T!MapRequest
  <2>6. PICK page \in T!Pages : page = scan.index
    BY <2>3
  <2>7. Slot(page) \in {T!NoEntry, T!Entry(page, TRUE, TRUE)}
    BY <2>4 DEF MapsToItself
  <2>8. /\ HasTables(Entries)'
        /\ \A q \in T!Pages :
             tables'[TablePage(T!PdeIndex(q))][T!PteIndex(q)] =
               IF q = page THEN T!Entry(page, TRUE, TRUE) ELSE Slot(q)
    BY <2>4, <2>5, <2>6, <2>7, MapsOnePage
  <2>9. 0 .. kernelEnd - 1 \subseteq T!Pages
    BY <2>4, TablePlaces, BootSizes DEF HasTables, T!Pages
  <2>10. MapsToItself(kernelEnd)'
    <3>1. ASSUME NEW q \in T!Pages
          PROVE  tables'[TablePage(T!PdeIndex(q))][T!PteIndex(q)] \in {T!NoEntry, T!Entry(q, TRUE, TRUE)}
      BY <2>4, <2>8 DEF MapsToItself
    <3>2. ASSUME NEW q \in 0 .. kernelEnd - 1
          PROVE  tables'[TablePage(T!PdeIndex(q))][T!PteIndex(q)] = T!Entry(q, TRUE, TRUE)
      BY <2>4, <2>8, <2>9 DEF MapsToItself
    <3> QED BY <2>5, <3>1, <3>2 DEF MapsToItself, Slot
  <2>11. \A q \in mapped' : q \in T!Pages /\
           tables'[TablePage(T!PdeIndex(q))][T!PteIndex(q)] = T!Entry(q, TRUE, TRUE)
    BY <1>2, <1>4, <2>2, <2>4, <2>6, <2>8
  <2> QED BY <1>1, <2>4, <2>5, <2>8, <2>10, <2>11 DEF PagingInv, Slot
<1> QED BY <1>3, <1>4

(* Every step of the kernel keeps its invariant. *)
LEMMA KernelInvNext == Ordered /\ KernelInv /\ [BootNext]_bootVars => KernelInv'
<1> SUFFICES ASSUME Ordered, KernelInv, [BootNext]_bootVars PROVE KernelInv'
  OBVIOUS
<1>1. PagesInv'
  BY StepsOfAllocator, PagesInvNext DEF KernelInv
<1>2. LayoutInv'
  <2>1. CASE UNCHANGED bootVars
    BY <2>1 DEF bootVars, vars, boot, layout, ptm, KernelInv, LayoutInv, HasTaken
  <2>2. CASE BootNext
    BY <2>2, AllocatorKeepsLayout, BootKeepsLayout DEF BootNext
  <2> QED BY <2>1, <2>2
<1>3. PagingInv'
  <2>1. CASE UNCHANGED bootVars
    BY <2>1, SamePaging DEF bootVars, vars, KernelInv
  <2>2. CASE ReadMemoryMap
    BY <2>2, SamePaging DEF ReadMemoryMap, SumMemory, NoMemoryMap, ReserveEntry, SkipEntry,
                            Initialized, Halted, vars, KernelInv
  <2>3. CASE PlaceBitmap
    BY <2>3, SamePaging DEF PlaceBitmap, InitBitmap, KernelInv
  <2>4. CASE KheapAdd
    BY <2>4, SamePaging DEF KheapAdd, vars, KernelInv
  <2>5. CASE AcpiInit
    <3>1. UNCHANGED mapped
      BY <2>5 DEF AcpiInit, vars
    <3>2. CASE T!EarlyMapAborts
      BY <3>1, <3>2 DEF T!EarlyMapAborts, KernelInv, PagingInv, Slot
    <3>3. CASE UNCHANGED ptm
      BY <3>1, <3>3, SamePaging DEF KernelInv
    <3>4. T!Halted => UNCHANGED ptm
      BY DEF T!Halted, T!vars, ptm
    <3> QED BY <2>5, <3>2, <3>3, <3>4 DEF AcpiInit
  <2>6. CASE RoundUp
    BY <2>6, RoundUpPaging
  <2>7. CASE MakeTables
    BY <2>7, PlaceDirectoryPaging, CreateTablePaging, TablesDonePaging, IdentityMapPaging,
       IdentityDonePaging DEF MakeTables, vars
  <2>8. CASE LockEverything
    BY <2>8, LockEverythingPaging
  <2>9. CASE EnablePaging
    BY <2>9, EnablePagingPaging
  <2>10. CASE Clients
    <3>1. CASE UNCHANGED ptm /\ UNCHANGED mapped
      BY <3>1, SamePaging DEF KernelInv
    <3>2. CASE GrantPages
      BY <2>10, <3>2, GrantPaging DEF Clients
    <3> QED BY <2>10, <3>1, <3>2 DEF Clients, Serve, Request, Free, ProbeFree, ProbeUsed, OutOfPages
  <2> QED BY <2>1, <2>2, <2>3, <2>4, <2>5, <2>6, <2>7, <2>8, <2>9, <2>10 DEF BootNext
<1> QED BY <1>1, <1>2, <1>3 DEF KernelInv

(* Every reachable state of the kernel satisfies its invariant. *)
THEOREM KernelInvariant ==
  ASSUME Ordered
  PROVE  BootSpec => []KernelInv
<1>1. KernelInv /\ [BootNext]_bootVars => KernelInv'
  BY KernelInvNext
<1> QED BY <1>1, KernelInvInit, PTL DEF BootSpec

(* The allocator of the composed kernel is the one that PageFrameAllocator
   describes, whose theorems hold in it. *)
THEOREM KernelHasAllocator ==
  ASSUME Ordered
  PROVE  BootSpec => BootsAllocator
<1>1. BootInit => Init
  BY DEF BootInit
<1>2. KernelInv /\ [BootNext]_bootVars => [Next]_vars
  BY StepsOfAllocator
<1> QED BY <1>1, <1>2, KernelInvariant, PTL DEF BootSpec, BootsAllocator, Spec

-----------------------------------------------------------------------------
(* What follows for the memory of the kernel *)

(* A part ends, and its pages end, before the page that ptm_initialize begins
   at. *)
LEMMA PartsBelow ==
  ASSUME KernelInv
  PROVE  /\ DOMAIN parts \subseteq {"image", "bitmap", "heap"}
         /\ \A p \in DOMAIN parts : parts[p] = Plan[p]
         /\ \A p \in DOMAIN parts : PagesOfPart(p) \subseteq 0 .. T!FirstFreePage - 1
<1>1. /\ DOMAIN parts \subseteq {"image", "bitmap", "heap"}
      /\ \A p \in DOMAIN parts : parts[p] = Plan[p]
  BY DEF KernelInv, LayoutInv, HasTaken, PagesInv, TypeOK
<1>2. ASSUME NEW p \in {"image", "bitmap", "heap"}
      PROVE  /\ Plan[p].from \in Nat /\ Plan[p].to \in Nat
             /\ Plan[p].to <= KernelEnd + BitmapSize + KheapMemorySize
  BY BootSizes DEF Plan
<1>3. T!FirstFreePage = (KernelEnd + BitmapSize + KheapMemorySize + 4095) \div 4096
  BY DEF T!FirstFreePage
<1>4. ASSUME NEW p \in DOMAIN parts, NEW c \in PagesOfPart(p)
      PROVE  c \in 0 .. T!FirstFreePage - 1
  <2>1. /\ parts[p].from \in Nat /\ parts[p].to \in Nat
        /\ parts[p].to <= KernelEnd + BitmapSize + KheapMemorySize
    BY <1>1, <1>2
  <2>2. c \in Int /\ parts[p].from \div 4096 <= c /\ c <= (parts[p].to - 1) \div 4096
    BY <2>1 DEF PagesOfPart, PageSize
  <2> QED BY <1>3, <2>1, <2>2, BootSizes
<1> QED BY <1>1, <1>4

(* The directory and the tables begin where the parts end. *)
LEMMA TablesAbove ==
  ASSUME KernelInv
  PROVE  \/ pd = 0 /\ DOMAIN tables = {} /\ entries = [i \in T!Index |-> 0]
         \/ \E n \in 0 .. Entries : HasTables(n)
<1>1. CASE paging \in {"boot", "aborted"}
  BY <1>1 DEF KernelInv, PagingInv
<1>2. CASE paging \in {"tables", "identity", "lock", "load", "running"}
  BY <1>2, BootSizes DEF KernelInv, PagingInv
<1> QED BY <1>1, <1>2 DEF KernelInv, PagingInv

(* In a reachable state the memory that the kernel has taken is apart: the
   image, the bitmap, the heap, the directory and the page tables. *)
THEOREM MemoryIsApart ==
  ASSUME Ordered
  PROVE  BootSpec => []RegionsApart
<1>1. KernelInv => RegionsApart
  <2> SUFFICES ASSUME KernelInv PROVE RegionsApart
    OBVIOUS
  <2>1. ASSUME NEW p \in DOMAIN parts, NEW q \in DOMAIN parts
        PROVE  p = q \/ parts[p].to <= parts[q].from \/ parts[q].to <= parts[p].from
    <3>1. /\ p \in {"image", "bitmap", "heap"} /\ q \in {"image", "bitmap", "heap"}
          /\ parts[p] = Plan[p] /\ parts[q] = Plan[q]
      BY PartsBelow
    <3> QED BY <3>1, BootSizes DEF Plan
  <2>2. CASE pd = 0 /\ DOMAIN tables = {} /\ entries = [i \in T!Index |-> 0]
    <3>1. DirectoryPages \cup DOMAIN tables = {}
      BY <2>2 DEF DirectoryPages
    <3>2. T!TablesApart
      BY <2>2 DEF T!TablesApart
    <3> QED BY <2>1, <3>1, <3>2 DEF RegionsApart
  <2>3. ASSUME NEW n \in 0 .. Entries, HasTables(n)
        PROVE  RegionsApart
    <3>1. /\ pd = T!FirstFreePage
          /\ entries = [i \in T!Index |-> IF i < n THEN TablePage(i) ELSE 0]
          /\ DOMAIN tables = {TablePage(i) : i \in 0 .. n - 1}
      BY <2>3 DEF HasTables
    <3>2. DirectoryPages = T!FirstFreePage .. T!FirstFreePage + 2
      BY <3>1, PtmSizes, BootSizes DEF DirectoryPages
    <3>3. ASSUME NEW c \in DirectoryPages \cup DOMAIN tables, NEW p \in DOMAIN parts,
                 c \in PagesOfPart(p)
          PROVE  FALSE
      <4>1. c >= T!FirstFreePage
        BY <3>1, <3>2, TablePlaces, BootSizes
      <4>2. c \in 0 .. T!FirstFreePage - 1
        BY <3>3, PartsBelow
      <4> QED BY <4>1, <4>2, BootSizes
    <3>4. T!TablesApart
      <4> SUFFICES ASSUME NEW i \in T!Index, NEW j \in T!Index, entries[i] # 0
                   PROVE  /\ entries[i] \in DOMAIN tables
                          /\ entries[i] \notin pd .. pd + T!DirectoryPages - 1
                          /\ i # j => entries[i] # entries[j]
        BY DEF T!TablesApart
      <4>1. i \in 0 .. n - 1 /\ entries[i] = TablePage(i)
        BY <3>1, BootSizes DEF T!Index
      <4>2. entries[j] \in {0, TablePage(j)} /\ j \in Nat
        BY <3>1, BootSizes DEF T!Index
      <4>3. TablePage(i) = T!FirstFreePage + 3 + i /\ TablePage(j) = T!FirstFreePage + 3 + j
        BY <4>1, <4>2, TablePlaces
      <4>4. entries[i] \in DOMAIN tables
        BY <3>1, <4>1
      <4>5. entries[i] \notin pd .. pd + T!DirectoryPages - 1
        BY <3>1, <4>1, <4>3, PtmSizes, BootSizes
      <4>6. i # j => entries[i] # entries[j]
        BY <4>1, <4>2, <4>3, BootSizes
      <4> QED BY <4>4, <4>5, <4>6
    <3> QED BY <2>1, <3>3, <3>4, Zenon DEF RegionsApart
  <2> QED BY <2>2, <2>3, TablesAbove
<1> QED BY <1>1, KernelInvariant, PTL

(* When the tables are complete all that the kernel has taken is below the
   KERNEL_END that ptm_initialize ends with. *)
LEMMA OccupiedBelow ==
  ASSUME KernelInv, HasTables(Entries)
  PROVE  Occupied \subseteq 0 .. T!FinalEnd - 1
<1>1. T!FinalEnd = T!FirstFreePage + 3 + Entries /\ T!FinalEnd \in Nat
  BY TablePlaces, BootSizes
<1>2. UNION {PagesOfPart(p) : p \in DOMAIN parts} \subseteq 0 .. T!FinalEnd - 1
  <2> SUFFICES ASSUME NEW p \in DOMAIN parts, NEW c \in PagesOfPart(p)
               PROVE  c \in 0 .. T!FinalEnd - 1
    OBVIOUS
  <2>1. c \in 0 .. T!FirstFreePage - 1
    BY PartsBelow
  <2> QED BY <1>1, <2>1, BootSizes
<1>3. DirectoryPages \subseteq 0 .. T!FinalEnd - 1
  BY <1>1, PtmSizes, BootSizes DEF HasTables, DirectoryPages
<1>4. DOMAIN tables \subseteq 0 .. T!FinalEnd - 1
  <2> SUFFICES ASSUME NEW i \in 0 .. Entries - 1 PROVE TablePage(i) \in 0 .. T!FinalEnd - 1
    BY DEF HasTables
  <2> QED BY <1>1, TablePlaces, BootSizes
<1> QED BY <1>2, <1>3, <1>4 DEF Occupied

(* NUM_PAGES of a whole number of pages is exact up to 2049 pages. *)
SmallKernel == T!FinalEnd <= 2049

(* As long as the kernel with all its tables is not larger than that, all of
   it is locked when ptm_initialize has locked it, for good, and no caller is
   ever given a page of it. *)
THEOREM KernelIsProtected ==
  ASSUME Ordered, SmallKernel
  PROVE  BootSpec => []KernelProtected
<1>1. KernelInv => KernelProtected
  <2> SUFFICES ASSUME KernelInv, lockedPages # 0
               PROVE  Occupied \subseteq bitmap /\ \A r \in held : PagesOf(r) \cap Occupied = {}
    BY DEF KernelProtected
  <2>1. paging \in {"load", "running"} /\ HasTables(Entries)
    BY DEF KernelInv, PagingInv
  <2>2. InBitmap(0 .. KernelPages - 1) \subseteq taken
    BY <2>1 DEF KernelInv, LayoutInv, PagesInv, InOrder
  <2>3. T!FinalEnd <= KernelPages /\ T!FinalEnd <= NBits
    <3>1. T!FinalEnd \in Nat /\ KernelPages = (T!FinalEnd * 4096) \div 4098 + 1
      BY TablePlaces DEF T!NumPages
    <3> QED BY <3>1, BootAssumption DEF SmallKernel
  <2>4. 0 .. T!FinalEnd - 1 \subseteq InBitmap(0 .. KernelPages - 1)
    BY <2>3, TablePlaces, BootSizes DEF InBitmap
  <2>5. Occupied \subseteq taken
    BY <2>1, <2>2, <2>4, OccupiedBelow
  <2>6. taken \subseteq bitmap
    BY DEF KernelInv, PagesInv, BitsExact
  <2>7. \A r \in held : PagesOf(r) \cap taken = {}
    BY DEF KernelInv, PagesInv, HeldApart
  <2> QED BY <2>5, <2>6, <2>7
<1> QED BY <1>1, KernelInvariant, PTL

(* The processor translates a page by the entry that ptm_map_addr writes. *)
LEMMA WalkIsSlot ==
  ASSUME HasTables(Entries), NEW page \in T!Pages
  PROVE  T!Walk(page) = Slot(page)
<1>1. T!PdeIndex(page) \in T!Index /\ T!PdeIndex(page) \in Nat /\ T!PdeIndex(page) < Entries
  BY PageIndexes, BootSizes DEF T!Index
<1>2. physEntries[T!PdeIndex(page)] = TablePage(T!PdeIndex(page))
  BY <1>1 DEF HasTables
<1>3. TablePage(T!PdeIndex(page)) # 0
  BY <1>1, TablePlaces
<1> QED BY <1>2, <1>3 DEF T!Walk, Slot

(* With paging on, everything below KERNEL_END is mapped to itself, writable,
   the tables themselves too, and the processor walks the tables that
   ptm_map_addr changes. *)
THEOREM KernelIsIdentityMapped ==
  ASSUME Ordered
  PROVE  BootSpec => []KernelIdentity
<1>1. KernelInv => T!TypeOK
  <2> SUFFICES ASSUME KernelInv PROVE T!TypeOK
    OBVIOUS
  <2>1. paging \in {"boot", "tables", "identity", "lock", "load", "running", "aborted"}
    BY DEF KernelInv, PagingInv
  <2>2. /\ pd \in Nat /\ entries \in [T!Index -> Nat] /\ physEntries \in [T!Index -> Nat]
        /\ DOMAIN tables \subseteq Nat /\ \A t \in DOMAIN tables : tables[t] \in [T!Index -> T!PTEs]
    <3>1. CASE paging \in {"boot", "aborted"}
      BY <3>1 DEF KernelInv, PagingInv
    <3>2. ASSUME NEW n \in 0 .. Entries, HasTables(n)
          PROVE  /\ pd \in Nat /\ entries \in [T!Index -> Nat] /\ physEntries \in [T!Index -> Nat]
                 /\ DOMAIN tables \subseteq Nat /\ \A t \in DOMAIN tables : tables[t] \in [T!Index -> T!PTEs]
      <4>1. \A i \in T!Index : (IF i < n THEN TablePage(i) ELSE 0) \in Nat
        BY TablePlaces, BootSizes DEF T!Index
      <4>2. \A i \in 0 .. n - 1 : TablePage(i) \in Nat
        BY TablePlaces
      <4> QED BY <3>2, <4>1, <4>2, BootSizes DEF HasTables
    <3>3. CASE paging \in {"tables", "identity", "lock", "load", "running"}
      BY <3>2, <3>3, BootSizes DEF KernelInv, PagingInv
    <3> QED BY <2>1, <3>1, <3>3
  <2>3. kernelEnd \in Nat /\ next \in Nat
    <3>1. CASE paging \in {"boot", "aborted"}
      BY <3>1, BootSizes DEF KernelInv, PagingInv
    <3>2. CASE paging = "tables"
      BY <3>2, BootSizes, TablePlaces DEF KernelInv, PagingInv, HasTables
    <3>3. CASE paging \in {"identity", "lock", "load", "running"}
      <4>1. kernelEnd \in Nat
        <5>1. HasTables(Entries)
          BY <3>3 DEF KernelInv, PagingInv
        <5> QED BY <5>1, BootSizes, TablePlaces DEF HasTables
      <4> QED BY <3>3, <4>1 DEF KernelInv, PagingInv
    <3> QED BY <2>1, <3>1, <3>2, <3>3
  <2>4. lockedPages \in Nat /\ cr3 \in Nat
    BY <2>2, TablePlaces DEF KernelInv, PagingInv
  <2> QED BY <2>1, <2>2, <2>3, <2>4 DEF T!TypeOK
<1>2. KernelInv => T!KernelIdentity
  <2> SUFFICES ASSUME KernelInv, cr3 # 0
               PROVE  /\ entries = physEntries
                      /\ \A page \in 0 .. kernelEnd - 1 : T!Walk(page) = T!Entry(page, TRUE, TRUE)
                      /\ pd .. pd + T!DirectoryPages - 1 \subseteq 0 .. kernelEnd - 1
                      /\ DOMAIN tables \subseteq 0 .. kernelEnd - 1
    BY DEF T!KernelIdentity
  <2>1. HasTables(Entries) /\ MapsToItself(kernelEnd)
    BY DEF KernelInv, PagingInv
  <2>2. kernelEnd = T!FinalEnd /\ kernelEnd \in Nat /\ kernelEnd <= Entries * Entries
    BY <2>1, TablePlaces DEF HasTables
  <2>3. 0 .. kernelEnd - 1 \subseteq T!Pages
    BY <2>2, BootSizes DEF T!Pages
  <2>4. \A page \in 0 .. kernelEnd - 1 : T!Walk(page) = T!Entry(page, TRUE, TRUE)
    BY <2>1, <2>3, WalkIsSlot DEF MapsToItself
  <2>5. DirectoryPages \cup DOMAIN tables \subseteq 0 .. kernelEnd - 1
    BY <2>1, <2>2, OccupiedBelow DEF Occupied
  <2>6. DirectoryPages = pd .. pd + T!DirectoryPages - 1
    BY <2>1, BootSizes DEF HasTables, DirectoryPages
  <2> QED BY <2>1, <2>4, <2>5, <2>6 DEF HasTables
<1> QED BY <1>1, <1>2, KernelInvariant, PTL DEF KernelIdentity

(* What is handed out mapped can be used at its own address, whatever was
   mapped and freed before. *)
THEOREM GrantsAreReachable ==
  ASSUME Ordered
  PROVE  BootSpec => []GrantsReachable
<1>1. KernelInv => GrantsReachable
  <2> SUFFICES ASSUME KernelInv, cr3 # 0, NEW page \in mapped \cup Occupied
               PROVE  T!Walk(page) = T!Entry(page, TRUE, TRUE)
    BY DEF GrantsReachable
  <2>1. HasTables(Entries) /\ MapsToItself(kernelEnd)
    BY DEF KernelInv, PagingInv
  <2>2. CASE page \in mapped
    BY <2>1, <2>2, WalkIsSlot DEF KernelInv, PagingInv
  <2>3. CASE page \in Occupied
    <3>1. kernelEnd = T!FinalEnd /\ kernelEnd \in Nat /\ kernelEnd <= Entries * Entries
      BY <2>1, TablePlaces DEF HasTables
    <3>2. page \in 0 .. kernelEnd - 1 /\ page \in T!Pages
      BY <2>1, <2>3, <3>1, OccupiedBelow, BootSizes DEF T!Pages
    <3> QED BY <2>1, <3>2, WalkIsSlot DEF MapsToItself
  <2> QED BY <2>2, <2>3
<1> QED BY <1>1, KernelInvariant, PTL

(* So the callers of the composed kernel get what the allocator alone
   promises: runs apart from one another and from the kernel, the first that
   fits, NULL only if none does, counters that balance and count the set bits,
   and so a pool of pages. *)
THEOREM KernelServesCallers ==
  ASSUME Ordered
  PROVE  BootSpec => /\ []GrantsExclusive /\ []FreeUsedBalance /\ []BitsAccounted
                     /\ NullMeansFull /\ TakesFirstFit /\ ImplementsPool
BY KernelHasAllocator, GrantsAreExclusive, CountersBalance, SetBitsAreAccounted, NullIsFull,
   RequestsAreFirstFit, PagesImplementPool, PTL DEF BootsAllocator
===============================================================================
