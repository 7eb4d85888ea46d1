----------------------------- MODULE PageTables -----------------------------
(***************************************************************************)
(* The page tables                                                         *)
(* (kernel/arch/i386/paging/page_table_manager.c).  ptm_initialize puts a  *)
(* directory and one page table per directory entry behind the kernel,     *)
(* identity maps everything up to the new KERNEL_END, locks those pages    *)
(* with the page frame allocator and turns paging on.  From then on        *)
(* ptm_map_addr reaches directory and tables through their own mapping.    *)
(*                                                                         *)
(* Addresses are page numbers: the code's addr is 4096 * page.             *)
(***************************************************************************)
EXTENDS Integers, FiniteSetsExt

CONSTANTS
  Entries,      \* entries of a directory and of a table (1024)
  KernelEnd,    \* KERNEL_END, in bytes, when ptm_initialize is called
  Frames,       \* the physical pages that callers map
  EarlyClients  \* ptm_map_addr is called before ptm_initialize (kernel.c:70)

(* NUM_PAGES, which divides by 4098. *)
NumPages(bytes) == bytes \div 4098 + 1

DirectoryPages == NumPages(8196)   \* sizeof(page_directory_t)
TablePages == NumPages(4096)       \* sizeof(page_table_t)

Index == 0 .. Entries - 1
Pages == 0 .. Entries * Entries - 1

(* addr >> 22 and addr >> 12 & 0x03FF. *)
PdeIndex(page) == page \div Entries
PteIndex(page) == page % Entries

(* KERNEL_END rounded up to a page boundary. *)
FirstFreePage == (KernelEnd + 4095) \div 4096

(* KERNEL_END when everything is in place. *)
FinalEnd == FirstFreePage + DirectoryPages + Entries * TablePages

(* What the constants must be. *)
PageTablesAssumption ==
  /\ Entries \in Nat \ {0}
  /\ KernelEnd \in Nat \ {0}
  /\ FinalEnd <= Entries * Entries
  /\ Frames \subseteq Nat
  /\ EarlyClients \in BOOLEAN

VARIABLES
  phase,        \* where ptm_initialize is; "running"; "aborted"
  kernelEnd,    \* KERNEL_END, a page number
  pd,           \* the directory's page; 0 is NULL
  entries,      \* pd->entries: the page of each table, 0 if none
  physEntries,  \* pd->phys_entries, what the processor walks
  tables,       \* the page tables: page of the table -> index -> entry
  next,         \* the index, or the page, that the loop is at
  lockedPages,  \* page_count of pfa_lock_pages(KERNEL_START, page_count)
  cr3           \* the directory the processor uses; 0 while paging is off

vars == <<phase, kernelEnd, pd, entries, physEntries, tables, next, lockedPages, cr3>>

NoEntry == [present |-> FALSE, frame |-> 0, kernel |-> FALSE, writable |-> FALSE]

PTEs == [present : BOOLEAN, frame : Nat, kernel : BOOLEAN, writable : BOOLEAN]

TypeOK ==
  /\ phase \in {"boot", "tables", "identity", "lock", "load", "running", "aborted"}
  /\ kernelEnd \in Nat
  /\ pd \in Nat
  /\ entries \in [Index -> Nat]
  /\ physEntries \in [Index -> Nat]
  /\ DOMAIN tables \subseteq Nat
  /\ \A t \in DOMAIN tables : tables[t] \in [Index -> PTEs]
  /\ next \in Nat
  /\ lockedPages \in Nat
  /\ cr3 \in Nat

Init ==
  /\ phase = "boot"
  /\ kernelEnd = FirstFreePage
  /\ pd = 0
  /\ entries = [i \in Index |-> 0]
  /\ physEntries = [i \in Index |-> 0]
  /\ tables = [t \in {} |-> [i \in Index |-> NoEntry]]
  /\ next = 0
  /\ lockedPages = 0
  /\ cr3 = 0

-----------------------------------------------------------------------------
(* ptm_map_addr *)

Entry(frame, kernel, writable) ==
  [present |-> TRUE, frame |-> frame, kernel |-> kernel, writable |-> writable]

(* The mapping a page has first, it keeps: an entry that is not zero is left
   alone. *)
MapAddr(page, frame, kernel, writable) ==
  LET t == entries[PdeIndex(page)] IN
    /\ t # 0
    /\ tables' = [tables EXCEPT ![t][PteIndex(page)] =
                    IF @.present THEN @ ELSE Entry(frame, kernel, writable)]

-----------------------------------------------------------------------------
(* ptm_initialize *)

(* The directory is cleared and takes its pages at KERNEL_END. *)
PlaceDirectory ==
  /\ phase = "boot"
  /\ pd' = kernelEnd
  /\ kernelEnd' = kernelEnd + DirectoryPages
  /\ entries' = [i \in Index |-> 0]
  /\ physEntries' = [i \in Index |-> 0]
  /\ next' = 0
  /\ phase' = "tables"
  /\ UNCHANGED <<tables, lockedPages, cr3>>

(* One round of the first loop: a cleared table at KERNEL_END, entered in
   both arrays of the directory. *)
CreateTable ==
  /\ phase = "tables"
  /\ next < Entries
  /\ entries' = [entries EXCEPT ![next] = kernelEnd]
  /\ physEntries' = [physEntries EXCEPT ![next] = kernelEnd]
  /\ tables' = [t \in DOMAIN tables \cup {kernelEnd} |->
                  IF t = kernelEnd THEN [i \in Index |-> NoEntry] ELSE tables[t]]
  /\ kernelEnd' = kernelEnd + TablePages
  /\ next' = next + 1
  /\ UNCHANGED <<phase, pd, lockedPages, cr3>>

TablesDone ==
  /\ phase = "tables"
  /\ next >= Entries
  /\ next' = 0
  /\ phase' = "identity"
  /\ UNCHANGED <<kernelEnd, pd, entries, physEntries, tables, lockedPages, cr3>>

(* One round of the second loop: the page is mapped to itself. *)
IdentityMap ==
  /\ phase = "identity"
  /\ next < kernelEnd
  /\ MapAddr(next, next, TRUE, TRUE)
  /\ next' = next + 1
  /\ UNCHANGED <<phase, kernelEnd, pd, entries, physEntries, lockedPages, cr3>>

(* Mutant: the loop stops at the directory, where the kernel ended before. *)
IdentityDoneEarly ==
  /\ phase = "identity"
  /\ next >= pd
  /\ phase' = "lock"
  /\ UNCHANGED <<kernelEnd, pd, entries, physEntries, tables, next, lockedPages, cr3>>

IdentityDone ==
  /\ phase = "identity"
  /\ next >= kernelEnd
  /\ phase' = "lock"
  /\ UNCHANGED <<kernelEnd, pd, entries, physEntries, tables, next, lockedPages, cr3>>

(* KERNEL_START is 0 (linker.ld:9). *)
LockKernel ==
  /\ phase = "lock"
  /\ lockedPages' = NumPages(kernelEnd * 4096)
  /\ phase' = "load"
  /\ UNCHANGED <<kernelEnd, pd, entries, physEntries, tables, next, cr3>>

(* ptm_load: CR3, then the paging bit of CR0. *)
Load ==
  /\ phase = "load"
  /\ cr3' = pd
  /\ phase' = "running"
  /\ UNCHANGED <<kernelEnd, pd, entries, physEntries, tables, next, lockedPages>>

-----------------------------------------------------------------------------
(* Callers: pci.c maps configuration pages to themselves, the page frame
   allocator the pages it hands out. *)
MapRequest(page, frame) ==
  /\ phase = "running"
  /\ MapAddr(page, frame, TRUE, TRUE)
  /\ UNCHANGED <<phase, kernelEnd, pd, entries, physEntries, next, lockedPages, cr3>>

(* Before ptm_initialize pd is NULL, and pd->entries is whatever lies at
   address 0.  If it reads as zero the kernel aborts; otherwise some memory is
   written, which none of these variables is. *)
EarlyMapAborts ==
  /\ EarlyClients
  /\ phase = "boot"
  /\ phase' = "aborted"
  /\ UNCHANGED <<kernelEnd, pd, entries, physEntries, tables, next, lockedPages, cr3>>

(* abort() does not return. *)
Halted == phase = "aborted" /\ UNCHANGED vars

Initialize ==
  \/ PlaceDirectory \/ CreateTable \/ TablesDone
  \/ IdentityMap \/ IdentityDone \/ LockKernel \/ Load

Next ==
  \/ Initialize
  \/ \E page \in Pages, frame \in Frames : MapRequest(page, frame)
  \/ EarlyMapAborts
  \/ Halted

Spec == Init /\ [][Next]_vars

-----------------------------------------------------------------------------
(* The processor's view: what a page translates to. *)
Walk(page) ==
  LET t == physEntries[PdeIndex(page)] IN
    IF t = 0 THEN NoEntry ELSE tables[t][PteIndex(page)]

(* When paging is turned on, every page below KERNEL_END, the directory and
   the tables among them, translates to itself and is writable: the kernel
   keeps running, and ptm_map_addr can still reach what it changes, which is
   what the processor walks. *)
KernelIdentity ==
  cr3 # 0 =>
    /\ entries = physEntries
    /\ \A page \in 0 .. kernelEnd - 1 : Walk(page) = Entry(page, TRUE, TRUE)
    /\ pd .. pd + DirectoryPages - 1 \subseteq 0 .. kernelEnd - 1
    /\ DOMAIN tables \subseteq 0 .. kernelEnd - 1

(* Each directory entry has a table of its own, apart from the directory. *)
TablesApart ==
  \A i, j \in Index :
    entries[i] # 0 =>
      /\ entries[i] \in DOMAIN tables
      /\ entries[i] \notin pd .. pd + DirectoryPages - 1
      /\ i # j => entries[i] # entries[j]

(* ptm_map_addr finds a table for every address: "Shouldn't happen because we
   already made all of the page directories" (page_table_manager.c:67). *)
NeverAborts == phase # "aborted"
=============================================================================
