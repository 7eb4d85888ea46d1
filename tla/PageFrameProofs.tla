-------------------------- MODULE PageFrameProofs ---------------------------
(***************************************************************************)
(* Theorems about PageFrameAllocator for every memory map, kernel size,    *)
(* word width and set of page counts, when requests start after            *)
(* ptm_initialize has locked the kernel (~EarlyClients).                   *)
(***************************************************************************)
EXTENDS PageFrameAllocator, FirstFitProofs, FiniteSetTheorems

(* Bitmap sizes and page counts are natural numbers. *)
LEMMA SizesNat ==
  /\ NBits \in Nat /\ BitmapSize \in Nat
  /\ \A x \in Nat : NumPages(x) \in Nat
<1>1. MemorySize \in Nat /\ Word \in Nat \ {0}
  BY PageFrameAssumption
<1>2. BitmapSize \in Nat
  BY <1>1 DEF BitmapSize, PageSize
<1>3. ASSUME NEW x \in Nat PROVE NumPages(x) \in Nat
  BY <1>1 DEF NumPages
<1> QED
  BY <1>2, <1>3 DEF NBits

(* A run of pages is a finite set of naturals, and so are its parts. *)
PageSet(S) == S \subseteq Nat /\ IsFiniteSet(S)

LEMMA RunsArePageSets ==
  /\ \A i \in Nat, w \in Nat : PageSet(Run(i, w))
  /\ PageSet(BufferPages)
  /\ PageSet(0 .. KernelPages - 1)
  /\ \A e \in DOMAIN MemMap : PageSet(EntryPages(MemMap[e]))
<1>1. ASSUME NEW i \in Nat, NEW w \in Nat PROVE PageSet(Run(i, w))
  <2>1. IsFiniteSet(i .. i + w - 1)
    BY FS_Interval
  <2> QED
    BY <2>1 DEF Run, PageSet
<1>2. PageSet(BufferPages)
  <2>1. KernelEnd \div PageSize \in Nat
    BY PageFrameAssumption DEF PageSize
  <2> QED
    BY <2>1, <1>1, SizesNat DEF BufferPages
<1>3. PageSet(0 .. KernelPages - 1)
  BY <1>1, PageFrameAssumption DEF Run
<1>4. ASSUME NEW e \in DOMAIN MemMap PROVE PageSet(EntryPages(MemMap[e]))
  <2>1. MemMap[e].at \in Nat /\ MemMap[e].len \in Nat
    BY PageFrameAssumption
  <2> QED
    BY <2>1, <1>1, SizesNat DEF EntryPages
<1> QED
  BY <1>1, <1>2, <1>3, <1>4

LEMMA InBitmapRange ==
  ASSUME NEW S, S \subseteq Nat
  PROVE  InBitmap(S) \subseteq 0 .. NBits - 1
<1>1. NBits \in Nat
  BY SizesNat
<1> SUFFICES ASSUME NEW c \in InBitmap(S) PROVE c \in 0 .. NBits - 1
  OBVIOUS
<1>2. c \in Nat /\ c < NBits
  BY DEF InBitmap
<1> QED
  BY <1>1, <1>2

(* The bytes a run changes hands for are a natural number. *)
LEMMA BytesNat ==
  ASSUME NEW S, PageSet(S), NEW A \in SUBSET S
  PROVE  PageSize * Cardinality(A) \in Nat
<1>1. IsFiniteSet(A)
  BY FS_Subset DEF PageSet
<1>2. Cardinality(A) \in Nat
  BY <1>1, FS_CardinalityType
<1> QED
  BY <1>2 DEF PageSize

LEMMA ChangedParts ==
  ASSUME NEW S, NEW seen \in SUBSET PastBitmap(S)
  PROVE  /\ (InBitmap(S) \ bitmap) \cup seen \in SUBSET S
         /\ (InBitmap(S) \cap bitmap) \cup seen \in SUBSET S
BY DEF InBitmap, PastBitmap

(* The types of what locking, freeing and reserving change. *)
RunTypes ==
  /\ bitmap' \subseteq 0 .. NBits - 1
  /\ spilled' \subseteq Nat
  /\ freeMemory' \in 0 .. Word - 1
  /\ usedMemory' \in 0 .. Word - 1
  /\ reservedMemory' \in 0 .. Word - 1

LEMMA LockPagesTypes ==
  ASSUME TypeOK, NEW S, PageSet(S), LockPages(S)
  PROVE  RunTypes /\ bitmap' = bitmap \cup InBitmap(S)
<1>1. PICK seen \in SUBSET PastBitmap(S) :
        LET bytes == PageSize * Cardinality((InBitmap(S) \ bitmap) \cup seen) IN
          /\ bitmap' = bitmap \cup InBitmap(S)
          /\ spilled' = spilled \cup seen
          /\ freeMemory' = (freeMemory - bytes) % Word
          /\ usedMemory' = (usedMemory + bytes) % Word
          /\ UNCHANGED reservedMemory
  BY DEF LockPages
<1> DEFINE changed == (InBitmap(S) \ bitmap) \cup seen
           bytes == PageSize * Cardinality(changed)
<1>2. bytes \in Nat
  <2>1. changed \in SUBSET S
    BY ChangedParts
  <2> QED
    BY <2>1, BytesNat
<1> HIDE DEF bytes
<1>3. freeMemory' \in 0 .. Word - 1 /\ usedMemory' \in 0 .. Word - 1
  BY <1>1, <1>2, PageFrameAssumption DEF TypeOK, bytes
<1>4. spilled' \subseteq Nat
  BY <1>1 DEF TypeOK, PastBitmap, PageSet
<1> QED
  BY <1>1, <1>3, <1>4, InBitmapRange DEF TypeOK, RunTypes, PageSet

LEMMA FreePagesTypes ==
  ASSUME TypeOK, NEW S, PageSet(S), FreePages(S)
  PROVE  RunTypes /\ bitmap' = bitmap \ S
<1>1. PICK seen \in SUBSET PastBitmap(S) :
        LET bytes == PageSize * Cardinality((InBitmap(S) \cap bitmap) \cup seen) IN
          /\ bitmap' = bitmap \ S
          /\ spilled' = spilled \cup seen
          /\ freeMemory' = (freeMemory + bytes) % Word
          /\ usedMemory' = (usedMemory - bytes) % Word
          /\ UNCHANGED reservedMemory
  BY DEF FreePages
<1> DEFINE changed == (InBitmap(S) \cap bitmap) \cup seen
           bytes == PageSize * Cardinality(changed)
<1>2. bytes \in Nat
  <2>1. changed \in SUBSET S
    BY ChangedParts
  <2> QED
    BY <2>1, BytesNat
<1> HIDE DEF bytes
<1>3. freeMemory' \in 0 .. Word - 1 /\ usedMemory' \in 0 .. Word - 1
  BY <1>1, <1>2, PageFrameAssumption DEF TypeOK, bytes
<1>4. spilled' \subseteq Nat
  BY <1>1 DEF TypeOK, PastBitmap, PageSet
<1> QED
  BY <1>1, <1>3, <1>4 DEF TypeOK, RunTypes

LEMMA ReservePagesTypes ==
  ASSUME TypeOK, NEW S, PageSet(S), ReservePages(S)
  PROVE  RunTypes /\ bitmap' = bitmap \cup InBitmap(S)
<1>1. PICK seen \in SUBSET PastBitmap(S) :
        LET bytes == PageSize * Cardinality((InBitmap(S) \ bitmap) \cup seen) IN
          /\ bitmap' = bitmap \cup InBitmap(S)
          /\ spilled' = spilled \cup seen
          /\ reservedMemory' = (reservedMemory + bytes) % Word
          /\ UNCHANGED <<freeMemory, usedMemory>>
  BY DEF ReservePages
<1> DEFINE changed == (InBitmap(S) \ bitmap) \cup seen
           bytes == PageSize * Cardinality(changed)
<1>2. bytes \in Nat
  <2>1. changed \in SUBSET S
    BY ChangedParts
  <2> QED
    BY <2>1, BytesNat
<1> HIDE DEF bytes
<1>3. reservedMemory' \in 0 .. Word - 1
  BY <1>1, <1>2, PageFrameAssumption DEF TypeOK, bytes
<1>4. spilled' \subseteq Nat
  BY <1>1 DEF TypeOK, PastBitmap, PageSet
<1> QED
  BY <1>1, <1>3, <1>4, InBitmapRange DEF TypeOK, RunTypes, PageSet

(* BitsExact, bit by bit. *)
LEMMA BitsExactElt ==
  BitsExact <=>
    \A c : c \in bitmap <=> c \in taken \/ \E r \in held : c \in InBitmap(PagesOf(r))
BY Zenon DEF BitsExact

LEMMA ScanTyped == TypeOK => scan \in Scans
BY DEF TypeOK, Scans

-----------------------------------------------------------------------------
(* PagesInv is inductive. *)

LEMMA PagesInvInit == Init => PagesInv
<1> SUFFICES ASSUME Init PROVE PagesInv
  OBVIOUS
<1> USE DEF Init
<1>1. TypeOK
  <2>1. 0 \in 0 .. Word - 1
    BY PageFrameAssumption
  <2>2. NoRequest \in [count : Nat, mapping : BOOLEAN]
    BY DEF NoRequest
  <2>3. StartScan(0) \in [index : Nat, offset : Nat, want : Nat]
    BY DEF StartScan
  <2>4. entry \in Nat \ {0} /\ phase = "sum" /\ result = "none"
    OBVIOUS
  <2>5. {} \subseteq 0 .. NBits - 1 /\ {} \subseteq Nat
        /\ {} \subseteq [index : Nat, count : Nat]
    OBVIOUS
  <2> QED
    BY <2>1, <2>2, <2>3, <2>4, <2>5, Zenon DEF TypeOK
<1>2. ScanKnows /\ HeldApart /\ BitsExact /\ InOrder
  BY DEF ScanKnows, HeldApart, BitsExact, InOrder
<1> QED
  BY <1>1, <1>2 DEF PagesInv

(* Locking or reserving pages while nobody holds any. *)
LEMMA WithdrawInv ==
  ASSUME PagesInv, held = {}, UNCHANGED <<call, held, mapped, memmapTag>>,
         NEW S, PageSet(S), LockPages(S) \/ ReservePages(S),
         taken' = taken \cup InBitmap(S),
         phase' \in {"reserve", "idle"}, entry' \in Nat \ {0},
         kernelLocked' \in BOOLEAN
  PROVE  TypeOK' /\ ScanKnows' /\ HeldApart' /\ BitsExact'
<1>1. RunTypes /\ bitmap' = bitmap \cup InBitmap(S)
  BY LockPagesTypes, ReservePagesTypes DEF PagesInv
<1>2. TypeOK'
  BY <1>1, InBitmapRange DEF PagesInv, TypeOK, RunTypes, call, PageSet
<1>3. ScanKnows' /\ HeldApart'
  BY DEF ScanKnows, HeldApart
<1>4. BitsExact'
  BY <1>1 DEF PagesInv, BitsExact
<1> QED
  BY <1>2, <1>3, <1>4

LEMMA BootInv ==
  ASSUME PagesInv,
         SumMemory \/ NoMemoryMap \/ InitBitmap \/ ReserveEntry \/ SkipEntry \/ Initialized
  PROVE  PagesInv'
<1>1. ~kernelLocked /\ held = {}
  BY DEF PagesInv, InOrder, SumMemory, NoMemoryMap, InitBitmap, ReserveEntry,
         SkipEntry, Initialized
<1>2. CASE SumMemory
  <2>1. freeMemory' \in 0 .. Word - 1
    BY <1>2, PageFrameAssumption DEF SumMemory, PagesInv, TypeOK
  <2> QED
    BY <1>1, <1>2, <2>1 DEF SumMemory, PagesInv, TypeOK, ScanKnows, HeldApart, BitsExact,
       InOrder, bits, call, boot, PagesOf
<1>3. CASE InitBitmap
  <2>1. (TypeOK /\ ScanKnows /\ HeldApart /\ BitsExact)'
    BY <1>1, <1>3, WithdrawInv, RunsArePageSets DEF InitBitmap, boot, PagesInv, TypeOK
  <2> QED
    BY <1>1, <1>3, <2>1 DEF InitBitmap, boot, PagesInv, InOrder
<1>4. CASE ReserveEntry
  <2>1. entry \in DOMAIN MemMap /\ entry' \in Nat \ {0}
    BY <1>4 DEF ReserveEntry, PagesInv, TypeOK
  <2>2. (TypeOK /\ ScanKnows /\ HeldApart /\ BitsExact)'
    BY <1>1, <1>4, <2>1, WithdrawInv, RunsArePageSets
       DEF ReserveEntry, PagesInv, TypeOK
  <2> QED
    BY <1>1, <1>4, <2>2 DEF ReserveEntry, PagesInv, InOrder
<1>5. CASE NoMemoryMap \/ SkipEntry \/ Initialized
  <2>1. /\ phase' \in {"panic", "reserve", "idle"}
        /\ entry' \in Nat \ {0}
        /\ UNCHANGED <<bits, counters, call, held, taken, mapped, memmapTag, kernelLocked>>
    BY <1>5 DEF NoMemoryMap, SkipEntry, Initialized, PagesInv, TypeOK, boot
  <2>2. TypeOK'
    BY <2>1 DEF PagesInv, TypeOK, bits, counters, call
  <2>3. (ScanKnows /\ HeldApart /\ BitsExact /\ InOrder)'
    BY <1>1, <2>1 DEF PagesInv, ScanKnows, HeldApart, BitsExact, InOrder, bits, call
  <2> QED
    BY <2>2, <2>3 DEF PagesInv
<1> QED
  BY <1>2, <1>3, <1>4, <1>5

LEMMA LockKernelInv ==
  ASSUME PagesInv, LockKernel
  PROVE  PagesInv'
<1>1. held = {}
  BY DEF PagesInv, InOrder, LockKernel
<1>2. (TypeOK /\ ScanKnows /\ HeldApart /\ BitsExact)'
  BY <1>1, WithdrawInv, RunsArePageSets DEF LockKernel, PagesInv, TypeOK
<1>3. InOrder'
  BY <1>1 DEF LockKernel, InOrder
<1> QED
  BY <1>2, <1>3 DEF PagesInv

LEMMA RequestInv ==
  ASSUME PagesInv, ~EarlyClients, NEW r \in Requests, Request(r)
  PROVE  PagesInv'
<1> USE DEF PagesInv
<1>1. r \in [count : Nat, mapping : BOOLEAN]
  BY PageFrameAssumption DEF Requests
<1>2. scan' \in Scans /\ ScanInv(scan', NBits, bitmap)
  BY <1>1, StartScanInv, SizesNat DEF Request
<1>3. TypeOK'
  BY <1>1, <1>2 DEF Request, TypeOK, Scans, bits, counters, boot
<1>4. ScanKnows'
  BY <1>2 DEF Request, ScanKnows, StartScan, bits
<1>5. (HeldApart /\ BitsExact /\ InOrder)'
  BY DEF Request, HeldApart, BitsExact, InOrder, bits, boot
<1> QED
  BY <1>3, <1>4, <1>5

LEMMA ProbeInv ==
  ASSUME PagesInv, ProbeFree \/ ProbeUsed
  PROVE  PagesInv'
<1> USE DEF PagesInv
<1>1. scan' \in Scans /\ ScanInv(scan', NBits, bitmap) /\ scan'.want = scan.want
  <2>1. scan \in Scans /\ NBits \in Nat /\ ScanInv(scan, NBits, bitmap)
    BY ScanTyped, SizesNat DEF ProbeFree, ProbeUsed, ScanKnows
  <2>2. CASE ProbeFree
    BY <2>1, <2>2, AdvanceInv DEF ProbeFree, Advance, Scans
  <2>3. CASE ProbeUsed
    BY <2>1, <2>3, SkipPastInv DEF ProbeUsed, SkipPast
  <2> QED
    BY <2>2, <2>3
<1>2. phase' = phase /\ UNCHANGED <<bits, counters, req, result, held, taken, mapped, boot>>
  BY DEF ProbeFree, ProbeUsed
<1>3. TypeOK'
  BY <1>1, <1>2 DEF TypeOK, Scans, bits, counters, boot
<1>4. ScanKnows'
  BY <1>1, <1>2 DEF ScanKnows, bits
<1>5. (HeldApart /\ BitsExact /\ InOrder)'
  BY <1>2 DEF HeldApart, BitsExact, InOrder, bits, boot
<1> QED
  BY <1>3, <1>4, <1>5

LEMMA OutOfPagesInv ==
  ASSUME PagesInv, OutOfPages
  PROVE  PagesInv'
BY DEF PagesInv, OutOfPages, TypeOK, ScanKnows, HeldApart, BitsExact, InOrder,
       NoRequest, StartScan, bits, counters, boot

(* Callers are served after ptm_initialize, and the kernel has a page. *)
Ordered == ~EarlyClients /\ KernelPages # 0

(* What a request knows when its run is found. *)
LEMMA GrantFacts ==
  ASSUME PagesInv, Ordered, Grant
  PROVE  /\ scan \in Scans /\ NBits \in Nat /\ req \in Requests
         /\ req.count \in Nat \ {0} /\ scan.want = req.count
         /\ scan.index # 0 /\ scan.index < NBits
         /\ Fits(scan.index, scan.want, NBits, bitmap)
<1>1. /\ scan \in Scans /\ NBits \in Nat /\ req \in Requests
      /\ scan.want = req.count /\ ScanInv(scan, NBits, bitmap) /\ Found(scan, NBits)
  BY ScanTyped, SizesNat DEF PagesInv, Grant, ScanKnows
<1>2. req.count \in Nat \ {0}
  BY <1>1, PageFrameAssumption DEF Requests
<1>3. scan.index < NBits /\ Fits(scan.index, scan.want, NBits, bitmap)
  BY <1>1, FoundFits
<1>4. scan.index # 0
  <2> SUFFICES ASSUME scan.index = 0 PROVE FALSE
    OBVIOUS
  <2>1. kernelLocked
    BY DEF PagesInv, InOrder, Grant
  <2>2. 0 \in 0 .. KernelPages - 1
    BY PageFrameAssumption DEF Ordered
  <2>3. 0 \in taken
    BY <2>1, <2>2, <1>1, <1>3 DEF PagesInv, InOrder, InBitmap
  <2>4. 0 \in bitmap
    BY <2>3, BitsExactElt DEF PagesInv
  <2>5. 0 \in Run(scan.index, scan.want)
    BY <1>1, <1>2 DEF Run, Scans
  <2> QED
    BY <2>4, <2>5, <1>1, <1>3 DEF Fits
<1> QED
  BY <1>1, <1>2, <1>3, <1>4

LEMMA GrantInv ==
  ASSUME PagesInv, Ordered, Grant
  PROVE  PagesInv'
<1> DEFINE new == [index |-> scan.index, count |-> req.count]
           run == PagesOf(new)
<1>1. /\ scan \in Scans /\ NBits \in Nat /\ req.count \in Nat \ {0}
      /\ scan.want = req.count /\ scan.index # 0 /\ scan.index < NBits
      /\ Fits(scan.index, scan.want, NBits, bitmap)
  BY GrantFacts
<1>2. run = Run(scan.index, scan.want) /\ PageSet(run)
  BY <1>1, RunsArePageSets DEF PagesOf, Scans
<1>3. InBitmap(run) \cap bitmap = {}
  BY <1>1, <1>2 DEF Fits, InBitmap
<1>4. /\ LockPages(run)
      /\ held' = held \cup {new} /\ result' = "page"
      /\ mapped' \in {mapped, mapped \cup run}
      /\ UNCHANGED <<taken, boot>> /\ phase' = "idle"
      /\ req' = NoRequest /\ scan' = StartScan(0)
  BY <1>1 DEF Grant
<1>5. RunTypes /\ bitmap' = bitmap \cup InBitmap(run)
  BY <1>2, <1>4, LockPagesTypes DEF PagesInv
<1>6. run \cap taken = {}
  <2> SUFFICES ASSUME NEW c \in run, c \in taken PROVE FALSE
    OBVIOUS
  <2>1. c \in 0 .. NBits - 1
    BY DEF PagesInv, TypeOK
  <2>2. c \in InBitmap(run)
    BY <2>1, <1>1 DEF InBitmap
  <2>3. c \in bitmap
    BY BitsExactElt DEF PagesInv
  <2> QED
    BY <2>2, <2>3, <1>3
<1> HIDE DEF run
<1>7. TypeOK'
  <2>1. new \in [index : Nat, count : Nat]
    BY <1>1 DEF Scans
  <2>2. mapped' \subseteq Nat
    BY <1>2, <1>4 DEF PagesInv, TypeOK, PageSet
  <2>3. req' \in [count : Nat, mapping : BOOLEAN]
    BY <1>4 DEF NoRequest
  <2>4. scan' \in [index : Nat, offset : Nat, want : Nat]
    BY <1>4 DEF StartScan
  <2>5. held' \subseteq [index : Nat, count : Nat]
    BY <2>1, <1>4 DEF PagesInv, TypeOK
  <2> QED
    BY <2>2, <2>3, <2>4, <2>5, <1>4, <1>5, Zenon DEF PagesInv, TypeOK, RunTypes, boot
<1>8. HeldApart'
  <2>1. \A r \in held : InBitmap(PagesOf(r)) \subseteq bitmap
    BY BitsExactElt DEF PagesInv
  <2>2. \A r \in held : InBitmap(run) \cap InBitmap(PagesOf(r)) = {}
    BY <2>1, <1>3
  <2>3. \A r \in held' : r.index < NBits /\ r.count # 0
    BY <1>1, <1>4 DEF PagesInv, HeldApart
  <2>4. \A r, q \in held' : r # q => InBitmap(PagesOf(r)) \cap InBitmap(PagesOf(q)) = {}
    <3> SUFFICES ASSUME NEW r \in held', NEW q \in held', r # q
                 PROVE  InBitmap(PagesOf(r)) \cap InBitmap(PagesOf(q)) = {}
      OBVIOUS
    <3>1. CASE r \in held /\ q \in held
      BY <3>1 DEF PagesInv, HeldApart
    <3>2. CASE r = new /\ q \in held
      BY <3>2, <2>2 DEF run
    <3>3. CASE r \in held /\ q = new
      BY <3>3, <2>2 DEF run
    <3> QED
      BY <3>1, <3>2, <3>3, <1>4
  <2>5. \A r \in held' : PagesOf(r) \cap taken' = {}
    BY <1>4, <1>6 DEF PagesInv, HeldApart, run
  <2> QED
    BY <2>3, <2>4, <2>5 DEF HeldApart
<1>9. BitsExact'
  <2>1. ASSUME NEW c
        PROVE  c \in bitmap' <=>
                 c \in taken' \/ \E r \in held' : c \in InBitmap(PagesOf(r))
    BY <1>4, <1>5, BitsExactElt, Zenon DEF PagesInv, run
  <2> QED
    BY <2>1, Zenon DEF BitsExact
<1>10. (ScanKnows /\ InOrder)'
  <2>1. kernelLocked
    BY DEF PagesInv, InOrder, Grant
  <2> QED
    BY <2>1, <1>4 DEF PagesInv, ScanKnows, InOrder, boot
<1> QED
  BY <1>7, <1>8, <1>9, <1>10 DEF PagesInv

LEMMA FreeInv ==
  ASSUME PagesInv, NEW r \in held, Free(r)
  PROVE  PagesInv'
<1> DEFINE run == PagesOf(r)
<1>1. r \in [index : Nat, count : Nat] /\ PageSet(run)
  BY RunsArePageSets DEF PagesInv, TypeOK, PagesOf
<1>2. /\ FreePages(run) /\ held' = held \ {r} /\ phase' = phase /\ phase = "idle"
      /\ UNCHANGED <<call, taken, mapped, boot>>
  BY DEF Free
<1>3. RunTypes /\ bitmap' = bitmap \ run
  BY <1>1, <1>2, FreePagesTypes DEF PagesInv
<1> HIDE DEF run
<1>4. TypeOK'
  BY <1>2, <1>3 DEF PagesInv, TypeOK, RunTypes, call, boot
<1>5. HeldApart'
  BY <1>2 DEF PagesInv, HeldApart
<1>6. BitsExact'
  <2>1. ASSUME NEW c
        PROVE  c \in bitmap' <=>
                 c \in taken' \/ \E q \in held' : c \in InBitmap(PagesOf(q))
    <3>1. c \in bitmap <=> c \in taken \/ \E q \in held : c \in InBitmap(PagesOf(q))
      BY BitsExactElt DEF PagesInv
    <3>2. ASSUME c \in bitmap', c \notin taken'
          PROVE  \E q \in held' : c \in InBitmap(PagesOf(q))
      <4>1. PICK q \in held : c \in InBitmap(PagesOf(q))
        BY <3>1, <3>2, <1>2, <1>3
      <4>2. q # r
        BY <4>1, <3>2, <1>3 DEF InBitmap, run
      <4> QED
        BY <4>1, <4>2, <1>2
    <3>3. ASSUME c \in taken' PROVE c \in bitmap'
      BY <3>1, <3>3, <1>2, <1>3 DEF PagesInv, HeldApart, run
    <3>4. ASSUME NEW q \in held', c \in InBitmap(PagesOf(q)) PROVE c \in bitmap'
      <4>1. q \in held /\ q # r
        BY <1>2
      <4>2. c \notin InBitmap(run)
        BY <4>1, <3>4 DEF PagesInv, HeldApart, run
      <4>3. c \notin run
        BY <4>2, <3>4 DEF InBitmap
      <4> QED
        BY <4>1, <4>3, <3>1, <3>4, <1>3
    <3> QED
      BY <3>2, <3>3, <3>4
  <2> QED
    BY <2>1, Zenon DEF BitsExact
<1>7. (ScanKnows /\ InOrder)'
  BY <1>2 DEF PagesInv, ScanKnows, InOrder, boot
<1> QED
  BY <1>4, <1>5, <1>6, <1>7 DEF PagesInv

LEMMA PagesInvNext == Ordered /\ PagesInv /\ [Next]_vars => PagesInv'
<1> SUFFICES ASSUME Ordered, PagesInv, [Next]_vars PROVE PagesInv'
  OBVIOUS
<1>1. CASE SumMemory \/ NoMemoryMap \/ InitBitmap \/ ReserveEntry \/ SkipEntry \/ Initialized
  BY <1>1, BootInv
<1>2. CASE LockKernel
  BY <1>2, LockKernelInv
<1>3. ASSUME NEW r \in Requests, Request(r) PROVE PagesInv'
  BY <1>3, RequestInv DEF Ordered
<1>4. CASE ProbeFree \/ ProbeUsed
  BY <1>4, ProbeInv
<1>5. CASE Grant
  BY <1>5, GrantInv
<1>6. CASE OutOfPages
  BY <1>6, OutOfPagesInv
<1>7. ASSUME NEW r \in held, Free(r) PROVE PagesInv'
  BY <1>7, FreeInv
<1>8. CASE UNCHANGED vars
  BY <1>8 DEF vars, bits, counters, call, boot, PagesInv, TypeOK, ScanKnows, HeldApart,
     BitsExact, InOrder
<1> QED
  BY <1>1, <1>2, <1>3, <1>4, <1>5, <1>6, <1>7, <1>8 DEF Next, RequestLoop, Halted

(* Bitmap, withdrawn pages, held runs and the request under way agree in every
   reachable state, for any machine whose kernel is locked before the first
   request. *)
THEOREM PagesInvariant ==
  ASSUME Ordered
  PROVE  Spec => []PagesInv
<1>1. PagesInv /\ [Next]_vars => PagesInv'
  BY PagesInvNext
<1> QED
  BY <1>1, PagesInvInit, PTL DEF Spec

-----------------------------------------------------------------------------
(* Consequences *)

LEMMA ApartIsExclusive == PagesInv => GrantsExclusive
<1> SUFFICES ASSUME PagesInv PROVE GrantsExclusive
  OBVIOUS
<1>1. ASSUME NEW r \in held, NEW q \in held, r # q,
             NEW c, c \in PagesOf(r), c \in PagesOf(q)
      PROVE  FALSE
  <2>1. /\ r \in [index : Nat, count : Nat] /\ q \in [index : Nat, count : Nat]
        /\ r.index < NBits /\ q.index < NBits /\ NBits \in Nat
        /\ InBitmap(PagesOf(r)) \cap InBitmap(PagesOf(q)) = {}
    BY <1>1, SizesNat DEF PagesInv, TypeOK, HeldApart
  <2>2. CASE c < NBits
    BY <1>1, <2>1, <2>2 DEF InBitmap
  <2>3. CASE ~(c < NBits)
    <3>1. NBits - 1 \in PagesOf(r) /\ NBits - 1 \in PagesOf(q)
      BY <1>1, <2>1, <2>3 DEF PagesOf, Run
    <3>2. NBits - 1 < NBits
      BY <2>1
    <3> QED
      BY <3>1, <3>2, <2>1 DEF InBitmap
  <2> QED
    BY <2>2, <2>3
<1>2. \A r, q \in held : r # q => PagesOf(r) \cap PagesOf(q) = {}
  BY <1>1
<1> QED
  BY <1>2 DEF GrantsExclusive, PagesInv, HeldApart

(* No page is handed out twice, and none that the kernel has withdrawn. *)
THEOREM GrantsAreExclusive ==
  ASSUME Ordered
  PROVE  Spec => []GrantsExclusive
BY PagesInvariant, ApartIsExclusive, PTL

(* The kernel's pages stay locked from ptm_initialize on, whatever callers
   request and free. *)
THEOREM KernelIsKept ==
  ASSUME Ordered
  PROVE  Spec => []KernelStaysLocked
<1>1. PagesInv => KernelStaysLocked
  BY BitsExactElt DEF PagesInv, InOrder, KernelStaysLocked
<1> QED
  BY <1>1, PagesInvariant, PTL

(* A request that answers NULL has found the bitmap full for its length; the
   NULL is never page 0. *)
THEOREM NullIsFull ==
  ASSUME Ordered
  PROVE  Spec => NullMeansFull
<1> DEFINE A == phase = "scan" /\ phase' = "idle" /\ result' = "null" =>
                  \A i \in 0 .. NBits - 1 : ~Fits(i, scan.want, NBits, bitmap)
<1>1. PagesInv /\ [Next]_vars => [A]_vars
  <2> SUFFICES ASSUME PagesInv, Next, phase = "scan", phase' = "idle", result' = "null"
               PROVE  \A i \in 0 .. NBits - 1 : ~Fits(i, scan.want, NBits, bitmap)
    BY DEF vars
  <2>1. Grant \/ OutOfPages
    BY DEF Next, RequestLoop, SumMemory, NoMemoryMap, InitBitmap, ReserveEntry, SkipEntry,
       Initialized, LockKernel, Request, ProbeFree, ProbeUsed, Free, Halted, vars
  <2>2. ~Grant
    BY GrantFacts DEF Grant
  <2>3. scan \in Scans /\ ScanInv(scan, NBits, bitmap) /\ ~InLoop(scan, NBits)
    BY <2>1, <2>2, ScanTyped DEF PagesInv, OutOfPages, ScanKnows
  <2> QED
    BY <2>3, SizesNat, ExhaustedNone
<1> QED
  BY <1>1, PagesInvariant, PTL DEF Spec, NullMeansFull

(* The start that is granted is the lowest one that fits. *)
THEOREM RequestsAreFirstFit ==
  ASSUME Ordered
  PROVE  Spec => TakesFirstFit
<1> DEFINE A == held \subseteq held' /\ held # held' =>
                  \A i \in 0 .. scan.index - 1 : ~Fits(i, scan.want, NBits, bitmap)
<1>1. PagesInv /\ [Next]_vars => [A]_vars
  <2> SUFFICES ASSUME PagesInv, Next, held \subseteq held', held # held',
                      NEW i \in 0 .. scan.index - 1
               PROVE  ~Fits(i, scan.want, NBits, bitmap)
    BY DEF vars
  <2>1. Grant
    BY DEF Next, RequestLoop, SumMemory, NoMemoryMap, InitBitmap, ReserveEntry, SkipEntry,
       Initialized, LockKernel, Request, ProbeFree, ProbeUsed, OutOfPages, Free, Halted, vars
  <2>2. scan \in Scans /\ ScanInv(scan, NBits, bitmap) /\ scan.index < NBits
    BY <2>1, ScanTyped DEF PagesInv, ScanKnows, Grant, Found, InLoop
  <2> QED
    BY <2>2, SizesNat DEF ScanInv, Scans
<1> QED
  BY <1>1, PagesInvariant, PTL DEF Spec, TakesFirstFit

-----------------------------------------------------------------------------
(* Counters *)

(* Moving x from one counter to the other keeps their sum modulo w. *)
LEMMA MoveKeepsSum ==
  ASSUME NEW w \in Nat \ {0}, NEW a \in Int, NEW b \in Int, NEW x \in Int
  PROVE  (((a - x) % w) + ((b + x) % w)) % w = (a + b) % w
<1> DEFINE p == a - x
           q == b + x
           c == a + b
           r == p % w
           t == q % w
           s == r + t
           u == s % w
           v == c % w
<1>a. p \in Int /\ q \in Int /\ c \in Int /\ p + q = c
  OBVIOUS
<1> HIDE DEF p, q, c
<1>1. PICK j \in Int : r \in 0 .. w - 1 /\ p = w * j + r
  BY <1>a, DivMod
<1>2. PICK k \in Int : t \in 0 .. w - 1 /\ q = w * k + t
  BY <1>a, DivMod
<1>3. PICK m \in Int : v \in 0 .. w - 1 /\ c = w * m + v
  BY <1>a, DivMod
<1> HIDE DEF r, t, v
<1>b. s \in Int
  BY <1>1, <1>2
<1> HIDE DEF s
<1>c. PICK l \in Int : u \in 0 .. w - 1 /\ s = w * l + u
  BY <1>b, DivMod
<1> HIDE DEF u
<1>4. w * (j + k + l) + u = w * m + v
  <2>1. w * (j + k + l) = w * j + w * k + w * l
    OBVIOUS
  <2>2. w * j \in Int /\ w * k \in Int /\ w * l \in Int /\ w * m \in Int
    OBVIOUS
  <2> QED
    BY <2>1, <2>2, <1>a, <1>1, <1>2, <1>3, <1>c DEF s
<1>5. j + k + l \in Int
  OBVIOUS
<1>6. u = v
  BY <1>3, <1>4, <1>5, <1>c, RemainderUnique
<1> QED
  BY <1>6 DEF u, v, s, r, t, p, q, c

(* Locking and freeing only move bytes between the two counters. *)
LEMMA RunsKeepSum ==
  ASSUME TypeOK, NEW S, PageSet(S), LockPages(S) \/ FreePages(S)
  PROVE  (freeMemory' + usedMemory') % Word = (freeMemory + usedMemory) % Word
<1>1. Word \in Nat \ {0} /\ freeMemory \in Int /\ usedMemory \in Int
  BY PageFrameAssumption DEF TypeOK
<1>2. CASE LockPages(S)
  <2>1. PICK seen \in SUBSET PastBitmap(S) :
          LET bytes == PageSize * Cardinality((InBitmap(S) \ bitmap) \cup seen) IN
            /\ freeMemory' = (freeMemory - bytes) % Word
            /\ usedMemory' = (usedMemory + bytes) % Word
    BY <1>2 DEF LockPages
  <2> DEFINE changed == (InBitmap(S) \ bitmap) \cup seen
             bytes == PageSize * Cardinality(changed)
  <2>2. changed \in SUBSET S
    BY ChangedParts
  <2>3. bytes \in Int
    BY <2>2, BytesNat
  <2> HIDE DEF bytes
  <2>4. freeMemory' = (freeMemory - bytes) % Word /\ usedMemory' = (usedMemory + bytes) % Word
    BY <2>1 DEF bytes
  <2> QED
    BY <2>3, <2>4, <1>1, MoveKeepsSum
<1>3. CASE FreePages(S)
  <2>1. PICK seen \in SUBSET PastBitmap(S) :
          LET bytes == PageSize * Cardinality((InBitmap(S) \cap bitmap) \cup seen) IN
            /\ freeMemory' = (freeMemory + bytes) % Word
            /\ usedMemory' = (usedMemory - bytes) % Word
    BY <1>3 DEF FreePages
  <2> DEFINE changed == (InBitmap(S) \cap bitmap) \cup seen
             bytes == PageSize * Cardinality(changed)
  <2>2. changed \in SUBSET S
    BY ChangedParts
  <2>3. bytes \in Int
    BY <2>2, BytesNat
  <2> HIDE DEF bytes
  <2>4. freeMemory' = (freeMemory + bytes) % Word /\ usedMemory' = (usedMemory - bytes) % Word
    BY <2>1 DEF bytes
  <2>5. (usedMemory' + freeMemory') % Word = (usedMemory + freeMemory) % Word
    BY <2>3, <2>4, <1>1, MoveKeepsSum
  <2>6. usedMemory' + freeMemory' = freeMemory' + usedMemory'
        /\ usedMemory + freeMemory = freeMemory + usedMemory
    BY <2>3, <2>4, <1>1
  <2> QED
    BY <2>5, <2>6
<1> QED
  BY <1>2, <1>3

(* Before the memory map is summed both counters are zero. *)
Balance == (phase = "sum" => freeMemory = 0 /\ usedMemory = 0) /\ FreeUsedBalance

LEMMA BalanceNext ==
  ASSUME PagesInv, Balance, [Next]_vars
  PROVE  Balance'
<1> DEFINE kept == (freeMemory' + usedMemory') % Word = (freeMemory + usedMemory) % Word
<1>1. CASE SumMemory
  <2>1. AvailableSize \in 0 .. Word - 1 /\ Word \in Nat \ {0}
    BY PageFrameAssumption
  <2>2. freeMemory' = AvailableSize /\ usedMemory' = 0 /\ phase' = "init"
    BY <1>1, <2>1 DEF SumMemory, Balance
  <2> QED
    BY <2>1, <2>2 DEF Balance, FreeUsedBalance
<1>2. ASSUME phase # "sum", phase' # "sum", kept PROVE Balance'
  BY <1>2 DEF Balance, FreeUsedBalance
<1>3. CASE InitBitmap
  BY <1>2, <1>3, RunsKeepSum, RunsArePageSets DEF InitBitmap, PagesInv
<1>4. CASE LockKernel
  BY <1>2, <1>4, RunsKeepSum, RunsArePageSets DEF LockKernel, PagesInv
<1>5. CASE Grant
  <2> DEFINE new == [index |-> scan.index, count |-> req.count]
  <2>1. PageSet(PagesOf(new))
    BY ScanTyped, RunsArePageSets DEF PagesInv, TypeOK, PagesOf, Scans
  <2> QED
    BY <1>2, <1>5, <2>1, RunsKeepSum DEF Grant, PagesInv
<1>6. ASSUME NEW r \in held, Free(r) PROVE Balance'
  <2>1. PageSet(PagesOf(r))
    BY RunsArePageSets DEF PagesInv, TypeOK, PagesOf
  <2> QED
    BY <1>2, <1>6, <2>1, RunsKeepSum DEF Free, PagesInv
<1>7. CASE ReserveEntry
  BY <1>2, <1>7 DEF ReserveEntry, ReservePages
<1>8. CASE NoMemoryMap \/ SkipEntry \/ Initialized \/ ProbeFree \/ ProbeUsed \/ OutOfPages
           \/ \E r \in Requests : Request(r)
  BY <1>2, <1>8 DEF NoMemoryMap, SkipEntry, Initialized, ProbeFree, ProbeUsed, OutOfPages,
     Request, counters
<1>9. CASE UNCHANGED vars
  BY <1>9 DEF vars, counters, Balance, FreeUsedBalance
<1> QED
  BY <1>1, <1>3, <1>4, <1>5, <1>6, <1>7, <1>8, <1>9 DEF Next, RequestLoop, Halted

(* free_memory and used_memory always add up to the available memory of the
   map: no sequence of requests and frees loses a byte of the accounts, not
   even when a run overruns the bitmap. *)
THEOREM CountersBalance ==
  ASSUME Ordered
  PROVE  Spec => []FreeUsedBalance
<1>1. Init => Balance
  BY DEF Init, Balance, FreeUsedBalance
<1>2. PagesInv /\ Balance /\ [Next]_vars => Balance'
  BY BalanceNext
<1>3. Balance => FreeUsedBalance
  BY DEF Balance
<1> QED
  BY <1>1, <1>2, <1>3, PagesInvariant, PTL DEF Spec

(* What one counter takes, the sum of both takes. *)
SumFollows(w, u, v, x, d) == (u + v) % w = x % w => (((u + d) % w) + v) % w = (x + d) % w

LEMMA OneCounterMoves ==
  ASSUME NEW w \in Nat \ {0}, NEW u \in Int, NEW v \in Int, NEW x \in Int, NEW d \in Int
  PROVE  SumFollows(w, u, v, x, d)
<1> SUFFICES ASSUME (u + v) % w = x % w
             PROVE  (((u + d) % w) + v) % w = (x + d) % w
  BY DEF SumFollows
<1> DEFINE ud == u + d
           uv == u + v
<1>1. ud \in Int /\ uv \in Int /\ ud + v = uv + d
  OBVIOUS
<1> HIDE DEF ud, uv
<1>2. AddsModulo(w, ud, v) /\ AddsModulo(w, uv, d) /\ AddsModulo(w, x, d)
  BY <1>1, ModAdd
<1>3. uv % w = x % w
  BY DEF uv
<1>4. ((ud % w) + v) % w = (x + d) % w
  BY <1>1, <1>2, <1>3 DEF AddsModulo
<1> QED BY <1>4 DEF ud

(* The bytes of the set bits follow a run that is locked or freed. *)
LEMMA SetBits ==
  ASSUME TypeOK, NEW S, PageSet(S)
  PROVE  /\ IsFiniteSet(bitmap) /\ Cardinality(bitmap) \in Nat
         /\ Cardinality(InBitmap(S) \ bitmap) \in Nat
         /\ Cardinality(InBitmap(S) \cap bitmap) \in Nat
         /\ Cardinality(bitmap \cup InBitmap(S)) =
              Cardinality(bitmap) + Cardinality(InBitmap(S) \ bitmap)
         /\ Cardinality(bitmap \ S) = Cardinality(bitmap) - Cardinality(InBitmap(S) \cap bitmap)
<1>1. IsFiniteSet(bitmap)
  <2>1. IsFiniteSet(0 .. NBits - 1)
    BY SizesNat, FS_Interval
  <2> QED BY <2>1, FS_Subset DEF TypeOK
<1>2. bitmap \cap S = InBitmap(S) \cap bitmap
  <2>1. \A c \in bitmap : c < NBits
    BY SizesNat DEF TypeOK
  <2> QED BY <2>1 DEF InBitmap
<1>3. Cardinality(bitmap \ S) = Cardinality(bitmap) - Cardinality(InBitmap(S) \cap bitmap)
  BY <1>1, <1>2, FS_Difference
<1>4. IsFiniteSet(InBitmap(S) \cap bitmap) /\ IsFiniteSet(InBitmap(S) \ bitmap)
  <2>1. InBitmap(S) \cap bitmap \in SUBSET S /\ InBitmap(S) \ bitmap \in SUBSET S
    BY DEF InBitmap
  <2> QED BY <2>1, FS_Subset DEF PageSet
<1>5. /\ Cardinality(bitmap) \in Nat /\ Cardinality(InBitmap(S) \ bitmap) \in Nat
      /\ Cardinality(InBitmap(S) \cap bitmap) \in Nat
  BY <1>1, <1>4, FS_CardinalityType
<1>6. Cardinality(bitmap \cup InBitmap(S)) = Cardinality(bitmap) + Cardinality(InBitmap(S) \ bitmap)
  <2> DEFINE new == InBitmap(S) \ bitmap
  <2>1. bitmap \cup InBitmap(S) = bitmap \cup new /\ bitmap \cap new = {}
    OBVIOUS
  <2>2. IsFiniteSet(new) /\ Cardinality(new) \in Nat
    BY <1>4, <1>5
  <2> HIDE DEF new
  <2>3. Cardinality(bitmap \cup new) =
          Cardinality(bitmap) + Cardinality(new) - Cardinality(bitmap \cap new)
    BY <1>1, <2>2, FS_Union
  <2>4. Cardinality(bitmap \cap new) = 0
    BY <2>1, FS_EmptySet
  <2>5. Cardinality(bitmap \cup new) = Cardinality(bitmap) + Cardinality(new)
    BY <1>5, <2>2, <2>3, <2>4
  <2> QED BY <2>1, <2>5 DEF new
<1> QED BY <1>1, <1>3, <1>5, <1>6

(* used_memory and reserved_memory follow the bitmap as long as no run reaches
   past it. *)
LEMMA RunsAreAccounted ==
  ASSUME TypeOK, BitsAccounted, NEW S, PageSet(S),
         LockPages(S) \/ FreePages(S) \/ ReservePages(S)
  PROVE  BitsAccounted'
<1> SUFFICES ASSUME spilled' = {}
             PROVE  (usedMemory' + reservedMemory') % Word = (PageSize * Cardinality(bitmap')) % Word
  BY DEF BitsAccounted
<1> DEFINE more == Cardinality(InBitmap(S) \ bitmap)
           less == Cardinality(InBitmap(S) \cap bitmap)
           count == Cardinality(bitmap)
           sum == PageSize * count
           plus == PageSize * more
           minus == -(PageSize * less)
<1>1. /\ Word \in Nat \ {0} /\ usedMemory \in Int /\ reservedMemory \in Int
      /\ usedMemory' \in Int /\ reservedMemory' \in Int
  BY PageFrameAssumption, LockPagesTypes, FreePagesTypes, ReservePagesTypes DEF TypeOK, RunTypes
<1>2. /\ more \in Nat /\ less \in Nat /\ count \in Nat
      /\ Cardinality(bitmap \cup InBitmap(S)) = count + more
      /\ Cardinality(bitmap \ S) = count - less
  BY SetBits
<1> HIDE DEF more, less, count
<1>3. /\ plus \in Int /\ minus \in Int /\ sum \in Int
      /\ PageSize * (count + more) = sum + plus
      /\ PageSize * (count - less) = sum + minus
      /\ \A x \in Int : x - PageSize * less = x + minus
  BY <1>2 DEF PageSize
<1> HIDE DEF sum, plus, minus
<1>4. spilled = {} => (usedMemory + reservedMemory) % Word = sum % Word
  BY DEF BitsAccounted, sum, count
<1>5. CASE LockPages(S)
  <2>1. PICK seen \in SUBSET PastBitmap(S) :
          /\ bitmap' = bitmap \cup InBitmap(S) /\ spilled' = spilled \cup seen
          /\ usedMemory' = (usedMemory + PageSize * Cardinality((InBitmap(S) \ bitmap) \cup seen)) % Word
          /\ reservedMemory' = reservedMemory
    BY <1>5 DEF LockPages
  <2>2. spilled = {} /\ (InBitmap(S) \ bitmap) \cup seen = InBitmap(S) \ bitmap
    BY <2>1
  <2>3. usedMemory' = (usedMemory + plus) % Word
    BY <2>1, <2>2 DEF more, plus
  <2>4. (((usedMemory + plus) % Word) + reservedMemory) % Word = (sum + plus) % Word
    <3>1. SumFollows(Word, usedMemory, reservedMemory, sum, plus)
      BY <1>1, <1>3, OneCounterMoves
    <3> QED BY <1>4, <2>2, <3>1 DEF SumFollows
  <2> QED BY <1>2, <1>3, <2>1, <2>3, <2>4
<1>6. CASE FreePages(S)
  <2>1. PICK seen \in SUBSET PastBitmap(S) :
          /\ bitmap' = bitmap \ S /\ spilled' = spilled \cup seen
          /\ usedMemory' = (usedMemory - PageSize * Cardinality((InBitmap(S) \cap bitmap) \cup seen)) % Word
          /\ reservedMemory' = reservedMemory
    BY <1>6 DEF FreePages
  <2>2. spilled = {} /\ (InBitmap(S) \cap bitmap) \cup seen = InBitmap(S) \cap bitmap
    BY <2>1
  <2>3. usedMemory' = (usedMemory + minus) % Word
    BY <1>1, <1>3, <2>1, <2>2 DEF less
  <2>4. (((usedMemory + minus) % Word) + reservedMemory) % Word = (sum + minus) % Word
    <3>1. SumFollows(Word, usedMemory, reservedMemory, sum, minus)
      BY <1>1, <1>3, OneCounterMoves
    <3> QED BY <1>4, <2>2, <3>1 DEF SumFollows
  <2> QED BY <1>2, <1>3, <2>1, <2>3, <2>4
<1>7. CASE ReservePages(S)
  <2>1. PICK seen \in SUBSET PastBitmap(S) :
          /\ bitmap' = bitmap \cup InBitmap(S) /\ spilled' = spilled \cup seen
          /\ reservedMemory' = (reservedMemory + PageSize * Cardinality((InBitmap(S) \ bitmap) \cup seen)) % Word
          /\ usedMemory' = usedMemory
    BY <1>7 DEF ReservePages
  <2>2. spilled = {} /\ (InBitmap(S) \ bitmap) \cup seen = InBitmap(S) \ bitmap
    BY <2>1
  <2>3. reservedMemory' = (reservedMemory + plus) % Word
    BY <2>1, <2>2 DEF more, plus
  <2>4. (reservedMemory + usedMemory) % Word = sum % Word
    <3>1. reservedMemory + usedMemory = usedMemory + reservedMemory
      BY <1>1
    <3> QED BY <1>4, <2>2, <3>1
  <2>5. (((reservedMemory + plus) % Word) + usedMemory) % Word = (sum + plus) % Word
    <3>1. SumFollows(Word, reservedMemory, usedMemory, sum, plus)
      BY <1>1, <1>3, OneCounterMoves
    <3> QED BY <2>4, <3>1 DEF SumFollows
  <2>6. usedMemory' + reservedMemory' = reservedMemory' + usedMemory'
    BY <1>1
  <2> QED BY <1>2, <1>3, <2>1, <2>3, <2>5, <2>6
<1> QED BY <1>5, <1>6, <1>7

LEMMA AccountedNext ==
  ASSUME PagesInv, BitsAccounted, [Next]_vars
  PROVE  BitsAccounted'
<1>1. ASSUME UNCHANGED <<bitmap, spilled, usedMemory, reservedMemory>> PROVE BitsAccounted'
  BY <1>1 DEF BitsAccounted
<1>2. CASE InitBitmap
  BY <1>2, RunsAreAccounted, RunsArePageSets DEF InitBitmap, PagesInv
<1>3. CASE ReserveEntry
  BY <1>3, RunsAreAccounted, RunsArePageSets DEF ReserveEntry, PagesInv
<1>4. CASE LockKernel
  BY <1>4, RunsAreAccounted, RunsArePageSets DEF LockKernel, PagesInv
<1>5. CASE Grant
  <2> DEFINE new == [index |-> scan.index, count |-> req.count]
  <2>1. PageSet(PagesOf(new))
    BY ScanTyped, RunsArePageSets DEF PagesInv, TypeOK, PagesOf, Scans
  <2> QED BY <1>5, <2>1, RunsAreAccounted DEF Grant, PagesInv
<1>6. ASSUME NEW r \in held, Free(r) PROVE BitsAccounted'
  <2>1. PageSet(PagesOf(r))
    BY RunsArePageSets DEF PagesInv, TypeOK, PagesOf
  <2> QED BY <1>6, <2>1, RunsAreAccounted DEF Free, PagesInv
<1>7. CASE SumMemory \/ NoMemoryMap \/ SkipEntry \/ Initialized \/ ProbeFree \/ ProbeUsed
           \/ OutOfPages \/ (\E r \in Requests : Request(r)) \/ UNCHANGED vars
  BY <1>1, <1>7 DEF SumMemory, NoMemoryMap, SkipEntry, Initialized, ProbeFree, ProbeUsed,
     OutOfPages, Request, bits, counters, vars
<1> QED
  BY <1>2, <1>3, <1>4, <1>5, <1>6, <1>7 DEF Next, RequestLoop, Halted

LEMMA AccountedInit == Init => BitsAccounted
<1>1. Cardinality({}) = 0
  BY FS_EmptySet
<1>2. PageSize * 0 = 0 + 0
  BY DEF PageSize
<1> QED BY <1>1, <1>2 DEF Init, BitsAccounted

(* used_memory and reserved_memory count the set bits of the bitmap, in bytes,
   whatever was locked, reserved, requested and freed, until a run reaches
   past the bitmap. *)
THEOREM SetBitsAreAccounted ==
  ASSUME Ordered
  PROVE  Spec => []BitsAccounted
<1>1. PagesInv /\ BitsAccounted /\ [Next]_vars => BitsAccounted'
  BY AccountedNext
<1> QED
  BY <1>1, AccountedInit, PagesInvariant, PTL DEF Spec

-----------------------------------------------------------------------------
(* Requests of a single page *)

(* All the kernel's own requests (ahci.c) are for one page. *)
SinglePages == Counts \subseteq {1} /\ MappedCounts \subseteq {1}

SingleInv == \A r \in held : r.count = 1

(* A run of one page that starts in the bitmap lies in it: pages asked for
   one at a time never overrun the bitmap. *)
THEOREM SinglePagesStayInBitmap ==
  ASSUME Ordered, SinglePages
  PROVE  Spec => []GrantsInBitmap
<1>1. Init => SingleInv
  BY DEF Init, SingleInv
<1>2. PagesInv /\ SingleInv /\ [Next]_vars => SingleInv'
  <2> SUFFICES ASSUME PagesInv, SingleInv, [Next]_vars PROVE SingleInv'
    OBVIOUS
  <2>1. CASE Grant
    <3>1. req.count = 1
      BY <2>1, GrantFacts DEF Requests, SinglePages
    <3> QED
      BY <2>1, <3>1 DEF Grant, SingleInv
  <2>2. CASE held' \subseteq held
    BY <2>2 DEF SingleInv
  <2>3. Grant \/ held' \subseteq held
    BY DEF Next, RequestLoop, SumMemory, NoMemoryMap, InitBitmap, ReserveEntry, SkipEntry,
       Initialized, LockKernel, Request, ProbeFree, ProbeUsed, OutOfPages, Free, Halted, vars
  <2> QED
    BY <2>1, <2>2, <2>3
<1>3. PagesInv /\ SingleInv => GrantsInBitmap
  <2> SUFFICES ASSUME PagesInv, SingleInv, NEW r \in held
               PROVE  PagesOf(r) \subseteq 0 .. NBits - 1
    BY DEF GrantsInBitmap
  <2>1. r.index \in Nat /\ r.count = 1 /\ r.index < NBits /\ NBits \in Nat
    BY SizesNat DEF PagesInv, TypeOK, HeldApart, SingleInv
  <2>2. PagesOf(r) = {r.index}
    BY <2>1 DEF PagesOf, Run
  <2> QED
    BY <2>1, <2>2
<1> QED
  BY <1>1, <1>2, <1>3, PagesInvariant, PTL DEF Spec

-----------------------------------------------------------------------------
(* Refinement *)

LEMMA HeldCells ==
  /\ \A i, w : Pool!Cells(<<i, w>>) = InBitmap(Run(i, w))
  /\ \A r : Pool!Cells(<<r.index, r.count>>) = InBitmap(PagesOf(r))
BY DEF Pool!Cells, InBitmap, PagesOf, Run

LEMMA VacantIsClear ==
  ASSUME PagesInv, NEW i, NEW w
  PROVE  Pool!Vacant(i, w) <=> Fits(i, w, NBits, bitmap)
<1>1. Pool!Vacant(i, w) <=>
        /\ InBitmap(Run(i, w)) \cap taken = {}
        /\ \A r \in held : InBitmap(Run(i, w)) \cap InBitmap(PagesOf(r)) = {}
  BY HeldCells, Zenon DEF Pool!Vacant, Held
<1>2. Fits(i, w, NBits, bitmap) <=> InBitmap(Run(i, w)) \cap bitmap = {}
  BY DEF Fits, InBitmap
<1> QED
  BY <1>1, <1>2, BitsExactElt DEF PagesInv

(* The kernel withdraws pages only while nobody holds any. *)
LEMMA WithdrawRefines ==
  ASSUME PagesInv, InitBitmap \/ ReserveEntry \/ LockKernel
  PROVE  Pool!Withdraw
<1>1. held = {} /\ held' = held /\ result' = result
  BY DEF PagesInv, InOrder, InitBitmap, ReserveEntry, LockKernel, call
<1>2. taken \subseteq taken'
  BY DEF InitBitmap, ReserveEntry, LockKernel
<1>3. taken' \subseteq 0 .. NBits - 1
  <2>1. PagesInv'
    BY BootInv, LockKernelInv
  <2> QED
    BY <2>1 DEF PagesInv, TypeOK
<1> QED
  BY <1>1, <1>2, <1>3 DEF Pool!Withdraw, Held

LEMMA GrantRefines ==
  ASSUME PagesInv, Ordered, Grant
  PROVE  Pool!Grant(scan.want) /\ scan.want \in Counts \cup MappedCounts
<1> DEFINE new == [index |-> scan.index, count |-> req.count]
<1>1. /\ scan \in Scans /\ NBits \in Nat /\ req \in Requests /\ scan.want = req.count
      /\ scan.index # 0 /\ scan.index < NBits
      /\ Fits(scan.index, scan.want, NBits, bitmap)
  BY GrantFacts
<1>2. Pool!Room(scan.index, scan.want)
  BY <1>1, VacantIsClear DEF Pool!Room
<1>3. Held' = Held \cup {<<scan.index, scan.want>>}
  <2>1. held' = held \cup {new}
    BY <1>1 DEF Grant
  <2>2. new.index = scan.index /\ new.count = scan.want
    BY <1>1
  <2>3. Held' = {<<r.index, r.count>> : r \in held'}
    BY DEF Held
  <2> HIDE DEF new
  <2> QED
    BY <2>1, <2>2, <2>3 DEF Held
<1>4. scan.index \in 0 .. NBits - 1 /\ (result = "null")' = FALSE /\ taken' = taken
  BY <1>1 DEF Scans, Grant
<1> QED
  BY <1>1, <1>2, <1>3, <1>4 DEF Pool!Grant, Requests

LEMMA OutOfPagesRefines ==
  ASSUME PagesInv, OutOfPages
  PROVE  Pool!Refuse(scan.want) /\ scan.want \in Counts \cup MappedCounts
<1>1. \A i \in 0 .. NBits - 1 : ~Fits(i, scan.want, NBits, bitmap)
  BY ExhaustedNone, SizesNat, ScanTyped DEF ScanKnows, PagesInv, OutOfPages
<1>2. \A i \in 0 .. NBits - 1 : ~Pool!Room(i, scan.want)
  BY <1>1, VacantIsClear DEF Pool!Room
<1>3. Held' = Held /\ taken' = taken /\ (result = "null")' = TRUE
  BY DEF OutOfPages, Held
<1>4. scan.want \in Counts \cup MappedCounts
  BY DEF PagesInv, ScanKnows, OutOfPages, Requests
<1> QED
  BY <1>2, <1>3, <1>4 DEF Pool!Refuse

LEMMA FreeRefines ==
  ASSUME PagesInv, NEW r \in held, Free(r)
  PROVE  Pool!Release
<1> DEFINE p == <<r.index, r.count>>
<1>1. held' = held \ {r} /\ p \in Held /\ taken' = taken /\ result' = result
  BY DEF Free, Held, call
<1>2. Held' = {<<q.index, q.count>> : q \in held'}
  BY DEF Held
<1>3. \A q \in held : <<q.index, q.count>> = p => q = r
  BY DEF PagesInv, TypeOK
<1>4. Held' = Held \ {p}
  BY <1>1, <1>2, <1>3 DEF Held
<1> QED
  BY <1>1, <1>4 DEF Pool!Release

(* The allocator implements the pool: every step withdraws, grants, releases
   or refuses pages the way the pool does, or is invisible. *)
THEOREM PagesImplementPool ==
  ASSUME Ordered
  PROVE  Spec => ImplementsPool
<1>1. Init => Pool!PoolInit
  BY DEF Init, Pool!PoolInit, Held
<1>2. PagesInv /\ [Next]_vars => [Pool!PoolNext]_(Pool!poolVars)
  <2> SUFFICES ASSUME PagesInv, [Next]_vars
               PROVE  Pool!PoolNext \/ UNCHANGED Pool!poolVars
    OBVIOUS
  <2>1. CASE InitBitmap \/ ReserveEntry \/ LockKernel
    BY <2>1, WithdrawRefines DEF Pool!PoolNext
  <2>2. CASE SumMemory \/ NoMemoryMap \/ SkipEntry \/ Initialized \/ ProbeFree \/ ProbeUsed
             \/ \E r \in Requests : Request(r)
    BY <2>2 DEF SumMemory, NoMemoryMap, SkipEntry, Initialized, ProbeFree, ProbeUsed,
       Request, call, Pool!poolVars, Held
  <2>3. CASE Grant
    BY <2>3, GrantRefines DEF Pool!PoolNext
  <2>4. CASE OutOfPages
    BY <2>4, OutOfPagesRefines DEF Pool!PoolNext
  <2>5. ASSUME NEW r \in held, Free(r) PROVE Pool!PoolNext
    BY <2>5, FreeRefines DEF Pool!PoolNext
  <2>6. CASE UNCHANGED vars
    BY <2>6 DEF vars, call, Pool!poolVars, Held
  <2> QED
    BY <2>1, <2>2, <2>3, <2>4, <2>5, <2>6 DEF Next, RequestLoop, Halted
<1> QED
  BY <1>1, <1>2, PagesInvariant, PTL DEF Spec, ImplementsPool, Pool!PoolSpec
=============================================================================
