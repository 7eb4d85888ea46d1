---------------------------- MODULE KHeapProofs -----------------------------
(***************************************************************************)
(* Theorems about KHeap for every heap size, granularity, word width and   *)
(* set of request sizes.  HeapInv is inductive; the properties of the      *)
(* runs follow from it.                                                    *)
(***************************************************************************)
EXTENDS KHeap, FirstFitProofs, FiniteSetTheorems

(* The helpers return natural numbers. *)
LEMMA BlockCountNat ==
  ASSUME NEW x \in Nat
  PROVE  BlockCount(x) \in Nat
<1>1. x + Granularity - 1 \in Nat
  BY KHeapAssumption
<1>2. (x + Granularity - 1) % Word \in Nat
  BY <1>1, KHeapAssumption
<1> QED
  BY <1>2, KHeapAssumption DEF BlockCount

LEMMA NBitsNat == NBits \in Nat
<1>1. BlockCount(MemorySize) \in Nat
  BY BlockCountNat, KHeapAssumption
<1> QED
  BY <1>1 DEF NBits, BitmapSize

LEMMA SizesNat == \A size \in Sizes : size \in Nat /\ BlockCount(size) \in Nat
BY BlockCountNat, KHeapAssumption

(* BitmapExact, bit by bit. *)
LEMMA BitmapExactBits ==
  BitmapExact <=> \A c : c \in bitmap <=> \E b \in live : c \in InBitmap(BlocksOf(b))
BY Zenon DEF BitmapExact

(* The state of the type invariant that the actions work on. *)
LEMMA ScanTyped == TypeOK => scan \in Scans
BY DEF TypeOK, Scans

(* kheap_add leaves a heap that satisfies the invariant. *)
LEMMA HeapInvInit == Init => HeapInv
<1> SUFFICES ASSUME Init PROVE HeapInv
  OBVIOUS
<1> USE DEF Init
<1>1. TypeOK
  BY KHeapAssumption DEF TypeOK, StartScan
<1>2. LiveApart /\ BitmapExact
  BY DEF LiveApart, BitmapExact
<1>3. ScanKnows /\ PanicKnows
  BY DEF ScanKnows, PanicKnows
<1> QED
  BY <1>1, <1>2, <1>3 DEF HeapInv

LEMMA KmallocInv ==
  ASSUME HeapInv, NEW size \in Sizes, Kmalloc(size)
  PROVE  HeapInv'
<1> USE DEF HeapInv, Kmalloc
<1>1. size \in Nat /\ BlockCount(size) \in Nat /\ NBits \in Nat
  BY SizesNat, NBitsNat
<1>2. scan' \in Scans /\ ScanInv(scan', NBits, bitmap)
  BY <1>1, StartScanInv
<1>3. TypeOK'
  BY <1>1, <1>2 DEF TypeOK, Scans
<1>4. ScanKnows'
  BY <1>2 DEF ScanKnows, StartScan
<1>5. (LiveApart /\ BitmapExact)'
  BY DEF LiveApart, BitmapExact
<1>6. PanicKnows'
  BY DEF PanicKnows
<1> QED
  BY <1>3, <1>4, <1>5, <1>6

LEMMA ProbeFreeInv ==
  ASSUME HeapInv, ProbeFree
  PROVE  HeapInv'
<1> USE DEF HeapInv, ProbeFree
<1>1. scan' \in Scans /\ ScanInv(scan', NBits, bitmap)
  BY AdvanceInv, NBitsNat, ScanTyped DEF ScanKnows
<1>2. scan'.want = scan.want
  BY ScanTyped DEF Advance, Scans
<1>3. TypeOK'
  BY <1>1 DEF TypeOK, Scans
<1>4. ScanKnows'
  BY <1>1, <1>2 DEF ScanKnows
<1>5. (LiveApart /\ BitmapExact /\ PanicKnows)'
  BY DEF LiveApart, BitmapExact, PanicKnows
<1> QED
  BY <1>3, <1>4, <1>5

LEMMA ProbeUsedInv ==
  ASSUME HeapInv, ProbeUsed
  PROVE  HeapInv'
<1> USE DEF HeapInv, ProbeUsed
<1>1. scan' \in Scans /\ ScanInv(scan', NBits, bitmap)
  BY SkipPastInv, NBitsNat, ScanTyped DEF ScanKnows
<1>2. scan'.want = scan.want
  BY DEF SkipPast
<1>3. TypeOK'
  BY <1>1 DEF TypeOK, Scans
<1>4. ScanKnows'
  BY <1>1, <1>2 DEF ScanKnows
<1>5. (LiveApart /\ BitmapExact /\ PanicKnows)'
  BY DEF LiveApart, BitmapExact, PanicKnows
<1> QED
  BY <1>3, <1>4, <1>5

LEMMA PanicInv ==
  ASSUME HeapInv, Panic
  PROVE  HeapInv'
<1> USE DEF HeapInv, Panic
<1>1. \A i \in 0 .. NBits - 1 : ~Fits(i, scan.want, NBits, bitmap)
  BY ExhaustedNone, NBitsNat, ScanTyped DEF ScanKnows
<1>2. PanicKnows'
  BY <1>1 DEF PanicKnows
<1>3. (TypeOK /\ ScanKnows /\ LiveApart /\ BitmapExact)'
  BY DEF TypeOK, ScanKnows, LiveApart, BitmapExact
<1> QED
  BY <1>2, <1>3

(* The heart of the proof: the run that the loop has found clear shares no
   bit with a block somebody holds. *)
LEMMA GrantInv ==
  ASSUME HeapInv, Grant
  PROVE  HeapInv'
<1> DEFINE run == Run(scan.index, scan.want)
           new == [index |-> scan.index, size |-> req]
<1>1. scan \in Scans /\ NBits \in Nat /\ req \in Sizes /\ scan.want = BlockCount(req)
      /\ ScanInv(scan, NBits, bitmap) /\ Found(scan, NBits)
  BY ScanTyped, NBitsNat DEF HeapInv, Grant, ScanKnows
<1>2. scan.index < NBits /\ Fits(scan.index, scan.want, NBits, bitmap)
  BY <1>1, FoundFits
<1>3. BlocksOf(new) = run
  BY <1>1 DEF BlocksOf
<1>4. InBitmap(run) \cap bitmap = {}
  BY <1>2 DEF Fits, InBitmap
<1>5. live' = live \cup {new} /\ bitmap' = bitmap \cup InBitmap(run)
  BY DEF Grant
<1>6. TypeOK'
  <2>1. InBitmap(run) \subseteq 0 .. NBits - 1 /\ PastBitmap(run) \subseteq Nat
    BY <1>1 DEF InBitmap, PastBitmap, Run, Scans
  <2>2. new \in [index : Nat, size : Sizes]
    BY <1>1 DEF Scans
  <2>3. used' \in 0 .. Word - 1
    BY KHeapAssumption, SizesNat, <1>1 DEF Grant, HeapInv, TypeOK
  <2>4. scan' \in [index : Nat, offset : Nat, want : Nat] /\ req' \in Nat
    BY DEF Grant, StartScan
  <2> QED
    BY <2>1, <2>2, <2>3, <2>4, <1>5 DEF Grant, HeapInv, TypeOK
<1>7. LiveApart'
  <2>1. \A b \in live : InBitmap(BlocksOf(b)) \subseteq bitmap
    BY BitmapExactBits DEF HeapInv
  <2>2. \A b \in live : InBitmap(BlocksOf(new)) \cap InBitmap(BlocksOf(b)) = {}
    BY <2>1, <1>3, <1>4
  <2>3. \A b \in live' : b.index < NBits
    BY <1>2, <1>5 DEF HeapInv, LiveApart
  <2>4. \A a, b \in live' :
          a # b => InBitmap(BlocksOf(a)) \cap InBitmap(BlocksOf(b)) = {}
    <3> SUFFICES ASSUME NEW a \in live', NEW b \in live', a # b
                 PROVE  InBitmap(BlocksOf(a)) \cap InBitmap(BlocksOf(b)) = {}
      OBVIOUS
    <3>1. CASE a \in live /\ b \in live
      BY <3>1 DEF HeapInv, LiveApart
    <3>2. CASE a = new /\ b \in live
      BY <3>2, <2>2
    <3>3. CASE a \in live /\ b = new
      BY <3>3, <2>2
    <3> QED
      BY <3>1, <3>2, <3>3, <1>5
  <2> QED
    BY <2>3, <2>4 DEF LiveApart
<1>8. BitmapExact'
  <2>1. ASSUME NEW c
        PROVE  c \in bitmap' <=> \E b \in live' : c \in InBitmap(BlocksOf(b))
    BY <1>3, <1>5, BitmapExactBits, Zenon DEF HeapInv
  <2> QED
    BY <2>1, Zenon DEF BitmapExact
<1>9. (ScanKnows /\ PanicKnows)'
  BY DEF Grant, ScanKnows, PanicKnows
<1> QED
  BY <1>6, <1>7, <1>8, <1>9 DEF HeapInv

(* kfree clears the bits of its block; by LiveApart no other block has them. *)
LEMMA KfreeInv ==
  ASSUME HeapInv, NEW b \in live, Kfree(b)
  PROVE  HeapInv'
<1>1. live' = live \ {b} /\ bitmap' = bitmap \ BlocksOf(b)
  BY DEF Kfree
<1>2. b \in [index : Nat, size : Sizes] /\ BlockCount(b.size) \in Nat /\ b.size \in Nat
  BY SizesNat DEF HeapInv, TypeOK
<1>3. TypeOK'
  <2>1. PastBitmap(BlocksOf(b)) \subseteq Nat
    BY <1>2 DEF PastBitmap, BlocksOf, Run
  <2>2. used' \in 0 .. Word - 1
    BY <1>2, KHeapAssumption DEF Kfree, HeapInv, TypeOK
  <2> QED
    BY <2>1, <2>2, <1>1 DEF Kfree, HeapInv, TypeOK
<1>4. LiveApart'
  BY <1>1 DEF HeapInv, LiveApart
<1>5. BitmapExact'
  <2>1. ASSUME NEW c
        PROVE  c \in bitmap' <=> \E a \in live' : c \in InBitmap(BlocksOf(a))
    <3>1. c \in bitmap <=> \E a \in live : c \in InBitmap(BlocksOf(a))
      BY BitmapExactBits DEF HeapInv
    <3>2. ASSUME c \in bitmap'
          PROVE  \E a \in live' : c \in InBitmap(BlocksOf(a))
      <4>1. PICK a \in live : c \in InBitmap(BlocksOf(a))
        BY <3>1, <3>2, <1>1
      <4>2. a # b
        BY <4>1, <3>2, <1>1 DEF InBitmap
      <4> QED
        BY <4>1, <4>2, <1>1
    <3>3. ASSUME NEW a \in live', c \in InBitmap(BlocksOf(a))
          PROVE  c \in bitmap'
      <4>1. a \in live /\ a # b
        BY <1>1
      <4>2. c \notin InBitmap(BlocksOf(b))
        BY <4>1, <3>3 DEF HeapInv, LiveApart
      <4>3. c \notin BlocksOf(b)
        BY <4>2, <3>3 DEF InBitmap
      <4> QED
        BY <4>1, <4>3, <3>1, <3>3, <1>1
    <3> QED
      BY <3>2, <3>3
  <2> QED
    BY <2>1, Zenon DEF BitmapExact
<1>6. (ScanKnows /\ PanicKnows)'
  BY DEF Kfree, ScanKnows, PanicKnows
<1> QED
  BY <1>3, <1>4, <1>5, <1>6 DEF HeapInv

LEMMA HeapInvNext == HeapInv /\ [Next]_vars => HeapInv'
<1> SUFFICES ASSUME HeapInv, [Next]_vars PROVE HeapInv'
  OBVIOUS
<1>1. ASSUME NEW size \in Sizes, Kmalloc(size) PROVE HeapInv'
  BY <1>1, KmallocInv
<1>2. CASE ProbeFree
  BY <1>2, ProbeFreeInv
<1>3. CASE ProbeUsed
  BY <1>3, ProbeUsedInv
<1>4. CASE Grant
  BY <1>4, GrantInv
<1>5. CASE Panic
  BY <1>5, PanicInv
<1>6. ASSUME NEW b \in live, Kfree(b) PROVE HeapInv'
  BY <1>6, KfreeInv
<1>7. CASE UNCHANGED vars
  BY <1>7 DEF vars, HeapInv, TypeOK, ScanKnows, LiveApart, BitmapExact, PanicKnows
<1> QED
  BY <1>1, <1>2, <1>3, <1>4, <1>5, <1>6, <1>7 DEF Next, KmallocLoop, Halted

(* The bookkeeping, the scan and the blocks held agree in every reachable
   state of the heap; in particular every variable keeps its type. *)
THEOREM HeapInvariant == Spec => []HeapInv
BY HeapInvInit, HeapInvNext, PTL DEF Spec

-----------------------------------------------------------------------------
(* Consequences *)

(* Two blocks that overlap past the bitmap would both hold its last bit. *)
LEMMA ApartIsDisjoint == HeapInv => LiveDisjoint
<1> SUFFICES ASSUME HeapInv, NEW a \in live, NEW b \in live, a # b,
                    NEW c, c \in BlocksOf(a), c \in BlocksOf(b)
             PROVE  FALSE
  BY DEF LiveDisjoint
<1>1. /\ a \in [index : Nat, size : Sizes] /\ BlockCount(a.size) \in Nat
      /\ b \in [index : Nat, size : Sizes] /\ BlockCount(b.size) \in Nat
      /\ NBits \in Nat /\ a.index < NBits /\ b.index < NBits
  BY SizesNat, NBitsNat DEF HeapInv, TypeOK, LiveApart
<1>2. InBitmap(BlocksOf(a)) \cap InBitmap(BlocksOf(b)) = {}
  BY DEF HeapInv, LiveApart
<1>3. CASE c < NBits
  BY <1>2, <1>3 DEF InBitmap
<1>4. CASE ~(c < NBits)
  <2>1. NBits - 1 \in BlocksOf(a) /\ NBits - 1 \in BlocksOf(b)
    BY <1>1, <1>4 DEF BlocksOf, Run
  <2>2. NBits - 1 < NBits
    BY <1>1
  <2> QED
    BY <2>1, <2>2, <1>2 DEF InBitmap
<1> QED
  BY <1>3, <1>4

(* No two blocks that callers hold overlap, in any reachable state of a heap
   of any size, even where the last one overruns the bitmap. *)
THEOREM BlocksAreDisjoint == Spec => []LiveDisjoint
BY HeapInvariant, ApartIsDisjoint, PTL

LEMMA OverrunsShareLastBit == HeapInv => OneOverrun
<1> SUFFICES ASSUME HeapInv, NEW b \in live, NEW d \in live,
                    NEW x \in BlocksOf(b), x >= NBits, NEW y \in BlocksOf(d), y >= NBits, b # d
             PROVE  FALSE
  BY DEF OneOverrun, PastBitmap
<1>1. b.index \in Nat /\ d.index \in Nat /\ b.index < NBits /\ d.index < NBits
  BY DEF HeapInv, TypeOK, LiveApart
<1>2. BlockCount(b.size) \in Nat /\ BlockCount(d.size) \in Nat
  BY SizesNat DEF HeapInv, TypeOK
<1>3. NBits - 1 \in InBitmap(BlocksOf(b))
  BY <1>1, <1>2, NBitsNat DEF InBitmap, BlocksOf, Run
<1>4. NBits - 1 \in InBitmap(BlocksOf(d))
  BY <1>1, <1>2, NBitsNat DEF InBitmap, BlocksOf, Run
<1> QED
  BY <1>3, <1>4 DEF HeapInv, LiveApart

(* kmalloc's inner loop stops at the end of the bitmap, so a block may be cut
   off there; it is never more than one at a time. *)
THEOREM OnlyOneOverruns == Spec => []OneOverrun
BY HeapInvariant, OverrunsShareLastBit, PTL

LEMMA PanicIsFull == HeapInv => PanicOnlyWhenFull
<1> SUFFICES ASSUME HeapInv, pc = "panic", NEW i \in 0 .. NBits - 1
             PROVE  \E b \in live : BlocksOf(b) \cap InBitmap(Run(i, scan.want)) # {}
  BY DEF PanicOnlyWhenFull
<1>1. PICK c \in Run(i, scan.want) : c < NBits /\ c \in bitmap
  BY DEF HeapInv, PanicKnows, Fits
<1>2. PICK b \in live : c \in InBitmap(BlocksOf(b))
  BY <1>1, BitmapExactBits DEF HeapInv
<1> QED
  BY <1>1, <1>2 DEF InBitmap

(* kmalloc never gives up while a start is left that collides with no block
   held: the search skips no candidate. *)
THEOREM PanicMeansFull == Spec => []PanicOnlyWhenFull
BY HeapInvariant, PanicIsFull, PTL

LEMMA RoundsUp ==
  ASSUME NEW x \in Nat, x + Granularity <= Word
  PROVE  BlockCount(x) * Granularity >= x
<1> DEFINE y == x + Granularity - 1
<1>1. y \in Nat /\ y < Word /\ y % Word = y
  BY KHeapAssumption
<1>2. y = Granularity * (y \div Granularity) + (y % Granularity)
      /\ y % Granularity < Granularity /\ y \div Granularity \in Nat
      /\ y % Granularity \in Nat
  BY <1>1, KHeapAssumption
<1>3. BlockCount(x) = y \div Granularity
  BY <1>1 DEF BlockCount
<1> QED
  BY <1>2, <1>3, KHeapAssumption

(* As long as no request wraps when it is rounded up, every block is at least
   as long as its request. *)
THEOREM RequestsAreCovered == NoWrap /\ Spec => []RequestCovered
<1>1. NoWrap /\ HeapInv => RequestCovered
  BY RoundsUp, SizesNat DEF NoWrap, HeapInv, TypeOK, RequestCovered
<1>2. CASE NoWrap
  <2>1. HeapInv => RequestCovered
    BY <1>1, <1>2
  <2> QED
    BY <2>1, HeapInvariant, PTL
<1>3. CASE ~NoWrap
  BY <1>3
<1> QED
  BY <1>2, <1>3

(* The start that is granted is the lowest one that fits. *)
THEOREM GrantsFirstFit == Spec => TakesFirstFit
<1> DEFINE A == live \subseteq live' /\ live # live' =>
                  \A i \in 0 .. scan.index - 1 : ~Fits(i, scan.want, NBits, bitmap)
<1>1. HeapInv /\ [Next]_vars => [A]_vars
  <2> SUFFICES ASSUME HeapInv, Next, live \subseteq live', live # live',
                      NEW i \in 0 .. scan.index - 1
               PROVE  ~Fits(i, scan.want, NBits, bitmap)
    BY DEF vars
  <2>1. Grant
    BY DEF Next, KmallocLoop, Kmalloc, ProbeFree, ProbeUsed, Panic, Halted, Kfree, vars
  <2>2. ScanInv(scan, NBits, bitmap) /\ scan.index < NBits
    BY <2>1 DEF HeapInv, ScanKnows, Grant, Found, InLoop
  <2> QED
    BY <2>2, NBitsNat, ScanTyped DEF ScanInv, HeapInv, Scans
<1> QED
  BY <1>1, HeapInvariant, PTL DEF Spec, TakesFirstFit

(* The bytes of one block, told apart from those of the others. *)
BytesOf(b) == {b} \X (1 .. b.size)

LEMMA BytesElt == \A x : x \in Bytes <=> \E b \in live : x \in BytesOf(b)
BY DEF Bytes, BytesOf

LEMMA BytesCount ==
  ASSUME NEW b, b.size \in Nat
  PROVE  IsFiniteSet(BytesOf(b)) /\ Cardinality(BytesOf(b)) = b.size
<1>1. IsFiniteSet({b}) /\ Cardinality({b}) = 1
  BY FS_Singleton
<1>2. IsFiniteSet(1 .. b.size) /\ Cardinality(1 .. b.size) = b.size
  BY FS_Interval
<1>3. /\ IsFiniteSet({b} \X (1 .. b.size))
      /\ Cardinality({b} \X (1 .. b.size)) = Cardinality({b}) * Cardinality(1 .. b.size)
  BY <1>1, <1>2, FS_Product
<1> QED BY <1>1, <1>2, <1>3 DEF BytesOf

(* A run that somebody holds is not granted again, unless it is of no block:
   then, without wrapping, no byte was asked for. *)
LEMMA GrantedIsNew ==
  ASSUME NoWrap, HeapInv, Grant, [index |-> scan.index, size |-> req] \in live
  PROVE  req = 0
<1> DEFINE new == [index |-> scan.index, size |-> req]
<1>1. /\ scan \in Scans /\ NBits \in Nat /\ req \in Sizes /\ scan.want = BlockCount(req)
      /\ ScanInv(scan, NBits, bitmap) /\ Found(scan, NBits)
  BY ScanTyped, NBitsNat DEF HeapInv, Grant, ScanKnows
<1>2. scan.index < NBits /\ Fits(scan.index, scan.want, NBits, bitmap)
  BY <1>1, FoundFits
<1>3. InBitmap(BlocksOf(new)) \subseteq bitmap
  BY BitmapExactBits DEF HeapInv
<1>4. scan.index \notin Run(scan.index, scan.want)
  BY <1>1, <1>2, <1>3 DEF Fits, InBitmap, BlocksOf
<1>5. BlockCount(req) = 0
  BY <1>1, <1>4 DEF Run, Scans
<1>6. req \in Nat /\ BlockCount(req) * Granularity >= req
  BY <1>1, SizesNat, RoundsUp DEF NoWrap
<1> QED BY <1>5, <1>6, KHeapAssumption

(* The bytes held, and their count. *)
SumInv == IsFiniteSet(Bytes) /\ UsedIsSum

LEMMA SumGrant ==
  ASSUME NoWrap, HeapInv, SumInv, Grant
  PROVE  SumInv'
<1> DEFINE new == [index |-> scan.index, size |-> req]
           count == Cardinality(Bytes)
<1>1. /\ live' = live \cup {new} /\ used' = (used + req) % Word /\ used = count % Word
      /\ new.size = req /\ req \in Nat
  BY SizesNat DEF Grant, HeapInv, ScanKnows, SumInv, UsedIsSum
<1>2. Bytes' = Bytes \cup BytesOf(new)
  BY <1>1 DEF Bytes, BytesOf
<1>3. IsFiniteSet(BytesOf(new)) /\ Cardinality(BytesOf(new)) = req /\ IsFiniteSet(Bytes)
      /\ count \in Nat
  BY <1>1, BytesCount, FS_CardinalityType DEF SumInv
<1>4. Bytes \cap BytesOf(new) = {}
  <2>1. CASE new \in live
    <3>1. BytesOf(new) = {}
      BY <2>1, GrantedIsNew DEF BytesOf
    <3> QED BY <3>1
  <2>2. CASE new \notin live
    BY <2>2 DEF Bytes, BytesOf
  <2> QED BY <2>1, <2>2
<1>5. /\ IsFiniteSet(Bytes \cup BytesOf(new))
      /\ Cardinality(Bytes \cup BytesOf(new)) =
           Cardinality(Bytes) + Cardinality(BytesOf(new)) - Cardinality(Bytes \cap BytesOf(new))
  BY <1>3, FS_Union
<1>6. Cardinality(Bytes') = count + req
  <2>1. Cardinality(Bytes \cap BytesOf(new)) = 0
    BY <1>4, FS_EmptySet
  <2>2. Cardinality(Bytes \cup BytesOf(new)) = count + req - 0
    BY <1>3, <1>5, <2>1
  <2> QED BY <1>1, <1>2, <1>3, <2>2
<1> HIDE DEF count
<1>7. ((count % Word) + req) % Word = (count + req) % Word
  <2>1. Word \in Nat \ {0} /\ count \in Int /\ req \in Int
    BY <1>1, <1>3, KHeapAssumption
  <2>2. AddsModulo(Word, count, req)
    BY <2>1, ModAdd
  <2> QED BY <2>2 DEF AddsModulo
<1>8. used' = Cardinality(Bytes') % Word
  BY <1>1, <1>6, <1>7
<1> QED BY <1>2, <1>5, <1>8 DEF SumInv, UsedIsSum

LEMMA SumKfree ==
  ASSUME HeapInv, SumInv, NEW b \in live, Kfree(b)
  PROVE  SumInv'
<1> DEFINE count == Cardinality(Bytes)
           less == -b.size
<1>1. /\ live' = live \ {b} /\ used' = (used - b.size) % Word /\ used = count % Word
      /\ b.size \in Nat
  BY SizesNat DEF Kfree, HeapInv, TypeOK, SumInv, UsedIsSum
<1>2. Bytes' = Bytes \ BytesOf(b)
  BY <1>1 DEF Bytes, BytesOf
<1>3. IsFiniteSet(Bytes) /\ count \in Nat /\ Cardinality(BytesOf(b)) = b.size
  BY <1>1, BytesCount, FS_CardinalityType DEF SumInv
<1>4. Bytes \cap BytesOf(b) = BytesOf(b)
  BY BytesElt
<1>5. /\ IsFiniteSet(Bytes \ BytesOf(b))
      /\ Cardinality(Bytes \ BytesOf(b)) = Cardinality(Bytes) - Cardinality(Bytes \cap BytesOf(b))
  BY <1>3, FS_Difference
<1>6. Cardinality(Bytes') = count + less /\ less \in Int
  <2>1. Cardinality(Bytes \ BytesOf(b)) = count - b.size
    BY <1>3, <1>4, <1>5
  <2> QED BY <1>1, <1>2, <1>3, <2>1
<1> HIDE DEF count, less
<1>7. ((count % Word) + less) % Word = (count + less) % Word
  <2>1. Word \in Nat \ {0} /\ count \in Int /\ less \in Int
    BY <1>3, <1>6, KHeapAssumption
  <2>2. AddsModulo(Word, count, less)
    BY <2>1, ModAdd
  <2> QED BY <2>2 DEF AddsModulo
<1>8. used' = Cardinality(Bytes') % Word
  <2>1. used - b.size = (count % Word) + less
    BY <1>1, <1>3, KHeapAssumption DEF less
  <2> QED BY <1>1, <1>6, <1>7, <2>1
<1> QED BY <1>2, <1>5, <1>8 DEF SumInv, UsedIsSum

(* If no request wraps, chunk.used is the sum of the sizes that the callers
   asked for and have not freed, over any number of calls. *)
THEOREM BytesAreAccounted ==
  ASSUME NoWrap
  PROVE  Spec => []UsedIsSum
<1>1. Init => SumInv
  <2>1. ASSUME Init PROVE Bytes = {} /\ used = 0
    BY <2>1 DEF Init, Bytes
  <2>2. 0 % Word = 0
    BY KHeapAssumption
  <2> QED BY <2>1, <2>2, FS_EmptySet DEF SumInv, UsedIsSum
<1>2. HeapInv /\ SumInv /\ [Next]_vars => SumInv'
  <2> SUFFICES ASSUME HeapInv, SumInv, [Next]_vars PROVE SumInv'
    OBVIOUS
  <2>1. CASE Grant
    BY <2>1, SumGrant
  <2>2. ASSUME NEW b \in live, Kfree(b) PROVE SumInv'
    BY <2>2, SumKfree
  <2>3. CASE UNCHANGED <<used, live>>
    BY <2>3 DEF SumInv, UsedIsSum, Bytes
  <2>4. Grant \/ (\E b \in live : Kfree(b)) \/ UNCHANGED <<used, live>>
    BY DEF Next, KmallocLoop, Kmalloc, ProbeFree, ProbeUsed, Panic, Halted, vars
  <2> QED BY <2>1, <2>2, <2>3, <2>4
<1>3. SumInv => UsedIsSum
  BY DEF SumInv
<1> QED BY <1>1, <1>2, <1>3, HeapInvariant, PTL DEF Spec

-----------------------------------------------------------------------------
(* Refinement *)

(* What the abstract pool calls the cells of a held run are the bits of the
   bitmap that the block has. *)
LEMMA HeldCells ==
  /\ \A i, w : LoosePool!Cells(<<i, w>>) = InBitmap(Run(i, w))
  /\ \A b : LoosePool!Cells(<<b.index, BlockCount(b.size)>>) = InBitmap(BlocksOf(b))
BY DEF LoosePool!Cells, InBitmap, BlocksOf, Run

LEMMA VacantIsClear ==
  ASSUME HeapInv, NEW i, NEW w
  PROVE  LoosePool!Vacant(i, w) <=> Fits(i, w, NBits, bitmap)
<1>1. LoosePool!Vacant(i, w) <=>
        \A b \in live : InBitmap(Run(i, w)) \cap InBitmap(BlocksOf(b)) = {}
  BY HeldCells, Zenon DEF LoosePool!Vacant, Held
<1>2. Fits(i, w, NBits, bitmap) <=> InBitmap(Run(i, w)) \cap bitmap = {}
  BY DEF Fits, InBitmap
<1> QED
  BY <1>1, <1>2, BitmapExactBits DEF HeapInv

LEMMA GrantHeld ==
  ASSUME HeapInv, Grant
  PROVE  Held' = Held \cup {<<scan.index, scan.want>>}
<1> DEFINE new == [index |-> scan.index, size |-> req]
<1>1. live' = live \cup {new}
  BY DEF Grant
<1>2. new.index = scan.index /\ BlockCount(new.size) = scan.want
  BY DEF HeapInv, ScanKnows, Grant
<1>3. Held' = {<<b.index, BlockCount(b.size)>> : b \in live'}
  BY DEF Held
<1> HIDE DEF new
<1> QED
  BY <1>1, <1>2, <1>3 DEF Held

LEMMA GrantRefines ==
  ASSUME HeapInv, Grant
  PROVE  LoosePool!Grant(scan.want) /\ scan.want \in Counts
<1>1. scan \in Scans /\ NBits \in Nat /\ req \in Sizes /\ scan.want = BlockCount(req)
      /\ ScanInv(scan, NBits, bitmap) /\ Found(scan, NBits)
  BY ScanTyped, NBitsNat DEF HeapInv, Grant, ScanKnows
<1>2. scan.index < NBits /\ Fits(scan.index, scan.want, NBits, bitmap)
  BY <1>1, FoundFits
<1>3. LoosePool!Room(scan.index, scan.want)
  BY <1>2, VacantIsClear DEF LoosePool!Room
<1>4. Held' = Held \cup {<<scan.index, scan.want>>}
  BY GrantHeld
<1>5. scan.index \in 0 .. NBits - 1 /\ (pc = "panic")' = FALSE
  BY <1>1, <1>2 DEF Scans, Grant
<1> QED
  BY <1>1, <1>3, <1>4, <1>5 DEF LoosePool!Grant, Counts

LEMMA PanicRefines ==
  ASSUME HeapInv, Panic
  PROVE  LoosePool!Refuse(scan.want) /\ scan.want \in Counts
<1>1. \A i \in 0 .. NBits - 1 : ~Fits(i, scan.want, NBits, bitmap)
  BY ExhaustedNone, NBitsNat, ScanTyped DEF ScanKnows, HeapInv, Panic
<1>2. \A i \in 0 .. NBits - 1 : ~LoosePool!Room(i, scan.want)
  BY <1>1, VacantIsClear DEF LoosePool!Room
<1>3. Held' = Held /\ (pc = "panic")' = TRUE
  BY DEF Panic, Held
<1>4. scan.want \in Counts
  BY DEF HeapInv, ScanKnows, Panic, Counts
<1> QED
  BY <1>2, <1>3, <1>4 DEF LoosePool!Refuse

LEMMA KfreeRefines ==
  ASSUME HeapInv, NEW b \in live, Kfree(b)
  PROVE  LoosePool!Release \/ UNCHANGED LoosePool!poolVars
<1> DEFINE r == <<b.index, BlockCount(b.size)>>
<1>1. live' = live \ {b} /\ r \in Held /\ (pc = "panic")' = (pc = "panic")
  BY DEF Kfree, Held
<1>2. Held' = {<<a.index, BlockCount(a.size)>> : a \in live'}
  BY DEF Held
<1>3. CASE \E a \in live : a # b /\ <<a.index, BlockCount(a.size)>> = r
  <2>1. Held' = Held
    BY <1>1, <1>2, <1>3 DEF Held
  <2> QED
    BY <2>1, <1>1 DEF LoosePool!poolVars
<1>4. CASE ~\E a \in live : a # b /\ <<a.index, BlockCount(a.size)>> = r
  <2>1. Held' = Held \ {r}
    BY <1>1, <1>2, <1>4 DEF Held
  <2> QED
    BY <2>1, <1>1 DEF LoosePool!Release
<1> QED
  BY <1>3, <1>4

(* The heap implements the pool: for any mix of sizes, every step of kmalloc
   and kfree is a grant, a release or a refusal of the pool, or invisible. *)
THEOREM HeapImplementsPool == Spec => ImplementsLoosePool
<1>1. Init => LoosePool!PoolInit
  BY DEF Init, LoosePool!PoolInit, Held
<1>2. HeapInv /\ [Next]_vars => [LoosePool!PoolNext]_(LoosePool!poolVars)
  <2> SUFFICES ASSUME HeapInv, [Next]_vars
               PROVE  LoosePool!PoolNext \/ UNCHANGED LoosePool!poolVars
    OBVIOUS
  <2>1. ASSUME NEW size \in Sizes, Kmalloc(size) PROVE UNCHANGED LoosePool!poolVars
    BY <2>1 DEF Kmalloc, LoosePool!poolVars, Held
  <2>2. CASE ProbeFree \/ ProbeUsed
    BY <2>2 DEF ProbeFree, ProbeUsed, LoosePool!poolVars, Held
  <2>3. CASE Grant
    BY <2>3, GrantRefines DEF LoosePool!PoolNext
  <2>4. CASE Panic
    BY <2>4, PanicRefines DEF LoosePool!PoolNext
  <2>5. ASSUME NEW b \in live, Kfree(b)
        PROVE  LoosePool!PoolNext \/ UNCHANGED LoosePool!poolVars
    BY <2>5, KfreeRefines DEF LoosePool!PoolNext
  <2>6. CASE UNCHANGED vars
    BY <2>6 DEF vars, LoosePool!poolVars, Held
  <2> QED
    BY <2>1, <2>2, <2>3, <2>4, <2>5, <2>6 DEF Next, KmallocLoop, Halted
<1> QED
  BY <1>1, <1>2, HeapInvariant, PTL DEF Spec, ImplementsLoosePool, LoosePool!PoolSpec

-----------------------------------------------------------------------------
(* Uniform requests *)

(* Arithmetic of multiples. *)
LEMMA NextMultiple ==
  ASSUME NEW q \in Nat \ {0}, NEW n \in Nat, NEW m \in Nat,
         n % q = 0, m % q = 0, n < m
  PROVE  n + q <= m
<1>1. n = q * (n \div q) /\ m = q * (m \div q) /\ n \div q \in Nat /\ m \div q \in Nat
  OBVIOUS
<1>2. n \div q < m \div q
  BY <1>1
<1>3. q * (n \div q + 1) <= q * (m \div q)
  BY <1>1, <1>2
<1> QED
  BY <1>1, <1>3

LEMMA AddMultiple ==
  ASSUME NEW q \in Nat \ {0}, NEW n \in Nat, n % q = 0
  PROVE  (n + q) % q = 0
<1> DEFINE k == n \div q + 1
           m == n + q
           l == m \div q
<1>1. m = q * k /\ k \in Nat
  <2>1. n = q * (n \div q) /\ n \div q \in Nat
    OBVIOUS
  <2> QED
    BY <2>1
<1>2. m = q * l + (m % q) /\ l \in Nat /\ m % q \in 0 .. q - 1
  OBVIOUS
<1> HIDE DEF k, m, l
<1>3. ~(l > k)
  <2> SUFFICES ASSUME l >= k + 1 PROVE FALSE
    BY <1>1, <1>2
  <2>1. q * l >= q * (k + 1)
    BY <1>1, <1>2
  <2> QED
    BY <2>1, <1>1, <1>2
<1>4. ~(l < k)
  <2> SUFFICES ASSUME k >= l + 1 PROVE FALSE
    BY <1>1, <1>2
  <2>1. q * k >= q * (l + 1)
    BY <1>1, <1>2
  <2> QED
    BY <2>1, <1>1, <1>2
<1>5. m % q = 0
  BY <1>1, <1>2, <1>3, <1>4
<1> QED
  BY <1>5 DEF m

(* In a uniform heap every block holds q blocks of the bitmap, all inside. *)
LEMMA UniformBlocks ==
  ASSUME NEW q, Uniform(q), HeapInv, UniformInv(q), NEW b \in live
  PROVE  BlocksOf(b) = b.index .. b.index + q - 1 /\ b.index \in Nat
         /\ b.index + q <= NBits
<1>1. b.index \in Nat /\ b.index < NBits /\ BlockCount(b.size) = q /\ NBits \in Nat
  BY NBitsNat DEF HeapInv, TypeOK, LiveApart, Uniform
<1>2. b.index + q <= NBits
  BY <1>1, NextMultiple DEF Uniform, UniformInv
<1> QED
  BY <1>1, <1>2 DEF BlocksOf, Run

LEMMA UniformProbeUsed ==
  ASSUME NEW q, Uniform(q), HeapInv, UniformInv(q), ProbeUsed
  PROVE  UniformInv(q)'
<1> DEFINE c == Cell(scan)
<1>1. /\ c \in bitmap /\ c \in Nat /\ NBits \in Nat
      /\ scan'.index = c + 1 /\ scan'.offset = 0
  BY ScanTyped, NBitsNat DEF HeapInv, ProbeUsed, Hit, SkipPast, Cell, Scans
<1>2. PICK b \in live : c \in BlocksOf(b)
  BY <1>1, BitmapExactBits DEF HeapInv, InBitmap
<1>3. BlocksOf(b) = b.index .. b.index + q - 1 /\ b.index \in Nat /\ b.index % q = 0
  BY UniformBlocks DEF UniformInv
<1>4. ASSUME (c + 1) % q # 0, c + 1 < NBits
      PROVE  c + 1 \in bitmap
  <2>1. c + 1 # b.index + q
    BY <1>3, <1>4, AddMultiple DEF Uniform
  <2>2. c + 1 \in BlocksOf(b)
    BY <2>1, <1>1, <1>2, <1>3 DEF Uniform
  <2> QED
    BY <2>2, <1>4, BitmapExactBits DEF HeapInv, InBitmap
<1> QED
  BY <1>1, <1>4 DEF UniformInv, ProbeUsed

LEMMA UniformGrant ==
  ASSUME NEW q, Uniform(q), HeapInv, UniformInv(q), Grant
  PROVE  scan.index + q <= NBits /\ scan.want = q /\ UniformInv(q)'
<1>1. /\ scan \in Scans /\ NBits \in Nat /\ scan.index < NBits /\ scan.want = q
      /\ Found(scan, NBits)
  BY ScanTyped, NBitsNat DEF HeapInv, Grant, ScanKnows, Uniform, Found, InLoop
<1>2. scan.index % q = 0
  <2> SUFFICES ASSUME scan.index % q # 0 PROVE FALSE
    OBVIOUS
  <2>1. scan.offset = 0
    BY <1>1 DEF UniformInv, Grant
  <2> QED
    BY <2>1, <1>1 DEF Found, Probing, Cell, Scans, Uniform
<1>3. scan.index + q <= NBits
  BY <1>1, <1>2, NextMultiple DEF Uniform, Scans
<1>4. PastBitmap(Run(scan.index, scan.want)) = {}
  BY <1>1, <1>3 DEF PastBitmap, Run, Scans, Uniform
<1> QED
  BY <1>1, <1>2, <1>3, <1>4 DEF UniformInv, Grant

LEMMA UniformNext ==
  ASSUME NEW q, Uniform(q), HeapInv, UniformInv(q), [Next]_vars
  PROVE  UniformInv(q)'
<1>1. ASSUME NEW size \in Sizes, Kmalloc(size) PROVE UniformInv(q)'
  <2>1. 0 % q = 0
    BY DEF Uniform
  <2> QED
    BY <1>1, <2>1 DEF Kmalloc, StartScan, UniformInv
<1>2. CASE ProbeFree
  <2>1. ~(scan.index < NBits /\ scan.index % q # 0)
    BY <1>2, ScanTyped DEF UniformInv, ProbeFree, Hit, Cell, HeapInv, Scans
  <2>2. scan'.index = scan.index
    BY <1>2, ScanTyped DEF ProbeFree, Advance, HeapInv, Scans
  <2> QED
    BY <1>2, <2>1, <2>2 DEF UniformInv, ProbeFree
<1>3. CASE ProbeUsed
  BY <1>3, UniformProbeUsed
<1>4. CASE Grant
  BY <1>4, UniformGrant
<1>5. CASE Panic
  BY <1>5 DEF Panic, UniformInv
<1>6. ASSUME NEW b \in live, Kfree(b) PROVE UniformInv(q)'
  <2>1. PastBitmap(BlocksOf(b)) = {}
    BY UniformBlocks, NBitsNat DEF PastBitmap, Uniform
  <2> QED
    BY <1>6, <2>1 DEF Kfree, UniformInv
<1>7. CASE UNCHANGED vars
  BY <1>7 DEF vars, UniformInv
<1> QED
  BY <1>1, <1>2, <1>3, <1>4, <1>5, <1>6, <1>7 DEF Next, KmallocLoop, Halted

(* With uniform requests the allocator never writes past its bitmap, and
   every block lies inside the chunk: the overrun needs two sizes. *)
THEOREM UniformHeapIsContained ==
  ASSUME NEW CONSTANT q, Uniform(q)
  PROVE  Spec => [](HeapInv /\ UniformInv(q))
<1>1. Init => UniformInv(q)
  BY DEF Init, UniformInv
<1>2. HeapInv /\ UniformInv(q) /\ [Next]_vars => UniformInv(q)'
  BY UniformNext
<1> QED
  BY <1>1, <1>2, HeapInvariant, PTL DEF Spec

(* Hence bitmap_set is only ever called for bits the bitmap has. *)
THEOREM UniformHeapNeverSpills ==
  ASSUME NEW CONSTANT q, Uniform(q)
  PROVE  Spec => []NoSpill
<1>1. UniformInv(q) => NoSpill
  BY DEF UniformInv, NoSpill
<1> QED
  BY <1>1, UniformHeapIsContained, PTL

(* Whole blocks of a chunk that is divided evenly lie in the chunk. *)
LEMMA BitsLieInChunk ==
  ASSUME MemorySize % Granularity = 0
  PROVE  NBits * Granularity <= MemorySize
<1> DEFINE k == MemorySize \div Granularity
           y == MemorySize + Granularity - 1
           z == y % Word
           n == z \div Granularity
<1>1. /\ Granularity \in Nat \ {0} /\ MemorySize \in Nat /\ Word \in Nat \ {0}
  BY KHeapAssumption
<1>2. k \in Nat /\ MemorySize = Granularity * k
  BY <1>1
<1>3. y \in Nat /\ z \in Nat /\ z <= y
  BY <1>1
<1> HIDE DEF z
<1>4. n \in Nat /\ Granularity * n <= z
  BY <1>1, <1>3
<1>5. BlockCount(MemorySize) = n
  BY DEF BlockCount, z
<1> HIDE DEF k, n
<1>6. n <= k
  <2> SUFFICES ASSUME n >= k + 1 PROVE FALSE
    BY <1>2, <1>4
  <2>1. Granularity * n >= Granularity * (k + 1)
    BY <1>1, <1>2, <1>4
  <2>2. Granularity * (k + 1) = MemorySize + Granularity
    BY <1>1, <1>2
  <2>3. Granularity * n \in Nat
    BY <1>1, <1>4
  <2> QED BY <1>1, <1>3, <1>4, <2>1, <2>2, <2>3
<1>7. NBits <= n /\ NBits \in Nat
  BY <1>4, <1>5, NBitsNat DEF NBits, BitmapSize
<1>8. NBits * Granularity <= Granularity * k
  BY <1>1, <1>2, <1>4, <1>6, <1>7
<1> QED BY <1>2, <1>8

(* With uniform requests out of a chunk that is divided evenly, every byte
   that a caller asked for is a byte of the chunk. *)
THEOREM UniformHeapStaysInChunk ==
  ASSUME NEW CONSTANT q, Uniform(q), NoWrap, MemorySize % Granularity = 0
  PROVE  Spec => []InsideChunk
<1>1. HeapInv /\ UniformInv(q) => InsideChunk
  <2> SUFFICES ASSUME HeapInv, UniformInv(q), NEW b \in live
               PROVE  b.index * Granularity + b.size <= MemorySize
    BY DEF InsideChunk
  <2>1. b.index \in Nat /\ b.index + q <= NBits /\ q \in Nat /\ Granularity \in Nat \ {0}
        /\ NBits \in Nat /\ MemorySize \in Nat
    BY UniformBlocks, KHeapAssumption, NBitsNat DEF Uniform
  <2>2. b.size \in Nat /\ q * Granularity >= b.size
    <3>1. b.size \in Sizes
      BY DEF HeapInv, TypeOK
    <3> QED BY <3>1, SizesNat, RoundsUp DEF NoWrap, Uniform
  <2>3. b.index * Granularity + q * Granularity <= NBits * Granularity
    <3>1. (NBits - (b.index + q)) * Granularity >= 0
      BY <2>1
    <3>2. (NBits - (b.index + q)) * Granularity =
            NBits * Granularity - (b.index * Granularity + q * Granularity)
      BY <2>1
    <3>3. b.index * Granularity \in Nat /\ q * Granularity \in Nat /\ NBits * Granularity \in Nat
      BY <2>1
    <3> QED BY <3>1, <3>2, <3>3
  <2>4. b.index * Granularity \in Nat /\ q * Granularity \in Nat /\ NBits * Granularity \in Nat
    BY <2>1
  <2> QED BY <2>1, <2>2, <2>3, <2>4, BitsLieInChunk
<1> QED BY <1>1, UniformHeapIsContained, PTL

LEMMA StrictRoom ==
  \A i, w : StrictPool!Room(i, w) <=> LoosePool!Room(i, w) /\ i + w <= NBits
BY DEF StrictPool!Room, LoosePool!Room, StrictPool!Vacant, LoosePool!Vacant,
       StrictPool!Cells, LoosePool!Cells

(* With uniform requests the heap implements the pool a caller expects, whose
   runs lie wholly inside the memory it manages. *)
THEOREM UniformHeapImplementsStrictPool ==
  ASSUME NEW CONSTANT q, Uniform(q)
  PROVE  Spec => ImplementsStrictPool
<1> DEFINE Step == [StrictPool!PoolNext]_(StrictPool!poolVars)
<1>1. Init => StrictPool!PoolInit
  BY DEF Init, StrictPool!PoolInit, Held
<1>2. HeapInv /\ UniformInv(q) /\ [Next]_vars => Step
  <2> SUFFICES ASSUME HeapInv, UniformInv(q), [Next]_vars
               PROVE  StrictPool!PoolNext \/ UNCHANGED StrictPool!poolVars
    OBVIOUS
  <2>1. ASSUME NEW size \in Sizes, Kmalloc(size) PROVE UNCHANGED StrictPool!poolVars
    BY <2>1 DEF Kmalloc, StrictPool!poolVars, Held
  <2>2. CASE ProbeFree \/ ProbeUsed
    BY <2>2 DEF ProbeFree, ProbeUsed, StrictPool!poolVars, Held
  <2>3. CASE Grant
    <3>1. PICK i \in 0 .. NBits - 1 :
            /\ i = scan.index
            /\ LoosePool!Room(i, scan.want)
            /\ Held' = Held \cup {<<i, scan.want>>}
            /\ (pc = "panic")' = FALSE
      <4>1. scan.index \in 0 .. NBits - 1
        BY <2>3, ScanTyped, NBitsNat DEF HeapInv, Grant, Found, InLoop, Scans
      <4>2. ScanInv(scan, NBits, bitmap) /\ Found(scan, NBits) /\ scan \in Scans
        BY <2>3, ScanTyped DEF HeapInv, Grant, ScanKnows
      <4>3. LoosePool!Room(scan.index, scan.want)
        BY <4>2, FoundFits, NBitsNat, VacantIsClear DEF LoosePool!Room
      <4>4. Held' = Held \cup {<<scan.index, scan.want>>}
        BY <2>3, GrantHeld
      <4> QED
        BY <2>3, <4>1, <4>3, <4>4 DEF Grant
    <3>2. i + scan.want <= NBits
      BY <2>3, <3>1, UniformGrant
    <3>3. StrictPool!Room(i, scan.want)
      BY <3>1, <3>2, StrictRoom
    <3>4. scan.want \in Counts
      BY <2>3, GrantRefines
    <3> QED
      BY <3>1, <3>3, <3>4 DEF StrictPool!PoolNext, StrictPool!Grant
  <2>4. CASE Panic
    <3>1. LoosePool!Refuse(scan.want) /\ scan.want \in Counts
      BY <2>4, PanicRefines
    <3>2. StrictPool!Refuse(scan.want)
      BY <3>1, StrictRoom DEF LoosePool!Refuse, StrictPool!Refuse
    <3> QED
      BY <3>1, <3>2 DEF StrictPool!PoolNext
  <2>5. ASSUME NEW b \in live, Kfree(b)
        PROVE  StrictPool!PoolNext \/ UNCHANGED StrictPool!poolVars
    <3>1. LoosePool!Release \/ UNCHANGED LoosePool!poolVars
      BY <2>5, KfreeRefines
    <3>2. StrictPool!Release <=> LoosePool!Release
      BY DEF StrictPool!Release, LoosePool!Release
    <3> QED
      BY <3>1, <3>2 DEF StrictPool!PoolNext, StrictPool!poolVars, LoosePool!poolVars
  <2>6. CASE UNCHANGED vars
    BY <2>6 DEF vars, StrictPool!poolVars, Held
  <2> QED
    BY <2>1, <2>2, <2>3, <2>4, <2>5, <2>6 DEF Next, KmallocLoop, Halted
<1> QED
  BY <1>1, <1>2, UniformHeapIsContained, PTL
     DEF Spec, ImplementsStrictPool, StrictPool!PoolSpec
=============================================================================
