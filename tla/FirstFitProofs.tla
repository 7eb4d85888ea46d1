--------------------------- MODULE FirstFitProofs ---------------------------
(***************************************************************************)
(* Lemmas about the search loop of FirstFit, for a bitmap of any size and  *)
(* any content: its two kinds of step keep ScanInv, and ScanInv says what  *)
(* the loop has established when it ends.                                  *)
(***************************************************************************)
EXTENDS FirstFit, TLAPS

(* The loop's counters are unsigned integers. *)
Scans == [index : Nat, offset : Nat, want : Nat]

(* On entry of the loops nothing has been claimed yet. *)
LEMMA StartScanInv ==
  ASSUME NEW want \in Nat, NEW n \in Nat, NEW bits
  PROVE  StartScan(want) \in Scans /\ ScanInv(StartScan(want), n, bits)
BY DEF StartScan, Scans, ScanInv, Run

(* Probing a clear bit keeps what the loop knows. *)
LEMMA AdvanceInv ==
  ASSUME NEW n \in Nat, NEW bits, NEW s \in Scans,
         ScanInv(s, n, bits), Probing(s, n), ~Hit(s, n, bits)
  PROVE  Advance(s) \in Scans /\ ScanInv(Advance(s), n, bits)
<1> DEFINE t == Advance(s)
<1>1. t \in Scans /\ t.index = s.index /\ t.offset = s.offset + 1 /\ t.want = s.want
  BY DEF Advance, Scans
<1>2. t.offset <= t.want
  BY <1>1 DEF Probing, Scans
<1>3. \A c \in Run(t.index, t.offset) : c < n /\ c \notin bits
  <2> SUFFICES ASSUME NEW c \in Run(t.index, t.offset)
               PROVE  c < n /\ c \notin bits
    OBVIOUS
  <2>1. c \in Run(s.index, s.offset) \/ c = Cell(s)
    BY <1>1 DEF Run, Cell, Scans
  <2> QED
    BY <2>1 DEF ScanInv, Hit, Probing
<1> QED
  BY <1>1, <1>2, <1>3 DEF ScanInv

(* Resuming behind a set bit loses no candidate: every start in between has
   that bit in its run. *)
LEMMA SkipPastInv ==
  ASSUME NEW n \in Nat, NEW bits, NEW s \in Scans,
         ScanInv(s, n, bits), Hit(s, n, bits)
  PROVE  SkipPast(s) \in Scans /\ ScanInv(SkipPast(s), n, bits)
<1> DEFINE t == SkipPast(s)
<1>1. t \in Scans /\ t.index = Cell(s) + 1 /\ t.offset = 0 /\ t.want = s.want
  BY DEF SkipPast, Cell, Scans
<1>2. \A i \in 0 .. t.index - 1 : i < n => ~Fits(i, t.want, n, bits)
  <2> SUFFICES ASSUME NEW i \in 0 .. t.index - 1, i < n
               PROVE  ~Fits(i, t.want, n, bits)
    OBVIOUS
  <2>1. CASE i < s.index
    BY <1>1, <2>1 DEF ScanInv, Scans
  <2>2. CASE i >= s.index
    <3>1. Cell(s) \in Run(i, t.want)
      BY <1>1, <2>2 DEF Run, Cell, Hit, Probing, Scans
    <3> QED
      BY <3>1 DEF Fits, Hit, Probing
  <2> QED
    BY <2>1, <2>2, <1>1 DEF Scans, Cell
<1>3. Run(t.index, t.offset) = {}
  BY <1>1 DEF Run, Scans
<1> QED
  BY <1>1, <1>2, <1>3 DEF ScanInv, Scans

(* When the inner loop ends without a hit, the part of the run inside the
   bitmap is clear. *)
LEMMA FoundFits ==
  ASSUME NEW n \in Nat, NEW bits, NEW s \in Scans,
         ScanInv(s, n, bits), Found(s, n)
  PROVE  s.index < n /\ Fits(s.index, s.want, n, bits)
<1> SUFFICES ASSUME NEW c \in Run(s.index, s.want), c < n
             PROVE  c \notin bits
  BY DEF Found, InLoop, Fits
<1>1. c \in Run(s.index, s.offset)
  BY DEF Found, Probing, Cell, Run, ScanInv, Scans
<1> QED
  BY <1>1 DEF ScanInv

(* When the outer loop runs out, no start fits. *)
LEMMA ExhaustedNone ==
  ASSUME NEW n \in Nat, NEW bits, NEW s \in Scans,
         ScanInv(s, n, bits), ~InLoop(s, n)
  PROVE  \A i \in 0 .. n - 1 : ~Fits(i, s.want, n, bits)
BY DEF InLoop, ScanInv, Scans

-----------------------------------------------------------------------------
(* Remainders, for the byte counters that wrap *)

(* A number has one remainder. *)
LEMMA RemainderUnique ==
  ASSUME NEW w \in Nat \ {0}, NEW j \in Int, NEW k \in Int,
         NEW r \in 0 .. w - 1, NEW t \in 0 .. w - 1, w * j + r = w * k + t
  PROVE  r = t
<1>1. ~(j > k)
  <2> SUFFICES ASSUME j >= k + 1 PROVE FALSE
    OBVIOUS
  <2>1. w * j >= w * (k + 1)
    OBVIOUS
  <2>2. w * (k + 1) = w * k + w
    OBVIOUS
  <2>3. w * j \in Int /\ w * k \in Int
    OBVIOUS
  <2> QED
    BY <2>1, <2>2, <2>3
<1>2. ~(j < k)
  <2> SUFFICES ASSUME k >= j + 1 PROVE FALSE
    OBVIOUS
  <2>1. w * k >= w * (j + 1)
    OBVIOUS
  <2>2. w * (j + 1) = w * j + w
    OBVIOUS
  <2>3. w * j \in Int /\ w * k \in Int
    OBVIOUS
  <2> QED
    BY <2>1, <2>2, <2>3
<1> QED
  BY <1>1, <1>2

LEMMA DivMod ==
  ASSUME NEW w \in Nat \ {0}, NEW n \in Int
  PROVE  n % w \in 0 .. w - 1 /\ n \div w \in Int /\ n = w * (n \div w) + (n % w)
OBVIOUS

(* What is taken off before an addition may as well be taken off after it. *)
AddsModulo(w, a, b) == ((a % w) + b) % w = (a + b) % w

LEMMA ModAdd ==
  ASSUME NEW w \in Nat \ {0}, NEW a \in Int, NEW b \in Int
  PROVE  AddsModulo(w, a, b)
<1> DEFINE r == a % w
           s == r + b
           c == a + b
           u == s % w
           v == c % w
<1>1. PICK j \in Int : r \in 0 .. w - 1 /\ a = w * j + r
  BY DivMod
<1> HIDE DEF r
<1>2. s \in Int /\ c \in Int /\ c = w * j + s
  BY <1>1
<1> HIDE DEF s, c
<1>3. PICK k \in Int : u \in 0 .. w - 1 /\ s = w * k + u
  BY <1>2, DivMod
<1>4. PICK m \in Int : v \in 0 .. w - 1 /\ c = w * m + v
  BY <1>2, DivMod
<1> HIDE DEF u, v
<1>5. w * (j + k) + u = w * m + v
  <2>1. w * (j + k) = w * j + w * k
    OBVIOUS
  <2>2. w * j \in Int /\ w * k \in Int /\ w * m \in Int
    OBVIOUS
  <2> QED BY <2>1, <2>2, <1>2, <1>3, <1>4
<1>6. u = v
  BY <1>3, <1>4, <1>5, RemainderUnique
<1> QED BY <1>6 DEF u, v, s, r, c, AddsModulo
===============================================================================
