------------------------------ MODULE LibcProofs ------------------------------
(***************************************************************************)
(* Proofs about the functions on memory and strings, for every memory,     *)
(* every two areas and every size, and about printf, for every format,     *)
(* every list of arguments and every size of the caller's buffer.          *)
(***************************************************************************)
EXTENDS Libc, TLAPS, SequenceTheorems, FiniteSetTheorems, WellFoundedInduction

(* The bytes that the functions on memory are given exist: what the callers
   have to see to, byte by byte. *)
LEMMA BytesExist ==
  ASSUME NEW a \in Int, NEW size \in Nat, Bytes(a, size) \subseteq Address,
         NEW k \in 0 .. size - 1
  PROVE  a + k \in Address
<1>1. a + k \in Bytes(a, size) BY DEF Bytes
<1> QED BY <1>1

(* What a call is made of: numbers, and an area that starts in memory. *)
LEMMA CallTypes ==
  ASSUME NEW c \in StringsCalls
  PROVE  /\ c.a \in Address /\ c.a \in Nat /\ c.b \in Nat /\ c.size \in Nat
         /\ c.b \in Address \cup Byte /\ c.name \in Names
<1>1. /\ c.a \in Address /\ c.b \in Address \cup Byte /\ c.size \in Size /\ c.name \in Names
  BY DEF StringsCalls
<1>2. Address \subseteq Nat /\ Byte \subseteq Nat /\ Size \subseteq Nat
  BY StringsAssumption DEF Address
<1>3. c.a \in Nat
  BY <1>1, <1>2
<1>4. c.b \in Nat
  BY <1>1, <1>2
<1>5. c.size \in Nat
  BY <1>1, <1>2
<1> QED BY <1>1, <1>3, <1>4, <1>5

(* The first step of a function: nothing is done yet, and the loop's counter
   stands where it starts from. *)
LEMMA StringsInvInit == StringsInit => StringsInv
<1> SUFFICES ASSUME NEW m \in [Address -> Byte], NEW c \in StringsCalls, StringsAt(m, c, FALSE)
             PROVE  StringsInv
  BY DEF StringsInit
<1> USE StringsAssumption
<1>1. c.size \in Nat /\ fn = c /\ memory = m /\ before = m /\ returned = FALSE /\ result = 0
  BY DEF StringsAt, StringsCalls
<1>2. index = (IF Backward(fn) THEN fn.size ELSE 0) /\ index \in Nat
  BY <1>1 DEF StringsAt
<1>3. StringsType
  <2>1. memory \in [Address -> Byte] /\ before \in [Address -> Byte] /\ fn \in StringsCalls
    BY <1>1
  <2>2. result \in Int /\ index \in Nat
    BY <1>1, <1>2
  <2>3. returned \in BOOLEAN
    BY <1>1, Zenon
  <2> QED BY <2>1, <2>2, <2>3 DEF StringsType
<1>4. Proper(before, fn)
  BY <1>1 DEF StringsAt
<1>5. Backward(fn) => fn.name = "memmove"
  BY DEF Backward
<1>6. Passed = {}
  BY <1>1, <1>2 DEF Passed, StringsCalls, Address
<1>7. Progress
  BY <1>1, <1>2, <1>5, <1>6 DEF Progress, Writes, Treated, SameBytes, NoEnd
<1> QED BY <1>1, <1>3, <1>4, <1>7 DEF StringsInv

(* Reading a string stays before its end: a loop that has found no NUL in n
   bytes is at one of the bytes in front of it. *)
LEMMA BeforeTheEnd ==
  ASSUME NEW m, NEW start \in Address, Terminated(m, start), NEW n \in Nat,
         \A k \in 0 .. n - 1 : m[start + k] # 0
  PROVE  start + n \in Address
<1> USE StringsAssumption
<1>1. PICK p \in start .. Top : m[p] = 0
  BY DEF Terminated
<1>2. start \in Nat /\ start <= Top /\ p \in Nat /\ p <= Top /\ start <= p
  BY DEF Address
<1>3. p = start + (p - start)
  BY <1>2
<1>4. p - start \notin 0 .. n - 1
  BY <1>1, <1>2, <1>3
<1> QED BY <1>2, <1>4 DEF Address

-----------------------------------------------------------------------------
(* The functions that write *)

(* What an area that grows by a byte leaves: the memory so far with that one
   byte changed. *)
LEMMA OneMoreByte ==
  ASSUME StringsType, NEW done, memory = Treated(done), NEW p \in Address
  PROVE  Treated(done \cup {p}) =
           [memory EXCEPT ![p] = IF fn.name = "memset" THEN fn.b ELSE before[p - fn.a + fn.b]]
BY DEF Treated, StringsType

(* A copy upwards reads a byte that no earlier round has written: memmove's
   source is above its destination, memcpy's areas are apart. *)
LEMMA CopyUpReads ==
  ASSUME StringsType, Proper(before, fn), Progress, fn.name \in {"memmove", "memcpy"},
         ~Backward(fn), index < fn.size
  PROVE  memory[fn.b + index] = before[fn.b + index]
<1> USE StringsAssumption
<1>1. /\ fn.a \in Nat /\ fn.size \in Nat /\ index \in Nat /\ fn.b \in Nat
      /\ memory = Treated(fn.a .. fn.a + index - 1)
      /\ Bytes(fn.b, fn.size) \subseteq Address
  <2>1. fn.a \in Nat /\ fn.size \in Nat /\ index \in Nat /\ fn.b \in Nat
    BY CallTypes DEF StringsType
  <2>2. memory = Treated(fn.a .. fn.a + index - 1)
    BY DEF Progress, Writes, Passed
  <2>3. Bytes(fn.b, fn.size) \subseteq Address
    BY DEF Proper
  <2> QED BY <2>1, <2>2, <2>3
<1>2. fn.b + index \in Address
  BY <1>1, BytesExist
<1>3. fn.b + index \notin fn.a .. fn.a + index - 1
  <2>1. CASE fn.name = "memmove"
    BY <2>1, <1>1 DEF Backward
  <2>2. CASE fn.name = "memcpy"
    <3>1. fn.b + index \in Bytes(fn.b, fn.size)
      BY <1>1 DEF Bytes
    <3>2. fn.b + index \notin Bytes(fn.a, fn.size)
      BY <3>1, <2>2 DEF Proper
    <3> QED BY <3>2, <1>1 DEF Bytes
  <2> QED BY <2>1, <2>2
<1> QED BY <1>1, <1>2, <1>3 DEF Treated

(* A copy downwards as well: memmove's source is below its destination. *)
LEMMA CopyDownReads ==
  ASSUME StringsType, Proper(before, fn), Progress, fn.name = "memmove",
         Backward(fn), index # 0
  PROVE  memory[fn.b + index - 1] = before[fn.b + index - 1]
<1> USE StringsAssumption
<1>1. /\ fn.a \in Nat /\ fn.size \in Nat /\ index \in Nat /\ fn.b \in Nat
      /\ memory = Treated(fn.a + index .. fn.a + fn.size - 1)
      /\ index <= fn.size
      /\ Bytes(fn.b, fn.size) \subseteq Address
  BY DEF StringsType, StringsCalls, Progress, Writes, Passed, Proper, Address
<1>2. index - 1 \in 0 .. fn.size - 1 /\ fn.b + (index - 1) = fn.b + index - 1
  BY <1>1
<1>3. fn.b + index - 1 \in Address
  <2>1. fn.b \in Int /\ fn.size \in Nat /\ index - 1 \in 0 .. fn.size - 1
    BY <1>1, <1>2
  <2>2. fn.b + (index - 1) \in Address
    BY <1>1, <2>1, BytesExist
  <2> QED BY <2>2, <1>2
<1>4. fn.b + index - 1 \notin fn.a + index .. fn.a + fn.size - 1
  BY <1>1 DEF Backward
<1> QED BY <1>1, <1>3, <1>4 DEF Treated

(* A round that writes one byte of the area, and has then passed that one as
   well, keeps the invariant. *)
LEMMA WritesByte ==
  ASSUME StringsInv, ~returned, fn.name \in Writes,
         NEW p \in Address, NEW v \in Byte,
         v = IF fn.name = "memset" THEN fn.b ELSE before[p - fn.a + fn.b],
         memory' = [memory EXCEPT ![p] = v], Passed' = Passed \cup {p},
         index' \in Nat, index' <= fn.size, UNCHANGED <<fn, before, returned, result>>
  PROVE  StringsInv'
<1> USE DEF StringsInv
<1>1. StringsType'
  BY DEF StringsType
<1>2. Proper(before, fn)'
  OBVIOUS
<1>3. memory' = Treated(Passed \cup {p})
  BY OneMoreByte DEF Progress
<1>4. memory' = Treated(Passed)'
  BY <1>3 DEF Treated
<1>5. Progress'
  BY <1>4 DEF Progress, Writes
<1> QED BY <1>1, <1>2, <1>5

(* The return of a function that writes. *)
LEMMA ReturnsWritten ==
  ASSUME StringsInv, ~returned, fn.name \in Writes, Passed = Bytes(fn.a, fn.size), Return(fn.a)
  PROVE  StringsInv'
<1> USE DEF StringsInv, Return
<1>1. StringsType'
  <2>1. fn.a \in Int
    BY CallTypes DEF StringsType
  <2> QED BY <2>1 DEF StringsType
<1>2. Proper(before, fn)'
  OBVIOUS
<1>3. MovesAtOnce'
  <2>1. memory = [p \in Address |->
                CASE fn.name \in {"memmove", "memcpy"} /\ p \in Bytes(fn.a, fn.size) ->
                       before[p - fn.a + fn.b]
                  [] fn.name = "memset" /\ p \in Bytes(fn.a, fn.size) -> fn.b
                  [] OTHER -> before[p]]
    BY DEF Progress, Treated, Writes
  <2> QED BY <2>1 DEF MovesAtOnce
<1>4. ComparesInOrder'
  BY DEF ComparesInOrder, Writes
<1> QED BY <1>1, <1>2, <1>3, <1>4

LEMMA CopyUpStep == StringsInv /\ CopyUp => StringsInv'
<1> SUFFICES ASSUME StringsInv, CopyUp PROVE StringsInv'
  OBVIOUS
<1>1. /\ fn.name \in {"memmove", "memcpy"} /\ fn.name \in Writes /\ ~returned /\ ~Backward(fn)
      /\ StringsType /\ Proper(before, fn) /\ Progress
      /\ fn.a \in Nat /\ fn.b \in Nat /\ fn.size \in Nat /\ index \in Nat /\ index <= fn.size
  BY CallTypes DEF StringsInv, StringsType, CopyUp, Running, Progress, Writes
<1>2. Passed = fn.a .. fn.a + index - 1
  BY <1>1 DEF Passed
<1>3. CASE index < fn.size
  <2>1. index \in 0 .. fn.size - 1
    BY <1>1, <1>3
  <2>2. Bytes(fn.a, fn.size) \subseteq Address /\ Bytes(fn.b, fn.size) \subseteq Address
    BY <1>1 DEF Proper
  <2>3. fn.a + index \in Address /\ fn.b + index \in Address
    BY <1>1, <2>1, <2>2, BytesExist
  <2>4. memory[fn.b + index] = before[(fn.a + index) - fn.a + fn.b]
    BY <1>1, <1>3, CopyUpReads
  <2>5. memory[fn.b + index] \in Byte
    BY <1>1, <2>3 DEF StringsType
  <2>6. Passed' = Passed \cup {fn.a + index}
    BY <1>1, <1>2, <1>3 DEF CopyUp, Passed
  <2> QED BY <1>1, <1>3, <2>3, <2>4, <2>5, <2>6, WritesByte DEF CopyUp
<1>4. CASE ~(index < fn.size)
  BY <1>1, <1>2, <1>4, ReturnsWritten DEF CopyUp, Bytes
<1> QED BY <1>3, <1>4

LEMMA CopyDownStep == StringsInv /\ CopyDown => StringsInv'
<1> SUFFICES ASSUME StringsInv, CopyDown PROVE StringsInv'
  OBVIOUS
<1>1. /\ fn.name = "memmove" /\ fn.name \in Writes /\ ~returned /\ Backward(fn)
      /\ StringsType /\ Proper(before, fn) /\ Progress
      /\ fn.a \in Nat /\ fn.b \in Nat /\ fn.size \in Nat /\ index \in Nat /\ index <= fn.size
  BY CallTypes DEF StringsInv, StringsType, CopyDown, Running, Progress, Writes
<1>2. Passed = fn.a + index .. fn.a + fn.size - 1
  BY <1>1 DEF Passed
<1>3. CASE index # 0
  <2>1. index - 1 \in 0 .. fn.size - 1 /\ fn.a + index - 1 = fn.a + (index - 1)
        /\ fn.b + index - 1 = fn.b + (index - 1)
    BY <1>1, <1>3
  <2>2. Bytes(fn.a, fn.size) \subseteq Address /\ Bytes(fn.b, fn.size) \subseteq Address
    BY <1>1 DEF Proper
  <2>3. fn.a + (index - 1) \in Address /\ fn.b + (index - 1) \in Address
    BY <1>1, <2>1, <2>2, BytesExist
  <2>4. memory[fn.b + index - 1] = before[(fn.a + index - 1) - fn.a + fn.b]
    <3>1. memory[fn.b + index - 1] = before[fn.b + index - 1]
      BY <1>1, <1>3, CopyDownReads
    <3> QED BY <3>1, <1>1
  <2>5. memory[fn.b + index - 1] \in Byte
    BY <1>1, <2>1, <2>3 DEF StringsType
  <2>6. Passed' = Passed \cup {fn.a + index - 1}
    BY <1>1, <1>2, <1>3 DEF CopyDown, Passed
  <2>7. fn.a + index - 1 \in Address
    BY <2>1, <2>3
  <2> QED BY <1>1, <1>3, <2>4, <2>5, <2>6, <2>7, WritesByte DEF CopyDown
<1>4. CASE ~(index # 0)
  BY <1>1, <1>2, <1>4, ReturnsWritten DEF CopyDown, Bytes
<1> QED BY <1>3, <1>4

LEMMA SetStep == StringsInv /\ Set => StringsInv'
<1> SUFFICES ASSUME StringsInv, Set PROVE StringsInv'
  OBVIOUS
<1>1. /\ fn.name = "memset" /\ fn.name \in Writes /\ ~returned /\ ~Backward(fn)
      /\ StringsType /\ Proper(before, fn) /\ Progress
      /\ fn.a \in Nat /\ fn.b \in Nat /\ fn.size \in Nat /\ index \in Nat /\ index <= fn.size
  BY CallTypes DEF StringsInv, StringsType, Set, Running, Progress, Writes, Backward
<1>2. Passed = fn.a .. fn.a + index - 1
  BY <1>1 DEF Passed
<1>3. CASE index < fn.size
  <2>1. index \in 0 .. fn.size - 1
    BY <1>1, <1>3
  <2>2. Bytes(fn.a, fn.size) \subseteq Address /\ fn.b \in Byte
    BY <1>1 DEF Proper
  <2>3. fn.a + index \in Address
    BY <1>1, <2>1, <2>2, BytesExist
  <2>4. Passed' = Passed \cup {fn.a + index}
    BY <1>1, <1>2, <1>3 DEF Set, Passed
  <2> QED BY <1>1, <1>3, <2>2, <2>3, <2>4, WritesByte DEF Set
<1>4. CASE ~(index < fn.size)
  BY <1>1, <1>2, <1>4, ReturnsWritten DEF Set, Bytes
<1> QED BY <1>3, <1>4

-----------------------------------------------------------------------------
(* The functions that compare *)

(* A round that goes on to the next byte. *)
LEMMA GoesOn ==
  ASSUME StringsInv, ~returned, fn.name \notin Writes, NextByte,
         fn.name \in {"memcmp", "strncmp"} => index < fn.size,
         fn.name \in {"memcmp", "strcmp", "strncmp"} => memory[fn.a + index] = memory[fn.b + index],
         fn.name \in {"strcmp", "strncmp", "strlen"} => memory[fn.a + index] # 0
  PROVE  StringsInv'
<1> USE DEF StringsInv, NextByte
<1>1. StringsType' /\ index \in Nat /\ fn.size \in Nat
  BY CallTypes DEF StringsType
<1>2. SameBytes(index) /\ fn.name \in {"memcmp", "strcmp", "strncmp"} => SameBytes(index)'
  BY <1>1 DEF SameBytes
<1>3. NoEnd(index) /\ fn.name \in {"strcmp", "strncmp", "strlen"} => NoEnd(index)'
  BY <1>1 DEF NoEnd
<1>4. Progress'
  BY <1>1, <1>2, <1>3 DEF Progress, Writes
<1> QED BY <1>1, <1>4

(* The return of a function that compares; memory is as it was before. *)
LEMMA ReturnsVerdict ==
  ASSUME StringsInv, ~returned, fn.name \notin Writes, NEW r \in Int, Return(r), ComparesInOrder'
  PROVE  StringsInv'
<1> USE DEF StringsInv, Return
<1>1. StringsType'
  BY DEF StringsType
<1>2. memory = [p \in Address |-> before[p]]
  BY DEF StringsType, Progress
<1>3. MovesAtOnce'
  BY <1>2 DEF MovesAtOnce, Writes
<1> QED BY <1>1, <1>3

(* The byte that a comparison of strings looks at exists. *)
LEMMA StringByteExists ==
  ASSUME StringsInv, ~returned, fn.name \in {"strcmp", "strncmp"},
         fn.name = "strncmp" => index < fn.size
  PROVE  fn.a + index \in Address /\ fn.b + index \in Address
<1>1. /\ StringsType /\ Proper(before, fn) /\ memory = before
      /\ \A k \in 0 .. index - 1 : memory[fn.a + k] # 0
      /\ \A k \in 0 .. index - 1 : memory[fn.b + k] # 0
      /\ fn.a \in Nat /\ fn.b \in Nat /\ fn.size \in Nat /\ index \in Nat
  BY CallTypes DEF StringsInv, StringsType, Progress, Writes, SameBytes, NoEnd
<1>2. \A p \in {fn.a, fn.b} :
         \/ p \in Address /\ Terminated(before, p)
         \/ fn.name = "strncmp" /\ Bytes(p, fn.size) \subseteq Address
  BY <1>1 DEF Proper
<1>3. ASSUME NEW p \in {fn.a, fn.b}
      PROVE  p + index \in Address
  <2>1. p \in Nat /\ \A k \in 0 .. index - 1 : before[p + k] # 0
    BY <1>1
  <2>2. CASE p \in Address /\ Terminated(before, p)
    BY <1>1, <2>1, <2>2, BeforeTheEnd
  <2>3. CASE fn.name = "strncmp" /\ Bytes(p, fn.size) \subseteq Address
    <3>1. index \in 0 .. fn.size - 1
      BY <1>1, <2>3
    <3>2. p \in Int /\ Bytes(p, fn.size) \subseteq Address
      BY <2>1, <2>3
    <3> QED BY <1>1, <3>1, <3>2, BytesExist
  <2> QED BY <1>2, <2>2, <2>3
<1> QED BY <1>3

LEMMA MemoryCompareStep == StringsInv /\ MemoryCompare => StringsInv'
<1> SUFFICES ASSUME StringsInv, MemoryCompare PROVE StringsInv'
  OBVIOUS
<1> DEFINE x == memory[fn.a + index]
           y == memory[fn.b + index]
<1>1. /\ fn.name = "memcmp" /\ fn.name \notin Writes /\ ~returned
      /\ StringsType /\ Proper(before, fn) /\ memory = before
      /\ SameBytes(index) /\ index <= fn.size
      /\ fn.a \in Nat /\ fn.b \in Nat /\ fn.size \in Nat /\ index \in Nat
  BY CallTypes DEF StringsInv, StringsType, MemoryCompare, Running, Progress, Writes
<1>2. CASE index >= fn.size
  <2>1. Return(0) /\ index = fn.size
    BY <1>1, <1>2 DEF MemoryCompare, Return, NextByte
  <2>2. ComparesInOrder'
    BY <1>1, <2>1 DEF ComparesInOrder, Return, SameBytes
  <2> QED BY <1>1, <2>1, <2>2, ReturnsVerdict
<1>3. CASE index < fn.size
  <2>1. index \in 0 .. fn.size - 1
    BY <1>1, <1>3
  <2>2. Bytes(fn.a, fn.size) \subseteq Address /\ Bytes(fn.b, fn.size) \subseteq Address
    BY <1>1 DEF Proper
  <2>3. fn.a + index \in Address /\ fn.b + index \in Address
    BY <1>1, <2>1, <2>2, BytesExist
  <2>4. x \in Nat /\ y \in Nat
    <3>1. x \in Byte /\ y \in Byte
      BY <1>1, <2>3 DEF StringsType
    <3> QED BY <3>1, StringsAssumption
  <2>5. CASE x < y
    <3>1. Return(-1)
      BY <1>1, <1>3, <2>4, <2>5 DEF MemoryCompare, Return, NextByte
    <3>2. fn' = fn /\ memory' = memory /\ result' = -1
      BY <3>1 DEF Return
    <3>3. \A k \in 0 .. index - 1 : memory[fn.a + k] = memory[fn.b + k]
      BY <1>1 DEF SameBytes
    <3>4. ComparesInOrder'
      BY <1>1, <2>1, <2>4, <2>5, <3>2, <3>3 DEF ComparesInOrder, SameBytes
    <3> QED BY <1>1, <3>1, <3>4, ReturnsVerdict
  <2>6. CASE y < x
    <3>1. Return(1)
      BY <1>1, <1>3, <2>4, <2>6 DEF MemoryCompare, Return, NextByte
    <3>2. fn' = fn /\ memory' = memory /\ result' = 1
      BY <3>1 DEF Return
    <3>3. \A k \in 0 .. index - 1 : memory[fn.a + k] = memory[fn.b + k]
      BY <1>1 DEF SameBytes
    <3>4. ComparesInOrder'
      BY <1>1, <2>1, <2>4, <2>6, <3>2, <3>3 DEF ComparesInOrder, SameBytes
    <3> QED BY <1>1, <3>1, <3>4, ReturnsVerdict
  <2>7. CASE x = y
    <3>1. NextByte
      BY <1>1, <1>3, <2>4, <2>7 DEF MemoryCompare, Return, NextByte
    <3> QED BY <1>1, <1>3, <2>7, <3>1, GoesOn
  <2> QED BY <2>4, <2>5, <2>6, <2>7
<1> QED BY <1>1, <1>2, <1>3

LEMMA StringCompareStep == StringsInv /\ StringCompare => StringsInv'
<1> SUFFICES ASSUME StringsInv, StringCompare PROVE StringsInv'
  OBVIOUS
<1> DEFINE x == memory[fn.a + index]
           y == memory[fn.b + index]
<1>1. /\ fn.name \in {"strcmp", "strncmp"} /\ fn.name \notin Writes /\ ~returned
      /\ StringsType /\ Proper(before, fn) /\ memory = before
      /\ SameBytes(index) /\ NoEnd(index) /\ (fn.name = "strncmp" => index <= fn.size)
      /\ fn.a \in Nat /\ fn.b \in Nat /\ fn.size \in Nat /\ index \in Nat
  BY CallTypes DEF StringsInv, StringsType, StringCompare, Running, Progress, Writes
<1>2. CASE fn.name = "strncmp" /\ index >= fn.size
  <2>1. Return(0) /\ index = fn.size
    BY <1>1, <1>2 DEF StringCompare
  <2>2. ComparesInOrder'
    BY <1>1, <1>2, <2>1 DEF ComparesInOrder, Return, SameBytes, NoEnd
  <2> QED BY <1>1, <2>1, <2>2, ReturnsVerdict
<1>3. CASE ~(fn.name = "strncmp" /\ index >= fn.size)
  <2>1. fn.name = "strncmp" => index < fn.size
    BY <1>1, <1>3
  <2>2. fn.a + index \in Address /\ fn.b + index \in Address
    BY <1>1, <2>1, StringByteExists
  <2>3. x \in Nat /\ y \in Nat /\ index <= Top
    <3>1. x \in Byte /\ y \in Byte
      BY <1>1, <2>2 DEF StringsType
    <3>2. x \in Nat /\ y \in Nat
      BY <3>1, StringsAssumption
    <3>3. fn.a + index \in 0 .. Top
      BY <2>2 DEF Address
    <3>4. index <= Top
      BY <1>1, <3>3, StringsAssumption
    <3> QED BY <3>2, <3>4
  <2>4. CASE x # y \/ x = 0
    <3>1. Return(x - y) /\ x - y \in Int
      BY <1>1, <1>3, <2>3, <2>4 DEF StringCompare
    <3>2. index \in 0 .. (IF fn.name = "strcmp" THEN Top + 1 ELSE fn.size) - 1
      BY <1>1, <2>1, <2>3, StringsAssumption
    <3>3. fn' = fn /\ memory' = memory /\ result' = x - y
      BY <3>1 DEF Return
    <3>4. \A k \in 0 .. index - 1 : memory[fn.a + k] = memory[fn.b + k] /\ memory[fn.a + k] # 0
      BY <1>1 DEF SameBytes, NoEnd
    <3>5. ComparesInOrder'
      BY <1>1, <2>3, <2>4, <3>2, <3>3, <3>4 DEF ComparesInOrder, SameBytes, NoEnd
    <3> QED BY <1>1, <3>1, <3>5, ReturnsVerdict
  <2>5. CASE ~(x # y \/ x = 0)
    <3>1. NextByte
      BY <1>1, <1>3, <2>5 DEF StringCompare
    <3> QED BY <1>1, <2>1, <2>5, <3>1, GoesOn
  <2> QED BY <2>4, <2>5
<1> QED BY <1>2, <1>3

LEMMA StringLengthStep == StringsInv /\ StringLength => StringsInv'
<1> SUFFICES ASSUME StringsInv, StringLength PROVE StringsInv'
  OBVIOUS
<1>1. /\ fn.name = "strlen" /\ fn.name \notin Writes /\ ~returned
      /\ NoEnd(index) /\ index \in Nat
  BY DEF StringsInv, StringsType, StringLength, Running, Progress, Writes
<1>2. CASE memory[fn.a + index] # 0
  <2>1. NextByte
    BY <1>2 DEF StringLength
  <2> QED BY <1>1, <1>2, <2>1, GoesOn
<1>3. CASE memory[fn.a + index] = 0
  <2>1. Return(index)
    BY <1>3 DEF StringLength
  <2>2. ComparesInOrder'
    BY <1>1, <1>3, <2>1 DEF ComparesInOrder, Return, NoEnd
  <2> QED BY <1>1, <2>1, <2>2, ReturnsVerdict
<1> QED BY <1>2, <1>3

-----------------------------------------------------------------------------
(* The invariant and what follows *)

(* Every round of every function keeps the invariant; while printf is at work
   nothing that it speaks of changes. *)
LEMMA StringsInvStep == StringsInv /\ [StringsNext]_stringsVars => StringsInv'
<1> SUFFICES ASSUME StringsInv, [StringsNext]_stringsVars PROVE StringsInv'
  OBVIOUS
<1>1. CASE UNCHANGED stringsVars
  BY <1>1 DEF stringsVars, StringsInv, StringsType, Progress, Passed, Treated, SameBytes, NoEnd,
              MovesAtOnce, ComparesInOrder
<1>2. CASE StringsNext
  BY <1>2, CopyUpStep, CopyDownStep, SetStep, MemoryCompareStep, StringCompareStep,
     StringLengthStep DEF StringsNext
<1> QED BY <1>1, <1>2

(* Every reachable state of the functions satisfies the invariant. *)
THEOREM StringsInvariant == StringsSpec => []StringsInv
<1> QED BY StringsInvInit, StringsInvStep, PTL DEF StringsSpec

(* memmove and memcpy copy all bytes as if at once, whichever way two areas of
   memmove overlap, and memset fills its area; none touches another byte. *)
THEOREM StringsMoveAtOnce == StringsSpec => []MovesAtOnce
<1>1. StringsInv => MovesAtOnce
  BY DEF StringsInv, MovesAtOnce
<1> QED BY <1>1, StringsInvariant, PTL

(* memcmp, strcmp and strncmp decide at the first byte that differs and not
   behind the end of a string; strlen counts the bytes in front of the NUL. *)
THEOREM StringsCompareInOrder == StringsSpec => []ComparesInOrder
<1>1. StringsInv => ComparesInOrder
  BY DEF StringsInv, ComparesInOrder
<1> QED BY <1>1, StringsInvariant, PTL

(* In the library as a whole the invariant holds as well: a call of printf
   leaves the functions as they are, and there no call is under way. *)
LEMMA LibcInvariant == Spec => []StringsInv
<1>1. Init => StringsInv
  <2>1. ASSUME StringsAt([p \in Address |-> 0], NoBytes, TRUE)
        PROVE  StringsInv
    <3>1. /\ fn = [name |-> "memset", a |-> 0, b |-> 0, size |-> 0]
          /\ memory = [p \in Address |-> 0] /\ before = [p \in Address |-> 0]
          /\ index = 0 /\ result = 0 /\ Proper(before, fn) /\ returned = TRUE
      BY <2>1 DEF StringsAt, NoBytes, Backward
    <3>2. 0 \in Address /\ 0 \in Byte /\ 0 \in Size
      BY StringsAssumption DEF Address
    <3>3. fn \in StringsCalls
      BY <3>1, <3>2 DEF StringsCalls, Names
    <3>4. returned \in BOOLEAN
      BY <3>1, Zenon
    <3>5. StringsType
      BY <3>1, <3>2, <3>3, <3>4 DEF StringsType
    <3>6. MovesAtOnce
      BY <3>1 DEF MovesAtOnce, Bytes
    <3>7. ComparesInOrder
      BY <3>1 DEF ComparesInOrder
    <3> QED BY <3>1, <3>5, <3>6, <3>7 DEF StringsInv
  <2> QED BY <2>1, StringsInvInit DEF Init
<1>2. StringsInv /\ [Next]_vars => StringsInv'
  BY StringsInvStep DEF Next, vars
<1> QED BY <1>1, <1>2, PTL DEF Spec

(* So the library, whatever is called, moves bytes at once ... *)
THEOREM LibcMovesAtOnce == Spec => []MovesAtOnce
<1>1. StringsInv => MovesAtOnce
  BY DEF StringsInv, MovesAtOnce
<1> QED BY <1>1, LibcInvariant, PTL

(* ... and compares them in order. *)
THEOREM LibcComparesInOrder == Spec => []ComparesInOrder
<1>1. StringsInv => ComparesInOrder
  BY DEF StringsInv, ComparesInOrder
<1> QED BY <1>1, LibcInvariant, PTL

-----------------------------------------------------------------------------
(* printf: sequences of characters *)

(* n times the same character. *)
LEMMA FillType ==
  ASSUME NEW S, NEW c \in S, NEW n \in Int
  PROVE  /\ Fill(c, n) \in Seq(S)
         /\ Len(Fill(c, n)) = IF n > 0 THEN n ELSE 0
         /\ n <= 0 => Fill(c, n) = <<>>
<1> DEFINE k == IF n > 0 THEN n ELSE 0
<1>1. k \in Nat /\ Fill(c, n) = [i \in 1 .. k |-> c]
  BY DEF Fill
<1>2. k = (IF n > 0 THEN n ELSE 0)
  OBVIOUS
<1> HIDE DEF k
<1>3. [i \in 1 .. k |-> c] \in Seq(S) /\ Len([i \in 1 .. k |-> c]) = k
  BY <1>1
<1>4. k = 0 => [i \in 1 .. k |-> c] = <<>>
  BY <1>1
<1> QED BY <1>1, <1>2, <1>3, <1>4

(* What Take keeps is a prefix, as long as there is room for. *)
LEMMA TakeType ==
  ASSUME NEW S, NEW s \in Seq(S), NEW n \in Nat
  PROVE  /\ Take(s, n) \in Seq(S)
         /\ Len(Take(s, n)) = IF n < Len(s) THEN n ELSE Len(s)
         /\ \A i \in 1 .. Len(Take(s, n)) : Take(s, n)[i] = s[i]
BY DEF Take

(* No character of nothing is kept. *)
LEMMA TakeOfNothing ==
  ASSUME NEW n \in Nat
  PROVE  Take(<<>>, n) = <<>>
<1> DEFINE none == <<>>
           S    == {0}
           t    == Take(none, n)
<1>1. none \in Seq(S) /\ Len(none) = 0
  BY EmptySeq
<1> HIDE DEF none, S
<1>2. t \in Seq(S) /\ Len(t) = IF n < Len(none) THEN n ELSE Len(none)
  BY <1>1, TakeType
<1> HIDE DEF t
<1>3. Len(t) = 0
  BY <1>1, <1>2
<1>4. t = <<>>
  BY <1>2, <1>3, EmptySeq
<1> QED BY <1>4 DEF t, none

(* A text that is turned round consists of the same characters. *)
LEMMA ReverseType ==
  ASSUME NEW S, NEW s \in Seq(S)
  PROVE  Reverse(s) \in Seq(S)
BY DEF Reverse

(* A prefix of a prefix is a prefix. *)
LEMMA TakeShorter ==
  ASSUME NEW S, NEW s \in Seq(S), NEW n \in Nat \ {0}
  PROVE  Take(Take(s, n), n - 1) = Take(s, n - 1)
<1> DEFINE a == Take(s, n)
           b == Take(a, n - 1)
           c == Take(s, n - 1)
<1>1. a \in Seq(S) /\ Len(a) = (IF n < Len(s) THEN n ELSE Len(s)) /\ \A i \in 1 .. Len(a) : a[i] = s[i]
  BY TakeType
<1>2. n - 1 \in Nat /\ Len(s) \in Nat
  OBVIOUS
<1>3. c \in Seq(S) /\ Len(c) = (IF n - 1 < Len(s) THEN n - 1 ELSE Len(s)) /\ \A i \in 1 .. Len(c) : c[i] = s[i]
  BY <1>2, TakeType
<1> HIDE DEF a
<1>4. b \in Seq(S) /\ Len(b) = (IF n - 1 < Len(a) THEN n - 1 ELSE Len(a)) /\ \A i \in 1 .. Len(b) : b[i] = a[i]
  BY <1>1, <1>2, TakeType
<1> HIDE DEF b, c
<1>5. Len(b) = Len(c) /\ Len(b) \in Nat /\ Len(b) <= Len(a)
  <2>1. CASE n < Len(s)
    BY <2>1, <1>1, <1>2, <1>3, <1>4
  <2>2. CASE n >= Len(s)
    BY <2>2, <1>1, <1>2, <1>3, <1>4
  <2> QED BY <2>1, <2>2, <1>2
<1>6. \A i \in 1 .. Len(b) : b[i] = c[i]
  BY <1>1, <1>3, <1>4, <1>5
<1>7. b = c
  BY <1>3, <1>4, <1>5, <1>6, SeqEqual
<1> QED BY <1>7 DEF a, b, c

(* The lengths in the next lemma, which the provers take on their own. *)
LEMMA Shorter ==
  ASSUME NEW n \in Nat, NEW s \in Nat, NEW t \in Nat, NEW a \in Nat, NEW b \in Nat, NEW c \in Nat,
         a = IF n < s THEN n ELSE s, b = IF n - a < t THEN n - a ELSE t,
         c = IF n < s + t THEN n ELSE s + t
  PROVE  c = a + b /\ (b > 0 => a = s)
OBVIOUS

(* A buffer that holds what there was room for of one text, and then what
   there is room for of the next, holds what there is room for of both. *)
LEMMA TakeOfConcat ==
  ASSUME NEW S, NEW s \in Seq(S), NEW t \in Seq(S), NEW n \in Nat
  PROVE  Take(s \o t, n) = Take(s, n) \o Take(t, n - Len(Take(s, n)))
<1> DEFINE a == Take(s, n)
           b == Take(t, n - Len(a))
           c == Take(s \o t, n)
<1>1. a \in Seq(S) /\ Len(a) = (IF n < Len(s) THEN n ELSE Len(s)) /\ \A i \in 1 .. Len(a) : a[i] = s[i]
  BY TakeType
<1>2. n - Len(a) \in Nat
  BY <1>1
<1>3. b \in Seq(S) /\ Len(b) = (IF n - Len(a) < Len(t) THEN n - Len(a) ELSE Len(t)) /\ \A i \in 1 .. Len(b) : b[i] = t[i]
  BY <1>2, TakeType
<1>4. /\ s \o t \in Seq(S) /\ Len(s \o t) = Len(s) + Len(t)
      /\ \A i \in 1 .. Len(s) + Len(t) : (s \o t)[i] = IF i <= Len(s) THEN s[i] ELSE t[i - Len(s)]
  BY ConcatProperties
<1>5. c \in Seq(S) /\ Len(c) = (IF n < Len(s \o t) THEN n ELSE Len(s \o t)) /\ \A i \in 1 .. Len(c) : c[i] = (s \o t)[i]
  BY <1>4, TakeType
<1>6. /\ a \o b \in Seq(S) /\ Len(a \o b) = Len(a) + Len(b)
      /\ \A i \in 1 .. Len(a) + Len(b) : (a \o b)[i] = IF i <= Len(a) THEN a[i] ELSE b[i - Len(a)]
  BY <1>1, <1>3, ConcatProperties
<1> HIDE DEF a, b, c
<1>7. Len(s) \in Nat /\ Len(t) \in Nat
  OBVIOUS
<1>8. /\ Len(a) \in Nat /\ Len(b) \in Nat /\ Len(c) \in Nat
      /\ Len(a) = IF n < Len(s) THEN n ELSE Len(s)
      /\ Len(b) = IF n - Len(a) < Len(t) THEN n - Len(a) ELSE Len(t)
      /\ Len(c) = IF n < Len(s) + Len(t) THEN n ELSE Len(s) + Len(t)
      /\ Len(a \o b) = Len(a) + Len(b)
  <2>1. Len(a) \in Nat /\ Len(b) \in Nat /\ Len(c) \in Nat
    BY <1>1, <1>3, <1>5
  <2> QED BY <2>1, <1>1, <1>3, <1>4, <1>5, <1>6
<1>9. Len(c) = Len(a \o b) /\ (Len(b) > 0 => Len(a) = Len(s))
  <2>1. PICK la \in Nat, lb \in Nat, lc \in Nat, ls \in Nat, lt \in Nat :
               la = Len(a) /\ lb = Len(b) /\ lc = Len(c) /\ ls = Len(s) /\ lt = Len(t)
    BY <1>8, <1>7
  <2>2. /\ la = IF n < ls THEN n ELSE ls
        /\ lb = IF n - la < lt THEN n - la ELSE lt
        /\ lc = IF n < ls + lt THEN n ELSE ls + lt
    BY <2>1, <1>8
  <2>3. lc = la + lb /\ (lb > 0 => la = ls)
    BY <2>2, Shorter
  <2> QED BY <2>1, <2>3, <1>8
<1>10. ASSUME NEW i \in 1 .. Len(c)
      PROVE  c[i] = (a \o b)[i]
  <2>1. i \in 1 .. Len(s) + Len(t) /\ i \in 1 .. Len(a) + Len(b)
    BY <1>4, <1>5, <1>6, <1>7, <1>9
  <2>2. CASE i <= Len(a)
    BY <2>1, <2>2, <1>1, <1>4, <1>5, <1>6, <1>7
  <2>3. CASE i > Len(a)
    <3>1. Len(a) = Len(s)
      BY <2>1, <2>3, <1>8, <1>9
    <3>2. i - Len(a) \in 1 .. Len(b)
      BY <2>1, <2>3, <1>8
    <3>3. (a \o b)[i] = t[i - Len(a)]
      BY <2>1, <2>3, <3>2, <1>3, <1>6, <1>1
    <3>4. c[i] = t[i - Len(s)]
      BY <2>1, <2>3, <3>1, <1>4, <1>5, <1>7
    <3> QED BY <3>1, <3>3, <3>4
  <2> QED BY <2>1, <2>2, <2>3, <1>1
<1>11. c = a \o b
  BY <1>5, <1>6, <1>9, <1>10, SeqEqual
<1> QED BY <1>11 DEF a, b, c

-----------------------------------------------------------------------------
(* What the constants and the parameters of a call are. *)

(* The constants that stand for numbers, and the powers of 2. *)
LEMMA PrintfConstants ==
  /\ 2^CHAR_BIT \in Nat \ {0} /\ 2^SHORT_BIT \in Nat \ {0} /\ 2^INT_BIT \in Nat \ {0} /\ 2^LLONG_BIT \in Nat \ {0}
  /\ CHAR_BIT \in Nat \ {0} /\ SHORT_BIT \in Nat \ {0} /\ INT_BIT \in Nat \ {0} /\ LLONG_BIT \in Nat \ {0}
  /\ PRINTF_NTOA_BUFFER_SIZE \in Nat \ {0} /\ PRINTF_FTOA_BUFFER_SIZE \in Nat \ {0}
  /\ PRINTF_DEFAULT_FLOAT_PRECISION \in Nat /\ Fraction \in Nat \ {0} /\ MaxPrecision \in Nat
BY PrintfAssumption, PowersAreNumbers

(* The characters that printf puts out by itself. *)
LEMMA CharsOfPrintf ==
  /\ "NUL" \in Charset /\ " " \in Charset /\ "-" \in Charset /\ "+" \in Charset /\ "." \in Charset
  /\ "x" \in Charset /\ "X" \in Charset
  /\ "0" \in Charset /\ "1" \in Charset /\ "2" \in Charset /\ "3" \in Charset /\ "4" \in Charset
  /\ "5" \in Charset /\ "6" \in Charset /\ "7" \in Charset /\ "8" \in Charset /\ "9" \in Charset
  /\ "a" \in Charset /\ "b" \in Charset /\ "c" \in Charset
  /\ "d" \in Charset /\ "e" \in Charset /\ "f" \in Charset
  /\ "A" \in Charset /\ "B" \in Charset /\ "C" \in Charset
  /\ "D" \in Charset /\ "E" \in Charset /\ "F" \in Charset
BY PrintfAssumption

(* A format is read a character at a time, and a NUL ends it. *)
LEMMA FormatIsChar ==
  ASSUME PrintfType, NEW p \in Nat \ {0}
  PROVE  /\ Format(p) \in Charset
         /\ Format(p) # "NUL" => p <= Len(call.format)
<1>1. call.format \in Seq(Charset) /\ "NUL" \in Charset
  BY PrintfAssumption DEF PrintfType, IsCall
<1> QED BY <1>1 DEF Format

(* The digits are characters, *)
LEMMA NumeralsAreChars ==
  ASSUME NEW n \in 1 .. 10
  PROVE  Numerals[n] \in Charset
<1>1. /\ Numerals[1] = "0" /\ Numerals[2] = "1" /\ Numerals[3] = "2" /\ Numerals[4] = "3" /\ Numerals[5] = "4"
      /\ Numerals[6] = "5" /\ Numerals[7] = "6" /\ Numerals[8] = "7" /\ Numerals[9] = "8" /\ Numerals[10] = "9"
  BY DEF Numerals
<1>2. n \in {1, 2, 3, 4, 5, 6, 7, 8, 9, 10}
  OBVIOUS
<1> QED BY <1>1, <1>2, CharsOfPrintf

(* and so are the letters of the hexadecimal ones. *)
LEMMA LettersAreChars ==
  ASSUME NEW n \in 1 .. 6
  PROVE  Letters[n] \in Charset
<1>1. n \in {1, 2, 3, 4, 5, 6}
  OBVIOUS
<1>2. CASE "UPPERCASE" \in flags
  <2>1. /\ Letters[1] = "A" /\ Letters[2] = "B" /\ Letters[3] = "C"
        /\ Letters[4] = "D" /\ Letters[5] = "E" /\ Letters[6] = "F"
    BY <1>2 DEF Letters
  <2> QED BY <1>1, <2>1, CharsOfPrintf
<1>3. CASE "UPPERCASE" \notin flags
  <2>1. /\ Letters[1] = "a" /\ Letters[2] = "b" /\ Letters[3] = "c"
        /\ Letters[4] = "d" /\ Letters[5] = "e" /\ Letters[6] = "f"
    BY <1>3 DEF Letters
  <2> QED BY <1>1, <2>1, CharsOfPrintf
<1> QED BY <1>2, <1>3

(* The last decimal digit of a number. *)
LEMMA NumeralIsChar ==
  ASSUME NEW n \in Nat
  PROVE  Numeral(n) \in Charset
<1>1. (n % 10) + 1 \in 1 .. 10
  OBVIOUS
<1> QED BY <1>1, NumeralsAreChars DEF Numeral

(* A digit in any base. *)
LEMMA DigitIsChar ==
  ASSUME NEW d \in 0 .. 15
  PROVE  DigitChar(d) \in Charset
<1>1. CASE d < 10
  <2>1. d + 1 \in 1 .. 10
    BY <1>1
  <2> QED BY <1>1, <2>1, NumeralsAreChars DEF DigitChar
<1>2. CASE d >= 10
  <2>1. d - 9 \in 1 .. 6
    BY <1>2
  <2> QED BY <1>2, <2>1, LettersAreChars DEF DigitChar
<1> QED BY <1>1, <1>2

(* A round of _atoi leaves an unsigned int. *)
LEMMA AtoiIsNat ==
  ASSUME NEW i \in Nat, NEW c, IsDigit(c)
  PROVE  Atoi(i, c) \in Nat
<1>1. \E d \in 0 .. 9 : Numerals[d + 1] = c
  BY DEF IsDigit, ToSet, Numerals
<1> DEFINE e == CHOOSE d \in 0 .. 9 : Numerals[d + 1] = c
           w == 2^INT_BIT
<1>2. e \in 0 .. 9
  BY <1>1
<1>3. w \in Nat \ {0} /\ Atoi(i, c) = (10 * i + e) % w
  BY PrintfConstants DEF Atoi
<1> HIDE DEF e, w
<1> QED BY <1>2, <1>3

-----------------------------------------------------------------------------
(* Whatever _ntoa_format and _ftoa put behind the digits fits. *)

(* b fits the buffer at hand. *)
Fits(b) == b \in Seq(Charset) /\ Len(b) <= BufferSize

(* The buffer at hand has room for something. *)
LEMMA BufferSizeIsNat == BufferSize \in Nat \ {0}
BY PrintfConstants DEF BufferSize

(* A character more, if there is room for it, *)
LEMMA PushFits ==
  ASSUME NEW b, Fits(b), NEW c \in Charset
  PROVE  Fits(Push(b, c))
<1>1. CASE Len(b) < BufferSize
  <2>1. Append(b, c) \in Seq(Charset) /\ Len(Append(b, c)) = Len(b) + 1 /\ Len(b) \in Nat
    BY DEF Fits
  <2> QED BY <1>1, <2>1, BufferSizeIsNat DEF Fits, Push
<1>2. CASE ~(Len(b) < BufferSize)
  BY <1>2 DEF Push
<1> QED BY <1>1, <1>2

(* zeros up to some length, if there is room for them, *)
LEMMA UpToFits ==
  ASSUME NEW b, Fits(b), NEW n \in Nat
  PROVE  Fits(UpTo(b, n))
<1> DEFINE room == BufferSize - Len(b)
           wish == n - Len(b)
           k == IF wish < room THEN wish ELSE room
<1>1. b \in Seq(Charset) /\ Len(b) \in Nat /\ Len(b) <= BufferSize /\ BufferSize \in Nat
  BY BufferSizeIsNat DEF Fits
<1>2. k \in Int /\ k <= BufferSize - Len(b)
  BY <1>1
<1>3. UpTo(b, n) = b \o Fill("0", k)
  BY DEF UpTo
<1> HIDE DEF k
<1>4. Fill("0", k) \in Seq(Charset) /\ Len(Fill("0", k)) = IF k > 0 THEN k ELSE 0
  BY <1>2, FillType, CharsOfPrintf
<1>5. b \o Fill("0", k) \in Seq(Charset) /\ Len(b \o Fill("0", k)) = Len(b) + Len(Fill("0", k))
  BY <1>1, <1>4, ConcatProperties
<1> QED BY <1>1, <1>2, <1>3, <1>4, <1>5 DEF Fits

(* the zeros of precision and width, *)
LEMMA WithZerosFits ==
  ASSUME NEW b, Fits(b), NEW w \in Nat, precision \in Nat
  PROVE  Fits(WithZeros(b, w))
BY UpToFits DEF WithZeros

(* the digits that a prefix takes the place of, *)
LEMMA CutFits ==
  ASSUME NEW b, Fits(b), NEW w \in Nat
  PROVE  Fits(Cut(b, w))
<1> DEFINE n == Len(b) - (IF base = 16 /\ Len(b) > 1 THEN 2 ELSE 1)
<1>1. b \in Seq(Charset) /\ Len(b) \in Nat /\ Len(b) <= BufferSize /\ BufferSize \in Nat
  BY BufferSizeIsNat DEF Fits
<1>2. ASSUME b # <<>>
      PROVE  Fits(SubSeq(b, 1, n))
  <2>1. Len(b) > 0
    BY <1>1, <1>2
  <2>2. n \in Nat /\ n <= Len(b)
    BY <1>1, <2>1
  <2> HIDE DEF n
  <2>3. \A i \in 1 .. n : b[i] \in Charset
    BY <1>1, <2>2
  <2>4. SubSeq(b, 1, n) \in Seq(Charset) /\ Len(SubSeq(b, 1, n)) <= Len(b)
    BY <2>2, <2>3, <1>1, SubSeqProperties
  <2> QED BY <1>1, <2>4 DEF Fits
<1> QED BY <1>2 DEF Cut

(* the prefix, *)
LEMMA WithPrefixFits ==
  ASSUME NEW b, Fits(b), NEW w \in Nat
  PROVE  Fits(WithPrefix(b, w))
<1>1. Fits(Cut(b, w))
  BY CutFits
<1>2. ASSUME NEW c \in Charset PROVE Fits(Push(Cut(b, w), c)) /\ Fits(Push(Push(Cut(b, w), c), "0"))
  BY <1>1, <1>2, PushFits, CharsOfPrintf
<1> QED BY <1>2, CharsOfPrintf DEF WithPrefix

(* and the sign. *)
LEMMA WithSignFits ==
  ASSUME NEW b, Fits(b)
  PROVE  Fits(WithSign(b))
<1>1. Fits(Push(b, "-")) /\ Fits(Push(b, "+")) /\ Fits(Push(b, " "))
  BY PushFits, CharsOfPrintf
<1> QED BY <1>1 DEF WithSign

(* The width is not reduced below 0: only one that is not 0 is. *)
LEMMA ZeroWidthIsNat ==
  ASSUME width \in Nat
  PROVE  ZeroWidth \in Nat
BY DEF ZeroWidth

-----------------------------------------------------------------------------
(* What _ftoa starts from. *)

(* The places beyond the ninth do not fill more than the buffer. *)
LEMMA BeyondFits ==
  ASSUME PrintfType
  PROVE  /\ FloatPrecision \in Nat
         /\ Beyond \in Seq(Charset) /\ Len(Beyond) <= PRINTF_FTOA_BUFFER_SIZE
         /\ FloatPrecision - Len(Beyond) \in Nat
<1>1. FloatPrecision \in Nat
  BY PrintfConstants DEF FloatPrecision, PrintfType
<1> DEFINE n == FloatPrecision - MaxPrecision
           k == IF n < PRINTF_FTOA_BUFFER_SIZE THEN n ELSE PRINTF_FTOA_BUFFER_SIZE
<1>2. k \in Int /\ k <= n /\ k <= PRINTF_FTOA_BUFFER_SIZE /\ n <= FloatPrecision
  BY <1>1, PrintfConstants
<1>3. Beyond = Fill("0", k)
  BY DEF Beyond
<1> HIDE DEF k
<1>4. Fill("0", k) \in Seq(Charset) /\ Len(Fill("0", k)) = IF k > 0 THEN k ELSE 0
  BY <1>2, FillType, CharsOfPrintf
<1>5. CASE k > 0
  BY <1>1, <1>2, <1>3, <1>4, <1>5, PrintfConstants
<1>6. CASE ~(k > 0)
  BY <1>1, <1>2, <1>3, <1>4, <1>6, PrintfConstants
<1> QED BY <1>5, <1>6

(* Quotient and remainder, *)
LEMMA QuotientOfNat ==
  ASSUME NEW n \in Nat, NEW d \in Nat \ {0}
  PROVE  n \div d \in Nat /\ n % d \in 0 .. d - 1
OBVIOUS

(* and product, of numbers. *)
LEMMA ProductOfNat ==
  ASSUME NEW a \in Nat, NEW b \in Nat
  PROVE  a * b \in Nat
OBVIOUS

(* Rounding leaves two numbers. *)
LEMMA RoundedIsNat ==
  ASSUME NEW n \in Nat, NEW places \in 0 .. MaxPrecision
  PROVE  Rounded(n, places).whole \in Nat /\ Rounded(n, places).frac \in Nat
<1> DEFINE tmp == (n % Fraction) * 10^places
           frac == tmp \div Fraction
           rest == 2 * (tmp % Fraction)
           carry == Carry(frac, rest, places)
           up == n \div Fraction + (IF carry THEN 1 ELSE 0)
           again == places = 0 /\ 2 * (n - up * Fraction) >= Fraction /\ Odd(up)
<1>1. Rounded(n, places) =
        [whole |-> IF again THEN up + 1 ELSE up,
         frac |-> CASE carry -> 0
                    [] ~carry /\ Up(frac, rest) -> frac + 1
                    [] OTHER -> frac]
  BY DEF Rounded
<1>2. 10^places \in Nat
  BY PowersAreNumbers
<1>3. n % Fraction \in Nat /\ n \div Fraction \in Nat
  BY PrintfConstants, QuotientOfNat
<1>4. tmp \in Nat
  BY <1>2, <1>3, ProductOfNat
<1> HIDE DEF tmp
<1>5. frac \in Nat
  BY <1>4, PrintfConstants, QuotientOfNat
<1> HIDE DEF frac, carry
<1>6. up \in Nat
  BY <1>3
<1> HIDE DEF up, again
<1> QED BY <1>1, <1>5, <1>6

-----------------------------------------------------------------------------
(* Reading a directive *)

(* What is taken as an argument, if it was passed. *)
LEMMA ArgumentTypes ==
  ASSUME PrintfType, ArgumentsPassed, TakesArgument
  PROVE  /\ Argument("int") \in Int /\ Argument("char") \in Charset
         /\ Argument("string") \in Seq(Charset) /\ Argument("float") \in Int
BY DEF PrintfType, IsCall, ArgumentsPassed, Argument

(* The next character of the format, and where it is. *)
LEMMA ThisIsChar ==
  ASSUME PrintfInv
  PROVE  /\ pos \in Nat \ {0} /\ Len(call.format) \in Nat
         /\ This \in Charset
         /\ This # "NUL" => pos + 1 <= Len(call.format) + 1
         /\ Format(pos + 1) # "NUL" => pos + 2 <= Len(call.format) + 1
<1>1. pos \in Nat \ {0} /\ Len(call.format) \in Nat
  BY DEF PrintfInv, PrintfType, IsCall
<1>2. PrintfType
  BY DEF PrintfInv
<1>3. This \in Charset /\ (This # "NUL" => pos <= Len(call.format))
  BY <1>1, <1>2, FormatIsChar DEF This
<1>4. Format(pos + 1) # "NUL" => pos + 1 <= Len(call.format)
  BY <1>1, <1>2, FormatIsChar
<1> QED BY <1>1, <1>3, <1>4

(* Where a directive is read. *)
Reading == {"format", "flags", "width", "precision", "places", "length", "specifier"}

(* While it is read, nothing is put anywhere. *)
LEMMA ReadsOn ==
  ASSUME PrintfInv, UNCHANGED <<call, number, output>>,
         pc \notin {"done", "lost"}, pc' \in Reading,
         pos' \in Nat \ {0}, pos' <= Len(call.format) + 1, arg' \in Nat \ {0},
         flags' \subseteq Flags, width' \in Nat, precision' \in Nat
  PROVE  PrintfInv'
<1>1. PrintfType'
  BY DEF PrintfInv, PrintfType, number, output, Reading
<1>2. NumberFits'
  BY DEF NumberFits, InNtoa, InFtoa, Reading
<1>3. TextKept'
  BY DEF PrintfInv, TextKept, output, Reading, Take
<1>4. FormatHeld'
  BY DEF FormatHeld
<1> QED BY <1>1, <1>2, <1>3, <1>4 DEF PrintfInv

(* What the switches of _vsnprintf recognise; a NUL is none of it. *)
LEMMA FlagIsFlag ==
  /\ \A c \in DOMAIN FlagOf : FlagOf[c] \in Flags /\ c # "NUL"
  /\ \A c \in DOMAIN LengthOf : LengthOf[c] \subseteq Flags /\ c # "NUL"
  /\ \A c \in DOMAIN DoubleOf : DoubleOf[c] \subseteq Flags /\ c # "NUL"
  /\ \A c \in DOMAIN BaseOf : BaseOf[c] \in {2, 8, 10, 16} /\ c # "NUL"
BY DEF FlagOf, LengthOf, DoubleOf, BaseOf, Flags

(* A digit does not end the format. *)
LEMMA DigitIsNotNul ==
  ASSUME NEW c, IsDigit(c)
  PROVE  c # "NUL"
<1>1. \E n \in 1 .. 10 : Numerals[n] = c
  BY DEF IsDigit, ToSet, Numerals
<1>2. PICK n \in 1 .. 10 : Numerals[n] = c
  BY <1>1
<1>3. n \in {1, 2, 3, 4, 5, 6, 7, 8, 9, 10}
  OBVIOUS
<1> QED BY <1>2, <1>3 DEF Numerals

(* The steps that read a directive up to its specifier. *)
LEMMA ReadingStep ==
  ASSUME PrintfInv, ArgumentsPassed,
         Percent \/ Flag \/ Width \/ WidthDigit \/ Precision \/ PrecisionDigit \/ Length \/ Unsupported
  PROVE  PrintfInv'
<1> USE ThisIsChar
<1>1. /\ pos \in Nat \ {0} /\ arg \in Nat \ {0} /\ flags \subseteq Flags
      /\ width \in Nat /\ precision \in Nat
      /\ pc # "lost" => pos <= Len(call.format) + 1
  BY DEF PrintfInv, PrintfType, FormatHeld
<1>2. pos + 1 \in Nat \ {0} /\ pos + 2 \in Nat \ {0} /\ arg + 1 \in Nat \ {0}
  BY <1>1
<1>3. CASE Percent
  <2>1. This # "NUL"
    BY <1>3 DEF Percent
  <2> QED BY <2>1, <1>1, <1>2, <1>3, ReadsOn DEF Percent, Reading
<1>4. CASE Flag
  <2>1. This # "NUL" /\ FlagOf[This] \in Flags
    BY <1>4, FlagIsFlag DEF Flag
  <2>2. UNCHANGED <<call, number, output>> /\ pc = "flags" /\ pc' = "flags" /\ pos' = pos + 1 /\ arg' = arg
        /\ flags' = flags \cup {FlagOf[This]} /\ width' = width /\ precision' = precision
    BY <1>4 DEF Flag
  <2> QED BY <2>1, <2>2, <1>1, <1>2, ReadsOn DEF Reading
<1>5. CASE Width
  <2>1. UNCHANGED <<call, number, output>> /\ precision' = precision /\ pc = "flags"
    BY <1>5 DEF Width
  <2>2. CASE This = "*"
    <3>1. Argument("int") \in Int
      BY <2>1, <2>2, ArgumentTypes DEF TakesArgument, PrintfInv
    <3>2. /\ width' = Unsigned(IF Argument("int") < 0 THEN 0 - Argument("int") ELSE Argument("int"), INT_BIT)
          /\ flags' = (IF Argument("int") < 0 THEN flags \cup {"LEFT"} ELSE flags)
          /\ pos' = pos + 1 /\ arg' = arg + 1 /\ pc' = "precision"
      BY <1>5, <2>2 DEF Width
    <3>3. width' \in Nat
      <4> DEFINE n == IF Argument("int") < 0 THEN 0 - Argument("int") ELSE Argument("int")
                 w == 2^INT_BIT
      <4>1. n \in Nat /\ w \in Nat \ {0} /\ width' = n % w
        BY <3>1, <3>2, PrintfConstants DEF Unsigned
      <4> HIDE DEF n, w
      <4> QED BY <4>1, QuotientOfNat
    <3>4. flags' \subseteq Flags
      BY <3>2, <1>1 DEF Flags
    <3> QED BY <2>1, <2>2, <3>2, <3>3, <3>4, <1>1, <1>2, ReadsOn DEF Reading
  <2>3. CASE This # "*"
    <3>1. pc' = "width" /\ UNCHANGED <<width, pos, arg, flags>>
      BY <1>5, <2>3 DEF Width
    <3> QED BY <2>1, <3>1, <1>1, ReadsOn DEF Reading
  <2> QED BY <2>2, <2>3
<1>6. CASE WidthDigit
  <2>1. This # "NUL" /\ Atoi(width, This) \in Nat
    BY <1>1, <1>6, DigitIsNotNul, AtoiIsNat DEF WidthDigit
  <2> QED BY <2>1, <1>1, <1>2, <1>6, ReadsOn DEF WidthDigit, Reading
<1>7. CASE Precision
  <2>1. UNCHANGED <<call, number, output>> /\ width' = width /\ pc \in {"precision", "width"}
    BY <1>7 DEF Precision
  <2>2. CASE This # "."
    <3>1. pc' = "length" /\ UNCHANGED <<pos, arg, flags, precision>>
      BY <1>7, <2>2 DEF Precision
    <3> QED BY <2>1, <3>1, <1>1, ReadsOn DEF Reading
  <2>3. CASE This = "." /\ Format(pos + 1) = "*"
    <3>1. Argument("int") \in Int
      BY <2>1, <2>3, ArgumentTypes DEF TakesArgument, PrintfInv
    <3>2. /\ flags' = flags \cup {"PRECISION"} /\ pos' = pos + 2 /\ arg' = arg + 1 /\ pc' = "length"
          /\ precision' = IF Argument("int") > 0 THEN Argument("int") ELSE 0
      BY <1>7, <2>3 DEF Precision
    <3>3. precision' \in Nat /\ flags' \subseteq Flags
      BY <3>1, <3>2, <1>1 DEF Flags
    <3>4. pos + 2 <= Len(call.format) + 1
      BY <2>3
    <3> QED BY <2>1, <3>2, <3>3, <3>4, <1>1, <1>2, ReadsOn DEF Reading
  <2>4. CASE This = "." /\ Format(pos + 1) # "*"
    <3>1. /\ flags' = flags \cup {"PRECISION"} /\ pos' = pos + 1 /\ pc' = "places"
          /\ UNCHANGED <<arg, precision>>
      BY <1>7, <2>4 DEF Precision
    <3>2. flags' \subseteq Flags
      BY <3>1, <1>1 DEF Flags
    <3> QED BY <2>1, <2>4, <3>1, <3>2, <1>1, <1>2, ReadsOn DEF Reading
  <2> QED BY <2>2, <2>3, <2>4
<1>8. CASE PrecisionDigit
  <2>1. This # "NUL" /\ Atoi(precision, This) \in Nat
    BY <1>1, <1>8, DigitIsNotNul, AtoiIsNat DEF PrecisionDigit
  <2> QED BY <2>1, <1>1, <1>2, <1>8, ReadsOn DEF PrecisionDigit, Reading
<1>9. CASE Length
  <2>1. UNCHANGED <<call, number, output>> /\ width' = width /\ precision' = precision /\ arg' = arg
        /\ pc \in {"length", "places"} /\ pc' = "specifier"
    BY <1>9 DEF Length
  <2>2. CASE This \notin DOMAIN LengthOf
    <3>1. UNCHANGED <<pos, flags>>
      BY <1>9, <2>2 DEF Length
    <3> QED BY <2>1, <3>1, <1>1, ReadsOn DEF Reading
  <2>3. CASE This \in DOMAIN LengthOf
    <3>1. This # "NUL" /\ LengthOf[This] \subseteq Flags
      BY <2>3, FlagIsFlag
    <3>2. CASE This \in DOMAIN DoubleOf /\ Format(pos + 1) = This
      <4>1. pos' = pos + 2 /\ flags' = flags \cup LengthOf[This] \cup DoubleOf[This]
        BY <1>9, <2>3, <3>2 DEF Length
      <4>2. DoubleOf[This] \subseteq Flags
        BY <3>2, FlagIsFlag
      <4> QED BY <2>1, <3>1, <3>2, <4>1, <4>2, <1>1, <1>2, ReadsOn DEF Reading
    <3>3. CASE ~(This \in DOMAIN DoubleOf /\ Format(pos + 1) = This)
      <4>1. pos' = pos + 1 /\ flags' = flags \cup LengthOf[This]
        BY <1>9, <2>3, <3>3 DEF Length
      <4> QED BY <2>1, <3>1, <4>1, <1>1, <1>2, ReadsOn DEF Reading
    <3> QED BY <3>2, <3>3
  <2> QED BY <2>2, <2>3
<1>10. CASE Unsupported
  <2>1. This # "NUL"
    BY <1>10, FlagIsFlag DEF Unsupported
  <2> QED BY <2>1, <1>1, <1>2, <1>10, ReadsOn DEF Unsupported, Reading, directive
<1> QED BY <1>3, <1>4, <1>5, <1>6, <1>7, <1>8, <1>9, <1>10

-----------------------------------------------------------------------------
(* Putting a number together *)

(* Where a number is put together. *)
Calculating == {"digits", "ntoa", "frac", "zeros", "whole", "float", "out"}

(* Putting a number together leaves the text alone. *)
LEMMA Calculates ==
  ASSUME PrintfInv, UNCHANGED <<call, precision, output>>,
         pc \notin {"done", "lost"}, pc' \in Calculating,
         pos' \in Nat \ {0}, pos' <= Len(call.format) + 1, arg' \in Nat \ {0},
         flags' \subseteq Flags, width' \in Nat,
         value' \in Nat, whole' \in Nat, count' \in Nat, negative' \in BOOLEAN, base' \in {2, 8, 10, 16},
         buf' \in Seq(Charset), NumberFits'
  PROVE  PrintfInv'
<1>1. PrintfType'
  BY DEF PrintfInv, PrintfType, output, Calculating
<1>2. TextKept'
  BY DEF PrintfInv, TextKept, output, Calculating, Take
<1>3. FormatHeld'
  BY DEF FormatHeld
<1> QED BY <1>1, <1>2, <1>3 DEF PrintfInv

(* What stays as it is while a number is put together. *)
LEMMA NumberTypes ==
  ASSUME PrintfInv
  PROVE  /\ pos \in Nat \ {0} /\ arg \in Nat \ {0} /\ flags \subseteq Flags
         /\ width \in Nat /\ precision \in Nat /\ value \in Nat /\ whole \in Nat /\ count \in Nat
         /\ negative \in BOOLEAN /\ base \in {2, 8, 10, 16} /\ buf \in Seq(Charset)
         /\ pc # "lost" => pos <= Len(call.format) + 1
         /\ This # "NUL" => pos + 1 <= Len(call.format) + 1
         /\ pos + 1 \in Nat \ {0} /\ arg + 1 \in Nat \ {0}
<1>1. /\ pos \in Nat \ {0} /\ arg \in Nat \ {0} /\ flags \subseteq Flags
      /\ width \in Nat /\ precision \in Nat /\ value \in Nat /\ whole \in Nat /\ count \in Nat
      /\ base \in {2, 8, 10, 16} /\ buf \in Seq(Charset)
      /\ pc # "lost" => pos <= Len(call.format) + 1
  BY DEF PrintfInv, PrintfType, FormatHeld
<1>2. negative \in BOOLEAN
  BY DEF PrintfInv, PrintfType
<1> QED BY <1>1, <1>2, ThisIsChar

(* _ntoa_long starts with an empty buffer. *)
LEMMA NtoaStarts ==
  ASSUME PrintfInv, NEW v \in Nat, NEW f \in SUBSET Flags, NEW b \in {2, 8, 10, 16}, NEW w \in Nat,
         NEW n \in BOOLEAN, pc = "specifier", This \notin {"f", "F", "NUL"}, Ntoa(v, f, b, w, n)
  PROVE  PrintfInv'
<1>1. /\ value' = v /\ negative' = n /\ base' = b /\ buf' = <<>> /\ width' = w
      /\ pos' = pos + 1 /\ arg' = arg + 1 /\ UNCHANGED <<call, precision, whole, count, output>>
  BY DEF Ntoa
<1>2. flags' \subseteq Flags /\ pc' \in {"digits", "ntoa"}
  BY DEF Ntoa
<1>3. Format(pos - 1)' = This
  BY <1>1, NumberTypes DEF Format, This
<1>4. buf' \in Seq(Charset) /\ Len(buf') = 0
  BY <1>1
<1>5. NumberFits'
  BY <1>2, <1>3, <1>4, PrintfConstants DEF NumberFits, InNtoa, InFtoa
<1> QED BY <1>1, <1>2, <1>4, <1>5, NumberTypes, Calculates DEF Calculating

(* An argument cut to the size its length modifier tells. *)
LEMMA UnsignedIsNat ==
  ASSUME NEW n \in Int, NEW bits \in {CHAR_BIT, SHORT_BIT, INT_BIT, LLONG_BIT}
  PROVE  Unsigned(n, bits) \in Nat /\ Signed(n, bits) \in Int
<1> DEFINE w == 2^bits
           h == 2^(bits - 1)
           u == n % w
<1>1. w \in Nat \ {0}
  BY PrintfConstants
<1>2. bits - 1 \in Nat
  BY PrintfConstants
<1>3. h \in Int
  BY <1>2
<1>4. Unsigned(n, bits) = u /\ Signed(n, bits) = IF u < h THEN u ELSE u - w
  BY DEF Unsigned, Signed
<1> HIDE DEF w, h
<1>5. u \in Nat
  BY <1>1
<1> HIDE DEF u
<1> QED BY <1>1, <1>3, <1>4, <1>5

(* That size is one of a type of C. *)
LEMMA BitsAreOfAType == Bits \in {CHAR_BIT, SHORT_BIT, INT_BIT, LLONG_BIT}
BY DEF Bits

(* %d, %u, %x and their like. *)
LEMMA IntegerStep ==
  ASSUME PrintfInv, ArgumentsPassed, Integer
  PROVE  PrintfInv'
<1> DEFINE signed == This \in {"d", "i"}
           v == IF signed THEN Signed(Argument("int"), Bits) ELSE Unsigned(Argument("int"), Bits)
           dropped == (IF BaseOf[This] = 10 THEN {"HASH"} ELSE {})
                      \cup (IF signed THEN {} ELSE {"PLUS", "SPACE"})
                      \cup (IF "PRECISION" \in flags THEN {"ZEROPAD"} ELSE {})
           kept == (IF This = "X" THEN flags \cup {"UPPERCASE"} ELSE flags) \ dropped
           magnitude == IF v > 0 THEN v ELSE 0 - v
           minus == v < 0
<1>1. /\ pc = "specifier" /\ This \in DOMAIN BaseOf /\ Supported
      /\ Ntoa(magnitude, kept, BaseOf[This], width, minus)
  BY DEF Integer
<1>2. Argument("int") \in Int
  BY <1>1, ArgumentTypes DEF TakesArgument, PrintfInv
<1>3. v \in Int
  BY <1>2, UnsignedIsNat, BitsAreOfAType
<1>4. kept \in SUBSET Flags
  BY NumberTypes DEF Flags
<1>5. BaseOf[This] \in {2, 8, 10, 16} /\ This \notin {"f", "F", "NUL"}
  BY <1>1, FlagIsFlag DEF BaseOf
<1> HIDE DEF v, kept
<1>6. magnitude \in Nat
  BY <1>3
<1>7. minus \in BOOLEAN
  OBVIOUS
<1> HIDE DEF magnitude, minus, dropped, signed
<1>8. width \in Nat
  BY NumberTypes
<1> QED BY <1>1, <1>4, <1>5, <1>6, <1>7, <1>8, NtoaStarts

(* %p. *)
LEMMA PointerStep ==
  ASSUME PrintfInv, ArgumentsPassed, Pointer
  PROVE  PrintfInv'
<1> DEFINE v == Unsigned(Argument("int"), INT_BIT)
           f == flags \cup {"ZEROPAD", "UPPERCASE"}
           w == INT_BIT \div 4
<1>1. pc = "specifier" /\ This = "p" /\ Ntoa(v, f, 16, w, FALSE)
  BY DEF Pointer
<1>2. Argument("int") \in Int
  BY <1>1, ArgumentTypes DEF TakesArgument, PrintfInv
<1>3. v \in Nat
  BY <1>2, UnsignedIsNat
<1>4. f \in SUBSET Flags
  BY NumberTypes DEF Flags
<1>5. w \in Nat
  BY PrintfConstants
<1> HIDE DEF v, f, w
<1>6. FALSE \in BOOLEAN /\ 16 \in {2, 8, 10, 16} /\ This \notin {"f", "F", "NUL"}
  BY <1>1
<1> QED BY <1>1, <1>3, <1>4, <1>5, <1>6, NtoaStarts

(* %f, up to the buffer. *)
LEMMA FloatStep ==
  ASSUME PrintfInv, ArgumentsPassed, Float
  PROVE  PrintfInv'
<1> DEFINE v == Argument("float")
           places == FloatPrecision - Len(Beyond)
           m == IF v < 0 THEN 0 - v ELSE v
           r == IF places > MaxPrecision THEN [whole |-> 0, frac |-> 0] ELSE Rounded(m, places)
           minus == v < 0
<1>1. /\ pc = "specifier" /\ This \in {"f", "F"}
      /\ negative' = minus /\ whole' = r.whole /\ value' = r.frac /\ count' = places
      /\ pc' = (IF places = 0 THEN "whole" ELSE "frac")
      /\ buf' = Beyond
      /\ flags' = (IF This = "F" THEN flags \cup {"UPPERCASE"} ELSE flags)
      /\ pos' = pos + 1 /\ arg' = arg + 1
      /\ UNCHANGED <<call, width, precision, base, output>>
  BY DEF Float
<1>2. v \in Int
  BY <1>1, ArgumentTypes DEF TakesArgument, PrintfInv
<1>3. /\ places \in Nat
      /\ Beyond \in Seq(Charset) /\ Len(Beyond) <= PRINTF_FTOA_BUFFER_SIZE
  BY BeyondFits DEF PrintfInv
<1> HIDE DEF places
<1>4. m \in Nat
  BY <1>2
<1> HIDE DEF m
<1>5. r.whole \in Nat /\ r.frac \in Nat
  <2>1. CASE places > MaxPrecision
    BY <2>1
  <2>2. CASE ~(places > MaxPrecision)
    <3>1. places \in 0 .. MaxPrecision
      BY <1>3, <2>2, PrintfConstants
    <3> QED BY <1>4, <2>2, <3>1, RoundedIsNat
  <2> QED BY <2>1, <2>2
<1>6. minus \in BOOLEAN
  OBVIOUS
<1> HIDE DEF r, minus
<1>7. negative' \in BOOLEAN
  BY <1>1, <1>6, Zenon
<1>8. flags' \subseteq Flags
  BY <1>1, NumberTypes DEF Flags
<1>9. Format(pos - 1)' = This
  BY <1>1, NumberTypes DEF Format, This
<1>10. NumberFits'
  BY <1>1, <1>3, <1>9 DEF NumberFits, InNtoa, InFtoa
<1>11. pc' \in Calculating /\ This # "NUL"
  BY <1>1 DEF Calculating
<1> QED BY <1>1, <1>3, <1>5, <1>7, <1>8, <1>10, <1>11, NumberTypes, Calculates

(* From here on a number is put together where the directive has left pos. *)
LEMMA Goes ==
  ASSUME PrintfInv, UNCHANGED <<call, pos, arg, flags, precision, negative, base, output>>,
         pc \in Calculating, pc' \in Calculating,
         width' \in Nat, value' \in Nat, whole' \in Nat, count' \in Nat, buf' \in Seq(Charset), NumberFits'
  PROVE  PrintfInv'
<1>1. pc \notin {"done", "lost"}
  BY DEF Calculating
<1>2. negative' \in BOOLEAN
  BY NumberTypes, Zenon
<1>3. pos' \in Nat \ {0} /\ pos' <= Len(call.format) + 1 /\ arg' \in Nat \ {0} /\ flags' \subseteq Flags
      /\ base' \in {2, 8, 10, 16}
  BY <1>1, NumberTypes
<1> QED BY <1>1, <1>2, <1>3, Calculates

(* A digit of an integer. *)
LEMMA DigitStep ==
  ASSUME PrintfInv, Digit
  PROVE  PrintfInv'
<1>1. /\ pc = "digits" /\ value' = value \div base
      /\ buf' = Append(buf, DigitChar(value % base))
      /\ pc' = (IF value' # 0 /\ Len(buf') < PRINTF_NTOA_BUFFER_SIZE THEN "digits" ELSE "ntoa")
      /\ UNCHANGED <<call, pos, arg, flags, precision, negative, base, output>>
      /\ UNCHANGED <<width, whole, count>>
  BY DEF Digit, directive
<1>2. value \in Nat /\ base \in 2 .. 16 /\ buf \in Seq(Charset)
  BY NumberTypes
<1>3. value \div base \in Nat /\ value % base \in 0 .. 15
  <2>1. value % base \in 0 .. base - 1 /\ value \div base \in Nat
    BY <1>2, QuotientOfNat
  <2> QED BY <1>2, <2>1
<1>4. DigitChar(value % base) \in Charset
  BY <1>3, DigitIsChar
<1>5. buf' \in Seq(Charset) /\ Len(buf') = Len(buf) + 1 /\ Len(buf) \in Nat
  BY <1>1, <1>2, <1>4
<1>6. Len(buf) < PRINTF_NTOA_BUFFER_SIZE /\ Format(pos - 1) \notin {"f", "F"}
  BY <1>1 DEF PrintfInv, NumberFits, InNtoa
<1>7. Format(pos - 1)' = Format(pos - 1)
  BY <1>1 DEF Format
<1>8. NumberFits'
  BY <1>1, <1>5, <1>6, <1>7, PrintfConstants DEF NumberFits, InNtoa, InFtoa
<1>9. pc \in Calculating /\ pc' \in Calculating
  BY <1>1 DEF Calculating
<1> QED BY <1>1, <1>3, <1>5, <1>8, <1>9, NumberTypes, Goes

(* Zeros, prefix and sign of an integer. *)
LEMMA NtoaFormatStep ==
  ASSUME PrintfInv, NtoaFormat
  PROVE  PrintfInv'
<1>1. /\ pc = "ntoa" /\ pc' = "out" /\ width' = ZeroWidth
      /\ buf' = WithSign(WithPrefix(WithZeros(buf, ZeroWidth), ZeroWidth))
      /\ UNCHANGED <<call, pos, arg, flags, precision, negative, base, output>>
      /\ UNCHANGED <<value, whole, count>>
  BY DEF NtoaFormat
<1>2. ZeroWidth \in Nat
  BY NumberTypes, ZeroWidthIsNat
<1>3. Fits(buf) /\ Format(pos - 1) \notin {"f", "F"} /\ BufferSize = PRINTF_NTOA_BUFFER_SIZE
  BY <1>1, NumberTypes DEF PrintfInv, NumberFits, InNtoa, Fits, BufferSize, InFtoa
<1>4. Fits(WithZeros(buf, ZeroWidth))
  BY <1>2, <1>3, NumberTypes, WithZerosFits
<1>5. Fits(WithPrefix(WithZeros(buf, ZeroWidth), ZeroWidth))
  BY <1>2, <1>4, WithPrefixFits
<1>6. Fits(WithSign(WithPrefix(WithZeros(buf, ZeroWidth), ZeroWidth)))
  BY <1>5, WithSignFits
<1>7. buf' \in Seq(Charset) /\ Len(buf') <= PRINTF_NTOA_BUFFER_SIZE
  BY <1>1, <1>3, <1>6 DEF Fits
<1>8. Format(pos - 1)' = Format(pos - 1)
  BY <1>1 DEF Format
<1>9. NumberFits'
  BY <1>1, <1>3, <1>7, <1>8 DEF NumberFits, InNtoa, InFtoa
<1>10. pc \in Calculating /\ pc' \in Calculating
  BY <1>1 DEF Calculating
<1> QED BY <1>1, <1>2, <1>7, <1>9, <1>10, NumberTypes, Goes

(* In _ftoa every step leaves a number that fits its buffer. *)
LEMMA FloatGoes ==
  ASSUME PrintfInv, UNCHANGED <<call, pos, arg, flags, precision, negative, base, output>>,
         InFtoa, pc' \in {"frac", "zeros", "whole", "float", "out"},
         width' \in Nat, value' \in Nat, whole' \in Nat, count' \in Nat,
         buf' \in Seq(Charset), Len(buf') <= PRINTF_FTOA_BUFFER_SIZE
  PROVE  PrintfInv'
<1>1. Format(pos - 1) \in {"f", "F"}
  BY DEF PrintfInv, NumberFits
<1>2. Format(pos - 1)' = Format(pos - 1)
  BY DEF Format
<1>3. NumberFits'
  BY <1>1, <1>2 DEF NumberFits, InNtoa, InFtoa
<1>4. pc \in Calculating /\ pc' \in Calculating
  BY DEF Calculating, InFtoa
<1> QED BY <1>3, <1>4, Goes

(* In _ftoa it is the buffer of _ftoa that is filled. *)
LEMMA FloatBuffer ==
  ASSUME PrintfInv, InFtoa
  PROVE  Fits(buf) /\ BufferSize = PRINTF_FTOA_BUFFER_SIZE
BY NumberTypes DEF PrintfInv, NumberFits, Fits, BufferSize

(* A digit is put where there is room for one. *)
LEMMA NumeralFits ==
  ASSUME PrintfInv, InFtoa, ~Full, NEW n \in Nat
  PROVE  /\ Append(buf, Numeral(n)) \in Seq(Charset)
         /\ Len(Append(buf, Numeral(n))) <= PRINTF_FTOA_BUFFER_SIZE
         /\ n \div 10 \in Nat
<1>1. buf \in Seq(Charset) /\ Len(buf) \in Nat /\ Len(buf) < PRINTF_FTOA_BUFFER_SIZE
  BY FloatBuffer, PrintfConstants DEF Fits, Full
<1>2. Numeral(n) \in Charset
  BY NumeralIsChar
<1>3. Append(buf, Numeral(n)) \in Seq(Charset) /\ Len(Append(buf, Numeral(n))) = Len(buf) + 1
  BY <1>1, <1>2
<1>4. n \div 10 \in Nat
  BY QuotientOfNat
<1> QED BY <1>1, <1>3, <1>4, PrintfConstants

(* The digits, the point, zeros and sign of a double. *)
LEMMA FloatDigitsStep ==
  ASSUME PrintfInv, FracDigit \/ Point \/ WholeDigit \/ FtoaFormat
  PROVE  PrintfInv'
<1>1. CASE FracDigit
  <2>1. /\ pc = "frac" /\ ~Full /\ buf' = Append(buf, Numeral(value)) /\ value' = value \div 10
        /\ count' = (count - 1) % 2^INT_BIT
        /\ pc' = (IF value' = 0 THEN "zeros" ELSE "frac")
        /\ UNCHANGED <<call, pos, arg, flags, precision, negative, base, output>> /\ UNCHANGED <<width, whole>>
    BY <1>1 DEF FracDigit, directive
  <2>2. InFtoa /\ pc' \in {"frac", "zeros", "whole", "float", "out"}
    BY <2>1 DEF InFtoa
  <2>3. count' \in Nat
    <3> DEFINE w == 2^INT_BIT
    <3>1. w \in Nat \ {0} /\ count' = (count - 1) % w /\ count - 1 \in Int
      BY <2>1, NumberTypes, PrintfConstants
    <3> HIDE DEF w
    <3> QED BY <3>1
  <2> QED BY <2>1, <2>2, <2>3, NumberTypes, NumeralFits, FloatGoes
<1>2. CASE Point
  <2>1. /\ buf' = Push(UpTo(buf, Len(buf) + count), ".") /\ pc \in {"zeros", "frac"} /\ pc' = "whole"
        /\ UNCHANGED <<call, pos, arg, flags, precision, negative, base, output>>
        /\ UNCHANGED <<width, value, whole, count>>
    BY <1>2 DEF Point, directive
  <2>2. InFtoa /\ pc' \in {"frac", "zeros", "whole", "float", "out"}
    BY <2>1 DEF InFtoa
  <2>3. Len(buf) + count \in Nat
    BY NumberTypes
  <2>4. Fits(Push(UpTo(buf, Len(buf) + count), "."))
    BY <2>2, <2>3, FloatBuffer, UpToFits, PushFits, CharsOfPrintf
  <2>5. buf' \in Seq(Charset) /\ Len(buf') <= PRINTF_FTOA_BUFFER_SIZE
    BY <2>1, <2>2, <2>4, FloatBuffer DEF Fits
  <2> QED BY <2>1, <2>2, <2>5, NumberTypes, FloatGoes
<1>3. CASE WholeDigit
  <2>1. /\ pc = "whole" /\ ~Full /\ buf' = Append(buf, Numeral(whole)) /\ whole' = whole \div 10
        /\ pc' = (IF whole' = 0 THEN "float" ELSE "whole")
        /\ UNCHANGED <<call, pos, arg, flags, precision, negative, base, output>> /\ UNCHANGED <<width, value, count>>
    BY <1>3 DEF WholeDigit, directive
  <2>2. InFtoa /\ pc' \in {"frac", "zeros", "whole", "float", "out"}
    BY <2>1 DEF InFtoa
  <2> QED BY <2>1, <2>2, NumberTypes, NumeralFits, FloatGoes
<1>4. CASE FtoaFormat
  <2> DEFINE b == IF flags \cap {"LEFT", "ZEROPAD"} = {"ZEROPAD"} THEN UpTo(buf, ZeroWidth) ELSE buf
  <2>1. /\ buf' = WithSign(b) /\ width' = ZeroWidth /\ pc \in {"float", "whole"} /\ pc' = "out"
        /\ UNCHANGED <<call, pos, arg, flags, precision, negative, base, output>>
        /\ UNCHANGED <<value, whole, count>>
    BY <1>4 DEF FtoaFormat
  <2>2. InFtoa /\ pc' \in {"frac", "zeros", "whole", "float", "out"}
    BY <2>1 DEF InFtoa
  <2>3. ZeroWidth \in Nat
    BY NumberTypes, ZeroWidthIsNat
  <2>4. Fits(b)
    BY <2>2, <2>3, FloatBuffer, UpToFits
  <2> HIDE DEF b
  <2>5. buf' \in Seq(Charset) /\ Len(buf') <= PRINTF_FTOA_BUFFER_SIZE
    BY <2>1, <2>2, <2>4, FloatBuffer, WithSignFits DEF Fits
  <2> QED BY <2>1, <2>2, <2>3, <2>5, NumberTypes, FloatGoes
<1> QED BY <1>1, <1>2, <1>3, <1>4

-----------------------------------------------------------------------------
(* Putting out *)

(* Whatever is given to the output function: the caller's buffer goes on to
   hold what there is room for of the text. *)
LEMMA PutsOut ==
  ASSUME PrintfInv, NEW s \in Seq(Charset), Out(s), UNCHANGED <<call, directive, number>>,
         pc \notin {"done", "lost"}, pc' \in {"format", "lost"},
         pos' \in Nat \ {0}, pc' # "lost" => pos' <= Len(call.format) + 1, arg' \in Nat \ {0}
  PROVE  PrintfInv'
<1>1. text \in Seq(Charset) /\ (call.sink = "buffer" => call.maxlen \in Nat)
  BY DEF PrintfInv, PrintfType, IsCall
<1>2. text' = text \o s /\ text' \in Seq(Charset)
  BY <1>1, ConcatProperties DEF Out
<1>3. PrintfType'
  BY <1>2 DEF PrintfInv, PrintfType, number, directive
<1>4. NumberFits'
  BY DEF NumberFits, InNtoa, InFtoa
<1>5. ASSUME call.sink = "buffer"
      PROVE  dest' = Take(text', call.maxlen)
  <2>1. dest = Take(text, call.maxlen)
    BY <1>5 DEF PrintfInv, TextKept
  <2>2. Kept(s) = Take(s, call.maxlen - Len(dest))
    BY <1>5 DEF Kept
  <2>3. dest' = Take(text, call.maxlen) \o Take(s, call.maxlen - Len(Take(text, call.maxlen)))
    BY <2>1, <2>2 DEF Out
  <2>4. Take(text \o s, call.maxlen)
          = Take(text, call.maxlen) \o Take(s, call.maxlen - Len(Take(text, call.maxlen)))
    BY <1>1, <1>5, TakeOfConcat
  <2> QED BY <1>2, <2>3, <2>4
<1>6. TextKept'
  BY <1>5 DEF TextKept, Take
<1>7. FormatHeld'
  BY DEF FormatHeld
<1> QED BY <1>3, <1>4, <1>6, <1>7 DEF PrintfInv

(* Blanks before or behind. *)
LEMMA PaddedType ==
  ASSUME PrintfInv, NEW s \in Seq(Charset)
  PROVE  Padded(s) \in Seq(Charset)
<1> DEFINE n == width - Len(s)
<1>1. n \in Int
  BY NumberTypes
<1>2. Padded(s) = IF "LEFT" \in flags THEN s \o Fill(" ", n) ELSE Fill(" ", n) \o s
  BY DEF Padded
<1> HIDE DEF n
<1>3. Fill(" ", n) \in Seq(Charset)
  BY <1>1, FillType, CharsOfPrintf
<1>4. s \o Fill(" ", n) \in Seq(Charset) /\ Fill(" ", n) \o s \in Seq(Charset)
  BY <1>3, ConcatProperties
<1> QED BY <1>2, <1>4

(* The steps that give something to the output function. *)
LEMMA OutputStep ==
  ASSUME PrintfInv, ArgumentsPassed, Literal \/ Character \/ String \/ Other \/ OutRev
  PROVE  PrintfInv'
<1>1. This \in Charset /\ <<This>> \in Seq(Charset)
  BY ThisIsChar
<1>2. CASE Literal
  BY <1>1, <1>2, NumberTypes, PutsOut DEF Literal
<1>3. CASE Character
  <2> DEFINE c == Argument("char")
  <2>1. /\ pc = "specifier" /\ This = "c" /\ Out(Padded(<<c>>)) /\ pc' = "format"
        /\ pos' = pos + 1 /\ arg' = arg + 1 /\ UNCHANGED <<call, directive, number>>
    BY <1>3 DEF Character
  <2>2. c \in Charset
    BY <2>1, ArgumentTypes DEF TakesArgument, PrintfInv
  <2> HIDE DEF c
  <2>3. <<c>> \in Seq(Charset)
    BY <2>2
  <2>4. Padded(<<c>>) \in Seq(Charset)
    BY <2>3, PaddedType
  <2>5. pos' \in Nat \ {0} /\ arg' \in Nat \ {0} /\ pos' <= Len(call.format) + 1
    BY <2>1, NumberTypes
  <2> QED BY <2>1, <2>4, <2>5, PutsOut
<1>4. CASE String
  <2> DEFINE s == IF "PRECISION" \in flags THEN Take(Argument("string"), precision) ELSE Argument("string")
  <2>1. /\ pc = "specifier" /\ This = "s" /\ Out(Padded(s)) /\ pc' = "format"
        /\ pos' = pos + 1 /\ arg' = arg + 1 /\ UNCHANGED <<call, directive, number>>
    BY <1>4 DEF String
  <2>2. Argument("string") \in Seq(Charset)
    BY <2>1, ArgumentTypes DEF TakesArgument, PrintfInv
  <2>3. s \in Seq(Charset)
    BY <2>2, NumberTypes, TakeType
  <2> HIDE DEF s
  <2>4. Padded(s) \in Seq(Charset)
    BY <2>3, PaddedType
  <2>5. pos' \in Nat \ {0} /\ arg' \in Nat \ {0} /\ pos' <= Len(call.format) + 1
    BY <2>1, NumberTypes
  <2> QED BY <2>1, <2>4, <2>5, PutsOut
<1>5. CASE Other
  <2>1. /\ pc = "specifier" /\ Out(<<This>>) /\ pc' = (IF This = "NUL" THEN "lost" ELSE "format")
        /\ pos' = pos + 1 /\ UNCHANGED <<call, arg, directive, number>>
    BY <1>5 DEF Other
  <2>2. pos' \in Nat \ {0} /\ arg' \in Nat \ {0} /\ (pc' # "lost" => pos' <= Len(call.format) + 1)
    BY <2>1, NumberTypes
  <2> QED BY <1>1, <2>1, <2>2, PutsOut
<1>6. CASE OutRev
  <2> DEFINE s == IF flags \cap {"LEFT", "ZEROPAD"} = {"ZEROPAD"} THEN Reverse(buf) ELSE Padded(Reverse(buf))
  <2>1. pc = "out" /\ Out(s) /\ pc' = "format" /\ UNCHANGED <<call, pos, arg, directive, number>>
    BY <1>6 DEF OutRev
  <2>2. Reverse(buf) \in Seq(Charset)
    BY NumberTypes, ReverseType
  <2>3. s \in Seq(Charset)
    BY <2>2, PaddedType
  <2> HIDE DEF s
  <2>4. pos' \in Nat \ {0} /\ arg' \in Nat \ {0} /\ pos' <= Len(call.format) + 1
    BY <2>1, NumberTypes
  <2> QED BY <2>1, <2>3, <2>4, PutsOut
<1> QED BY <1>2, <1>3, <1>4, <1>5, <1>6

(* The NUL goes behind what has been kept, or on its last place. *)
LEMMA TerminateStep ==
  ASSUME PrintfInv, Terminate
  PROVE  PrintfInv'
<1>1. /\ pc = "format" /\ pc' = "done" /\ UNCHANGED <<call, pos, arg, directive, number, text>>
      /\ call.sink = "buffer" /\ call.maxlen = 0 => dest' = dest
      /\ call.sink = "buffer" /\ call.maxlen # 0 => dest' = Append(Take(dest, call.maxlen - 1), "NUL")
  BY DEF Terminate
<1>2. PrintfType'
  BY <1>1 DEF PrintfInv, PrintfType, number, directive
<1>3. NumberFits'
  BY <1>1 DEF NumberFits, InNtoa, InFtoa
<1>4. text \in Seq(Charset) /\ call.maxlen \in Nat
  BY DEF PrintfInv, PrintfType, IsCall
<1>5. call.sink = "buffer" => dest = Take(text, call.maxlen)
  BY <1>1 DEF PrintfInv, TextKept
<1>6. call.maxlen = 0 => Take(text, call.maxlen) = <<>>
  <2>1. call.maxlen = 0 => Take(text, call.maxlen) \in Seq(Charset) /\ Len(Take(text, call.maxlen)) = 0
    BY <1>4, TakeType
  <2> QED BY <2>1
<1>7. call.maxlen # 0 => Take(Take(text, call.maxlen), call.maxlen - 1) = Take(text, call.maxlen - 1)
  BY <1>4, TakeShorter
<1>8. TextKept'
  BY <1>1, <1>5, <1>6, <1>7 DEF TextKept, Take
<1>9. FormatHeld'
  BY <1>1 DEF PrintfInv, FormatHeld
<1> QED BY <1>2, <1>3, <1>8, <1>9 DEF PrintfInv

-----------------------------------------------------------------------------
(* Where a call of printf starts, and what stands for no call. *)
LEMMA PrintfAtInv ==
  ASSUME NEW c, IsCall(c), NEW where \in {"format", "done"}, PrintfAt(c, where),
         where = "done" => c.sink # "buffer"
  PROVE  PrintfInv
<1>1. /\ call = c /\ pc = where /\ pos = 1 /\ arg = 1 /\ flags = {} /\ width = 0 /\ precision = 0
      /\ value = 0 /\ negative = FALSE /\ base = 10 /\ whole = 0 /\ count = 0 /\ buf = <<>>
      /\ text = <<>> /\ dest = <<>>
  BY DEF PrintfAt
<1>2. PrintfType
  <2>1. negative \in BOOLEAN
    BY <1>1, Zenon
  <2>2. /\ pos \in Nat \ {0} /\ arg \in Nat \ {0} /\ flags \subseteq Flags
        /\ width \in Nat /\ precision \in Nat /\ value \in Nat /\ whole \in Nat /\ count \in Nat
        /\ base \in {2, 8, 10, 16} /\ buf \in Seq(Charset) /\ text \in Seq(Charset)
    BY <1>1
  <2>3. IsCall(call)
    BY <1>1
  <2>4. pc \in {"format", "done"}
    BY <1>1
  <2> QED BY <2>1, <2>2, <2>3, <2>4 DEF PrintfType
<1>3. NumberFits
  BY <1>1 DEF NumberFits, InNtoa, InFtoa
<1>4. TextKept
  <2>1. ASSUME c.sink = "buffer"
        PROVE  <<>> = Take(<<>>, c.maxlen)
    BY <2>1, TakeOfNothing DEF IsCall
  <2> QED BY <1>1, <2>1 DEF TextKept
<1>5. FormatHeld
  BY <1>1 DEF FormatHeld, IsCall
<1> QED BY <1>2, <1>3, <1>4, <1>5 DEF PrintfInv

(* A step of another function. *)
LEMMA PrintfStutters ==
  ASSUME PrintfInv, UNCHANGED printfVars
  PROVE  PrintfInv'
<1>1. UNCHANGED <<call, pc, pos, arg, flags, width, precision, value, negative, base, whole, count, buf, text, dest>>
  BY DEF printfVars, directive, number, output
<1>2. negative' \in BOOLEAN
  BY <1>1, Zenon DEF PrintfInv, PrintfType
<1>3. PrintfType'
  BY <1>1, <1>2 DEF PrintfInv, PrintfType
<1>4. NumberFits'
  BY <1>1 DEF PrintfInv, NumberFits, InNtoa, InFtoa, Format
<1>5. TextKept' /\ FormatHeld'
  BY <1>1 DEF PrintfInv, TextKept, FormatHeld, Take
<1> QED BY <1>3, <1>4, <1>5 DEF PrintfInv

(* The first step of printf, *)
LEMMA PrintfInvInit == PrintfInit => PrintfInv
<1> SUFFICES ASSUME NEW c \in Calls, PrintfAt(c, "format")
             PROVE  PrintfInv
  BY DEF PrintfInit
<1>1. IsCall(c)
  BY PrintfAssumption
<1> QED BY <1>1, PrintfAtInv

(* and every other. *)
LEMMA PrintfInvStep ==
  ASSUME PrintfInv, ArgumentsPassed, [PrintfNext]_printfVars
  PROVE  PrintfInv'
<1>1. CASE Percent \/ Flag \/ Width \/ WidthDigit \/ Precision \/ PrecisionDigit \/ Length \/ Unsupported
  BY <1>1, ReadingStep
<1>2. CASE Integer
  BY <1>2, IntegerStep
<1>3. CASE Pointer
  BY <1>3, PointerStep
<1>4. CASE Float
  BY <1>4, FloatStep
<1>5. CASE Digit
  BY <1>5, DigitStep
<1>6. CASE NtoaFormat
  BY <1>6, NtoaFormatStep
<1>7. CASE FracDigit \/ Point \/ WholeDigit \/ FtoaFormat
  BY <1>7, FloatDigitsStep
<1>8. CASE Literal \/ Character \/ String \/ Other \/ OutRev
  BY <1>8, OutputStep
<1>9. CASE Terminate
  BY <1>9, TerminateStep
<1>10. CASE UNCHANGED printfVars
  BY <1>10, PrintfStutters
<1> QED BY <1>1, <1>2, <1>3, <1>4, <1>5, <1>6, <1>7, <1>8, <1>9, <1>10 DEF PrintfNext

(* If every argument that the format asks for is passed, no number overruns
   its buffer and nothing is written behind the caller's. *)
THEOREM PrintfInvariant == Spec /\ []ArgumentsPassed => []PrintfInv
<1>1. Init => PrintfInv
  <2>1. IsCall(NoCall)
    BY DEF NoCall, IsCall, Libraries, Sinks
  <2>2. PrintfAt(NoCall, "done") => PrintfInv
    BY <2>1, PrintfAtInv DEF NoCall
  <2> QED BY <2>2, PrintfInvInit DEF Init
<1>2. PrintfInv /\ ArgumentsPassed /\ [Next]_vars => PrintfInv'
  BY PrintfInvStep DEF Next, vars
<1> QED BY <1>1, <1>2, PTL DEF Spec

(* What the invariant of printf says of its buffers. *)
LEMMA InvariantStays == PrintfInv /\ StringsType => StaysInBuffers
<1> SUFFICES ASSUME PrintfInv, StringsType
             PROVE  StaysInBuffers
  OBVIOUS
<1>1. pc \in {"digits", "ntoa", "frac", "zeros", "whole", "float", "out"} =>
        Len(buf) <= IF Format(pos - 1) \in {"f", "F"} THEN PRINTF_FTOA_BUFFER_SIZE
                                                      ELSE PRINTF_NTOA_BUFFER_SIZE
  BY DEF PrintfInv, NumberFits, InNtoa, InFtoa
<1>2. ASSUME call.sink = "buffer"
      PROVE  Len(dest) <= call.maxlen
  <2>1. text \in Seq(Charset) /\ call.maxlen \in Nat
    BY DEF PrintfInv, PrintfType, IsCall
  <2>2. CASE pc # "done"
    <3>1. dest = Take(text, call.maxlen)
      BY <1>2, <2>2 DEF PrintfInv, TextKept
    <3>2. Len(Take(text, call.maxlen)) = IF call.maxlen < Len(text) THEN call.maxlen ELSE Len(text)
      BY <2>1, TakeType
    <3> QED BY <2>1, <3>1, <3>2
  <2>3. CASE pc = "done" /\ call.maxlen = 0
    BY <1>2, <2>3 DEF PrintfInv, TextKept
  <2>4. CASE pc = "done" /\ call.maxlen # 0
    <3> DEFINE t == Take(text, call.maxlen - 1)
    <3>1. dest = Append(t, "NUL")
      BY <1>2, <2>4 DEF PrintfInv, TextKept
    <3>2. call.maxlen - 1 \in Nat
      BY <2>1, <2>4
    <3>3. t \in Seq(Charset) /\ Len(t) <= call.maxlen - 1
      BY <2>1, <3>2, TakeType
    <3> HIDE DEF t
    <3>4. Len(Append(t, "NUL")) = Len(t) + 1 /\ Len(t) \in Nat
      BY <3>3
    <3> QED BY <2>1, <3>1, <3>3, <3>4
  <2> QED BY <2>2, <2>3, <2>4
<1>3. pc = "done" /\ call.sink = "buffer" /\ call.maxlen # 0 =>
        dest = Append(Take(text, call.maxlen - 1), "NUL")
  BY DEF PrintfInv, TextKept
<1>4. pc # "lost" => pos <= Len(call.format) + 1
  BY DEF PrintfInv, FormatHeld
<1> QED BY <1>1, <1>2, <1>3, <1>4 DEF StaysInBuffers, PrintfInv

(* If the caller passes an argument for every directive, then no number
   overruns the buffer that _ntoa_long or _ftoa has for it, a buffer of the
   caller's is not written behind its end, holds, when the call is over, what
   there is room for of the text with a NUL behind it, and the format is not
   read behind its NUL, whatever the format, the arguments and the size. *)
THEOREM LibcStaysInBuffers == Spec /\ []ArgumentsPassed => []StaysInBuffers
<1>1. PrintfInv /\ StringsType => StaysInBuffers
  BY InvariantStays
<1>2. StringsInv => StringsType
  BY DEF StringsInv
<1> QED BY <1>1, <1>2, PrintfInvariant, LibcInvariant, PTL

-----------------------------------------------------------------------------
(* Induction.  The library's theorems take an operator; these take the set of
   the numbers for which something holds, which the provers can instantiate. *)

(* Induction, for a set of numbers. *)
LEMMA Induction ==
  ASSUME NEW S, 0 \in S, \A n \in Nat : n \in S => n + 1 \in S
  PROVE  Nat \subseteq S
<1> SUFFICES ASSUME NEW n \in Nat, n \notin S PROVE FALSE
  OBVIOUS
<1> DEFINE R == StrictSubsetOrdering(0 .. n)
           F == FiniteSubsetsOf(0 .. n)
           T == {I \in F : \E m \in 0 .. n : I = 0 .. m /\ m \notin S}
<1>1. IsWellFoundedOn(R, F)
  BY FS_StrictSubsetOrderingWellFounded
<1>2. \A m \in 0 .. n : 0 .. m \in F
  BY FS_Interval DEF FiniteSubsetsOf
<1>3. T \subseteq F /\ T # {}
  BY <1>2
<1>4. PICK I \in T : \A J \in T : <<J, I>> \notin R
  <2> HIDE DEF T, R, F
  <2> QED BY <1>1, <1>3, WFMin
<1>5. PICK m \in 0 .. n : I = 0 .. m /\ m \notin S
  OBVIOUS
<1>6. m # 0 /\ m - 1 \in Nat /\ m - 1 \notin S /\ m - 1 \in 0 .. n
  <2>1. m # 0
    BY <1>5
  <2>2. m - 1 \in Nat /\ m = (m - 1) + 1
    BY <2>1
  <2> QED BY <1>5, <2>1, <2>2
<1>7. 0 .. m - 1 \in T
  BY <1>2, <1>6
<1>8. 0 .. m - 1 \in SUBSET (0 .. n) /\ I \in SUBSET (0 .. n) /\ 0 .. m - 1 \subseteq I
  BY <1>5
<1>8a. 0 .. m - 1 # I
  BY <1>5
<1>9. <<0 .. m - 1, I>> \in R
  BY <1>8, <1>8a DEF StrictSubsetOrdering
<1> QED BY <1>4, <1>7, <1>9

(* Course-of-values *)
LEMMA StrongInduction ==
  ASSUME NEW S, \A n \in Nat : (\A m \in 0 .. n - 1 : m \in S) => n \in S
  PROVE  Nat \subseteq S
<1> DEFINE T == {n \in Nat : \A m \in 0 .. n : m \in S}
<1>1. 0 \in T
  OBVIOUS
<1>2. ASSUME NEW n \in Nat, n \in T PROVE n + 1 \in T
  <2>1. n + 1 \in S
    BY <1>2
  <2> QED BY <1>2, <2>1
<1>3. Nat \subseteq T
  <2> HIDE DEF T
  <2> QED BY <1>1, <1>2, Induction
<1> QED BY <1>3

-----------------------------------------------------------------------------
(* Sequences of sequences, joined *)

(* f[n] is the first n of ss, joined. *)
Joins(f, ss, m) ==
  /\ f = [n \in 0 .. m |-> f[n]]
  /\ f[0] = <<>>
  /\ \A n \in 1 .. m : f[n] = f[n - 1] \o ss[n]

(* Such an f exists, however long ss is. *)
LEMMA JoinExists ==
  ASSUME NEW X, NEW ss \in Seq(Seq(X))
  PROVE  \E f : Joins(f, ss, Len(ss))
<1> DEFINE S == {m \in Nat : \E f : Joins(f, ss, m)}
<1>1. 0 \in S
  <2> DEFINE f == [n \in 0 .. 0 |-> <<>>]
  <2>1. Joins(f, ss, 0)
    BY DEF Joins
  <2> QED BY <2>1
<1>2. ASSUME NEW m \in Nat, m \in S PROVE m + 1 \in S
  <2>1. PICK f : Joins(f, ss, m)
    BY <1>2
  <2> DEFINE g == [n \in 0 .. m + 1 |-> IF n = m + 1 THEN f[m] \o ss[m + 1] ELSE f[n]]
  <2>2. ASSUME NEW n \in 1 .. m + 1 PROVE g[n] = g[n - 1] \o ss[n]
    <3>1. n \in 0 .. m + 1 /\ n - 1 \in 0 .. m + 1 /\ n - 1 # m + 1
      OBVIOUS
    <3>2. g[n - 1] = f[n - 1]
      BY <3>1
    <3>3. CASE n = m + 1
      <4>1. n - 1 = m
        BY <3>3
      <4>2. g[n] = f[m] \o ss[n]
        BY <3>1, <3>3, Zenon
      <4> QED BY <3>2, <4>1, <4>2
    <3>4. CASE n # m + 1
      <4>1. n \in 1 .. m /\ g[n] = f[n]
        BY <3>1, <3>4
      <4> QED BY <2>1, <3>2, <4>1 DEF Joins
    <3> QED BY <3>3, <3>4
  <2>3. g[0] = <<>>
    <3>1. g[0] = f[0]
      OBVIOUS
    <3> QED BY <2>1, <3>1 DEF Joins
  <2>4. g = [n \in 0 .. m + 1 |-> g[n]]
    OBVIOUS
  <2>5. Joins(g, ss, m + 1)
    <3> HIDE DEF g
    <3> QED BY <2>2, <2>3, <2>4 DEF Joins
  <2>6. \E h : Joins(h, ss, m + 1)
    <3> HIDE DEF g
    <3> QED BY <2>5
  <2> QED BY <2>6
<1>3. Nat \subseteq S
  <2> HIDE DEF S
  <2> QED BY <1>1, <1>2, Induction
<1>4. Len(ss) \in Nat
  BY LenProperties
<1> QED BY <1>3, <1>4

(* FlattenSeq, whose function is chosen, is the last of them. *)
LEMMA Flatten ==
  ASSUME NEW X, NEW ss \in Seq(Seq(X))
  PROVE  \E f : Joins(f, ss, Len(ss)) /\ f[Len(ss)] = FlattenSeq(ss)
<1> DEFINE L == Len(ss)
<1>0. L \in Nat
  BY LenProperties
<1>1. CASE L = 0
  <2>1. ss = <<>>
    BY <1>1
  <2>2. PICK f : Joins(f, ss, L)
    BY JoinExists
  <2>3. FlattenSeq(ss) = <<>>
    BY <1>1, <2>1 DEF FlattenSeq
  <2>4. f[L] = <<>>
    BY <1>1, <2>2 DEF Joins
  <2> QED BY <2>2, <2>3, <2>4
<1>2. CASE L # 0
  <2> DEFINE F(g) == [i \in 1 .. L |-> IF i = 1 THEN ss[i] ELSE g[i - 1] \o ss[i]]
             G == CHOOSE g : g = F(g)
  <2>1. L \in Nat \ {0}
    BY <1>0, <1>2
  <2>2. \E g : g = F(g)
    <3>1. PICK f : Joins(f, ss, L)
      BY JoinExists
    <3> DEFINE h == [i \in 1 .. L |-> f[i]]
    <3>2. ASSUME NEW i \in 1 .. L PROVE h[i] = IF i = 1 THEN ss[i] ELSE h[i - 1] \o ss[i]
      <4>1. f[i] = f[i - 1] \o ss[i] /\ h[i] = f[i]
        BY <3>1 DEF Joins
      <4>2. CASE i = 1
        <5>1. f[0] = <<>> /\ ss[1] \in Seq(X)
          BY <2>1, <3>1, ElementOfSeq DEF Joins
        <5>2. <<>> \o ss[1] = ss[1]
          BY <5>1, ConcatEmptySeq
        <5>3. i - 1 = 0
          BY <4>2
        <5>4. f[1] = f[0] \o ss[1]
          BY <4>1, <4>2, <5>3
        <5> QED BY <4>1, <4>2, <5>1, <5>2, <5>4
      <4>3. CASE i # 1
        <5>1. i - 1 \in 1 .. L
          BY <4>3
        <5>2. h[i - 1] = f[i - 1]
          BY <5>1
        <5> QED BY <4>1, <4>3, <5>2
      <4> QED BY <4>2, <4>3
    <3>3. h = F(h)
      BY <3>2
    <3> QED BY <3>3
  <2>3. G = F(G)
    <3> HIDE DEF F
    <3> QED BY <2>2
  <2>4. FlattenSeq(ss) = G[L]
    BY <1>2 DEF FlattenSeq
  <2> HIDE DEF G
  <2>5. \A i \in 1 .. L : G[i] = IF i = 1 THEN ss[i] ELSE G[i - 1] \o ss[i]
    BY <2>3
  <2> DEFINE e == [n \in 0 .. L |-> IF n = 0 THEN <<>> ELSE G[n]]
  <2>6. e[0] = <<>> /\ e = [n \in 0 .. L |-> e[n]] /\ e[L] = G[L]
    BY <2>1
  <2>7. ASSUME NEW n \in 1 .. L PROVE e[n] = e[n - 1] \o ss[n]
    <3>1. e[n] = G[n]
      BY <2>1
    <3>2. CASE n = 1
      <4>1. ss[1] \in Seq(X)
        BY <2>1, ElementOfSeq
      <4>2. e[1] = ss[1]
        BY <2>5, <3>1, <3>2
      <4>3. <<>> \o ss[1] = ss[1]
        BY <4>1, ConcatEmptySeq
      <4>4. n - 1 = 0
        BY <3>2
      <4> QED BY <2>6, <3>2, <4>2, <4>3, <4>4
    <3>3. CASE n # 1
      <4>1. n - 1 \in 1 .. L /\ n - 1 # 0 /\ n - 1 \in 0 .. L
        BY <3>3
      <4>2. e[n - 1] = G[n - 1]
        BY <4>1
      <4>3. G[n] = G[n - 1] \o ss[n]
        BY <2>5, <3>3
      <4> QED BY <3>1, <4>2, <4>3
    <3> QED BY <3>2, <3>3
  <2>8. Joins(e, ss, L) /\ e[L] = FlattenSeq(ss)
    <3> HIDE DEF e
    <3> QED BY <2>4, <2>6, <2>7 DEF Joins
  <2> HIDE DEF e
  <2> QED BY <2>8
<1> QED BY <1>1, <1>2

(* The first n of ss, joined. *)
First(ss, n) == FlattenSeq(SubSeq(ss, 1, n))

(* Joins is a function of its parts. *)
LEMMA JoinsAlike ==
  ASSUME NEW L \in Nat, NEW s, NEW t, NEW f, NEW g, Joins(f, s, L), Joins(g, t, L),
         \A n \in 1 .. L : s[n] = t[n]
  PROVE  \A n \in 0 .. L : f[n] = g[n]
<1> DEFINE S == {n \in Nat : n <= L => f[n] = g[n]}
<1>1. 0 \in S
  BY DEF Joins
<1>2. ASSUME NEW n \in Nat, n \in S PROVE n + 1 \in S
  <2> SUFFICES ASSUME n + 1 <= L PROVE f[n + 1] = g[n + 1]
    OBVIOUS
  <2>1. n + 1 \in 1 .. L /\ (n + 1) - 1 = n /\ f[n] = g[n]
    BY <1>2
  <2>2. f[n + 1] = f[n] \o s[n + 1]
    BY <2>1 DEF Joins
  <2>3. g[n + 1] = g[n] \o t[n + 1]
    BY <2>1 DEF Joins
  <2> QED BY <2>1, <2>2, <2>3
<1>3. Nat \subseteq S
  <2> HIDE DEF S
  <2> QED BY <1>1, <1>2, Induction
<1> QED BY <1>3

(* One more of ss is put behind. *)
LEMMA FlattenGrows ==
  ASSUME NEW X, NEW ss \in Seq(Seq(X)), NEW n \in 0 .. Len(ss) - 1
  PROVE  First(ss, n + 1) = First(ss, n) \o ss[n + 1]
<1> DEFINE a == SubSeq(ss, 1, n)
           b == SubSeq(ss, 1, n + 1)
<1>1. Len(ss) \in Nat /\ n \in Nat /\ n + 1 \in Nat
  BY LenProperties
<1>2. /\ a \in Seq(Seq(X)) /\ Len(a) = n /\ \A i \in 1 .. n : a[i] = ss[i]
      /\ b \in Seq(Seq(X)) /\ Len(b) = n + 1 /\ \A i \in 1 .. n + 1 : b[i] = ss[i]
  BY <1>1
<1> HIDE DEF a, b
<1>3. PICK f : Joins(f, a, n) /\ f[n] = FlattenSeq(a)
  BY <1>2, Flatten
<1>4. PICK g : Joins(g, b, n + 1) /\ g[n + 1] = FlattenSeq(b)
  BY <1>2, Flatten
<1> DEFINE h == [i \in 0 .. n |-> g[i]]
<1>5. Joins(h, b, n)
  <2>1. h[0] = <<>>
    BY <1>1, <1>4 DEF Joins
  <2>2. ASSUME NEW i \in 1 .. n PROVE h[i] = h[i - 1] \o b[i]
    <3>1. i \in 1 .. n + 1 /\ i \in 0 .. n /\ i - 1 \in 0 .. n
      BY <1>1
    <3>2. h[i] = g[i] /\ h[i - 1] = g[i - 1]
      BY <3>1
    <3>3. g[i] = g[i - 1] \o b[i]
      BY <1>4, <3>1 DEF Joins
    <3> QED BY <3>2, <3>3
  <2>3. h = [i \in 0 .. n |-> h[i]]
    OBVIOUS
  <2> HIDE DEF h
  <2> QED BY <2>1, <2>2, <2>3 DEF Joins
<1>6. h[n] = f[n]
  <2>1. ASSUME NEW i \in 1 .. n PROVE a[i] = b[i]
    <3>1. i \in 1 .. n + 1
      BY <1>1
    <3> QED BY <1>2, <3>1
  <2>2. Joins(f, a, n) /\ n \in Nat
    BY <1>1, <1>3
  <2> HIDE DEF h
  <2>3. \A i \in 0 .. n : f[i] = h[i]
    BY <1>5, <2>1, <2>2, JoinsAlike
  <2> QED BY <1>1, <2>3
<1>7. g[n + 1] = g[n] \o b[n + 1]
  <2>1. n + 1 \in 1 .. n + 1 /\ (n + 1) - 1 = n
    BY <1>1
  <2> QED BY <1>4, <2>1 DEF Joins
<1>8. h[n] = g[n] /\ b[n + 1] = ss[n + 1]
  BY <1>1, <1>2
<1>9. FlattenSeq(b) = FlattenSeq(a) \o ss[n + 1]
  BY <1>3, <1>4, <1>6, <1>7, <1>8
<1> QED BY <1>9 DEF First, a, b

(* None of ss is nothing, all of ss is the whole. *)
LEMMA FirstOfAll ==
  ASSUME NEW X, NEW ss \in Seq(Seq(X))
  PROVE  First(ss, 0) = <<>> /\ First(ss, Len(ss)) = FlattenSeq(ss)
<1>1. SubSeq(ss, 1, 0) = <<>>
  BY SubSeqEmpty
<1>2. SubSeq(ss, 1, Len(ss)) = ss
  BY SubSeqFull
<1>3. FlattenSeq(<<>>) = <<>>
  BY DEF FlattenSeq
<1> QED BY <1>1, <1>2, <1>3 DEF First

(* The first n of ss, joined, begin the whole. *)
LEMMA FirstBegins ==
  ASSUME NEW X, NEW ss \in Seq(Seq(X))
  PROVE  /\ \A n \in 0 .. Len(ss) : First(ss, n) \in Seq(X)
         /\ \A n \in 0 .. Len(ss) : \A m \in 0 .. n :
              /\ Len(First(ss, m)) <= Len(First(ss, n))
              /\ \A i \in 1 .. Len(First(ss, m)) : First(ss, n)[i] = First(ss, m)[i]
<1> DEFINE Good(n) == /\ First(ss, n) \in Seq(X)
                      /\ \A m \in 0 .. n :
                           /\ First(ss, m) \in Seq(X)
                           /\ Len(First(ss, m)) <= Len(First(ss, n))
                           /\ \A i \in 1 .. Len(First(ss, m)) : First(ss, n)[i] = First(ss, m)[i]
           S == {n \in Nat : n <= Len(ss) => Good(n)}
<1>0. Len(ss) \in Nat
  BY LenProperties
<1>1. 0 \in S
  <2>1. First(ss, 0) = <<>> /\ <<>> \in Seq(X)
    BY FirstOfAll, EmptySeq
  <2>2. First(ss, 0) \in Seq(X)
    BY <2>1
  <2>3. \A m \in 0 .. 0 : m = 0
    OBVIOUS
  <2>4. Len(First(ss, 0)) <= Len(First(ss, 0))
    BY <2>2
  <2>5. Good(0)
    BY <2>2, <2>3, <2>4
  <2> HIDE DEF Good
  <2> QED BY <2>5
<1>2. ASSUME NEW n \in Nat, n \in S PROVE n + 1 \in S
  <2> SUFFICES ASSUME n + 1 <= Len(ss) PROVE Good(n + 1)
    OBVIOUS
  <2>1. n \in 0 .. Len(ss) - 1 /\ n + 1 \in 1 .. Len(ss) /\ Good(n)
    BY <1>0, <1>2
  <2> DEFINE a == First(ss, n)
             b == First(ss, n + 1)
             e == ss[n + 1]
  <2>2. b = a \o e
    BY <2>1, FlattenGrows
  <2>3. a \in Seq(X) /\ e \in Seq(X)
    BY <2>1, ElementOfSeq
  <2>4. b \in Seq(X) /\ Len(b) = Len(a) + Len(e) /\ Len(a) \in Nat /\ Len(e) \in Nat
        /\ \A i \in 1 .. Len(a) : b[i] = a[i]
    <3> HIDE DEF a, b, e
    <3>1. b \in Seq(X) /\ Len(b) = Len(a) + Len(e) /\ Len(a) \in Nat /\ Len(e) \in Nat
      BY <2>2, <2>3
    <3>2. \A i \in 1 .. Len(a) + Len(e) : b[i] = IF i <= Len(a) THEN a[i] ELSE e[i - Len(a)]
      BY <2>2, <2>3, ConcatProperties
    <3>3. ASSUME NEW i \in 1 .. Len(a) PROVE b[i] = a[i]
      <4>1. i \in 1 .. Len(a) + Len(e) /\ i <= Len(a)
        BY <3>1
      <4> QED BY <3>2, <4>1
    <3> QED BY <3>1, <3>3
  <2>5. ASSUME NEW m \in 0 .. n + 1
        PROVE  /\ First(ss, m) \in Seq(X)
               /\ Len(First(ss, m)) <= Len(b)
               /\ \A i \in 1 .. Len(First(ss, m)) : b[i] = First(ss, m)[i]
    <3>1. CASE m = n + 1
      BY <2>4, <3>1
    <3>2. CASE m # n + 1
      <4> DEFINE c == First(ss, m)
      <4>1. m \in 0 .. n
        BY <3>2
      <4>2. Len(c) <= Len(a) /\ \A i \in 1 .. Len(c) : a[i] = c[i]
        BY <2>1, <4>1
      <4>3. c \in Seq(X)
        BY <2>1, <4>1
      <4> QED BY <2>4, <4>2, <4>3
    <3> QED BY <3>1, <3>2
  <2> QED BY <2>4, <2>5
<1>3. Nat \subseteq S
  <2> HIDE DEF S
  <2> QED BY <1>1, <1>2, Induction
<1> QED BY <1>0, <1>3

-----------------------------------------------------------------------------
(* The numerals of CFormat *)

(* Where the characters of ss[n + 1] are in the whole. *)
LEMMA Lookup ==
  ASSUME NEW X, NEW ss \in Seq(Seq(X)), NEW n \in 0 .. Len(ss) - 1
  PROVE  /\ Len(First(ss, n + 1)) = Len(First(ss, n)) + Len(ss[n + 1])
         /\ Len(First(ss, n + 1)) <= Len(FlattenSeq(ss))
         /\ \A k \in 1 .. Len(ss[n + 1]) : FlattenSeq(ss)[Len(First(ss, n)) + k] = ss[n + 1][k]
<1> DEFINE a == First(ss, n)
           b == First(ss, n + 1)
           e == ss[n + 1]
           f == FlattenSeq(ss)
<1>1. Len(ss) \in Nat /\ n \in 0 .. Len(ss) /\ n + 1 \in 1 .. Len(ss) /\ n + 1 \in 0 .. Len(ss)
  BY LenProperties
<1>2. b = a \o e /\ f = First(ss, Len(ss))
  BY FlattenGrows, FirstOfAll
<1>3. a \in Seq(X) /\ e \in Seq(X)
  BY <1>1, FirstBegins, ElementOfSeq
<1>4. Len(b) <= Len(f) /\ \A i \in 1 .. Len(b) : f[i] = b[i]
  <2>1. Len(ss) \in 0 .. Len(ss) /\ n + 1 \in 0 .. Len(ss)
    BY <1>1
  <2>2. /\ Len(b) <= Len(First(ss, Len(ss)))
        /\ \A i \in 1 .. Len(b) : First(ss, Len(ss))[i] = b[i]
    BY <2>1, FirstBegins
  <2> HIDE DEF f
  <2> QED BY <1>2, <2>2
<1> HIDE DEF a, b, e, f
<1>5. /\ Len(b) = Len(a) + Len(e) /\ Len(a) \in Nat /\ Len(e) \in Nat
      /\ \A i \in 1 .. Len(a) + Len(e) : b[i] = IF i <= Len(a) THEN a[i] ELSE e[i - Len(a)]
  BY <1>2, <1>3, ConcatProperties
<1>6. ASSUME NEW k \in 1 .. Len(e) PROVE f[Len(a) + k] = e[k]
  <2>1. Len(a) + k \in 1 .. Len(b) /\ ~(Len(a) + k <= Len(a)) /\ (Len(a) + k) - Len(a) = k
    BY <1>5
  <2> QED BY <1>4, <1>5, <2>1
<1> QED BY <1>4, <1>5, <1>6 DEF a, b, e, f

(* Digits *)
Digits(s, n, b) ==
  /\ s = [m \in 0 .. n |-> s[m]]
  /\ \A m \in 0 .. n : s[m] = IF m < b THEN <<C!Symbols(b)[m + 1]>>
                                ELSE Append(s[m \div b], C!Symbols(b)[(m % b) + 1])

(* What division leaves is smaller. *)
LEMMA Quotient ==
  ASSUME NEW n \in Nat, NEW b \in Nat, b >= 2
  PROVE  /\ n \div b \in 0 .. n /\ n % b \in 0 .. b - 1
         /\ n >= b => n \div b \in 0 .. n - 1 /\ n \div b # 0
         /\ n < b => n \div b = 0 /\ n % b = n
BY Z3

(* The numerals up to n exist, whatever the base, *)
LEMMA DigitsExist ==
  ASSUME NEW b \in Nat, b >= 2
  PROVE  \A n \in Nat : \E s : Digits(s, n, b)
<1> DEFINE Last1(s, m) == IF m < b THEN <<C!Symbols(b)[m + 1]>>
                          ELSE Append(s[m \div b], C!Symbols(b)[(m % b) + 1])
           S == {n \in Nat : \E s : Digits(s, n, b)}
<1>1. 0 \in S
  <2> DEFINE s == [m \in 0 .. 0 |-> <<C!Symbols(b)[1]>>]
  <2>1. s = [m \in 0 .. 0 |-> s[m]]
    OBVIOUS
  <2>2. ASSUME NEW m \in 0 .. 0 PROVE s[m] = Last1(s, m)
    <3>1. m = 0 /\ m < b
      OBVIOUS
    <3> QED BY <3>1
  <2>3. Digits(s, 0, b)
    <3> HIDE DEF s
    <3> QED BY <2>1, <2>2 DEF Digits
  <2> HIDE DEF s
  <2> QED BY <2>3
<1>2. ASSUME NEW n \in Nat, n \in S PROVE n + 1 \in S
  <2>1. PICK s : Digits(s, n, b)
    BY <1>2
  <2> DEFINE t == [m \in 0 .. n + 1 |-> IF m = n + 1 THEN Last1(s, m) ELSE s[m]]
  <2>2. t = [m \in 0 .. n + 1 |-> t[m]]
    OBVIOUS
  <2>3. ASSUME NEW m \in 0 .. n + 1 PROVE t[m] = Last1(t, m)
    <3>1. m >= b => m \div b \in 0 .. n /\ m \div b \in 0 .. n + 1 /\ m \div b # n + 1
      <4>1. m \in Nat /\ m - 1 <= n
        OBVIOUS
      <4>2. m >= b => m \div b \in 0 .. m - 1
        BY <4>1, Quotient
      <4> DEFINE q == m \div b
      <4> HIDE DEF q
      <4>3. q \in 0 .. m - 1 => q \in 0 .. n /\ q \in 0 .. n + 1 /\ q # n + 1
        BY <4>1
      <4> QED BY <4>2, <4>3 DEF q
    <3>2. m >= b => t[m \div b] = s[m \div b]
      BY <3>1
    <3>3. Last1(t, m) = Last1(s, m)
      <4> HIDE DEF t
      <4> QED BY <3>2
    <3>4. CASE m = n + 1
      <4>1. t[m] = Last1(s, m)
        BY <3>4, Zenon
      <4> QED BY <3>3, <4>1
    <3>5. CASE m # n + 1
      <4>1. m \in 0 .. n /\ t[m] = s[m]
        BY <3>5
      <4>2. s[m] = Last1(s, m)
        BY <2>1, <4>1 DEF Digits
      <4> HIDE DEF t, Last1
      <4> QED BY <3>3, <4>1, <4>2
    <3> QED BY <3>4, <3>5
  <2>4. Digits(t, n + 1, b)
    <3> HIDE DEF t
    <3> QED BY <2>2, <2>3 DEF Digits
  <2> HIDE DEF t
  <2> QED BY <2>4
<1>3. Nat \subseteq S
  <2> HIDE DEF S
  <2> QED BY <1>1, <1>2, Induction
<1> QED BY <1>3

(* are the same whatever n they go up to, *)
LEMMA DigitsAlike ==
  ASSUME NEW b \in Nat, b >= 2, NEW n \in Nat, NEW m \in 0 .. n, NEW s, NEW t,
         Digits(s, n, b), Digits(t, m, b)
  PROVE  \A i \in 0 .. m : s[i] = t[i]
<1> DEFINE S == {i \in Nat : i <= m => s[i] = t[i]}
<1>1. ASSUME NEW i \in Nat, \A j \in 0 .. i - 1 : j \in S PROVE i \in S
  <2> SUFFICES ASSUME i <= m PROVE s[i] = t[i]
    OBVIOUS
  <2>1. i \in 0 .. m /\ i \in 0 .. n
    OBVIOUS
  <2>2. i >= b => s[i \div b] = t[i \div b]
    <3> SUFFICES ASSUME i >= b PROVE s[i \div b] = t[i \div b]
      OBVIOUS
    <3>1. i \div b \in 0 .. i - 1
      BY Quotient
    <3>2. i \div b \in S /\ i \div b <= m
      BY <1>1, <3>1
    <3> QED BY <3>2
  <2>3. s[i] = IF i < b THEN <<C!Symbols(b)[i + 1]>> ELSE Append(s[i \div b], C!Symbols(b)[(i % b) + 1])
    BY <2>1 DEF Digits
  <2>4. t[i] = IF i < b THEN <<C!Symbols(b)[i + 1]>> ELSE Append(t[i \div b], C!Symbols(b)[(i % b) + 1])
    BY <2>1 DEF Digits
  <2> QED BY <2>2, <2>3, <2>4
<1>2. Nat \subseteq S
  <2> HIDE DEF S
  <2> QED BY <1>1, StrongInduction
<1> QED BY <1>2

(* and Numeral is the last of them. *)
LEMMA NumeralHasDigits ==
  ASSUME NEW b \in Nat, b >= 2, NEW n \in Nat
  PROVE  \E s : Digits(s, n, b) /\ C!Numeral(n, b) = s[n]
<1> DEFINE F(s) == [m \in 0 .. n |-> IF m < b THEN <<C!Symbols(b)[m + 1]>>
                                      ELSE Append(s[m \div b], C!Symbols(b)[(m % b) + 1])]
           G == CHOOSE s : s = F(s)
<1>1. PICK s : Digits(s, n, b)
  BY DigitsExist
<1>2. s = F(s)
  BY <1>1 DEF Digits
<1>3. G = F(G)
  <2> HIDE DEF F
  <2> QED BY <1>2
<1>4. C!Numeral(n, b) = G[n]
  BY DEF C!Numeral
<1> HIDE DEF G
<1>5. Digits(G, n, b)
  <2>1. \A m \in 0 .. n : G[m] = IF m < b THEN <<C!Symbols(b)[m + 1]>>
                                  ELSE Append(G[m \div b], C!Symbols(b)[(m % b) + 1])
    BY <1>3
  <2>2. G = [m \in 0 .. n |-> G[m]]
    BY <1>3, <2>1
  <2> QED BY <2>1, <2>2 DEF Digits
<1> QED BY <1>4, <1>5

(* A numeral is a digit, or a numeral with a digit behind it. *)
LEMMA NumeralStep ==
  ASSUME NEW b \in Nat, b >= 2, NEW n \in Nat
  PROVE  /\ n < b => C!Numeral(n, b) = <<C!Symbols(b)[n + 1]>>
         /\ n >= b => C!Numeral(n, b) = Append(C!Numeral(n \div b, b), C!Symbols(b)[(n % b) + 1])
<1>1. PICK s : Digits(s, n, b) /\ C!Numeral(n, b) = s[n]
  BY NumeralHasDigits
<1>2. n \in 0 .. n
  OBVIOUS
<1>3. s[n] = IF n < b THEN <<C!Symbols(b)[n + 1]>> ELSE Append(s[n \div b], C!Symbols(b)[(n % b) + 1])
  BY <1>1, <1>2 DEF Digits
<1>4. ASSUME n >= b PROVE s[n \div b] = C!Numeral(n \div b, b)
  <2> DEFINE q == n \div b
  <2>1. q \in 0 .. n /\ q \in Nat
    BY Quotient
  <2> HIDE DEF q
  <2>2. PICK t : Digits(t, q, b) /\ C!Numeral(q, b) = t[q]
    BY <2>1, NumeralHasDigits
  <2>3. \A i \in 0 .. q : s[i] = t[i]
    BY <1>1, <2>1, <2>2, DigitsAlike
  <2>4. s[q] = C!Numeral(q, b)
    BY <2>1, <2>2, <2>3
  <2> QED BY <2>4 DEF q
<1> QED BY <1>1, <1>3, <1>4

-----------------------------------------------------------------------------
(* Functions of directives *)

(* f of each of the directives of a call. *)
Applied(f, ds) == [m \in DOMAIN ds |-> f[ds[m]]]

(* It is a sequence as long, *)
AppliesTo(X, D, f, ds) ==
  /\ Applied(f, ds) \in Seq(Seq(X)) /\ Len(Applied(f, ds)) = Len(ds) /\ DOMAIN Applied(f, ds) = DOMAIN ds
  /\ \A m \in 1 .. Len(ds) : ds[m] \in D /\ Applied(f, ds)[m] = f[ds[m]]

(* That is so for every sequence of members of D; *)
LEMMA PartsOfAll ==
  ASSUME NEW X, NEW D, NEW f \in [D -> Seq(X)], NEW ds \in Seq(D)
  PROVE  AppliesTo(X, D, f, ds)
<1> DEFINE ss == [m \in DOMAIN ds |-> f[ds[m]]]
<1>1. Len(ds) \in Nat /\ DOMAIN ds = 1 .. Len(ds) /\ \A m \in 1 .. Len(ds) : ds[m] \in D
  BY LenProperties, ElementOfSeq
<1>2. ss \in Seq(Seq(X)) /\ Len(ss) = Len(ds)
  <2>1. ss \in [1 .. Len(ds) -> Seq(X)]
    BY <1>1
  <2> QED BY <1>1, <2>1, SeqDef, LenProperties
<1> QED BY <1>1, <1>2 DEF Applied, AppliesTo

(* and the first n of it are f of the first n. *)
AppliesFirst(f, ds, n) == Applied(f, SubSeq(ds, 1, n)) = SubSeq(Applied(f, ds), 1, n)

(* and so is this. *)
LEMMA PartsOfFirst ==
  ASSUME NEW X, NEW D, NEW f \in [D -> Seq(X)], NEW ds \in Seq(D), NEW n \in 0 .. Len(ds)
  PROVE  AppliesFirst(f, ds, n)
<1> DEFINE ss == Applied(f, ds)
           t == SubSeq(ds, 1, n)
<1>1. Len(ds) \in Nat /\ DOMAIN ds = 1 .. Len(ds)
  BY LenProperties
<1>2. ss \in Seq(Seq(X)) /\ Len(ss) = Len(ds) /\ \A m \in 1 .. Len(ds) : ss[m] = f[ds[m]]
  <2>1. AppliesTo(X, D, f, ds)
    BY PartsOfAll, Zenon
  <2> QED BY <2>1 DEF AppliesTo
<1>3. t \in Seq(D) /\ Len(t) = n /\ DOMAIN t = 1 .. n /\ \A m \in 1 .. n : t[m] = ds[m]
  BY <1>1
<1>4. SubSeq(ss, 1, n) = [m \in 1 .. n |-> ss[m]]
  <2> HIDE DEF ss
  <2> QED BY <1>1, <1>2
<1>5. \A m \in 1 .. n : f[t[m]] = ss[m]
  <2> HIDE DEF t, ss
  <2>1. \A m \in 1 .. n : m \in 1 .. Len(ds)
    BY <1>1
  <2> QED BY <1>2, <1>3, <2>1
<1>6. Applied(f, t) = SubSeq(ss, 1, n)
  <2> HIDE DEF ss, t
  <2> QED BY <1>3, <1>4, <1>5 DEF Applied
<1> QED BY <1>6 DEF AppliesFirst

(* Plain directives *)

(* What a plain directive is made of. *)
LEMMA PlainTypes ==
  ASSUME NEW d \in PlainDirectives
  PROVE  /\ d.flags = {} /\ d.width = 0 /\ d.widthArg = FALSE /\ d.hasPrecision = FALSE
         /\ d.length \in {"", "hh", "h", "l", "ll", "j", "z", "t"}
         /\ d.spec \in Specifiers \cup {"text"}
         /\ d.int \in Int /\ d.float \in Int
         /\ d.char \in Charset /\ d.string \in Seq(Charset)
         /\ d.spec = "text" => d.string \in Seq(Charset \ {"%", "NUL"}) /\ d.string # <<>>
<1>1. d \in C!Directives
  BY DEF PlainDirectives
<1>2. /\ d.length \in {"", "hh", "h", "l", "ll", "j", "z", "t"}
      /\ d.int \in Int /\ d.float \in Int
      /\ d.widthArg \in BOOLEAN /\ d.hasPrecision \in BOOLEAN
  BY <1>1 DEF C!Directives
<1>3. d.widthArg = FALSE /\ d.hasPrecision = FALSE
  <2>1. ~d.widthArg /\ ~d.hasPrecision
    BY Zenon DEF PlainDirectives
  <2> QED BY <1>2, <2>1
<1> QED BY <1>2, <1>3 DEF PlainDirectives

(* The characters of formats and arguments. *)
Alphabet == Charset \cup Specifiers \cup {"h", "l", "j", "z", "t"}

(* How its length is written, *)
LEMMA SpelledLengthType ==
  ASSUME NEW d \in PlainDirectives
  PROVE  C!SpelledLength(d) =
           IF d.length = "" THEN <<>> ELSE IF d.length = "hh" THEN <<"h", "h">>
           ELSE IF d.length = "ll" THEN <<"l", "l">> ELSE <<d.length>>
BY PlainTypes DEF C!SpelledLength

(* that it has no flags to write, *)
LEMMA NoFlagsToSpell == C!SetToSeq({}) = <<>>
<1> DEFINE F == [1 .. C!Cardinality({}) -> {}]
           g == CHOOSE f \in F : C!IsInjective(f)
<1>1. 1 .. C!Cardinality({}) = 1 .. 0
  <2>1. C!Cardinality({}) = Cardinality({})
    BY DEF C!Cardinality, Cardinality
  <2> QED BY <2>1, FS_EmptySet
<1>2. \A f \in F : f \in Seq({}) /\ Len(f) = 0 /\ f = <<>>
  <2> SUFFICES ASSUME NEW f \in F PROVE f \in Seq({}) /\ Len(f) = 0 /\ f = <<>>
    OBVIOUS
  <2>1. f \in [1 .. 0 -> {}]
    BY <1>1
  <2>2. f \in Seq({})
    BY <2>1, SeqDef
  <2>3. Len(f) = 0
    BY <2>1, <2>2, LenProperties
  <2> QED BY <2>2, <2>3, EmptySeq
<1>3. <<>> \in F
  <2>1. <<>> \in [1 .. 0 -> {}]
    OBVIOUS
  <2> QED BY <1>1, <2>1
<1>4. C!IsInjective(<<>>)
  BY DEF C!IsInjective
<1>5. g \in F
  <2> HIDE DEF F
  <2> QED BY <1>3, <1>4
<1>6. C!SetToSeq({}) = g
  BY DEF C!SetToSeq
<1> HIDE DEF g, F
<1> QED BY <1>2, <1>5, <1>6

(* that its text is made of characters, *)
LEMMA AlphabetOfCharset ==
  /\ Charset \subseteq Alphabet
  /\ \A s \in Seq(Charset) : s \in Seq(Alphabet)
<1>1. Charset \subseteq Alphabet
  BY DEF Alphabet
<1>2. ASSUME NEW s \in Seq(Charset) PROVE s \in Seq(Alphabet)
  <2>1. \A i \in 1 .. Len(s) : s[i] \in Alphabet
    BY <1>1, ElementOfSeq
  <2> QED BY <2>1, LenProperties, SeqDef
<1> QED BY <1>1, <1>2

(* and how all of it is written. *)
LEMMA SpelledPlainly ==
  ASSUME NEW d \in PlainDirectives
  PROVE  /\ d.spec = "text" => C!Spelled(d) = d.string
         /\ d.spec # "text" => C!Spelled(d) = <<"%">> \o C!SpelledLength(d) \o <<d.spec>>
         /\ C!SpelledLength(d) \in Seq(Alphabet) /\ C!Spelled(d) \in Seq(Alphabet)
<1>0. d.spec # "text" => d.spec \in Alphabet
  BY PlainTypes DEF Alphabet
<1>1. C!SpelledLength(d) \in Seq(Alphabet)
  <2>1. {"h", "l", "j", "z", "t"} \subseteq Alphabet /\ d.length \in {"", "hh", "h", "l", "ll", "j", "z", "t"}
    BY PlainTypes DEF Alphabet
  <2>2. "h" \in Alphabet /\ "l" \in Alphabet
    BY <2>1
  <2>3. <<>> \in Seq(Alphabet) /\ <<"h", "h">> \in Seq(Alphabet) /\ <<"l", "l">> \in Seq(Alphabet)
    <3> HIDE DEF Alphabet
    <3> QED BY <2>2
  <2>4. \A x \in Alphabet : <<x>> \in Seq(Alphabet)
    OBVIOUS
  <2>5. d.length \notin {"", "hh", "ll"} => d.length \in Alphabet
    BY <2>1
  <2>6. C!SpelledLength(d) \in {<<>>, <<"h", "h">>, <<"l", "l">>, <<d.length>>}
    BY SpelledLengthType
  <2>7. d.length \in {"", "hh", "ll"} => C!SpelledLength(d) \in {<<>>, <<"h", "h">>, <<"l", "l">>}
    BY SpelledLengthType
  <2> QED BY <2>3, <2>4, <2>5, <2>6, <2>7
<1>2. CASE d.spec = "text"
  BY <1>1, <1>2, PlainTypes, AlphabetOfCharset DEF C!Spelled
<1>3. CASE d.spec # "text"
  <2> DEFINE l == C!SpelledLength(d)
  <2>1. C!SetToSeq(d.flags) = <<>>
    BY NoFlagsToSpell, PlainTypes
  <2>1a. ~d.widthArg /\ d.width = 0 /\ ~d.hasPrecision
    BY PlainTypes
  <2>2. C!Spelled(d) = <<"%">> \o C!SetToSeq(d.flags) \o <<>> \o <<>> \o l \o <<d.spec>>
    BY <1>3, <2>1a DEF C!Spelled
  <2> HIDE DEF l
  <2>3. <<"%">> \o <<>> \o <<>> \o <<>> = <<"%">>
    OBVIOUS
  <2>4. C!Spelled(d) = <<"%">> \o l \o <<d.spec>>
    BY <2>1, <2>2, <2>3
  <2>5. l \in Seq(Alphabet) /\ d.spec \in Alphabet /\ "%" \in Alphabet
    BY <1>0, <1>1, <1>3 DEF l, Alphabet, Specifiers
  <2>6. <<"%">> \o l \o <<d.spec>> \in Seq(Alphabet)
    BY <2>5
  <2> QED BY <1>1, <1>3, <2>4, <2>6 DEF l
<1> QED BY <1>2, <1>3

(* What the members of ds stand for, joined. *)
Joined(f, ds) == FlattenSeq(Applied(f, ds))

(* The first n of them. *)
JoinedFirst(f, ds, n) == Joined(f, SubSeq(ds, 1, n))

(* The first n of them end where the next one starts. *)
DividesAt(X, D, f, ds, n) ==
  LET s(m) == JoinedFirst(f, ds, m) IN
  /\ Joined(f, ds) \in Seq(X) /\ s(n) \in Seq(X) /\ Len(s(n)) <= Len(Joined(f, ds))
  /\ s(0) = <<>> /\ s(Len(ds)) = Joined(f, ds)
  /\ n < Len(ds) =>
       LET t == f[ds[n + 1]] IN
       /\ t \in Seq(X) /\ ds[n + 1] \in D
       /\ s(n + 1) = s(n) \o t
       /\ Len(s(n + 1)) = Len(s(n)) + Len(t) /\ Len(s(n + 1)) <= Len(Joined(f, ds))
       /\ \A k \in 1 .. Len(t) : Joined(f, ds)[Len(s(n)) + k] = t[k]

(* Joining directives divides at every n. *)
LEMMA JoinedUpto ==
  ASSUME NEW X, NEW D, NEW f \in [D -> Seq(X)], NEW ds \in Seq(D), NEW n \in 0 .. Len(ds)
  PROVE  DividesAt(X, D, f, ds, n)
<1> DEFINE ss == Applied(f, ds)
<1>0. Len(ds) \in Nat
  BY LenProperties
<1>1. /\ ss \in Seq(Seq(X)) /\ Len(ss) = Len(ds) /\ DOMAIN ss = DOMAIN ds
      /\ \A m \in 1 .. Len(ds) : ds[m] \in D /\ ss[m] = f[ds[m]]
  <2>1. AppliesTo(X, D, f, ds)
    BY PartsOfAll, Zenon
  <2> QED BY <2>1 DEF AppliesTo
<1> DEFINE s(m) == JoinedFirst(f, ds, m)
           joined == Joined(f, ds)
<1>2. \A m \in 0 .. Len(ds) : s(m) = First(ss, m)
  <2> SUFFICES ASSUME NEW m \in 0 .. Len(ds) PROVE s(m) = First(ss, m)
    OBVIOUS
  <2>1. Applied(f, SubSeq(ds, 1, m)) = SubSeq(ss, 1, m)
    <3>1. AppliesFirst(f, ds, m)
      BY PartsOfFirst, Zenon
    <3> QED BY <3>1 DEF AppliesFirst
  <2> HIDE DEF ss
  <2> QED BY <2>1 DEF JoinedFirst, Joined, First
<1>3. joined = FlattenSeq(ss)
  BY DEF Joined
<1> HIDE DEF ss, s, joined
<1>4. \A m \in 0 .. Len(ds) : First(ss, m) \in Seq(X)
  BY <1>1, FirstBegins
<1>5. 0 \in 0 .. Len(ds) /\ Len(ds) \in 0 .. Len(ds) /\ (n < Len(ds) => n + 1 \in 0 .. Len(ds) /\ n + 1 \in 1 .. Len(ds))
  BY <1>0
<1>6. First(ss, 0) = <<>> /\ First(ss, Len(ds)) = FlattenSeq(ss)
  BY <1>1, FirstOfAll
<1>7. /\ joined \in Seq(X) /\ s(n) \in Seq(X) /\ s(0) = <<>> /\ s(Len(ds)) = joined
  BY <1>2, <1>3, <1>4, <1>5, <1>6
<1>8. Len(s(n)) <= Len(joined)
  <2>1. Len(First(ss, n)) <= Len(First(ss, Len(ds)))
    BY <1>1, <1>5, FirstBegins
  <2> QED BY <1>2, <1>3, <1>6, <2>1
<1>9. ASSUME n < Len(ds)
      PROVE  LET t == f[ds[n + 1]] IN
              /\ t \in Seq(X) /\ ds[n + 1] \in D
              /\ s(n + 1) = s(n) \o t
              /\ Len(s(n + 1)) = Len(s(n)) + Len(t) /\ Len(s(n + 1)) <= Len(joined)
              /\ \A k \in 1 .. Len(t) : joined[Len(s(n)) + k] = t[k]
  <2>1. n \in 0 .. Len(ss) - 1
    BY <1>0, <1>1, <1>9
  <2>2. /\ Len(First(ss, n + 1)) = Len(First(ss, n)) + Len(ss[n + 1])
        /\ Len(First(ss, n + 1)) <= Len(FlattenSeq(ss))
        /\ \A k \in 1 .. Len(ss[n + 1]) : FlattenSeq(ss)[Len(First(ss, n)) + k] = ss[n + 1][k]
    BY <1>1, <2>1, Lookup
  <2>3. ss[n + 1] = f[ds[n + 1]] /\ ds[n + 1] \in D /\ f[ds[n + 1]] \in Seq(X)
    BY <1>1, <1>5, <1>9
  <2>4. First(ss, n + 1) = First(ss, n) \o ss[n + 1]
    BY <1>1, <2>1, FlattenGrows
  <2>5. s(n) = First(ss, n) /\ s(n + 1) = First(ss, n + 1)
    BY <1>2, <1>5, <1>9
  <2> QED BY <1>3, <2>2, <2>3, <2>4, <2>5
<1> QED BY <1>7, <1>8, <1>9 DEF s, joined, DividesAt

(* CFormat's FlattenSeq is the community module's. *)
LEMMA SameFlatten == \A s : C!FlattenSeq(s) = FlattenSeq(s)
BY DEF FlattenSeq, C!FlattenSeq

(* The first n of plain directives are plain. *)
LEMMA UptoIsPlain ==
  ASSUME NEW ds \in Seq(PlainDirectives), NEW n \in 0 .. Len(ds)
  PROVE  SubSeq(ds, 1, n) \in Seq(PlainDirectives)
<1>1. Len(ds) \in Nat
  BY LenProperties
<1> QED BY <1>1

(* C!Spelled as a function, on which the lemmas above depend. *)
SpelledAs == [d \in PlainDirectives |-> C!Spelled(d)]

(* The format of a plain call, joined. *)
LEMMA SentenceSpelled ==
  ASSUME NEW ds \in Seq(PlainDirectives)
  PROVE  C!Sentence(C!Spelled, ds) = Joined(SpelledAs, ds)
<1>1. [i \in DOMAIN ds |-> C!Spelled(ds[i])] = [i \in DOMAIN ds |-> SpelledAs[ds[i]]]
  <2>1. \A i \in DOMAIN ds : ds[i] \in PlainDirectives
    BY LenProperties, ElementOfSeq
  <2> QED BY <2>1 DEF SpelledAs
<1> QED BY <1>1, SameFlatten DEF C!Sentence, Joined, Applied

(* Where a directive is in the format. *)
LEMMA SpelledUpto ==
  ASSUME NEW ds \in Seq(PlainDirectives), NEW n \in 0 .. Len(ds)
  PROVE  LET l(m) == Len(C!Sentence(C!Spelled, SubSeq(ds, 1, m)))
             format == C!Sentence(C!Spelled, ds) IN
         /\ format \in Seq(Alphabet) /\ l(n) \in Nat /\ l(n) <= Len(format)
         /\ l(0) = 0 /\ l(Len(ds)) = Len(format)
         /\ n < Len(ds) =>
              LET s == C!Spelled(ds[n + 1]) IN
              /\ ds[n + 1] \in PlainDirectives
              /\ l(n + 1) = l(n) + Len(s) /\ l(n) + Len(s) <= Len(format)
              /\ \A k \in 1 .. Len(s) : format[l(n) + k] = s[k]
<1> DEFINE S(m) == C!Sentence(C!Spelled, SubSeq(ds, 1, m))
           J(m) == JoinedFirst(SpelledAs, ds, m)
           format == C!Sentence(C!Spelled, ds)
<1>1. Len(ds) \in Nat /\ SpelledAs \in [PlainDirectives -> Seq(Alphabet)]
  BY SpelledPlainly, LenProperties DEF SpelledAs
<1>2. /\ Joined(SpelledAs, ds) \in Seq(Alphabet) /\ J(n) \in Seq(Alphabet)
      /\ Len(J(n)) <= Len(Joined(SpelledAs, ds))
      /\ J(0) = <<>> /\ J(Len(ds)) = Joined(SpelledAs, ds)
      /\ n < Len(ds) =>
           LET t == SpelledAs[ds[n + 1]] IN
           /\ t \in Seq(Alphabet) /\ ds[n + 1] \in PlainDirectives
           /\ J(n + 1) = J(n) \o t
           /\ Len(J(n + 1)) = Len(J(n)) + Len(t) /\ Len(J(n + 1)) <= Len(Joined(SpelledAs, ds))
           /\ \A k \in 1 .. Len(t) : Joined(SpelledAs, ds)[Len(J(n)) + k] = t[k]
  <2>1. DividesAt(Alphabet, PlainDirectives, SpelledAs, ds, n)
    BY <1>1, JoinedUpto
  <2> QED BY <2>1 DEF DividesAt
<1>3. \A m \in 0 .. Len(ds) : S(m) = J(m)
  BY SentenceSpelled, UptoIsPlain DEF JoinedFirst
<1>4. format = Joined(SpelledAs, ds)
  BY SentenceSpelled
<1>5. 0 \in 0 .. Len(ds) /\ Len(ds) \in 0 .. Len(ds) /\ (n < Len(ds) => n + 1 \in 0 .. Len(ds))
  BY <1>1
<1> HIDE DEF S, J, format
<1>6. S(n) = J(n) /\ S(0) = J(0) /\ S(Len(ds)) = J(Len(ds)) /\ (n < Len(ds) => S(n + 1) = J(n + 1))
  BY <1>3, <1>5
<1>7. n < Len(ds) => SpelledAs[ds[n + 1]] = C!Spelled(ds[n + 1])
  BY <1>2 DEF SpelledAs
<1>8. Len(<<>>) = 0 /\ Len(J(n)) \in Nat
  BY <1>2, LenProperties
<1> QED BY <1>2, <1>4, <1>6, <1>7, <1>8 DEF S, format

-----------------------------------------------------------------------------
(* Digits and capitals *)

(* The bases of numbers. *)
Bases == {2, 8, 10, 16}

(* A digit as C's table has it, and as _ntoa_long puts it together. *)
LEMMA SymbolOfDigit ==
  ASSUME NEW b \in Bases, NEW i \in 0 .. b - 1
  PROVE  /\ C!Symbols(b)[i + 1] = IF i < 10 THEN Numerals[i + 1] ELSE <<"a", "b", "c", "d", "e", "f">>[i - 9]
         /\ C!Symbols(b)[i + 1] \in Charset
         /\ C!Capital(C!Symbols(b)[i + 1])
              = IF i < 10 THEN Numerals[i + 1] ELSE <<"A", "B", "C", "D", "E", "F">>[i - 9]
<1> DEFINE all == <<"0", "1", "2", "3", "4", "5", "6", "7", "8", "9", "a", "b", "c", "d", "e", "f">>
<1>0. i \in 0 .. 15 /\ b \in 1 .. 16 /\ i + 1 \in 1 .. b
  BY DEF Bases
<1>1. C!Symbols(b)[i + 1] = all[i + 1]
  <2>1. C!Symbols(b) = SubSeq(all, 1, b)
    BY DEF C!Symbols
  <2>2. Len(all) = 16 /\ all \in Seq({all[j] : j \in 1 .. 16})
    OBVIOUS
  <2> HIDE DEF all
  <2>3. SubSeq(all, 1, b)[i + 1] = all[i + 1]
    BY <1>0, <2>2
  <2> QED BY <2>1, <2>3
<1>2. i \in {0, 1, 2, 3, 4, 5, 6, 7, 8, 9, 10, 11, 12, 13, 14, 15}
  BY <1>0
<1>3. all[i + 1] = IF i < 10 THEN Numerals[i + 1] ELSE <<"a", "b", "c", "d", "e", "f">>[i - 9]
  BY <1>2 DEF Numerals
<1>4. all[i + 1] \in Charset
  <2>1. CASE i < 10
    <3>1. i + 1 \in 1 .. 10
      BY <1>0, <2>1
    <3>2. all[i + 1] = Numerals[i + 1]
      BY <1>3, <2>1
    <3> QED BY <3>1, <3>2, NumeralsAreChars
  <2>2. CASE ~(i < 10)
    <3>1. i - 9 \in {1, 2, 3, 4, 5, 6}
      BY <1>0, <2>2
    <3>2. all[i + 1] = <<"a", "b", "c", "d", "e", "f">>[i - 9]
      BY <1>3, <2>2
    <3> DEFINE t == <<"a", "b", "c", "d", "e", "f">>
    <3>3. t[1] = "a" /\ t[2] = "b" /\ t[3] = "c" /\ t[4] = "d" /\ t[5] = "e" /\ t[6] = "f"
      OBVIOUS
    <3> HIDE DEF t
    <3>4. t[i - 9] \in Charset
      BY <3>1, <3>3, CharsOfPrintf
    <3> QED BY <3>2, <3>4 DEF t
  <2> QED BY <2>1, <2>2
<1>5. C!Capital(all[i + 1]) = IF i < 10 THEN Numerals[i + 1] ELSE <<"A", "B", "C", "D", "E", "F">>[i - 9]
  <2>1. CASE i < 10
    <3>1. i \in {0, 1, 2, 3, 4, 5, 6, 7, 8, 9}
      BY <1>2, <2>1
    <3> QED BY <3>1 DEF C!Capital, Numerals
  <2>2. CASE ~(i < 10)
    <3>1. i \in {10, 11, 12, 13, 14, 15}
      BY <1>2, <2>2
    <3> QED BY <3>1 DEF C!Capital
  <2> QED BY <2>1, <2>2
<1> HIDE DEF all
<1> QED BY <1>1, <1>3, <1>4, <1>5

(* A numeral is of characters, and not empty. *)
LEMMA NumeralType ==
  ASSUME NEW b \in Bases
  PROVE  \A n \in Nat : C!Numeral(n, b) \in Seq(Charset) /\ Len(C!Numeral(n, b)) >= 1
<1> DEFINE S == {n \in Nat : C!Numeral(n, b) \in Seq(Charset) /\ Len(C!Numeral(n, b)) >= 1}
<1>1. ASSUME NEW n \in Nat, \A m \in 0 .. n - 1 : m \in S PROVE n \in S
  <2>0. b \in Nat /\ b >= 2
    BY DEF Bases
  <2>1. n % b \in 0 .. b - 1 /\ (n >= b => n \div b \in 0 .. n - 1) /\ (n < b => n \in 0 .. b - 1)
    BY <2>0, Quotient
  <2>2. CASE n < b
    <3>1. C!Numeral(n, b) = <<C!Symbols(b)[n + 1]>> /\ C!Symbols(b)[n + 1] \in Charset
      BY <2>0, <2>1, <2>2, NumeralStep, SymbolOfDigit
    <3>2. \A x \in Charset : <<x>> \in Seq(Charset) /\ Len(<<x>>) >= 1
      OBVIOUS
    <3> QED BY <3>1, <3>2
  <2>3. CASE n >= b
    <3> DEFINE q == C!Numeral(n \div b, b)
               c == C!Symbols(b)[(n % b) + 1]
    <3>1. C!Numeral(n, b) = Append(q, c) /\ c \in Charset
      BY <2>0, <2>1, <2>3, NumeralStep, SymbolOfDigit
    <3>2. q \in Seq(Charset)
      BY <1>1, <2>1, <2>3
    <3> HIDE DEF q, c
    <3>3. Append(q, c) \in Seq(Charset) /\ Len(Append(q, c)) >= 1
      BY <3>1, <3>2
    <3> QED BY <3>1, <3>3
  <2> QED BY <2>0, <2>2, <2>3
<1>2. Nat \subseteq S
  <2> HIDE DEF S
  <2> QED BY <1>1, StrongInduction
<1> QED BY <1>2

(* The capital of a character is one, *)
LEMMA CapitalIsChar == \A c \in Charset : C!Capital(c) \in Charset
<1>1. {"A", "B", "C", "D", "E", "F", "X"} \subseteq Charset
  BY PrintfAssumption
<1> QED BY <1>1 DEF C!Capital

(* those of a text are as many, *)
LEMMA CapitalsType ==
  ASSUME NEW s \in Seq(Charset)
  PROVE  C!Capitals(s) \in Seq(Charset) /\ Len(C!Capitals(s)) = Len(s)
         /\ \A i \in 1 .. Len(s) : C!Capitals(s)[i] = C!Capital(s[i])
<1>1. DOMAIN s = 1 .. Len(s) /\ Len(s) \in Nat /\ \A i \in 1 .. Len(s) : s[i] \in Charset
  BY LenProperties, ElementOfSeq
<1>2. C!Capitals(s) \in [1 .. Len(s) -> Charset]
  BY <1>1, CapitalIsChar DEF C!Capitals
<1> QED BY <1>1, <1>2, SeqDef, LenProperties DEF C!Capitals

(* and those of two texts one behind the other are those of each. *)
LEMMA CapitalsConcat ==
  ASSUME NEW s \in Seq(Charset), NEW t \in Seq(Charset)
  PROVE  C!Capitals(s \o t) = C!Capitals(s) \o C!Capitals(t)
<1> DEFINE u == s \o t
           v == C!Capitals(s) \o C!Capitals(t)
           w == C!Capitals(u)
<1>1. /\ u \in Seq(Charset) /\ Len(u) = Len(s) + Len(t) /\ Len(s) \in Nat /\ Len(t) \in Nat
      /\ \A i \in 1 .. Len(s) + Len(t) : u[i] = IF i <= Len(s) THEN s[i] ELSE t[i - Len(s)]
  BY ConcatProperties
<1>2. /\ v \in Seq(Charset) /\ Len(v) = Len(s) + Len(t)
      /\ \A i \in 1 .. Len(s) + Len(t) : v[i] = IF i <= Len(s) THEN C!Capitals(s)[i] ELSE C!Capitals(t)[i - Len(s)]
  <2>1. /\ C!Capitals(s) \in Seq(Charset) /\ C!Capitals(t) \in Seq(Charset)
        /\ Len(C!Capitals(s)) = Len(s) /\ Len(C!Capitals(t)) = Len(t)
    BY CapitalsType
  <2> QED BY <2>1, ConcatProperties
<1> HIDE DEF u, v
<1>3. w \in Seq(Charset) /\ Len(w) = Len(s) + Len(t) /\ \A i \in 1 .. Len(u) : w[i] = C!Capital(u[i])
  BY <1>1, CapitalsType
<1> HIDE DEF w
<1>4. ASSUME NEW i \in 1 .. Len(s) + Len(t) PROVE w[i] = v[i]
  <2>1. CASE i <= Len(s)
    BY <1>1, <1>2, <1>3, <2>1, CapitalsType
  <2>2. CASE i > Len(s)
    <3>1. i - Len(s) \in 1 .. Len(t) /\ ~(i <= Len(s))
      BY <1>1, <2>2
    <3>2. C!Capitals(t)[i - Len(s)] = C!Capital(t[i - Len(s)])
      BY <3>1, CapitalsType
    <3> QED BY <1>1, <1>2, <1>3, <3>1, <3>2
  <2> QED BY <1>1, <2>1, <2>2
<1>5. w = v
  BY <1>2, <1>3, <1>4, SeqEqual
<1> QED BY <1>5 DEF u, v, w

(* The specifiers that _ntoa_long works for. *)
NumberSpecs == {"p"} \cup DOMAIN BaseOf

(* What is last in the buffer comes first in the text. *)
LEMMA ReverseAppend ==
  ASSUME NEW s \in Seq(Charset), NEW c \in Charset
  PROVE  Reverse(Append(s, c)) = <<c>> \o Reverse(s)
<1> DEFINE t == Append(s, c)
           u == Reverse(t)
           r == Reverse(s)
           v == <<c>> \o r
<1>1. /\ t \in Seq(Charset) /\ Len(t) = Len(s) + 1 /\ Len(s) \in Nat
      /\ \A i \in 1 .. Len(s) : t[i] = s[i]
      /\ t[Len(s) + 1] = c
  BY AppendProperties, LenProperties
<1> HIDE DEF t
<1>2. u \in Seq(Charset) /\ Len(u) = Len(s) + 1
  <2>1. u \in Seq(Charset) /\ Len(u) = Len(t)
    BY <1>1, ReverseType DEF Reverse
  <2> QED BY <1>1, <2>1
<1>3. \A i \in 1 .. Len(s) + 1 : u[i] = t[(Len(t) - i) + 1]
  BY <1>1 DEF Reverse
<1>4. r \in Seq(Charset) /\ Len(r) = Len(s) /\ \A i \in 1 .. Len(s) : r[i] = s[(Len(s) - i) + 1]
  BY <1>1, ReverseType DEF Reverse
<1> HIDE DEF u, r
<1>5. /\ v \in Seq(Charset) /\ Len(v) = Len(s) + 1
      /\ \A i \in 1 .. Len(s) + 1 : v[i] = IF i <= 1 THEN c ELSE r[i - 1]
  BY <1>1, <1>4
<1> HIDE DEF v
<1>6. ASSUME NEW i \in 1 .. Len(s) + 1 PROVE u[i] = v[i]
  <2>1. CASE i = 1
    BY <1>1, <1>3, <1>5, <2>1
  <2>2. CASE i # 1
    <3>1. i - 1 \in 1 .. Len(s) /\ ~(i <= 1) /\ (Len(t) - i) + 1 = (Len(s) - (i - 1)) + 1
          /\ (Len(t) - i) + 1 \in 1 .. Len(s)
      BY <1>1, <2>2
    <3> QED BY <1>1, <1>3, <1>4, <1>5, <3>1
  <2> QED BY <2>1, <2>2
<1>7. u = v
  BY <1>1, <1>2, <1>5, <1>6, SeqEqual
<1> QED BY <1>7 DEF t, u, v, r

(* The flags and the base for a plain directive. *)
LEMMA NtoaParameters ==
  ASSUME NEW d \in PlainDirectives, d.spec \in NumberSpecs
  PROVE  /\ NtoaBase(d) \in Bases
         /\ "UPPERCASE" \in NtoaFlags(d) <=> d.spec \in {"X", "p"}
         /\ NtoaFlags(d) \subseteq Flags
         /\ "ZEROPAD" \in NtoaFlags(d) <=> d.spec = "p"
         /\ NtoaFlags(d) \cap {"LEFT", "PLUS", "SPACE", "HASH", "PRECISION"} = {}
         /\ LengthFlags(d.length) \subseteq {"CHAR", "SHORT", "LONG", "LONG_LONG"}
<1>1. LengthFlags(d.length) \subseteq {"CHAR", "SHORT", "LONG", "LONG_LONG"}
  BY PlainTypes DEF LengthFlags
<1>2. NtoaBase(d) \in Bases
  BY DEF NtoaBase, C!Radix, NumberSpecs, Bases, BaseOf
<1>3. NtoaFlags(d) = LengthFlags(d.length) \cup (IF d.spec = "X" THEN {"UPPERCASE"}
                       ELSE IF d.spec = "p" THEN {"UPPERCASE", "ZEROPAD"} ELSE {})
  BY DEF NtoaFlags
<1> QED BY <1>1, <1>2, <1>3 DEF Flags

(* The digits are characters, at least one. *)
LEMMA DigitsTextType ==
  ASSUME NEW d \in PlainDirectives, d.spec \in NumberSpecs, NEW n \in Nat
  PROVE  /\ DigitsText(d, n) \in Seq(Charset) /\ Len(DigitsText(d, n)) >= 1
         /\ Len(DigitsText(d, n)) = Len(C!Numeral(n, NtoaBase(d)))
         /\ C!Numeral(n, NtoaBase(d)) \in Seq(Charset)
<1>1. C!Numeral(n, NtoaBase(d)) \in Seq(Charset) /\ Len(C!Numeral(n, NtoaBase(d))) >= 1
  BY NtoaParameters, NumeralType
<1> QED BY <1>1, CapitalsType DEF DigitsText

(* One round of _ntoa_long takes the last digit off what is left. *)
LEMMA DigitsTextStep ==
  ASSUME NEW d \in PlainDirectives, d.spec \in NumberSpecs, flags = NtoaFlags(d), NEW n \in Nat
  PROVE  LET b == NtoaBase(d)
             c == DigitChar(n % b) IN
         /\ c \in Charset /\ n \div b \in Nat
         /\ n \div b = 0 => DigitsText(d, n) = <<c>>
         /\ n \div b # 0 => DigitsText(d, n) = DigitsText(d, n \div b) \o <<c>>
<1> DEFINE b == NtoaBase(d)
           c == DigitChar(n % b)
           x == C!Symbols(b)[(n % b) + 1]
<1>0. b \in Bases /\ b \in Nat /\ b >= 2 /\ ("UPPERCASE" \in flags <=> d.spec \in {"X", "p"})
  BY NtoaParameters DEF Bases
<1> HIDE DEF b
<1>1. /\ n % b \in 0 .. b - 1 /\ n \div b \in Nat
      /\ n >= b => n \div b # 0
      /\ n < b => n \div b = 0 /\ n % b = n
  <2>1. n % b \in 0 .. b - 1 /\ n \div b \in 0 .. n
    BY <1>0, Quotient
  <2>2. (n >= b => n \div b # 0) /\ (n < b => n \div b = 0 /\ n % b = n)
    BY <1>0, Quotient
  <2>3. 0 .. n \subseteq Nat
    OBVIOUS
  <2> QED BY <2>1, <2>2, <2>3
<1>2. x \in Charset /\ c = IF d.spec \in {"X", "p"} THEN C!Capital(x) ELSE x
  BY <1>0, <1>1, SymbolOfDigit DEF DigitChar, Letters
<1>3. c \in Charset
  BY <1>2, CapitalIsChar
<1>4. DigitsText(d, n) = IF d.spec \in {"X", "p"} THEN C!Capitals(C!Numeral(n, b)) ELSE C!Numeral(n, b)
  BY DEF DigitsText, b
<1>5. C!Capitals(<<x>>) = <<C!Capital(x)>>
  <2>1. <<x>> \in Seq(Charset) /\ Len(<<x>>) = 1 /\ <<x>>[1] = x /\ C!Capital(x) \in Charset
    BY <1>2, CapitalIsChar
  <2> HIDE DEF x
  <2> DEFINE s == <<x>>
  <2>2. C!Capitals(s) \in Seq(Charset) /\ Len(C!Capitals(s)) = Len(s)
        /\ \A i \in 1 .. Len(s) : C!Capitals(s)[i] = C!Capital(s[i])
    <3> HIDE DEF s
    <3> QED BY <2>1, CapitalsType DEF s
  <2>3. Len(C!Capitals(s)) = 1 /\ C!Capitals(s)[1] = C!Capital(x)
    <3>1. Len(s) = 1 /\ s[1] = x /\ 1 \in 1 .. 1
      OBVIOUS
    <3> HIDE DEF s
    <3> QED BY <2>2, <3>1
  <2> QED BY <2>2, <2>3
<1>6. ASSUME n \div b = 0 PROVE DigitsText(d, n) = <<c>>
  <2>1. n < b
    BY <1>0, <1>1, <1>6
  <2>2. C!Numeral(n, b) = <<x>>
    BY <1>0, <1>1, <2>1, NumeralStep
  <2> QED BY <1>2, <1>4, <1>5, <2>2
<1>7. ASSUME n \div b # 0 PROVE DigitsText(d, n) = DigitsText(d, n \div b) \o <<c>>
  <2> DEFINE q == C!Numeral(n \div b, b)
  <2>1. n >= b
    BY <1>0, <1>1, <1>7
  <2>2. C!Numeral(n, b) = Append(q, x) /\ q \in Seq(Charset)
    BY <1>0, <1>1, <2>1, NumeralStep, NumeralType
  <2>3. DigitsText(d, n \div b) = IF d.spec \in {"X", "p"} THEN C!Capitals(q) ELSE q
    BY DEF DigitsText, b
  <2> HIDE DEF q, x, c
  <2>4. Append(q, x) = q \o <<x>> /\ <<x>> \in Seq(Charset)
    BY <1>2, <2>2, AppendIsConcat
  <2>5. C!Capitals(q \o <<x>>) = C!Capitals(q) \o C!Capitals(<<x>>)
    BY <2>2, <2>4, CapitalsConcat
  <2> QED BY <1>2, <1>4, <1>5, <2>2, <2>3, <2>4, <2>5
<1> QED BY <1>1, <1>3, <1>6, <1>7 DEF b

(* A number has one digit, or one more than what its division leaves. *)
LEMMA NumeralShrinks ==
  ASSUME NEW b \in Bases, NEW n \in Nat
  PROVE  /\ n < b => Len(C!Numeral(n, b)) = 1
         /\ n >= b => n \div b \in Nat /\ 2 * (n \div b) <= n
                       /\ Len(C!Numeral(n, b)) = Len(C!Numeral(n \div b, b)) + 1
<1>0. b \in Nat /\ b >= 2
  BY DEF Bases
<1>1. ASSUME n < b PROVE Len(C!Numeral(n, b)) = 1
  BY <1>0, <1>1, NumeralStep
<1>2. ASSUME n >= b
      PROVE  /\ n \div b \in Nat /\ 2 * (n \div b) <= n
             /\ Len(C!Numeral(n, b)) = Len(C!Numeral(n \div b, b)) + 1
  <2>1. n \div b \in Nat /\ n % b \in 0 .. b - 1
    <3>1. n \div b \in 0 .. n /\ n % b \in 0 .. b - 1
      BY <1>0, Quotient
    <3> QED BY <3>1
  <2>2. 2 * (n \div b) <= n
    <3>1. CASE b = 2
      BY <3>1
    <3>2. CASE b = 8
      BY <3>2
    <3>3. CASE b = 10
      BY <3>3
    <3>4. CASE b = 16
      BY <3>4
    <3> QED BY <3>1, <3>2, <3>3, <3>4 DEF Bases
  <2>3. C!Numeral(n, b) = Append(C!Numeral(n \div b, b), C!Symbols(b)[(n % b) + 1])
    BY <1>0, <1>2, NumeralStep
  <2>4. C!Numeral(n \div b, b) \in Seq(Charset) /\ C!Symbols(b)[(n % b) + 1] \in Charset
    BY <2>1, NumeralType, SymbolOfDigit
  <2> QED BY <2>1, <2>2, <2>3, <2>4, AppendProperties
<1> QED BY <1>1, <1>2

(* A number below 2^k has at most k digits in any base; 2^k itself has one
   more in base 2 only. *)
LEMMA NumeralShort ==
  ASSUME NEW b \in Bases, NEW e \in {0, 1}, e = 1 => b # 2, NEW bits \in 1 .. INT_BIT,
         NEW n \in Nat, n < 2^bits + e
  PROVE  Len(C!Numeral(n, b)) <= bits
<1> DEFINE Short(k) == \A m \in Nat : m < 2^(k + 1) + e => Len(C!Numeral(m, b)) <= k + 1
           S == {k \in Nat : k + 1 <= INT_BIT => Short(k)}
<1>0. INT_BIT \in Nat \ {0} /\ 2^0 = 1 /\ \A k \in 0 .. INT_BIT - 1 : 2^k \in Nat \ {0} /\ 2^(k + 1) = 2 * 2^k
  BY PrintfAssumption, PowersAreNumbers
<1>1. b \in Nat /\ b >= 2 /\ (e = 1 => b >= 3)
  BY DEF Bases
<1>2. 0 \in S
  <2>1. 2^(0 + 1) = 2
    BY <1>0
  <2>2. \A m \in Nat : m < 2 + e => Len(C!Numeral(m, b)) <= 0 + 1
    <3> SUFFICES ASSUME NEW m \in Nat, m < 2 + e PROVE Len(C!Numeral(m, b)) <= 0 + 1
      OBVIOUS
    <3>1. m < b
      BY <1>1
    <3>2. Len(C!Numeral(m, b)) = 1
      BY <3>1, NumeralShrinks
    <3>3. 1 <= 0 + 1
      OBVIOUS
    <3> QED BY <3>2, <3>3, Zenon
  <2> QED BY <2>1, <2>2
<1>3. ASSUME NEW k \in Nat, k \in S PROVE k + 1 \in S
  <2> SUFFICES ASSUME (k + 1) + 1 <= INT_BIT, NEW m \in Nat, m < 2^((k + 1) + 1) + e
               PROVE  Len(C!Numeral(m, b)) <= (k + 1) + 1
    OBVIOUS
  <2>1. Short(k)
    BY <1>0, <1>3
  <2>2. 2^((k + 1) + 1) = 2 * 2^(k + 1) /\ 2^(k + 1) \in Nat
    <3>1. k + 1 \in 0 .. INT_BIT - 1
      BY <1>0
    <3> QED BY <1>0, <3>1
  <2>3. CASE m < b
    <3>1. Len(C!Numeral(m, b)) = 1
      BY <2>3, NumeralShrinks
    <3>2. 1 <= (k + 1) + 1
      OBVIOUS
    <3> QED BY <3>1, <3>2, Zenon
  <2>4. CASE m >= b
    <3> DEFINE q == m \div b
    <3>1. q \in Nat /\ 2 * q <= m /\ Len(C!Numeral(m, b)) = Len(C!Numeral(q, b)) + 1
      BY <2>4, NumeralShrinks
    <3> HIDE DEF q
    <3>2. q < 2^(k + 1) + e
      <4> DEFINE p == 2^(k + 1)
      <4>1. p \in Nat /\ m < 2 * p + e
        BY <2>2
      <4> HIDE DEF p
      <4>2. q < p + e
        BY <3>1, <4>1
      <4> QED BY <4>2 DEF p
    <3>3. Len(C!Numeral(q, b)) <= k + 1 /\ Len(C!Numeral(q, b)) \in Nat
      BY <2>1, <3>1, <3>2, NumeralType, LenProperties
    <3> QED BY <3>1, <3>3
  <2> QED BY <1>1, <2>3, <2>4
<1>4. Nat \subseteq S
  <2> HIDE DEF S
  <2> QED BY <1>2, <1>3, Induction
<1>5. bits - 1 \in Nat /\ (bits - 1) + 1 = bits /\ bits <= INT_BIT
  BY <1>0
<1>6. bits - 1 \in S
  BY <1>4, <1>5
<1>7. Short(bits - 1)
  BY <1>5, <1>6
<1> QED BY <1>5, <1>7

(* No padding for a width that is reached. *)
LEMMA NothingToFill == \A c, n : n \in Int /\ n <= 0 => C!Repeat(c, n) = <<>> /\ Fill(c, n) = <<>>
<1>1. \A c : [i \in 1 .. 0 |-> c] = <<>>
  OBVIOUS
<1> QED BY <1>1 DEF C!Repeat, Fill

(* A plain directive has no field to be padded. *)
LEMMA NoField ==
  ASSUME NEW d \in PlainDirectives, NEW s \in Seq(Charset)
  PROVE  C!InField(d, s) = s
<1>1. ~C!LeftAligned(d) /\ C!Field(d) = 0
  <2>1. d.flags = {} /\ d.width = 0
    BY PlainTypes
  <2> QED BY <2>1 DEF C!LeftAligned, C!Field
<1>2. C!Repeat(" ", C!Field(d) - Len(s)) = <<>>
  <2>1. Len(s) \in Nat
    BY LenProperties
  <2>2. 0 - Len(s) \in Int /\ 0 - Len(s) <= 0
    BY <2>1
  <2> QED BY <1>1, <2>2, NothingToFill
<1>3. <<>> \o s = s
  BY ConcatEmptySeq
<1> QED BY <1>1, <1>2, <1>3 DEF C!InField

(* The value that C gives a directive, and its magnitude. *)
LEMMA ValueTypes ==
  ASSUME NEW d \in PlainDirectives, d.spec \in NumberSpecs
  PROVE  /\ C!TypeBits(d) \in {CHAR_BIT, SHORT_BIT, INT_BIT, LLONG_BIT}
         /\ Value(d) \in Int /\ Magnitude(d) \in Nat
         /\ Value(d) < 0 => d.spec \in {"d", "i"}
         /\ d.spec # "p" => Magnitude(d) = IF Value(d) < 0 THEN -Value(d) ELSE Value(d)
         /\ d.spec = "p" => Magnitude(d) = d.int % 2^INT_BIT /\ Magnitude(d) \in 0 .. 2^INT_BIT - 1
<1>1. C!TypeBits(d) \in {CHAR_BIT, SHORT_BIT, INT_BIT, LLONG_BIT}
  BY PlainTypes DEF C!TypeBits
<1> DEFINE range == 2^C!TypeBits(d)
           n == d.int % range
<1>2. range \in Nat \ {0} /\ d.int \in Int
  BY <1>1, PowersAreNumbers, PlainTypes
<1> HIDE DEF range
<1>3. n \in 0 .. range - 1
  BY <1>2
<1>4. Value(d) = IF d.spec \in {"d", "i"} /\ 2 * n >= range THEN n - range ELSE n
  BY DEF Value, C!Converted, range
<1> HIDE DEF n
<1>5. Value(d) \in Int /\ (Value(d) < 0 => d.spec \in {"d", "i"})
  BY <1>2, <1>3, <1>4
<1>6. d.int % 2^INT_BIT \in 0 .. 2^INT_BIT - 1 /\ 2^INT_BIT \in Nat
  <2>1. 2^INT_BIT \in Nat \ {0}
    BY PowersAreNumbers
  <2> DEFINE m == 2^INT_BIT
  <2> HIDE DEF m
  <2>2. m \in Nat \ {0} => d.int % m \in 0 .. m - 1
    BY <1>2
  <2> QED BY <2>1, <2>2 DEF m
<1>7. d.spec = "p" => Magnitude(d) = d.int % 2^INT_BIT
  BY DEF Magnitude
<1>8. d.spec # "p" => Magnitude(d) = IF Value(d) < 0 THEN -Value(d) ELSE Value(d)
  BY <1>5 DEF Magnitude
<1>9. Magnitude(d) \in Nat
  BY <1>5, <1>6, <1>7, <1>8
<1> QED BY <1>1, <1>5, <1>6, <1>7, <1>8, <1>9

(* The value that _vsnprintf takes from its argument is C's. *)
LEMMA ConvertedValue ==
  ASSUME NEW d \in PlainDirectives, d.spec \in DOMAIN BaseOf, flags = LengthFlags(d.length)
  PROVE  Value(d) = IF d.spec \in {"d", "i"} THEN Signed(d.int, Bits) ELSE Unsigned(d.int, Bits)
<1>1. Bits = C!TypeBits(d)
  <2>1. d.length \in {"", "hh", "h", "l", "ll", "j", "z", "t"}
    BY PlainTypes
  <2> QED BY <2>1 DEF Bits, C!TypeBits, LengthFlags
<1> DEFINE bits == C!TypeBits(d)
           n == d.int % 2^bits
<1>2. bits \in {CHAR_BIT, SHORT_BIT, INT_BIT, LLONG_BIT} /\ bits \in Nat \ {0} /\ d.int \in Int
  <2>1. bits \in {CHAR_BIT, SHORT_BIT, INT_BIT, LLONG_BIT}
    BY ValueTypes DEF NumberSpecs
  <2> QED BY <2>1, PrintfAssumption, PlainTypes
<1> HIDE DEF bits
<1>3. 2^bits = 2 * 2^(bits - 1) /\ 2^(bits - 1) \in Nat
  <2>1. bits - 1 \in 0 .. bits - 1 /\ (bits - 1) + 1 = bits
    BY <1>2
  <2> QED BY <1>2, <2>1, PowersAreNumbers
<1> DEFINE range == 2^bits
           half == 2^(bits - 1)
<1>4. range \in Nat \ {0} /\ range = 2 * half /\ half \in Nat
  BY <1>2, <1>3, PowersAreNumbers
<1>5. Value(d) = IF d.spec \in {"d", "i"} /\ 2 * n >= range THEN n - range ELSE n
  BY DEF Value, C!Converted, bits
<1>6. Unsigned(d.int, Bits) = n /\ Signed(d.int, Bits) = IF n < half THEN n ELSE n - range
  BY <1>1 DEF Unsigned, Signed, bits
<1> HIDE DEF range, half
<1>7. n \in Nat
  BY <1>2, <1>4 DEF range
<1> HIDE DEF n
<1>8. 2 * n >= range <=> ~(n < half)
  BY <1>4, <1>7
<1> QED BY <1>5, <1>6, <1>8

(* The base that _vsnprintf chooses is C's. *)
LEMMA RadixOfBase ==
  ASSUME NEW d, d.spec \in DOMAIN BaseOf
  PROVE  d.spec # "p" /\ NtoaBase(d) = C!Radix(d) /\ NtoaBase(d) = BaseOf[d.spec]
BY DEF NtoaBase, C!Radix, BaseOf

(* The sign that C prints. *)
NumberSign(d) == IF IsNegative(d) THEN <<"-">> ELSE <<>>

(* What C prints for an integer: the sign and the digits, which Overlong counts. *)
LEMMA MeaningOfInteger ==
  ASSUME NEW d \in PlainDirectives, d.spec \in DOMAIN BaseOf
  PROVE  /\ C!Meaning(d) = NumberSign(d) \o DigitsText(d, Magnitude(d))
         /\ C!Meaning(d) \in Seq(Charset)
         /\ C!Prefix(d) = NumberSign(d)
         /\ DigitsOf(d) = Len(DigitsText(d, Magnitude(d)))
<1> DEFINE digits == C!Numeral(Magnitude(d), NtoaBase(d))
<1>0. d.spec \in NumberSpecs /\ d.spec # "p" /\ d.spec \notin {"text", "%", "c", "s", "p", "f", "F"}
  BY DEF NumberSpecs, BaseOf
<1>1. Magnitude(d) = (IF Value(d) < 0 THEN -Value(d) ELSE Value(d)) /\ Value(d) \in Int /\ Magnitude(d) \in Nat
      /\ (Value(d) < 0 => d.spec \in {"d", "i"})
  BY <1>0, ValueTypes
<1>2. NtoaBase(d) = C!Radix(d)
  BY RadixOfBase
<1>3. d.flags = {} /\ d.width = 0 /\ ~d.hasPrecision
  BY PlainTypes
<1>4. ~C!Precise(d) /\ ~C!Alternative(d)
  BY <1>3 DEF C!Precise, C!Alternative
<1>5. C!PreciseDigits(d) = digits
  BY <1>1, <1>2, <1>4 DEF C!PreciseDigits, Value
<1>6. C!Prefix(d) = NumberSign(d)
  BY <1>0, <1>1, <1>3, <1>4 DEF C!Prefix, NumberSign, IsNegative, Value
<1>7. digits \in Seq(Charset) /\ NumberSign(d) \in Seq(Charset)
  <2>1. <<"-">> \in Seq(Charset) /\ <<>> \in Seq(Charset)
    <3>1. "-" \in Charset
      BY CharsOfPrintf
    <3>2. \A c \in Charset : <<c>> \in Seq(Charset)
      OBVIOUS
    <3> QED BY <3>1, <3>2, EmptySeq
  <2> QED BY <1>0, <1>1, <2>1, DigitsTextType DEF NumberSign
<1> HIDE DEF digits
<1>8. NumberSign(d) \o digits \in Seq(Charset)
  BY <1>7
<1>9. C!NumberText(d) = NumberSign(d) \o digits
  <2>1. NumberSign(d) \o <<>> = NumberSign(d)
    BY <1>7, ConcatEmptySeq
  <2>2. C!NumberText(d) = C!InField(d, C!Prefix(d) \o <<>> \o C!PreciseDigits(d))
    BY <1>3 DEF C!NumberText
  <2> QED BY <1>5, <1>6, <1>8, <2>1, <2>2, NoField
<1>10. C!Meaning(d) = IF d.spec = "X" THEN C!Capitals(C!NumberText(d)) ELSE C!NumberText(d)
  BY <1>0 DEF C!Meaning
<1>11. DigitsText(d, Magnitude(d)) = IF d.spec = "X" THEN C!Capitals(digits) ELSE digits
  BY <1>0 DEF DigitsText, digits
<1>12. DigitsOf(d) = Len(DigitsText(d, Magnitude(d)))
  <2>1. DigitsOf(d) = Len(digits)
    BY <1>1, <1>2 DEF DigitsOf, digits
  <2> QED BY <1>0, <1>1, <2>1, DigitsTextType DEF digits
<1>13. CASE d.spec = "X"
  <2>1. NumberSign(d) = <<>>
    BY <1>1, <1>13 DEF NumberSign, IsNegative
  <2>2. <<>> \o digits = digits /\ <<>> \o C!Capitals(digits) = C!Capitals(digits) /\ C!Capitals(digits) \in Seq(Charset)
    BY <1>7, ConcatEmptySeq, CapitalsType
  <2> QED BY <1>6, <1>9, <1>10, <1>11, <1>12, <1>13, <2>1, <2>2
<1>14. CASE d.spec # "X"
  BY <1>6, <1>8, <1>9, <1>10, <1>11, <1>12, <1>14
<1> QED BY <1>13, <1>14

(* What is printed for a pointer: zeros and the digits. *)
LEMMA MeaningOfPointer ==
  ASSUME NEW d \in PlainDirectives, d.spec = "p"
  PROVE  LET t == DigitsText(d, Magnitude(d)) IN
         C!Meaning(d) = Fill("0", INT_BIT \div 4 - Len(t)) \o t /\ C!Meaning(d) \in Seq(Charset)
         /\ Fill("0", INT_BIT \div 4 - Len(t)) \in Seq(Charset)
<1> DEFINE s == C!Numeral(Magnitude(d), 16)
           t == DigitsText(d, Magnitude(d))
           z == Fill("0", INT_BIT \div 4 - Len(s))
<1>1. d.spec \in NumberSpecs /\ Magnitude(d) \in Nat /\ Magnitude(d) = d.int % 2^INT_BIT /\ NtoaBase(d) = 16
  BY ValueTypes DEF NumberSpecs, NtoaBase
<1>2. s \in Seq(Charset) /\ Len(s) = Len(t) /\ t = C!Capitals(s) /\ t \in Seq(Charset) /\ Len(s) \in Nat
  BY <1>1, DigitsTextType, LenProperties DEF DigitsText
<1>3. C!Meaning(d) = C!Capitals(z \o s)
  <2>1. C!Meaning(d) = C!PointerText(d)
    BY DEF C!Meaning
  <2> QED BY <1>1, <2>1 DEF C!PointerText, C!Repeat, Fill
<1> HIDE DEF s, t
<1>4. INT_BIT \div 4 - Len(s) \in Int
  <2>1. INT_BIT \in Nat
    BY PrintfAssumption
  <2> QED BY <1>2, <2>1
<1>5. z \in Seq(Charset) /\ C!Capitals(z) = z
  <2> DEFINE n == INT_BIT \div 4 - Len(s)
             k == IF n > 0 THEN n ELSE 0
  <2>1. n \in Int /\ k \in Nat
    BY <1>4
  <2>2. z = [i \in 1 .. k |-> "0"]
    BY DEF Fill
  <2> HIDE DEF n, z, k
  <2>3. z \in Seq(Charset) /\ DOMAIN z = 1 .. k /\ \A i \in 1 .. k : z[i] = "0"
    <3>1. "0" \in Charset
      BY CharsOfPrintf
    <3> QED BY <2>1, <2>2, <3>1
  <2>4. C!Capital("0") = "0"
    BY DEF C!Capital
  <2> QED BY <2>2, <2>3, <2>4 DEF C!Capitals
<1> HIDE DEF z
<1>6. C!Capitals(z \o s) = z \o t /\ z \o t \in Seq(Charset)
  <2>1. C!Capitals(z \o s) = C!Capitals(z) \o C!Capitals(s)
    BY <1>2, <1>5, CapitalsConcat
  <2>2. z \o t \in Seq(Charset)
    BY <1>2, <1>5
  <2> QED BY <1>2, <1>5, <2>1, <2>2
<1> QED BY <1>2, <1>3, <1>5, <1>6 DEF z, t

(* Of the rest of the plain directives. *)
LEMMA MeaningPlainly ==
  ASSUME NEW d \in PlainDirectives
  PROVE  /\ C!Meaning(d) \in Seq(Charset \cup {"%"})
         /\ d.spec = "text" => C!Meaning(d) = d.string
         /\ d.spec = "%" => C!Meaning(d) = <<"%">>
         /\ d.spec = "c" => C!Meaning(d) = <<d.char>>
         /\ d.spec = "s" => C!Meaning(d) = d.string
<1>0. d.string \in Seq(Charset) /\ d.char \in Charset /\ ~d.hasPrecision /\ d.spec \in Specifiers \cup {"text"}
  BY PlainTypes
<1>1. Charset \subseteq Charset \cup {"%"}
  OBVIOUS
<1>2. d.spec = "text" => C!Meaning(d) = d.string
  BY DEF C!Meaning
<1>3. d.spec = "%" => C!Meaning(d) = <<"%">>
  BY DEF C!Meaning
<1>4. d.spec = "c" => C!Meaning(d) = <<d.char>> /\ <<d.char>> \in Seq(Charset)
  <2>1. <<d.char>> \in Seq(Charset)
    BY <1>0
  <2>2. d.spec = "c" => C!Meaning(d) = C!InField(d, <<d.char>>)
    BY DEF C!Meaning
  <2> QED BY <2>1, <2>2, NoField
<1>5. d.spec = "s" => C!Meaning(d) = d.string
  <2>1. ~C!Precise(d)
    BY <1>0 DEF C!Precise
  <2>2. d.spec = "s" => C!Meaning(d) = C!InField(d, d.string)
    BY <2>1 DEF C!Meaning
  <2> QED BY <1>0, <2>2, NoField
<1>6. C!Meaning(d) \in Seq(Charset \cup {"%"})
  <2>1. CASE d.spec \in {"text", "c", "s"}
    BY <1>0, <1>1, <1>2, <1>4, <1>5, <2>1, SeqMonotonic
  <2>2. CASE d.spec = "%"
    <3>1. \A c \in Charset \cup {"%"} : <<c>> \in Seq(Charset \cup {"%"})
      OBVIOUS
    <3>2. "%" \in Charset \cup {"%"}
      OBVIOUS
    <3> QED BY <1>3, <2>2, <3>1, <3>2
  <2>3. CASE d.spec = "p"
    BY <1>1, <2>3, MeaningOfPointer, SeqMonotonic
  <2>4. CASE d.spec \in DOMAIN BaseOf
    BY <1>1, <2>4, MeaningOfInteger, SeqMonotonic
  <2> QED BY <1>0, <2>1, <2>2, <2>3, <2>4 DEF Specifiers
<1> QED BY <1>2, <1>3, <1>4, <1>5, <1>6

-----------------------------------------------------------------------------
(* What the directives of a call add up to *)

(* The argument of a plain directive that takes one, *)
ArgumentOf(d) == [int |-> d.int, float |-> d.float, char |-> d.char, string |-> d.string]
(* and all of these. *)
PlainArguments == {ArgumentOf(d) : d \in PlainDirectives}

(* Text and %% take no argument, every other directive one. *)
LEMMA ArgumentsPlainly ==
  ASSUME NEW d \in PlainDirectives
  PROVE  /\ d.spec \in {"text", "%"} => C!Arguments(d) = <<>>
         /\ d.spec \notin {"text", "%"} => C!Arguments(d) = <<ArgumentOf(d)>>
         /\ C!Arguments(d) \in Seq(PlainArguments)
<1>1. ~d.widthArg /\ ~d.hasPrecision
  BY PlainTypes
<1>2. ArgumentOf(d) \in PlainArguments
  BY DEF PlainArguments
<1>3. <<>> \in Seq(PlainArguments) /\ <<ArgumentOf(d)>> \in Seq(PlainArguments)
  <2>1. \A S, x : x \in S => <<x>> \in Seq(S)
    OBVIOUS
  <2> QED BY <1>2, <2>1, EmptySeq
<1>4. <<>> \o <<>> \o <<>> = <<>>
  OBVIOUS
<1>5. <<>> \o <<>> \o <<ArgumentOf(d)>> = <<ArgumentOf(d)>>
  <2> DEFINE a == ArgumentOf(d)
  <2> HIDE DEF a
  <2> QED OBVIOUS
<1>6. d.spec \in {"text", "%"} => C!Arguments(d) = <<>> \o <<>> \o <<>>
  BY <1>1 DEF C!Arguments
<1>7. d.spec \notin {"text", "%"} => C!Arguments(d) = <<>> \o <<>> \o <<ArgumentOf(d)>>
  BY <1>1 DEF C!Arguments, ArgumentOf
<1> QED BY <1>3, <1>4, <1>5, <1>6, <1>7

(* C!Arguments and C!Meaning as functions. *)
ArgumentsAs == [d \in PlainDirectives |-> C!Arguments(d)]
MeaningAs == [d \in PlainDirectives |-> C!Meaning(d)]

(* The arguments of a plain call, joined, *)
LEMMA SentenceArguments ==
  ASSUME NEW ds \in Seq(PlainDirectives)
  PROVE  C!Sentence(C!Arguments, ds) = Joined(ArgumentsAs, ds)
<1>1. [i \in DOMAIN ds |-> C!Arguments(ds[i])] = [i \in DOMAIN ds |-> ArgumentsAs[ds[i]]]
  <2>1. \A i \in DOMAIN ds : ds[i] \in PlainDirectives
    BY LenProperties, ElementOfSeq
  <2> QED BY <2>1 DEF ArgumentsAs
<1> QED BY <1>1, SameFlatten DEF C!Sentence, Joined, Applied

(* and what it has to print. *)
LEMMA SentenceMeaning ==
  ASSUME NEW ds \in Seq(PlainDirectives)
  PROVE  C!Sentence(C!Meaning, ds) = Joined(MeaningAs, ds)
<1>1. [i \in DOMAIN ds |-> C!Meaning(ds[i])] = [i \in DOMAIN ds |-> MeaningAs[ds[i]]]
  <2>1. \A i \in DOMAIN ds : ds[i] \in PlainDirectives
    BY LenProperties, ElementOfSeq
  <2> QED BY <2>1 DEF MeaningAs
<1> QED BY <1>1, SameFlatten DEF C!Sentence, Joined, Applied

(* Which argument belongs to a directive. *)
LEMMA ArgumentsUpto ==
  ASSUME NEW ds \in Seq(PlainDirectives), NEW n \in 0 .. Len(ds)
  PROVE  LET l(m) == Len(C!Sentence(C!Arguments, SubSeq(ds, 1, m)))
             args == C!Sentence(C!Arguments, ds) IN
         /\ args \in Seq(PlainArguments) /\ l(n) \in Nat /\ l(n) <= Len(args) /\ l(0) = 0
         /\ n < Len(ds) /\ ds[n + 1].spec \in {"text", "%"} => l(n + 1) = l(n)
         /\ n < Len(ds) /\ ds[n + 1].spec \notin {"text", "%"} =>
              /\ l(n + 1) = l(n) + 1 /\ l(n) + 1 <= Len(args)
              /\ args[l(n) + 1] = ArgumentOf(ds[n + 1])
<1> DEFINE S(m) == C!Sentence(C!Arguments, SubSeq(ds, 1, m))
           J(m) == JoinedFirst(ArgumentsAs, ds, m)
           args == C!Sentence(C!Arguments, ds)
<1>1. Len(ds) \in Nat /\ ArgumentsAs \in [PlainDirectives -> Seq(PlainArguments)]
  BY ArgumentsPlainly, LenProperties DEF ArgumentsAs
<1>2. /\ Joined(ArgumentsAs, ds) \in Seq(PlainArguments) /\ J(n) \in Seq(PlainArguments)
      /\ Len(J(n)) <= Len(Joined(ArgumentsAs, ds))
      /\ J(0) = <<>>
      /\ n < Len(ds) =>
           LET t == ArgumentsAs[ds[n + 1]] IN
           /\ t \in Seq(PlainArguments) /\ ds[n + 1] \in PlainDirectives
           /\ Len(J(n + 1)) = Len(J(n)) + Len(t) /\ Len(J(n + 1)) <= Len(Joined(ArgumentsAs, ds))
           /\ \A k \in 1 .. Len(t) : Joined(ArgumentsAs, ds)[Len(J(n)) + k] = t[k]
  <2>1. DividesAt(PlainArguments, PlainDirectives, ArgumentsAs, ds, n)
    BY <1>1, JoinedUpto
  <2> QED BY <2>1 DEF DividesAt
<1>3. \A m \in 0 .. Len(ds) : S(m) = J(m)
  BY SentenceArguments, UptoIsPlain DEF JoinedFirst
<1>4. args = Joined(ArgumentsAs, ds)
  BY SentenceArguments
<1>5. 0 \in 0 .. Len(ds) /\ (n < Len(ds) => n + 1 \in 0 .. Len(ds))
  BY <1>1
<1> HIDE DEF S, J, args
<1>6. S(n) = J(n) /\ S(0) = J(0) /\ (n < Len(ds) => S(n + 1) = J(n + 1))
  BY <1>3, <1>5
<1>7. n < Len(ds) => ArgumentsAs[ds[n + 1]] = C!Arguments(ds[n + 1])
  BY <1>2 DEF ArgumentsAs
<1>8. Len(<<>>) = 0 /\ Len(J(n)) \in Nat
  BY <1>2, LenProperties
<1>9. ASSUME n < Len(ds), ds[n + 1].spec \in {"text", "%"} PROVE Len(S(n + 1)) = Len(S(n))
  <2>1. ArgumentsAs[ds[n + 1]] = <<>>
    BY <1>2, <1>7, <1>9, ArgumentsPlainly
  <2> QED BY <1>2, <1>6, <1>8, <1>9, <2>1
<1>10. ASSUME n < Len(ds), ds[n + 1].spec \notin {"text", "%"}
       PROVE  /\ Len(S(n + 1)) = Len(S(n)) + 1 /\ Len(S(n)) + 1 <= Len(args)
              /\ args[Len(S(n)) + 1] = ArgumentOf(ds[n + 1])
  <2> DEFINE a == ArgumentOf(ds[n + 1])
  <2>1. ArgumentsAs[ds[n + 1]] = <<a>>
    BY <1>2, <1>7, <1>10, ArgumentsPlainly
  <2> HIDE DEF a
  <2>2. Len(<<a>>) = 1 /\ 1 \in 1 .. 1 /\ <<a>>[1] = a
    OBVIOUS
  <2> QED BY <1>2, <1>4, <1>6, <1>10, <2>1, <2>2 DEF a
<1> QED BY <1>2, <1>4, <1>6, <1>8, <1>9, <1>10 DEF S, args

(* What the first n directives mean. *)
Meanings == Seq(Charset \cup {"%"})

(* What the first n directives print, and the next. *)
LEMMA MeaningUpto ==
  ASSUME NEW ds \in Seq(PlainDirectives), NEW n \in 0 .. Len(ds)
  PROVE  LET s(m) == C!Sentence(C!Meaning, SubSeq(ds, 1, m)) IN
         /\ s(n) \in Meanings /\ s(0) = <<>> /\ s(Len(ds)) = C!Sentence(C!Meaning, ds)
         /\ n < Len(ds) => ds[n + 1] \in PlainDirectives /\ s(n + 1) = s(n) \o C!Meaning(ds[n + 1])
<1> DEFINE S(m) == C!Sentence(C!Meaning, SubSeq(ds, 1, m))
           J(m) == JoinedFirst(MeaningAs, ds, m)
           X == Charset \cup {"%"}
<1> HIDE DEF X
<1>1. Len(ds) \in Nat /\ MeaningAs \in [PlainDirectives -> Seq(X)]
  BY MeaningPlainly, LenProperties DEF MeaningAs, X
<1>2. /\ J(n) \in Seq(X) /\ J(0) = <<>> /\ J(Len(ds)) = Joined(MeaningAs, ds)
      /\ n < Len(ds) =>
           LET t == MeaningAs[ds[n + 1]] IN ds[n + 1] \in PlainDirectives /\ J(n + 1) = J(n) \o t
  <2>1. DividesAt(X, PlainDirectives, MeaningAs, ds, n)
    BY <1>1, JoinedUpto
  <2> QED BY <2>1 DEF DividesAt
<1>3. \A m \in 0 .. Len(ds) : S(m) = J(m)
  BY SentenceMeaning, UptoIsPlain DEF JoinedFirst
<1>4. C!Sentence(C!Meaning, ds) = Joined(MeaningAs, ds)
  BY SentenceMeaning
<1>5. 0 \in 0 .. Len(ds) /\ Len(ds) \in 0 .. Len(ds) /\ (n < Len(ds) => n + 1 \in 0 .. Len(ds))
  BY <1>1
<1> HIDE DEF S, J
<1>6. S(n) = J(n) /\ S(0) = J(0) /\ S(Len(ds)) = J(Len(ds)) /\ (n < Len(ds) => S(n + 1) = J(n + 1))
  BY <1>3, <1>5
<1>7. n < Len(ds) => MeaningAs[ds[n + 1]] = C!Meaning(ds[n + 1])
  BY <1>2 DEF MeaningAs
<1> QED BY <1>2, <1>4, <1>6, <1>7 DEF S, Meanings, X

(* The characters of the format that the first n directives take, *)
Start(n) == Len(C!Sentence(C!Spelled, Upto(n)))
(* the arguments that they take, *)
Given(n) == Len(C!Sentence(C!Arguments, Upto(n)))
(* and what they print. *)
Said(n) == C!Sentence(C!Meaning, Upto(n))

(* A plain call passes what its directives ask for. *)
LEMMA PlainCall ==
  ASSUME IsPlain(call)
  PROVE  /\ call.directives \in Seq(PlainDirectives) /\ Total \in Nat
         /\ call.format = C!Sentence(C!Spelled, call.directives)
         /\ call.args = C!Sentence(C!Arguments, call.directives)
<1>1. call.directives \in Seq(PlainDirectives)
  BY DEF IsPlain
<1>2. call = Call(call.library, call.directives, call.sink, call.maxlen)
  BY DEF IsPlain
<1> DEFINE f == C!Sentence(C!Spelled, call.directives)
           a == C!Sentence(C!Arguments, call.directives)
<1>3. call = [library |-> call.library, format |-> f, args |-> a, sink |-> call.sink, maxlen |-> call.maxlen,
              directives |-> call.directives]
  BY <1>2 DEF Call
<1> HIDE DEF f, a
<1>4. call.format = f /\ call.args = a
  BY <1>3
<1> QED BY <1>1, <1>4, LenProperties DEF f, a, Total

(* The letters of a directive. *)
LEMMA SpelledLetters ==
  ASSUME NEW d \in PlainDirectives, d.spec # "text"
  PROVE  LET l == Len(C!SpelledLength(d))
             s == C!Spelled(d) IN
         /\ l \in Nat /\ Len(s) = l + 2 /\ s[1] = "%" /\ s[l + 2] = d.spec
         /\ d.length = "" => l = 0
         /\ d.length \in {"h", "l", "j", "z", "t"} => l = 1 /\ s[2] = d.length
         /\ d.length = "hh" => l = 2 /\ s[2] = "h" /\ s[3] = "h"
         /\ d.length = "ll" => l = 2 /\ s[2] = "l" /\ s[3] = "l"
<1> DEFINE t == C!SpelledLength(d)
           s == C!Spelled(d)
<1>1. s = <<"%">> \o t \o <<d.spec>> /\ t \in Seq(Alphabet)
  BY SpelledPlainly
<1>2. /\ d.length = "" => t = <<>>
      /\ d.length \in {"h", "l", "j", "z", "t"} => t = <<d.length>>
      /\ d.length = "hh" => t = <<"h", "h">>
      /\ d.length = "ll" => t = <<"l", "l">>
  BY SpelledLengthType
<1> HIDE DEF s, t
<1>3. /\ Len(t) \in Nat /\ Len(s) = Len(t) + 2 /\ s[1] = "%" /\ s[Len(t) + 2] = d.spec
      /\ \A i \in 1 .. Len(t) : s[i + 1] = t[i]
  BY <1>1
<1>4. d.length = "" => Len(t) = 0
  <2>1. Len(<<>>) = 0
    OBVIOUS
  <2> QED BY <1>2, <2>1
<1>5. d.length \in {"h", "l", "j", "z", "t"} => Len(t) = 1 /\ s[2] = d.length
  <2>1. \A x : Len(<<x>>) = 1 /\ <<x>>[1] = x
    OBVIOUS
  <2>2. 1 \in 1 .. 1 /\ 1 + 1 = 2
    OBVIOUS
  <2> QED BY <1>2, <1>3, <2>1, <2>2
<1>6. \A x : t = <<x, x>> => Len(t) = 2 /\ s[2] = x /\ s[3] = x
  <2> SUFFICES ASSUME NEW x, t = <<x, x>> PROVE Len(t) = 2 /\ s[2] = x /\ s[3] = x
    OBVIOUS
  <2>1. Len(t) = 2 /\ t[1] = x /\ t[2] = x
    OBVIOUS
  <2>2. s[1 + 1] = t[1] /\ s[2 + 1] = t[2]
    BY <1>3, <2>1
  <2> QED BY <2>1, <2>2
<1> QED BY <1>2, <1>3, <1>4, <1>5, <1>6 DEF s, t

(* Where the format is read, and what is there. *)
LEMMA ReadsDirective ==
  ASSUME IsPlain(call), NEW n \in 0 .. Total - 1
  PROVE  LET d == call.directives[n + 1]
             s == C!Spelled(d) IN
         /\ d \in PlainDirectives /\ Start(n) \in Nat /\ Start(n + 1) = Start(n) + Len(s)
         /\ \A k \in 1 .. Len(s) : Format(Start(n) + k) = s[k]
<1> DEFINE d == call.directives[n + 1]
           s == C!Spelled(d)
<1>1. call.directives \in Seq(PlainDirectives) /\ n \in 0 .. Len(call.directives) /\ n < Len(call.directives)
      /\ call.format = C!Sentence(C!Spelled, call.directives)
  BY PlainCall DEF Total
<1>2. /\ d \in PlainDirectives /\ Start(n) \in Nat /\ Start(n + 1) = Start(n) + Len(s)
      /\ Start(n) + Len(s) <= Len(call.format)
      /\ \A k \in 1 .. Len(s) : call.format[Start(n) + k] = s[k]
  BY <1>1, SpelledUpto DEF Start, Upto
<1>3. Len(s) \in Nat
  BY <1>2, SpelledPlainly, LenProperties
<1>4. call.format \in Seq(Alphabet) /\ Len(call.format) \in Nat
  <2>1. call.format \in Seq(Alphabet)
    BY <1>1, SpelledUpto
  <2> QED BY <2>1, LenProperties
<1> HIDE DEF s
<1>5. ASSUME NEW k \in 1 .. Len(s) PROVE Format(Start(n) + k) = s[k]
  <2>1. Start(n) + k <= Len(call.format)
    BY <1>2, <1>3, <1>4
  <2> QED BY <1>2, <2>1 DEF Format
<1> QED BY <1>2, <1>5 DEF s

(* The format starts with the first directive and ends behind the last. *)
LEMMA ReadsEnd ==
  ASSUME IsPlain(call)
  PROVE  Start(0) = 0 /\ Start(Total) \in Nat /\ Format(Start(Total) + 1) = "NUL"
<1>1. call.directives \in Seq(PlainDirectives) /\ Total \in 0 .. Len(call.directives) /\ Total = Len(call.directives)
      /\ call.format = C!Sentence(C!Spelled, call.directives)
  BY PlainCall DEF Total
<1>2. Start(0) = 0 /\ Start(Total) = Len(call.format) /\ call.format \in Seq(Alphabet)
  BY <1>1, SpelledUpto DEF Start, Upto
<1>3. Len(call.format) \in Nat
  BY <1>2, LenProperties
<1> QED BY <1>2, <1>3 DEF Format

(* The argument of directive n is behind those of the directives before it. *)
LEMMA TakesDirective ==
  ASSUME IsPlain(call), NEW n \in 0 .. Total - 1
  PROVE  LET d == call.directives[n + 1] IN
         /\ Given(n) \in Nat
         /\ d.spec \in {"text", "%"} => Given(n + 1) = Given(n)
         /\ d.spec \notin {"text", "%"} =>
              /\ Given(n + 1) = Given(n) + 1 /\ Given(n) + 1 \in DOMAIN call.args
              /\ Given(n) + 1 <= Len(call.args) /\ DOMAIN call.args = 1 .. Len(call.args)
              /\ call.args[Given(n) + 1] = ArgumentOf(d)
<1>1. call.directives \in Seq(PlainDirectives) /\ n \in 0 .. Len(call.directives) /\ n < Len(call.directives)
      /\ call.args = C!Sentence(C!Arguments, call.directives)
  BY PlainCall DEF Total
<1> DEFINE d == call.directives[n + 1]
<1>2. /\ call.args \in Seq(PlainArguments) /\ Given(n) \in Nat
      /\ d.spec \in {"text", "%"} => Given(n + 1) = Given(n)
      /\ d.spec \notin {"text", "%"} =>
              /\ Given(n + 1) = Given(n) + 1 /\ Given(n) + 1 <= Len(call.args)
              /\ call.args[Given(n) + 1] = ArgumentOf(d)
  BY <1>1, ArgumentsUpto DEF Given, Upto
<1>3. DOMAIN call.args = 1 .. Len(call.args) /\ Len(call.args) \in Nat
  BY <1>2, LenProperties
<1> QED BY <1>2, <1>3

(* Directive n is printed behind those before it. *)
LEMMA SaysDirective ==
  ASSUME IsPlain(call)
  PROVE  /\ Said(0) = <<>> /\ Said(Total) = C!Sentence(C!Meaning, call.directives)
         /\ \A n \in 0 .. Total : Said(n) \in Meanings
         /\ \A n \in 0 .. Total - 1 :
              Said(n + 1) = Said(n) \o C!Meaning(call.directives[n + 1])
<1>1. call.directives \in Seq(PlainDirectives) /\ Total = Len(call.directives) /\ Total \in Nat
  BY PlainCall DEF Total
<1>2. ASSUME NEW n \in 0 .. Total
      PROVE  /\ Said(n) \in Meanings /\ Said(0) = <<>> /\ Said(Total) = C!Sentence(C!Meaning, call.directives)
             /\ n < Total => Said(n + 1) = Said(n) \o C!Meaning(call.directives[n + 1])
  <2>1. n \in 0 .. Len(call.directives)
    BY <1>1
  <2> QED BY <1>1, <2>1, MeaningUpto DEF Said, Upto
<1>3. Said(0) = <<>> /\ Said(Total) = C!Sentence(C!Meaning, call.directives)
  <2>1. 0 \in 0 .. Total
    BY <1>1
  <2> QED BY <1>2, <2>1
<1>4. \A n \in 0 .. Total - 1 : n \in 0 .. Total /\ n < Total
  BY <1>1
<1> QED BY <1>2, <1>3, <1>4

-----------------------------------------------------------------------------
(* The invariant of a plain call *)

(* The invariant's parts, in terms of what a step leaves. *)
LEMMA PrimedParts ==
  ASSUME call' = call, NEW n, NEW k, NEW s
  PROVE  /\ Total' = Total /\ (Faultless <=> Faultless')
         /\ At(n, k)' <=> pos' = Start(n) + k + 1
         /\ Taken(n)' <=> arg' <= Given(n) + 1 /\ (Faultless => arg' = Given(n) + 1)
         /\ Printed(n, s)' <=> (Faultless => text' = Said(n) \o s)
<1>1. Total' = Total /\ (Faultless <=> Faultless')
  BY DEF Total, Faultless
<1>2. Start(n)' = Start(n) /\ Given(n)' = Given(n) /\ Said(n)' = Said(n)
  BY DEF Start, Given, Said, Upto
<1>3. At(n, k)' <=> pos' = Start(n)' + k + 1
  BY DEF At, Start
<1>4. Taken(n)' <=> arg' <= Given(n)' + 1 /\ (Faultless' => arg' = Given(n)' + 1)
  BY DEF Taken, Given
<1>5. Printed(n, s)' <=> (Faultless' => text' = Said(n)' \o s)
  BY DEF Printed, Said
<1> QED BY <1>1, <1>2, <1>3, <1>4, <1>5

(* The same of the state before. *)
LEMMA Parts ==
  ASSUME NEW n, NEW k, NEW s
  PROVE  /\ At(n, k) <=> pos = Start(n) + k + 1
         /\ Taken(n) <=> arg <= Given(n) + 1 /\ (Faultless => arg = Given(n) + 1)
         /\ Printed(n, s) <=> (Faultless => text = Said(n) \o s)
BY DEF At, Start, Taken, Given, Printed, Said

(* In front of a directive, in the middle of a text, or at the end. *)
Between(n) ==
  LET d == call.directives[n + 1] IN
  /\ Taken(n)
  /\ \/ n = Total /\ This = "NUL" /\ At(n, 0) /\ Printed(n, <<>>)
     \/ n < Total /\ d \in PlainDirectives /\ d.spec # "text" /\ This = "%" /\ At(n, 0) /\ Printed(n, <<>>)
     \/ /\ n < Total /\ d \in PlainDirectives /\ d.spec = "text"
        /\ \E k \in 0 .. Len(d.string) - 1 :
             /\ At(n, k) /\ Printed(n, SubSeq(d.string, 1, k))
             /\ This = d.string[k + 1] /\ This \in Charset \ {"%", "NUL"}

(* Between two directives _vsnprintf is as Between says. *)
LEMMA InFormat ==
  ASSUME IsPlain(call), PlainInv, pc = "format"
  PROVE  \E n \in 0 .. Total : Between(n)
<1>0. Total \in Nat
  BY PlainCall
<1>1. PICK n \in 0 .. Total :
         /\ Taken(n)
         /\ \/ At(n, 0) /\ Printed(n, <<>>)
            \/ /\ n < Total /\ call.directives[n + 1].spec = "text"
               /\ \E k \in 1 .. Len(call.directives[n + 1].string) - 1 :
                    At(n, k) /\ Printed(n, SubSeq(call.directives[n + 1].string, 1, k))
  BY DEF PlainInv
<1>2. CASE n = Total
  <2>1. At(n, 0) /\ Printed(n, <<>>)
    BY <1>1, <1>2
  <2>2. This = "NUL"
    <3>1. pos = Start(Total) + 0 + 1
      BY <1>2, <2>1, Parts
    <3>2. pos = Start(Total) + 1
      BY <3>1, ReadsEnd
    <3> QED BY <3>2, ReadsEnd DEF This
  <2>3. Between(n)
    BY <1>1, <1>2, <2>1, <2>2 DEF Between
  <2> QED BY <2>3
<1>3. CASE n # Total
  <2> DEFINE d == call.directives[n + 1]
             s == C!Spelled(d)
  <2>1. n \in 0 .. Total - 1 /\ n < Total
    BY <1>0, <1>3
  <2>2. d \in PlainDirectives /\ Start(n) \in Nat /\ \A k \in 1 .. Len(s) : Format(Start(n) + k) = s[k]
    BY <2>1, ReadsDirective
  <2> HIDE DEF s, d
  <2>3. CASE d.spec # "text"
    <3>1. s[1] = "%" /\ 1 \in 1 .. Len(s)
      <4>1. s[1] = "%" /\ Len(C!SpelledLength(d)) \in Nat /\ Len(s) = Len(C!SpelledLength(d)) + 2
        BY <2>2, <2>3, SpelledLetters DEF s
      <4> QED BY <4>1
    <3>2. At(n, 0) /\ Printed(n, <<>>)
      BY <1>1, <2>3 DEF d
    <3>3. pos = Start(n) + 1
      <4>1. pos = Start(n) + 0 + 1
        BY <3>2, Parts
      <4> QED BY <2>2, <4>1
    <3>4. This = "%"
      BY <2>2, <3>1, <3>3 DEF This
    <3>5. Between(n)
      BY <1>1, <2>1, <2>2, <2>3, <3>2, <3>4 DEF d, Between
    <3> QED BY <3>5
  <2>4. CASE d.spec = "text"
    <3>1. s = d.string /\ d.string \in Seq(Charset \ {"%", "NUL"}) /\ d.string # <<>>
      BY <2>2, <2>4, SpelledPlainly, PlainTypes DEF s
    <3>2. Len(d.string) \in Nat \ {0}
      BY <3>1, EmptySeq
    <3>3. PICK k \in 0 .. Len(d.string) - 1 : At(n, k) /\ Printed(n, SubSeq(d.string, 1, k))
      <4>1. CASE At(n, 0) /\ Printed(n, <<>>)
        <5>1. SubSeq(d.string, 1, 0) = <<>>
          BY SubSeqEmpty
        <5>2. 0 \in 0 .. Len(d.string) - 1
          BY <3>2
        <5> QED BY <4>1, <5>1, <5>2
      <4>2. CASE ~(At(n, 0) /\ Printed(n, <<>>))
        <5>1. PICK k \in 1 .. Len(d.string) - 1 : At(n, k) /\ Printed(n, SubSeq(d.string, 1, k))
          BY <1>1, <4>2 DEF d
        <5>2. k \in 0 .. Len(d.string) - 1
          BY <3>2
        <5> QED BY <5>1, <5>2
      <4> QED BY <4>1, <4>2
    <3>4. k + 1 \in 1 .. Len(d.string) /\ k \in Nat
      BY <3>2
    <3>5. pos = Start(n) + (k + 1)
      <4>1. pos = Start(n) + k + 1
        BY <3>3, Parts
      <4> QED BY <2>2, <3>4, <4>1
    <3>6. This = d.string[k + 1]
      BY <2>2, <3>1, <3>4, <3>5 DEF This
    <3>7. This \in Charset \ {"%", "NUL"}
      BY <3>1, <3>4, <3>6, ElementOfSeq
    <3>8. Between(n)
      BY <1>1, <2>1, <2>2, <2>4, <3>3, <3>6, <3>7 DEF d, Between
    <3> QED BY <3>8
  <2> QED BY <2>3, <2>4
<1> QED BY <1>2, <1>3

-----------------------------------------------------------------------------
(* Text *)

(* A step that ends a directive arrives there, *)
LEMMA ToFormat ==
  ASSUME IsPlain(call), call' = call, pc' = "format", NEW n \in 0 .. Total,
         Start(n) \in Nat, pos' = Start(n) + 1, arg' <= Given(n) + 1,
         Faultless => arg' = Given(n) + 1 /\ text' = Said(n)
  PROVE  PlainInv'
<1>1. Said(n) \o <<>> = Said(n)
  BY SaysDirective, ConcatEmptySeq DEF Meanings
<1>2. pos' = Start(n) + 0 + 1
  OBVIOUS
<1>3. Taken(n)' /\ At(n, 0)' /\ Printed(n, <<>>)' /\ Total' = Total
  BY <1>1, <1>2, PrimedParts
<1> QED BY <1>3 DEF PlainInv

(* and one that puts out a letter of a text stays in it. *)
LEMMA ToText ==
  ASSUME IsPlain(call), call' = call, pc' = "format", NEW n \in 0 .. Total, n < Total,
         call.directives[n + 1].spec = "text",
         NEW k \in 1 .. Len(call.directives[n + 1].string) - 1,
         pos' = Start(n) + k + 1, arg' <= Given(n) + 1,
         Faultless => arg' = Given(n) + 1 /\ text' = Said(n) \o SubSeq(call.directives[n + 1].string, 1, k)
  PROVE  PlainInv'
<1> DEFINE s == SubSeq(call.directives[n + 1].string, 1, k)
<1>1. Taken(n)' /\ At(n, k)' /\ Printed(n, s)' /\ Total' = Total
  BY PrimedParts
<1>2. s' = s
  OBVIOUS
<1>3. Printed(n, SubSeq(call.directives[n + 1].string, 1, k))'
  BY <1>1, <1>2 DEF Printed
<1> QED BY <1>1, <1>3 DEF PlainInv

(* A letter is put out. *)
LEMMA LiteralPlain ==
  ASSUME PrintfType, IsPlain(call), PlainInv, Literal
  PROVE  PlainInv'
<1>0. pc = "format" /\ This \notin {"%", "NUL"} /\ text' = text \o <<This>> /\ pos' = pos + 1
      /\ call' = call /\ pc' = "format" /\ arg' = arg
  BY DEF Literal, Out
<1>1. PICK n \in 0 .. Total : Between(n)
  BY <1>0, InFormat
<1> DEFINE d == call.directives[n + 1]
<1>2. /\ Taken(n) /\ n < Total /\ d \in PlainDirectives /\ d.spec = "text"
      /\ \E k \in 0 .. Len(d.string) - 1 :
           /\ At(n, k) /\ Printed(n, SubSeq(d.string, 1, k))
           /\ This = d.string[k + 1] /\ This \in Charset \ {"%", "NUL"}
  BY <1>0, <1>1 DEF Between
<1>3. PICK k \in 0 .. Len(d.string) - 1 :
           /\ At(n, k) /\ Printed(n, SubSeq(d.string, 1, k))
           /\ This = d.string[k + 1] /\ This \in Charset
  BY <1>2
<1>4. n \in 0 .. Total - 1 /\ n + 1 \in 0 .. Total /\ Total \in Nat
  BY <1>2, PlainCall
<1>5. /\ Start(n) \in Nat /\ Start(n + 1) = Start(n) + Len(d.string)
      /\ Given(n + 1) = Given(n) /\ Given(n) \in Nat
      /\ Said(n + 1) = Said(n) \o d.string /\ Said(n) \in Meanings
  <2>1. C!Spelled(d) = d.string
    BY <1>2, SpelledPlainly
  <2>2. C!Meaning(d) = d.string
    BY <1>2, MeaningPlainly
  <2>3. Given(n + 1) = Given(n) /\ Given(n) \in Nat
    BY <1>2, <1>4, TakesDirective
  <2>4. Start(n) \in Nat /\ Start(n + 1) = Start(n) + Len(d.string)
    BY <1>4, <2>1, ReadsDirective
  <2>5. Said(n + 1) = Said(n) \o d.string /\ Said(n) \in Meanings
    BY <1>4, <2>2, SaysDirective
  <2> QED BY <2>3, <2>4, <2>5
<1>6. d.string \in Seq(Charset) /\ Len(d.string) \in Nat /\ d.string \in Meanings
  <2>1. d.string \in Seq(Charset)
    BY <1>2, PlainTypes
  <2>2. Charset \subseteq Charset \cup {"%"}
    OBVIOUS
  <2> QED BY <2>1, <2>2, LenProperties, SeqMonotonic DEF Meanings
<1>7. pos' = Start(n) + (k + 1) + 1 /\ arg' <= Given(n) + 1 /\ (Faultless => arg' = Given(n) + 1) /\ k + 1 \in 1 .. Len(d.string)
  <2>1. pos = Start(n) + k + 1 /\ arg <= Given(n) + 1 /\ (Faultless => arg = Given(n) + 1)
    BY <1>2, <1>3, Parts
  <2>2. k + 1 \in 1 .. Len(d.string) /\ k \in Nat
    BY <1>3, <1>6
  <2> QED BY <1>0, <1>5, <2>1, <2>2
<1>8. Faultless => text' = Said(n) \o SubSeq(d.string, 1, k + 1)
  <2> SUFFICES ASSUME Faultless PROVE text' = Said(n) \o SubSeq(d.string, 1, k + 1)
    OBVIOUS
  <2> DEFINE a == SubSeq(d.string, 1, k)
             b == SubSeq(d.string, 1, k + 1)
             c == <<This>>
             X == Charset \cup {"%"}
  <2>1. text = Said(n) \o a
    BY <1>3, Parts
  <2>2. b = a \o c
    <3>1. b = SubSeq(d.string, 1, (k + 1) - 1) \o <<d.string[k + 1]>>
      <4>1. 1 \in 1 .. Len(d.string) /\ k + 1 \in 1 .. Len(d.string)
        BY <1>7
      <4> QED BY <1>6, <4>1, SubSeqRecursiveSecond
    <3>2. (k + 1) - 1 = k
      BY <1>3
    <3> QED BY <1>3, <3>1, <3>2
  <2>3. a \in Seq(X) /\ c \in Seq(X) /\ Said(n) \in Seq(X)
    <3>1. This \in X
      BY <1>3
    <3>2. \A x \in X : <<x>> \in Seq(X)
      OBVIOUS
    <3>3. a \in Seq(X)
      <4>1. \A i \in 1 .. k : d.string[i] \in X
        BY <1>6, <1>7, ElementOfSeq DEF Meanings
      <4> HIDE DEF X
      <4>2. 1 \in Int /\ k \in Int
        OBVIOUS
      <4> QED BY <4>1, <4>2, SubSeqProperties
    <3> QED BY <1>5, <3>1, <3>2, <3>3 DEF Meanings
  <2> HIDE DEF a, b, c, X
  <2>4. (Said(n) \o a) \o c = Said(n) \o (a \o c)
    BY <2>3, ConcatAssociative
  <2> QED BY <1>0, <2>1, <2>2, <2>4 DEF b, c
<1>9. CASE k + 1 = Len(d.string)
  <2>1. SubSeq(d.string, 1, k + 1) = d.string
    BY <1>6, <1>9, SubSeqFull
  <2>2. pos' = Start(n + 1) + 1 /\ Start(n + 1) \in Nat
    BY <1>5, <1>6, <1>7, <1>9
  <2>3. arg' <= Given(n + 1) + 1 /\ (Faultless => arg' = Given(n + 1) + 1 /\ text' = Said(n + 1))
    BY <1>5, <1>7, <1>8, <2>1
  <2> QED BY <1>0, <1>4, <2>2, <2>3, ToFormat
<1>10. CASE k + 1 # Len(d.string)
  <2>1. k + 1 \in 1 .. Len(d.string) - 1
    BY <1>6, <1>7, <1>10
  <2> QED BY <1>0, <1>2, <1>7, <1>8, <2>1, ToText
<1> QED BY <1>9, <1>10

-----------------------------------------------------------------------------
(* The directive up to its specifier *)

(* Behind the % of a directive. *)
Behind(n) ==
  LET d == call.directives[n + 1]
      l == Len(C!SpelledLength(d)) IN
  /\ d \in PlainDirectives /\ d.spec # "text" /\ Taken(n) /\ Printed(n, <<>>)
  /\ Start(n) \in Nat /\ Start(n + 1) = Start(n) + l + 2 /\ l \in Nat
  /\ pos = Start(n) + (IF pc = "specifier" THEN l + 2 ELSE 2)
  /\ flags = IF pc = "specifier" THEN LengthFlags(d.length) ELSE {}
  /\ width = 0 /\ precision = 0
  /\ pc = "specifier" => This = d.spec
  /\ pc # "specifier" =>
       /\ d.length = "" => This = d.spec
       /\ d.length \in {"h", "l", "j", "z", "t"} => This = d.length /\ Format(pos + 1) = d.spec
       /\ d.length = "hh" => This = "h" /\ Format(pos + 1) = "h"
       /\ d.length = "ll" => This = "l" /\ Format(pos + 1) = "l"

(* Between % and specifier _vsnprintf is as Behind says, *)
LEMMA InDirective ==
  ASSUME IsPlain(call), PlainInv, pc \in {"flags", "width", "length", "specifier"}
  PROVE  \E n \in 0 .. Total - 1 : Behind(n)
<1>1. PICK n \in 0 .. Total - 1 :
         LET d == call.directives[n + 1] IN
           /\ d.spec # "text"
           /\ Taken(n) /\ Printed(n, <<>>)
           /\ At(n, IF pc = "specifier" THEN 1 + Len(C!SpelledLength(d)) ELSE 1)
           /\ flags = IF pc = "specifier" THEN LengthFlags(d.length) ELSE {}
           /\ width = 0 /\ precision = 0
  BY DEF PlainInv
<1> DEFINE d == call.directives[n + 1]
           l == Len(C!SpelledLength(d))
           s == C!Spelled(d)
<1>2. /\ d \in PlainDirectives /\ Start(n) \in Nat /\ Start(n + 1) = Start(n) + Len(s)
      /\ \A k \in 1 .. Len(s) : Format(Start(n) + k) = s[k]
  BY ReadsDirective
<1>3. /\ l \in Nat /\ Len(s) = l + 2 /\ s[1] = "%" /\ s[l + 2] = d.spec
      /\ d.length = "" => l = 0
      /\ d.length \in {"h", "l", "j", "z", "t"} => l = 1 /\ s[2] = d.length
      /\ d.length = "hh" => l = 2 /\ s[2] = "h" /\ s[3] = "h"
      /\ d.length = "ll" => l = 2 /\ s[2] = "l" /\ s[3] = "l"
  BY <1>1, <1>2, SpelledLetters
<1> HIDE DEF s, l
<1>3a. l \in Nat /\ Len(s) = l + 2
  BY <1>3
<1>3b. /\ s[l + 2] = d.spec
       /\ d.length = "" => l = 0
       /\ d.length \in {"h", "l", "j", "z", "t"} => l = 1
       /\ d.length \in {"hh", "ll"} => l = 2
  BY <1>3
<1>4. pos = Start(n) + (IF pc = "specifier" THEN l + 2 ELSE 2)
  <2>1. At(n, IF pc = "specifier" THEN 1 + l ELSE 1)
    BY <1>1 DEF l
  <2>2. pos = Start(n) + (IF pc = "specifier" THEN 1 + l ELSE 1) + 1
    BY <2>1, Parts
  <2> QED BY <1>2, <1>3a, <2>2
<1>5. pc = "specifier" => This = d.spec
  <2>1. l + 2 \in 1 .. Len(s)
    BY <1>3a
  <2>2. pc = "specifier" => pos = Start(n) + (l + 2)
    BY <1>4
  <2> QED BY <1>2, <1>3b, <2>1, <2>2 DEF This
<1>6. pc # "specifier" =>
       /\ d.length = "" => This = d.spec
       /\ d.length \in {"h", "l", "j", "z", "t"} => This = d.length /\ Format(pos + 1) = d.spec
       /\ d.length = "hh" => This = "h" /\ Format(pos + 1) = "h"
       /\ d.length = "ll" => This = "l" /\ Format(pos + 1) = "l"
  <2> SUFFICES ASSUME pc # "specifier"
               PROVE  /\ d.length = "" => This = d.spec
                      /\ d.length \in {"h", "l", "j", "z", "t"} => This = d.length /\ Format(pos + 1) = d.spec
                      /\ d.length = "hh" => This = "h" /\ Format(pos + 1) = "h"
                      /\ d.length = "ll" => This = "l" /\ Format(pos + 1) = "l"
    OBVIOUS
  <2>1. pos = Start(n) + 2 /\ pos + 1 = Start(n) + 3
    BY <1>2, <1>4
  <2>2. 2 \in 1 .. Len(s) /\ (l >= 1 => 3 \in 1 .. Len(s))
    BY <1>3a
  <2>3. This = s[2] /\ (l >= 1 => Format(pos + 1) = s[3])
    BY <1>2, <2>1, <2>2 DEF This
  <2>4. (l = 0 => s[2] = d.spec) /\ (l = 1 => s[3] = d.spec)
    <3>1. (l = 0 => l + 2 = 2) /\ (l = 1 => l + 2 = 3)
      OBVIOUS
    <3> QED BY <1>3b, <3>1
  <2>5. ASSUME d.length = "" PROVE This = d.spec
    BY <1>3b, <2>3, <2>4, <2>5
  <2>6. ASSUME d.length \in {"h", "l", "j", "z", "t"} PROVE This = d.length /\ Format(pos + 1) = d.spec
    <3>1. l = 1 /\ s[2] = d.length
      BY <1>3, <2>6
    <3> QED BY <2>3, <2>4, <3>1
  <2>7. ASSUME d.length = "hh" PROVE This = "h" /\ Format(pos + 1) = "h"
    <3>1. l = 2 /\ s[2] = "h" /\ s[3] = "h"
      BY <1>3, <2>7
    <3> QED BY <2>3, <3>1
  <2>8. ASSUME d.length = "ll" PROVE This = "l" /\ Format(pos + 1) = "l"
    <3>1. l = 2 /\ s[2] = "l" /\ s[3] = "l"
      BY <1>3, <2>8
    <3> QED BY <2>3, <3>1
  <2> QED BY <2>5, <2>6, <2>7, <2>8
<1>7. Start(n + 1) = Start(n) + l + 2
  BY <1>2, <1>3a
<1>8. flags = (IF pc = "specifier" THEN LengthFlags(d.length) ELSE {}) /\ width = 0 /\ precision = 0
      /\ d.spec # "text" /\ Taken(n) /\ Printed(n, <<>>)
  BY <1>1
<1> HIDE DEF d
<1>9. Behind(n)
  BY <1>2, <1>3a, <1>4, <1>5, <1>6, <1>7, <1>8 DEF Behind, d, l
<1> QED BY <1>9

(* and stays so if it moves over the letters of the length. *)
LEMMA ToDirective ==
  ASSUME IsPlain(call), call' = call, pc' \in {"flags", "width", "length", "specifier"}, NEW n \in 0 .. Total - 1,
         call.directives[n + 1].spec # "text",
         Start(n) \in Nat, arg' <= Given(n) + 1,
         Faultless => arg' = Given(n) + 1 /\ text' = Said(n) \o <<>>,
         NEW k, k = (IF pc' = "specifier" THEN 1 + Len(C!SpelledLength(call.directives[n + 1])) ELSE 1),
         pos' = Start(n) + k + 1,
         flags' = IF pc' = "specifier" THEN LengthFlags(call.directives[n + 1].length) ELSE {},
         width' = 0, precision' = 0
  PROVE  PlainInv'
<1>1. Taken(n)' /\ At(n, k)' /\ Printed(n, <<>>)' /\ Total' = Total
  BY PrimedParts
<1>2. (At(n, IF pc = "specifier" THEN 1 + Len(C!SpelledLength(call.directives[n + 1])) ELSE 1))'
  BY <1>1 DEF At
<1> QED BY <1>1, <1>2 DEF PlainInv

(* A % is read. *)
LEMMA PercentPlain ==
  ASSUME PrintfType, IsPlain(call), PlainInv, Percent
  PROVE  PlainInv'
<1>0. pc = "format" /\ This = "%" /\ text' = text /\ pos' = pos + 1 /\ call' = call /\ pc' = "flags" /\ arg' = arg
      /\ flags' = {} /\ width' = 0 /\ precision' = 0
  BY DEF Percent, output
<1>1. PICK n \in 0 .. Total : Between(n)
  BY <1>0, InFormat
<1> DEFINE d == call.directives[n + 1]
<1>2. /\ Taken(n) /\ n < Total /\ d \in PlainDirectives /\ d.spec # "text" /\ At(n, 0) /\ Printed(n, <<>>)
  BY <1>0, <1>1 DEF Between
<1>3. n \in 0 .. Total - 1
  BY <1>2, PlainCall
<1>4. Start(n) \in Nat
  BY <1>3, ReadsDirective
<1>5. pos' = Start(n) + 1 + 1 /\ arg' <= Given(n) + 1 /\ (Faultless => arg' = Given(n) + 1 /\ text' = Said(n) \o <<>>)
  <2>1. pos = Start(n) + 0 + 1 /\ arg <= Given(n) + 1 /\ (Faultless => arg = Given(n) + 1 /\ text = Said(n) \o <<>>)
    BY <1>2, Parts
  <2> QED BY <1>0, <1>4, <2>1
<1> QED BY <1>0, <1>2, <1>3, <1>4, <1>5, ToDirective

(* The NUL is reached. *)
LEMMA TerminatePlain ==
  ASSUME PrintfType, IsPlain(call), PlainInv, Terminate
  PROVE  PlainInv'
<1>0. pc = "format" /\ This = "NUL" /\ text' = text /\ call' = call /\ pc' = "done"
  BY DEF Terminate
<1>1. PICK n \in 0 .. Total : Between(n)
  BY <1>0, InFormat
<1>2. n = Total /\ Printed(n, <<>>)
  BY <1>0, <1>1 DEF Between
<1>3. Faultless => text' = Said(Total) \o <<>>
  BY <1>0, <1>2, Parts
<1>4. Total' = Total /\ Printed(Total, <<>>)'
  <2>1. Total' = Total /\ Printed(n, <<>>)'
    BY <1>0, <1>2, <1>3, PrimedParts
  <2> QED BY <1>2, <2>1 DEF Printed
<1> QED BY <1>0, <1>4 DEF PlainInv

(* No flag, width or precision follows the %. *)
LEMMA LetterIsPlain ==
  ASSUME NEW n, Behind(n), pc # "specifier"
  PROVE  This \notin DOMAIN FlagOf /\ This \notin {"*", "."} /\ ~IsDigit(This)
<1>1. This \in {"%", "c", "s", "p", "d", "i", "u", "x", "X", "o", "b", "h", "l", "j", "z", "t"}
  BY PlainTypes DEF Behind, Specifiers, BaseOf
<1>2. This \notin {"0", "1", "2", "3", "4", "5", "6", "7", "8", "9", "-", "+", " ", "#", "*", "."}
  BY <1>1
<1>3. ToSet(Numerals) = {"0", "1", "2", "3", "4", "5", "6", "7", "8", "9"}
  BY DEF ToSet, Numerals
<1> QED BY <1>2, <1>3 DEF IsDigit, FlagOf

(* Flags and width are passed over. *)
LEMMA MovesOn ==
  ASSUME IsPlain(call), PlainInv, pc \in {"flags", "width"}, pc' \in {"width", "length"},
         call' = call, pos' = pos, arg' = arg, text' = text, flags' = flags, width' = width, precision' = precision
  PROVE  PlainInv'
<1>1. PICK n \in 0 .. Total - 1 : Behind(n)
  BY InDirective
<1>2. /\ call.directives[n + 1].spec # "text" /\ Taken(n) /\ Printed(n, <<>>) /\ Start(n) \in Nat
      /\ pos = Start(n) + 2 /\ flags = {} /\ width = 0 /\ precision = 0
  BY <1>1 DEF Behind
<1>3. pos' = Start(n) + 1 + 1 /\ arg' <= Given(n) + 1 /\ (Faultless => arg' = Given(n) + 1 /\ text' = Said(n) \o <<>>)
  <2>1. arg <= Given(n) + 1 /\ (Faultless => arg = Given(n) + 1 /\ text = Said(n) \o <<>>)
    BY <1>2, Parts
  <2> QED BY <1>2, <2>1
<1> QED BY <1>2, <1>3, ToDirective

(* There is no width, *)
LEMMA WidthPlain ==
  ASSUME IsPlain(call), PlainInv, Width
  PROVE  PlainInv'
<1>1. pc = "flags" /\ This # "*"
  <2>1. pc = "flags"
    BY DEF Width
  <2>2. PICK n \in 0 .. Total - 1 : Behind(n)
    BY <2>1, InDirective
  <2> QED BY <2>1, <2>2, LetterIsPlain
<1>2. /\ pc' = "width" /\ call' = call /\ pos' = pos /\ arg' = arg /\ text' = text
      /\ flags' = flags /\ width' = width /\ precision' = precision
  BY <1>1 DEF Width, output
<1> QED BY <1>1, <1>2, MovesOn

(* no precision, *)
LEMMA PrecisionPlain ==
  ASSUME IsPlain(call), PlainInv, Precision
  PROVE  PlainInv'
<1>1. pc = "width" /\ This # "."
  <2>1. pc = "width"
    BY DEF Precision, PlainInv
  <2>2. PICK n \in 0 .. Total - 1 : Behind(n)
    BY <2>1, InDirective
  <2> QED BY <2>1, <2>2, LetterIsPlain
<1>2. /\ pc' = "length" /\ call' = call /\ pos' = pos /\ arg' = arg /\ text' = text
      /\ flags' = flags /\ width' = width /\ precision' = precision
  BY <1>1 DEF Precision, output
<1> QED BY <1>1, <1>2, MovesOn

(* and the length sets its flags. *)
LEMMA LengthPlain ==
  ASSUME IsPlain(call), PlainInv, Length
  PROVE  PlainInv'
<1>0. pc = "length" /\ pc' = "specifier" /\ call' = call /\ arg' = arg /\ text' = text
      /\ width' = width /\ precision' = precision
  BY DEF Length, PlainInv, output
<1>1. PICK n \in 0 .. Total - 1 : Behind(n)
  BY <1>0, InDirective
<1> DEFINE d == call.directives[n + 1]
           l == Len(C!SpelledLength(d))
<1>2. /\ d \in PlainDirectives /\ d.spec # "text" /\ Taken(n) /\ Printed(n, <<>>) /\ Start(n) \in Nat
      /\ pos = Start(n) + 2 /\ flags = {} /\ width = 0 /\ precision = 0
      /\ d.length = "" => This = d.spec
      /\ d.length \in {"h", "l", "j", "z", "t"} => This = d.length /\ Format(pos + 1) = d.spec
      /\ d.length = "hh" => This = "h" /\ Format(pos + 1) = "h"
      /\ d.length = "ll" => This = "l" /\ Format(pos + 1) = "l"
  BY <1>0, <1>1 DEF Behind
<1>3. /\ d.length = "" => l = 0
      /\ d.length \in {"h", "l", "j", "z", "t"} => l = 1
      /\ d.length \in {"hh", "ll"} => l = 2
  BY <1>2, SpelledLetters
<1>4. d.spec \notin {"h", "l", "j", "z", "t"} /\ d.length \in {"", "hh", "h", "l", "ll", "j", "z", "t"}
  BY <1>2, PlainTypes DEF Specifiers, BaseOf
<1>5. pos \in Nat /\ Start(n) \in Nat /\ pos = Start(n) + 2
  <2>1. Start(n) \in Nat /\ pos = Start(n) + 2
    BY <1>2
  <2> QED BY <2>1
<1> HIDE DEF l
<1>6. pos' = pos + l /\ flags' = LengthFlags(d.length)
  <2> DEFINE twice == This \in DOMAIN DoubleOf /\ Format(pos + 1) = This
  <2>1. IF This \notin DOMAIN LengthOf THEN pos' = pos /\ flags' = flags
        ELSE /\ pos' = pos + (IF twice THEN 2 ELSE 1)
             /\ flags' = flags \cup LengthOf[This] \cup (IF twice THEN DoubleOf[This] ELSE {})
    BY DEF Length
  <2>2. DOMAIN LengthOf = {"l", "h", "t", "z", "j"} /\ DOMAIN DoubleOf = {"l", "h"}
    BY DEF LengthOf, DoubleOf
  <2>3. /\ LengthOf["l"] = {"LONG"} /\ LengthOf["h"] = {"SHORT"} /\ LengthOf["t"] = {"LONG"}
        /\ LengthOf["z"] = {"LONG"} /\ LengthOf["j"] = {"LONG_LONG"}
        /\ DoubleOf["l"] = {"LONG_LONG"} /\ DoubleOf["h"] = {"CHAR"}
    BY DEF LengthOf, DoubleOf
  <2>4. CASE d.length = ""
    <3>1. This \notin DOMAIN LengthOf
      BY <1>2, <1>4, <2>2, <2>4
    <3>2. LengthFlags(d.length) = {}
      BY <2>4 DEF LengthFlags
    <3> QED BY <1>2, <1>3, <1>5, <2>1, <2>4, <3>1, <3>2
  <2>5. CASE d.length \in {"h", "l", "j", "z", "t"}
    <3>1. This = d.length /\ This \in DOMAIN LengthOf /\ ~twice /\ l = 1
      BY <1>2, <1>3, <1>4, <2>2, <2>5
    <3>2. LengthFlags(d.length) = LengthOf[This]
      BY <2>3, <2>5, <3>1 DEF LengthFlags
    <3> QED BY <1>2, <2>1, <3>1, <3>2
  <2>6. CASE d.length \in {"hh", "ll"}
    <3>1. (d.length = "hh" => This = "h") /\ (d.length = "ll" => This = "l") /\ This \in DOMAIN LengthOf /\ twice /\ l = 2
      BY <1>2, <1>3, <2>2, <2>6
    <3>2. LengthFlags(d.length) = LengthOf[This] \cup DoubleOf[This]
      BY <2>3, <2>6, <3>1 DEF LengthFlags
    <3> QED BY <1>2, <2>1, <3>1, <3>2
  <2> QED BY <1>4, <2>4, <2>5, <2>6
<1>7. pos' = Start(n) + (1 + l) + 1 /\ arg' <= Given(n) + 1 /\ (Faultless => arg' = Given(n) + 1 /\ text' = Said(n) \o <<>>)
  <2>1. arg <= Given(n) + 1 /\ (Faultless => arg = Given(n) + 1 /\ text = Said(n) \o <<>>)
    BY <1>2, Parts
  <2>2. l \in Nat
    BY <1>2, SpelledLetters DEF l
  <2>3. pos' = pos + l /\ arg' = arg /\ text' = text
    BY <1>0, <1>6
  <2>4. pos' = Start(n) + (1 + l) + 1
    BY <1>5, <2>2, <2>3
  <2> QED BY <2>1, <2>3, <2>4
<1> QED BY <1>0, <1>2, <1>5, <1>6, <1>7, ToDirective DEF l

-----------------------------------------------------------------------------
(* Specifiers *)

(* At the specifier of a directive. *)
AtSpecifier(n) ==
  LET d == call.directives[n + 1] IN
  /\ d \in PlainDirectives /\ d.spec # "text" /\ This = d.spec
  /\ Start(n + 1) \in Nat /\ pos = Start(n + 1)
  /\ Given(n) \in Nat /\ arg <= Given(n) + 1
  /\ Faultless => arg = Given(n) + 1 /\ text = Said(n) \o <<>>
  /\ flags = LengthFlags(d.length) /\ width = 0 /\ precision = 0

(* Where the specifier is next. *)
LEMMA InSpecifier ==
  ASSUME IsPlain(call), PlainInv, pc = "specifier"
  PROVE  \E n \in 0 .. Total - 1 : AtSpecifier(n)
<1>1. PICK n \in 0 .. Total - 1 : Behind(n)
  BY InDirective
<1> DEFINE d == call.directives[n + 1]
           l == Len(C!SpelledLength(d))
<1>2. /\ d \in PlainDirectives /\ d.spec # "text" /\ This = d.spec
      /\ flags = LengthFlags(d.length) /\ width = 0 /\ precision = 0
      /\ Taken(n) /\ Printed(n, <<>>)
  BY <1>1 DEF Behind
<1>3. Start(n + 1) \in Nat /\ pos = Start(n + 1)
  <2>1. l \in Nat /\ Start(n) \in Nat /\ Start(n + 1) = Start(n) + l + 2 /\ pos = Start(n) + (l + 2)
    BY <1>1 DEF Behind
  <2> HIDE DEF l
  <2> QED BY <2>1
<1>4. Given(n) \in Nat
  BY TakesDirective
<1>5. arg <= Given(n) + 1 /\ (Faultless => arg = Given(n) + 1 /\ text = Said(n) \o <<>>)
  BY <1>2, Parts
<1> QED BY <1>2, <1>3, <1>4, <1>5 DEF AtSpecifier

(* A step that puts out what C says goes on to the next directive. *)
LEMMA NextDirective ==
  ASSUME IsPlain(call), NEW n \in 0 .. Total - 1, AtSpecifier(n), PrintfType,
         call' = call, pc' = "format", pos' = pos + 1,
         arg' = arg \/ (arg' = arg + 1 /\ call.directives[n + 1].spec # "%"),
         Faultless => /\ arg' = arg + (IF call.directives[n + 1].spec = "%" THEN 0 ELSE 1)
                      /\ text' = text \o C!Meaning(call.directives[n + 1])
  PROVE  PlainInv'
<1> DEFINE d == call.directives[n + 1]
<1>1. n + 1 \in 0 .. Total /\ n \in 0 .. Total
  BY PlainCall
<1>2. pos' = Start(n + 1) + 1 /\ Start(n + 1) \in Nat
  <2>1. Start(n + 1) \in Nat /\ pos = Start(n + 1)
    BY DEF AtSpecifier
  <2> QED BY <2>1
<1>3. arg' <= Given(n + 1) + 1 /\ (Faultless => arg' = Given(n + 1) + 1)
  <2>1. Given(n) \in Nat /\ arg <= Given(n) + 1 /\ (Faultless => arg = Given(n) + 1)
    BY DEF AtSpecifier
  <2>2. d.spec # "text" /\ d \in PlainDirectives
    BY DEF AtSpecifier
  <2>3. Given(n + 1) = Given(n) + (IF d.spec = "%" THEN 0 ELSE 1)
    BY <2>1, <2>2, TakesDirective
  <2>4. arg \in Nat
    BY DEF PrintfType
  <2>5. CASE d.spec = "%"
    <3>1. Given(n + 1) = Given(n) /\ arg' = arg
      BY <2>1, <2>3, <2>4, <2>5
    <3> QED BY <2>1, <3>1
  <2>6. CASE d.spec # "%"
    <3>1. Given(n + 1) = Given(n) + 1 /\ (arg' = arg \/ arg' = arg + 1) /\ (Faultless => arg' = arg + 1)
      BY <2>3, <2>6
    <3> QED BY <2>1, <2>4, <3>1
  <2> QED BY <2>5, <2>6
<1>4. Faultless => text' = Said(n + 1)
  <2> SUFFICES ASSUME Faultless PROVE text' = Said(n + 1)
    OBVIOUS
  <2>1. text' = text \o C!Meaning(d) /\ text = Said(n) \o <<>>
    BY DEF AtSpecifier
  <2>2. Said(n) \in Meanings /\ Said(n + 1) = Said(n) \o C!Meaning(d)
    BY <1>1, SaysDirective
  <2>3. Said(n) \o <<>> = Said(n)
    BY <2>2 DEF Meanings
  <2> QED BY <2>1, <2>2, <2>3
<1> QED BY <1>1, <1>2, <1>3, <1>4, ToFormat

(* Nothing is padded to a width of 0. *)
LEMMA PaddedPlainly ==
  ASSUME NEW s \in Seq(Charset), width = 0, "LEFT" \notin flags
  PROVE  Padded(s) = s
<1>1. 0 - Len(s) \in Int /\ 0 - Len(s) <= 0
  OBVIOUS
<1>2. Fill(" ", width - Len(s)) = <<>>
  BY <1>1, NothingToFill
<1>3. <<>> \o s = s
  OBVIOUS
<1> QED BY <1>2, <1>3 DEF Padded

(* The argument that is next is the one of the directive. *)
LEMMA ArgumentPlainly ==
  ASSUME IsPlain(call), NEW n \in 0 .. Total - 1, AtSpecifier(n), Faultless,
         call.directives[n + 1].spec # "%"
  PROVE  /\ Argument("int") = call.directives[n + 1].int
         /\ Argument("char") = call.directives[n + 1].char
         /\ Argument("string") = call.directives[n + 1].string
         /\ "LEFT" \notin flags /\ "PRECISION" \notin flags
         /\ call.directives[n + 1].char \in Charset /\ call.directives[n + 1].string \in Seq(Charset)
<1> DEFINE d == call.directives[n + 1]
<1>1. d \in PlainDirectives /\ d.spec # "text" /\ arg = Given(n) + 1 /\ flags = LengthFlags(d.length)
  BY DEF AtSpecifier
<1>2. call.args[Given(n) + 1] = ArgumentOf(d)
  BY <1>1, TakesDirective
<1>3. call.args[arg] = [int |-> d.int, float |-> d.float, char |-> d.char, string |-> d.string]
  BY <1>1, <1>2 DEF ArgumentOf
<1>4. d.char \in Charset /\ d.string \in Seq(Charset)
  BY <1>1 DEF PlainDirectives
<1>5. "LEFT" \notin LengthFlags(d.length) /\ "PRECISION" \notin LengthFlags(d.length)
  BY <1>1, PlainTypes DEF LengthFlags
<1> QED BY <1>1, <1>3, <1>4, <1>5 DEF Argument

(* %c *)
LEMMA CharacterPlain ==
  ASSUME PrintfType, IsPlain(call), PlainInv, Character
  PROVE  PlainInv'
<1>0. /\ pc = "specifier" /\ This = "c" /\ pc' = "format" /\ pos' = pos + 1 /\ arg' = arg + 1 /\ call' = call
      /\ text' = text \o Padded(<<Argument("char")>>)
  BY DEF Character, Out
<1>1. PICK n \in 0 .. Total - 1 : AtSpecifier(n)
  BY <1>0, InSpecifier
<1> DEFINE d == call.directives[n + 1]
<1>2. d \in PlainDirectives /\ d.spec = "c"
  BY <1>0, <1>1 DEF AtSpecifier
<1>3. Faultless => Padded(<<Argument("char")>>) = C!Meaning(d)
  <2> SUFFICES ASSUME Faultless PROVE Padded(<<Argument("char")>>) = C!Meaning(d)
    OBVIOUS
  <2>1. Argument("char") = d.char /\ d.char \in Charset /\ "LEFT" \notin flags
    BY <1>1, <1>2, ArgumentPlainly
  <2>2. <<d.char>> \in Seq(Charset) /\ width = 0
    BY <1>1, <2>1 DEF AtSpecifier
  <2>3. Padded(<<d.char>>) = <<d.char>>
    BY <2>1, <2>2, PaddedPlainly
  <2> QED BY <1>2, <2>1, <2>3, MeaningPlainly
<1>4. d.spec # "%"
  BY <1>2
<1> QED BY <1>0, <1>1, <1>3, <1>4, NextDirective

(* %s *)
LEMMA StringPlain ==
  ASSUME PrintfType, IsPlain(call), PlainInv, String
  PROVE  PlainInv'
<1> DEFINE s == IF "PRECISION" \in flags THEN Take(Argument("string"), precision) ELSE Argument("string")
<1>0. /\ pc = "specifier" /\ This = "s" /\ pc' = "format" /\ pos' = pos + 1 /\ arg' = arg + 1 /\ call' = call
      /\ text' = text \o Padded(s)
  BY DEF String, Out
<1>1. PICK n \in 0 .. Total - 1 : AtSpecifier(n)
  BY <1>0, InSpecifier
<1> DEFINE d == call.directives[n + 1]
<1>2. d \in PlainDirectives /\ d.spec = "s"
  BY <1>0, <1>1 DEF AtSpecifier
<1>3. Faultless => Padded(s) = C!Meaning(d)
  <2> SUFFICES ASSUME Faultless PROVE Padded(s) = C!Meaning(d)
    OBVIOUS
  <2>1. s = d.string /\ d.string \in Seq(Charset) /\ "LEFT" \notin flags
    BY <1>1, <1>2, ArgumentPlainly
  <2>2. width = 0
    BY <1>1 DEF AtSpecifier
  <2>3. Padded(d.string) = d.string
    BY <2>1, <2>2, PaddedPlainly
  <2> QED BY <1>2, <2>1, <2>3, MeaningPlainly
<1>4. d.spec # "%"
  BY <1>2
<1> HIDE DEF s
<1> QED BY <1>0, <1>1, <1>3, <1>4, NextDirective

(* %% *)
LEMMA OtherPlain ==
  ASSUME PrintfType, IsPlain(call), PlainInv, Other
  PROVE  PlainInv'
<1>0. /\ pc = "specifier" /\ This \notin DOMAIN BaseOf \cup {"f", "F", "p", "c", "s"} /\ pos' = pos + 1
      /\ arg' = arg /\ call' = call /\ text' = text \o <<This>> /\ pc' = (IF This = "NUL" THEN "lost" ELSE "format")
  BY DEF Other, Out
<1>1. PICK n \in 0 .. Total - 1 : AtSpecifier(n)
  BY <1>0, InSpecifier
<1> DEFINE d == call.directives[n + 1]
<1>2. d \in PlainDirectives /\ d.spec = This /\ d.spec # "text"
  BY <1>1 DEF AtSpecifier
<1>3. d.spec = "%"
  BY <1>0, <1>2, PlainTypes DEF Specifiers
<1>4. pc' = "format" /\ text' = text \o C!Meaning(d)
  BY <1>0, <1>2, <1>3, MeaningPlainly
<1>5. Faultless => arg' = arg + 0
  BY <1>0 DEF PrintfType
<1> QED BY <1>0, <1>1, <1>3, <1>4, <1>5, NextDirective

(* A long long in libk: one of the known departures. *)
LEMMA UnsupportedPlain ==
  ASSUME PrintfType, IsPlain(call), PlainInv, Unsupported
  PROVE  PlainInv'
<1>0. /\ pc = "specifier" /\ This \in DOMAIN BaseOf /\ ~Supported /\ pos' = pos + 1
      /\ arg' = arg /\ call' = call /\ pc' = "format"
  BY DEF Unsupported
<1>1. PICK n \in 0 .. Total - 1 : AtSpecifier(n)
  BY <1>0, InSpecifier
<1> DEFINE d == call.directives[n + 1]
<1>2. d \in PlainDirectives /\ d.spec = This /\ d.spec # "text" /\ flags = LengthFlags(d.length)
  BY <1>1 DEF AtSpecifier
<1>3. call.library = "libk" /\ d.length \in {"ll", "j"}
  <2>1. call.library \in Libraries
    BY DEF PrintfType, IsCall
  <2>2. d.length \in {"", "hh", "h", "l", "ll", "j", "z", "t"} /\ "LONG_LONG" \in LengthFlags(d.length)
    BY <1>0, <1>2, PlainTypes DEF Supported
  <2>3. d.length \in {"ll", "j"}
    BY <2>2 DEF LengthFlags
  <2> QED BY <1>0, <2>1, <2>3 DEF Supported, Libraries
<1>4. Departs(call.library, d)
  BY <1>0, <1>2, <1>3 DEF Departs, Omitted, BaseOf
<1>5. n + 1 \in DOMAIN call.directives
  BY PlainCall DEF Total
<1>6. ~Faultless
  BY <1>4, <1>5 DEF Faultless
<1> QED BY <1>0, <1>1, <1>6, NextDirective

-----------------------------------------------------------------------------
(* _ntoa_long and _ntoa_long_long *)

(* The invariant's Number, in terms of what a step leaves. *)
NumberThen(d) ==
  /\ flags' = NtoaFlags(d) /\ base' = NtoaBase(d) /\ width' = NtoaWidth(d) /\ precision' = 0
  /\ negative' = IsNegative(d)
  /\ pc' = "digits" =>
       /\ buf' # <<>> => value' # 0
       /\ DigitsText(d, value') \o Reverse(buf') = DigitsText(d, Magnitude(d))
  /\ pc' = "ntoa" => Reverse(buf') = DigitsText(d, Magnitude(d))
  /\ pc' = "out" => Reverse(buf') = C!Meaning(d)

(* NumberThen is Number after the step. *)
LEMMA PrimedNumber ==
  ASSUME call' = call, NEW n
  PROVE  Number(call.directives[n + 1])' <=> NumberThen(call.directives[n + 1])
BY DEF Number, NumberThen

(* A step within _ntoa_long. *)
LEMMA ToNumber ==
  ASSUME IsPlain(call), call' = call, pc' \in {"digits", "ntoa", "out"}, NEW n \in 0 .. Total - 1,
         call.directives[n + 1].spec \in NumberSpecs,
         Start(n + 1) \in Nat, pos' = Start(n + 1) + 1, arg' <= Given(n + 1) + 1,
         Faultless => /\ arg' = Given(n + 1) + 1 /\ text' = Said(n) \o <<>>
                      /\ NumberThen(call.directives[n + 1])
  PROVE  PlainInv'
<1>1. Taken(n + 1)' /\ At(n + 1, 0)' /\ Printed(n, <<>>)' /\ Total' = Total /\ (Faultless <=> Faultless')
  <2>1. pos' = Start(n + 1) + 0 + 1
    OBVIOUS
  <2> QED BY <2>1, PrimedParts
<1>2. Faultless' => Number(call.directives[n + 1])'
  BY <1>1, PrimedNumber
<1> QED BY <1>1, <1>2 DEF PlainInv, NumberSpecs

(* A specifier of a number has been read. *)
LEMMA NumberStarts ==
  ASSUME PrintfType, IsPlain(call), NEW n \in 0 .. Total - 1, AtSpecifier(n),
         call.directives[n + 1].spec \in NumberSpecs,
         call' = call, pos' = pos + 1, arg' = arg + 1, text' = text, precision' = precision,
         width' = NtoaWidth(call.directives[n + 1]), buf' = <<>>, pc' = "digits",
         Faultless => /\ flags' = NtoaFlags(call.directives[n + 1])
                      /\ base' = NtoaBase(call.directives[n + 1])
                      /\ negative' = IsNegative(call.directives[n + 1])
                      /\ value' = Magnitude(call.directives[n + 1])
  PROVE  PlainInv'
<1> DEFINE d == call.directives[n + 1]
<1>1. d \in PlainDirectives /\ d.spec \notin {"text", "%"}
  BY DEF AtSpecifier, NumberSpecs, BaseOf
<1>2. pos' = Start(n + 1) + 1 /\ Start(n + 1) \in Nat
  <2>1. Start(n + 1) \in Nat /\ pos = Start(n + 1)
    BY DEF AtSpecifier
  <2> QED BY <2>1
<1>3. arg' <= Given(n + 1) + 1 /\ (Faultless => arg' = Given(n + 1) + 1)
  <2>1. Given(n) \in Nat /\ arg <= Given(n) + 1 /\ (Faultless => arg = Given(n) + 1)
    BY DEF AtSpecifier
  <2>2. Given(n + 1) = Given(n) + 1
    BY <1>1, TakesDirective
  <2>3. arg \in Nat
    BY DEF PrintfType
  <2> QED BY <2>1, <2>2, <2>3
<1>4. Faultless => text' = Said(n) \o <<>>
  BY DEF AtSpecifier
<1>5. Faultless => NumberThen(d)
  <2> SUFFICES ASSUME Faultless PROVE NumberThen(d)
    OBVIOUS
  <2>1. Magnitude(d) \in Nat
    BY <1>1, ValueTypes
  <2>2. DigitsText(d, Magnitude(d)) \in Seq(Charset)
    BY <1>1, <2>1, DigitsTextType
  <2>3. Reverse(<<>>) = <<>>
    BY DEF Reverse
  <2>4. DigitsText(d, value') \o Reverse(buf') = DigitsText(d, Magnitude(d))
    BY <2>2, <2>3
  <2>5. precision' = 0
    BY DEF AtSpecifier
  <2> HIDE DEF d
  <2> QED BY <2>4, <2>5 DEF NumberThen, d
<1> QED BY <1>2, <1>3, <1>4, <1>5, ToNumber

(* An integer: value, sign, base and flags are C's. *)
LEMMA IntegerPlain ==
  ASSUME PrintfType, IsPlain(call), PlainInv, Integer
  PROVE  PlainInv'
<1> DEFINE signed == This \in {"d", "i"}
           v == IF signed THEN Signed(Argument("int"), Bits) ELSE Unsigned(Argument("int"), Bits)
           dropped == (IF BaseOf[This] = 10 THEN {"HASH"} ELSE {})
                    \cup (IF signed THEN {} ELSE {"PLUS", "SPACE"})
                    \cup (IF "PRECISION" \in flags THEN {"ZEROPAD"} ELSE {})
           kept == (IF This = "X" THEN flags \cup {"UPPERCASE"} ELSE flags) \ dropped
<1>0. /\ pc = "specifier" /\ This \in DOMAIN BaseOf /\ pos' = pos + 1 /\ arg' = arg + 1 /\ call' = call
      /\ text' = text /\ precision' = precision /\ width' = width /\ buf' = <<>> /\ base' = BaseOf[This]
      /\ pc' = (IF "PRECISION" \in kept /\ (IF v > 0 THEN v ELSE 0 - v) = 0 THEN "ntoa" ELSE "digits")
      /\ flags' = (IF (IF v > 0 THEN v ELSE 0 - v) = 0 THEN kept \ {"HASH"} ELSE kept)
      /\ negative' = (v < 0) /\ value' = (IF v > 0 THEN v ELSE 0 - v)
  BY DEF Integer, Ntoa, output
<1>1. PICK n \in 0 .. Total - 1 : AtSpecifier(n)
  BY <1>0, InSpecifier
<1> DEFINE d == call.directives[n + 1]
<1>2. d \in PlainDirectives /\ d.spec = This /\ d.spec \in DOMAIN BaseOf /\ d.spec \in NumberSpecs
      /\ flags = LengthFlags(d.length) /\ width = 0
  BY <1>0, <1>1 DEF AtSpecifier, NumberSpecs
<1>3. d.spec # "p" /\ NtoaBase(d) = BaseOf[This] /\ NtoaWidth(d) = 0
  BY <1>2, RadixOfBase DEF NtoaWidth
<1>4. kept = NtoaFlags(d) /\ kept \ {"HASH"} = NtoaFlags(d) /\ "PRECISION" \notin kept
  <2>1. flags \subseteq {"CHAR", "SHORT", "LONG", "LONG_LONG"}
    BY <1>2, NtoaParameters
  <2>2. NtoaFlags(d) = IF This = "X" THEN flags \cup {"UPPERCASE"} ELSE flags
    <3>1. CASE d.spec = "X"
      <4>1. NtoaFlags(d) = LengthFlags(d.length) \cup {"UPPERCASE"}
        BY <3>1 DEF NtoaFlags
      <4> QED BY <1>2, <3>1, <4>1
    <3>2. CASE d.spec # "X"
      <4>1. NtoaFlags(d) = LengthFlags(d.length) \cup {}
        BY <1>3, <3>2 DEF NtoaFlags
      <4> QED BY <1>2, <3>2, <4>1
    <3> QED BY <3>1, <3>2
  <2> DEFINE F == IF This = "X" THEN flags \cup {"UPPERCASE"} ELSE flags
  <2>3. F \subseteq {"CHAR", "SHORT", "LONG", "LONG_LONG", "UPPERCASE"}
    BY <2>1
  <2>4. dropped \subseteq {"HASH", "PLUS", "SPACE", "ZEROPAD"}
    OBVIOUS
  <2> HIDE DEF F, dropped
  <2>5. F \ dropped = F
    BY <2>3, <2>4
  <2>6. F \ {"HASH"} = F /\ "PRECISION" \notin F
    BY <2>3
  <2>7. kept = F \ dropped
    BY DEF F
  <2> QED BY <2>2, <2>5, <2>6, <2>7 DEF F
<1> HIDE DEF kept
<1>5. Faultless => v = Value(d)
  <2> SUFFICES ASSUME Faultless PROVE v = Value(d)
    OBVIOUS
  <2>1. d.spec # "%"
    BY <1>2 DEF BaseOf
  <2>2. Argument("int") = d.int
    BY <1>1, <2>1, ArgumentPlainly
  <2> QED BY <1>2, <2>2, ConvertedValue
<1>6. pc' = "digits" /\ flags' = NtoaFlags(d)
  BY <1>0, <1>4
<1> HIDE DEF v
<1>7. Faultless => negative' = IsNegative(d) /\ value' = Magnitude(d)
  <2> SUFFICES ASSUME Faultless PROVE negative' = IsNegative(d) /\ value' = Magnitude(d)
    OBVIOUS
  <2>1. Value(d) \in Int /\ Magnitude(d) = IF Value(d) < 0 THEN -Value(d) ELSE Value(d)
    BY <1>2, <1>3, ValueTypes
  <2>2. negative' = (Value(d) < 0) /\ value' = (IF Value(d) > 0 THEN Value(d) ELSE 0 - Value(d))
    BY <1>0, <1>5
  <2>3. negative' = IsNegative(d)
    BY <1>3, <2>2 DEF IsNegative
  <2>4. value' = Magnitude(d)
    <3> DEFINE w == Value(d)
               m == Magnitude(d)
    <3>1. w \in Int /\ m = (IF w < 0 THEN -w ELSE w) /\ value' = (IF w > 0 THEN w ELSE 0 - w)
      BY <2>1, <2>2
    <3> HIDE DEF w, m
    <3>2. value' = m
      BY <3>1
    <3> QED BY <3>2 DEF m
  <2> QED BY <2>3, <2>4
<1>8. width' = NtoaWidth(d) /\ base' = NtoaBase(d)
  BY <1>0, <1>2, <1>3
<1> QED BY <1>0, <1>1, <1>2, <1>6, <1>7, <1>8, NumberStarts

(* %p *)
LEMMA PointerPlain ==
  ASSUME PrintfType, IsPlain(call), PlainInv, Pointer
  PROVE  PlainInv'
<1> DEFINE v == Unsigned(Argument("int"), INT_BIT)
           kept == flags \cup {"ZEROPAD", "UPPERCASE"}
<1>0. /\ pc = "specifier" /\ This = "p" /\ pos' = pos + 1 /\ arg' = arg + 1 /\ call' = call
      /\ text' = text /\ precision' = precision /\ width' = INT_BIT \div 4 /\ buf' = <<>> /\ base' = 16
      /\ pc' = (IF "PRECISION" \in kept /\ v = 0 THEN "ntoa" ELSE "digits")
      /\ flags' = (IF v = 0 THEN kept \ {"HASH"} ELSE kept)
      /\ negative' = FALSE /\ value' = v
  BY DEF Pointer, Ntoa, output
<1>1. PICK n \in 0 .. Total - 1 : AtSpecifier(n)
  BY <1>0, InSpecifier
<1> DEFINE d == call.directives[n + 1]
<1>2. d \in PlainDirectives /\ d.spec = "p" /\ d.spec \in NumberSpecs /\ flags = LengthFlags(d.length)
  BY <1>0, <1>1 DEF AtSpecifier, NumberSpecs
<1>3. NtoaBase(d) = 16 /\ NtoaWidth(d) = INT_BIT \div 4 /\ IsNegative(d) = FALSE
  BY <1>2 DEF NtoaBase, NtoaWidth, IsNegative
<1>4. kept = NtoaFlags(d) /\ kept \ {"HASH"} = NtoaFlags(d) /\ "PRECISION" \notin kept
  <2>1. flags \subseteq {"CHAR", "SHORT", "LONG", "LONG_LONG"}
    BY <1>2, NtoaParameters
  <2>2. NtoaFlags(d) = LengthFlags(d.length) \cup {"UPPERCASE", "ZEROPAD"}
    BY <1>2 DEF NtoaFlags
  <2> QED BY <1>2, <2>1, <2>2
<1> HIDE DEF kept
<1>5. Faultless => v = Magnitude(d)
  <2> SUFFICES ASSUME Faultless PROVE v = Magnitude(d)
    OBVIOUS
  <2>1. Argument("int") = d.int
    BY <1>1, <1>2, ArgumentPlainly
  <2> QED BY <1>2, <2>1, ValueTypes DEF Unsigned
<1> HIDE DEF v
<1>6. pc' = "digits" /\ flags' = NtoaFlags(d)
  BY <1>0, <1>4
<1> QED BY <1>0, <1>1, <1>2, <1>3, <1>5, <1>6, NumberStarts

(* In _ntoa_long, behind directive n. *)
AtNumber(n) ==
  LET d == call.directives[n + 1] IN
  /\ d \in PlainDirectives /\ d.spec \in NumberSpecs
  /\ Start(n + 1) \in Nat /\ pos = Start(n + 1) + 1
  /\ arg <= Given(n + 1) + 1
  /\ Faultless => arg = Given(n + 1) + 1 /\ text = Said(n) \o <<>> /\ Number(d)

(* In _ntoa_long the directive has been read, not printed. *)
LEMMA InNumber ==
  ASSUME IsPlain(call), PlainInv, pc \in {"digits", "ntoa", "out"}
  PROVE  \E n \in 0 .. Total - 1 : AtNumber(n)
<1>1. PICK n \in 0 .. Total - 1 :
         LET d == call.directives[n + 1] IN
           /\ d.spec \in {"p"} \cup DOMAIN BaseOf
           /\ Taken(n + 1) /\ Printed(n, <<>>)
           /\ At(n + 1, 0)
           /\ Faultless => Number(d)
  BY DEF PlainInv
<1> DEFINE d == call.directives[n + 1]
<1>2. d \in PlainDirectives /\ Start(n) \in Nat /\ Start(n + 1) = Start(n) + Len(C!Spelled(d))
  BY ReadsDirective
<1>3. d.spec # "text" /\ d.spec \in NumberSpecs
  BY <1>1 DEF NumberSpecs, BaseOf
<1>4. Start(n + 1) \in Nat
  <2>1. Len(C!Spelled(d)) = Len(C!SpelledLength(d)) + 2 /\ Len(C!SpelledLength(d)) \in Nat
    BY <1>2, <1>3, SpelledLetters
  <2> QED BY <1>2, <2>1
<1>5. pos = Start(n + 1) + 1
  <2>1. pos = Start(n + 1) + 0 + 1
    BY <1>1, Parts
  <2> QED BY <1>4, <2>1
<1>6. arg <= Given(n + 1) + 1 /\ (Faultless => arg = Given(n + 1) + 1)
  BY <1>1, Parts
<1>7. Faultless => text = Said(n) \o <<>>
  BY <1>1, Parts
<1>8. Faultless => Number(d)
  BY <1>1
<1> QED BY <1>2, <1>3, <1>4, <1>5, <1>6, <1>7, <1>8 DEF AtNumber

(* A step that keeps the number goes on. *)
LEMMA NumberGoesOn ==
  ASSUME PrintfType, IsPlain(call), NEW n \in 0 .. Total - 1, AtNumber(n),
         call' = call, pos' = pos, arg' = arg, text' = text, pc' \in {"digits", "ntoa", "out"},
         Faultless => NumberThen(call.directives[n + 1])
  PROVE  PlainInv'
<1>1. /\ call.directives[n + 1].spec \in NumberSpecs
      /\ Start(n + 1) \in Nat /\ pos = Start(n + 1) + 1
      /\ arg <= Given(n + 1) + 1
      /\ Faultless => arg = Given(n + 1) + 1 /\ text = Said(n) \o <<>>
  BY DEF AtNumber
<1> QED BY <1>1, ToNumber

(* The buffer of _ntoa_long is long enough for a long in binary. *)
LEMMA BufferHoldsInt ==
  INT_BIT \in Nat \ {0} /\ PRINTF_NTOA_BUFFER_SIZE \in Nat \ {0} /\ INT_BIT <= PRINTF_NTOA_BUFFER_SIZE
BY PrintfAssumption

(* A number of a directive without precision fits into the buffer. *)
LEMMA DigitsFit ==
  ASSUME IsPlain(call), Faultless, NEW n \in 0 .. Total - 1, call.directives[n + 1] \in PlainDirectives,
         call.directives[n + 1].spec \in NumberSpecs
  PROVE  LET d == call.directives[n + 1] IN
         Len(NumberSign(d)) + Len(DigitsText(d, Magnitude(d))) <= PRINTF_NTOA_BUFFER_SIZE
<1> DEFINE d == call.directives[n + 1]
           l == Len(DigitsText(d, Magnitude(d)))
<1>0. Magnitude(d) \in Nat /\ l \in Nat /\ l >= 1
  <2>1. Magnitude(d) \in Nat
    BY ValueTypes
  <2>2. DigitsText(d, Magnitude(d)) \in Seq(Charset) /\ l >= 1
    BY <2>1, DigitsTextType
  <2> QED BY <2>1, <2>2
<1>1. CASE d.spec = "p"
  <2>1. Magnitude(d) \in 0 .. 2^INT_BIT - 1
    BY <1>1, ValueTypes
  <2>2. NtoaBase(d) = 16
    BY <1>1 DEF NtoaBase
  <2>3. l = Len(C!Numeral(Magnitude(d), 16))
    BY <1>0, <2>2, DigitsTextType
  <2>4. l <= INT_BIT
    <3>1. 16 \in Bases /\ 0 \in {0, 1} /\ INT_BIT \in 1 .. INT_BIT
      BY BufferHoldsInt DEF Bases
    <3>2. Magnitude(d) < 2^INT_BIT + 0 /\ Magnitude(d) \in Nat
      <4>1. 2^INT_BIT \in Nat
        BY PowersAreNumbers
      <4> QED BY <2>1, <4>1
    <3>3. Len(C!Numeral(Magnitude(d), 16)) <= INT_BIT
      <4>1. 0 = 1 => 16 # 2
        OBVIOUS
      <4> QED BY <3>1, <3>2, <4>1, NumeralShort
    <3> QED BY <2>3, <3>3
  <2>5. NumberSign(d) = <<>> /\ Len(<<>>) = 0
    BY <1>1 DEF NumberSign, IsNegative
  <2> HIDE DEF l
  <2>6. 0 + l <= PRINTF_NTOA_BUFFER_SIZE
    <3>1. l \in Nat
      BY <1>0 DEF l
    <3> QED BY <2>4, <3>1, BufferHoldsInt
  <2> QED BY <2>5, <2>6 DEF l
<1>2. CASE d.spec # "p"
  <2>1. d.spec \in DOMAIN BaseOf
    BY <1>2 DEF NumberSpecs
  <2>2. n + 1 \in DOMAIN call.directives
    BY PlainCall DEF Total
  <2>3. ~Departs(call.library, d)
    BY <2>2 DEF Faultless
  <2>4. d.spec \in {"d", "i", "u", "x", "X", "o", "b"}
    BY <2>1 DEF BaseOf
  <2>5. ~Overlong(d)
    BY <2>3, <2>4 DEF Departs
  <2>6. ~d.hasPrecision /\ "0" \notin d.flags
    BY PlainTypes
  <2>7. C!Prefix(d) = NumberSign(d) /\ DigitsOf(d) = l
    BY <2>1, MeaningOfInteger
  <2> HIDE DEF l
  <2>8. Len(NumberSign(d)) + (IF 0 > l THEN 0 ELSE l) <= PRINTF_NTOA_BUFFER_SIZE
    <3>1. ~(Len(NumberSign(d)) + (IF 0 > l THEN 0 ELSE l) > PRINTF_NTOA_BUFFER_SIZE)
      BY <2>5, <2>6, <2>7 DEF Overlong
    <3>2. Len(NumberSign(d)) \in Nat
      <4>1. Len(<<"-">>) = 1 /\ Len(<<>>) = 0
        OBVIOUS
      <4> QED BY <4>1 DEF NumberSign
    <3>3. l \in Nat
      BY <1>0 DEF l
    <3> QED BY <3>1, <3>2, <3>3, BufferHoldsInt
  <2>9. l \in Nat /\ l >= 1
    BY <1>0 DEF l
  <2>10. ~(0 > l)
    BY <2>9
  <2>11. Len(NumberSign(d)) + l <= PRINTF_NTOA_BUFFER_SIZE
    BY <2>8, <2>10
  <2> QED BY <2>11 DEF l
<1> QED BY <1>1, <1>2

(* The parts of the invariant on the number. *)
LEMMA NumberParts ==
  ASSUME NEW n, AtNumber(n), Faultless
  PROVE  LET d == call.directives[n + 1] IN
         /\ flags = NtoaFlags(d) /\ base = NtoaBase(d) /\ width = NtoaWidth(d) /\ precision = 0
         /\ negative = IsNegative(d)
         /\ "UPPERCASE" \in flags <=> d.spec \in {"X", "p"}
         /\ "ZEROPAD" \in flags <=> d.spec = "p"
         /\ flags \cap {"LEFT", "PLUS", "SPACE", "HASH", "PRECISION"} = {}
         /\ pc = "digits" => DigitsText(d, value) \o Reverse(buf) = DigitsText(d, Magnitude(d))
         /\ pc = "ntoa" => Reverse(buf) = DigitsText(d, Magnitude(d))
         /\ pc = "out" => Reverse(buf) = C!Meaning(d)
         /\ Magnitude(d) \in Nat /\ DigitsText(d, Magnitude(d)) \in Seq(Charset)
<1> DEFINE d == call.directives[n + 1]
<1>1. d \in PlainDirectives /\ d.spec \in NumberSpecs /\ Number(d)
  BY DEF AtNumber
<1>2. Magnitude(d) \in Nat
  BY <1>1, ValueTypes
<1>3. DigitsText(d, Magnitude(d)) \in Seq(Charset)
  BY <1>1, <1>2, DigitsTextType
<1> HIDE DEF d
<1>4. /\ flags = NtoaFlags(d) /\ base = NtoaBase(d) /\ width = NtoaWidth(d) /\ precision = 0
      /\ negative = IsNegative(d)
      /\ pc = "digits" => DigitsText(d, value) \o Reverse(buf) = DigitsText(d, Magnitude(d))
      /\ pc = "ntoa" => Reverse(buf) = DigitsText(d, Magnitude(d))
      /\ pc = "out" => Reverse(buf) = C!Meaning(d)
  BY <1>1 DEF Number
<1>5. /\ "UPPERCASE" \in flags <=> d.spec \in {"X", "p"}
      /\ "ZEROPAD" \in flags <=> d.spec = "p"
      /\ flags \cap {"LEFT", "PLUS", "SPACE", "HASH", "PRECISION"} = {}
  BY <1>1, <1>4, NtoaParameters
<1> QED BY <1>2, <1>3, <1>4, <1>5 DEF d

(* One more digit: the digits to come and those in buf remain those of the number, and the
   buffer is not full before they are all there. *)
LEMMA DigitPlain ==
  ASSUME PrintfType, NumberFits, IsPlain(call), PlainInv, Digit
  PROVE  PlainInv'
<1> DEFINE c == DigitChar(value % base)
<1>0. /\ pc = "digits" /\ buf' = Append(buf, c) /\ value' = value \div base
      /\ pc' = (IF value' # 0 /\ Len(buf') < PRINTF_NTOA_BUFFER_SIZE THEN "digits" ELSE "ntoa")
      /\ call' = call /\ pos' = pos /\ arg' = arg /\ text' = text
      /\ flags' = flags /\ width' = width /\ precision' = precision /\ negative' = negative /\ base' = base
  BY DEF Digit, directive, output
<1>1. PICK n \in 0 .. Total - 1 : AtNumber(n)
  BY <1>0, InNumber
<1> DEFINE d == call.directives[n + 1]
           m == DigitsText(d, Magnitude(d))
<1>2. d \in PlainDirectives /\ d.spec \in NumberSpecs
  BY <1>1 DEF AtNumber
<1>3. pc' \in {"digits", "ntoa"}
  BY <1>0
<1>4. ASSUME Faultless PROVE NumberThen(d)
  <2>1. /\ flags = NtoaFlags(d) /\ base = NtoaBase(d) /\ width = NtoaWidth(d) /\ precision = 0
        /\ negative = IsNegative(d)
        /\ DigitsText(d, value) \o Reverse(buf) = m /\ m \in Seq(Charset)
    BY <1>0, <1>1, <1>4, NumberParts
  <2>2. value \in Nat /\ buf \in Seq(Charset) /\ Len(buf) \in Nat
    BY DEF PrintfType
  <2> HIDE DEF c
  <2>3. /\ c \in Charset /\ value' \in Nat
        /\ value' = 0 => DigitsText(d, value) = <<c>>
        /\ value' # 0 => DigitsText(d, value) = DigitsText(d, value') \o <<c>>
    BY <1>0, <1>2, <2>1, <2>2, DigitsTextStep DEF c
  <2>4. Reverse(buf') = <<c>> \o Reverse(buf) /\ Len(buf') = Len(buf) + 1
    BY <1>0, <2>2, <2>3, ReverseAppend
  <2>5. Reverse(buf) \in Seq(Charset) /\ Len(Reverse(buf)) = Len(buf)
    BY <2>2, ReverseType DEF Reverse
  <2>6. value' = 0 => Reverse(buf') = m
    BY <2>1, <2>3, <2>4
  <2>7. value' # 0 => DigitsText(d, value') \o Reverse(buf') = m
    <3> SUFFICES ASSUME value' # 0 PROVE DigitsText(d, value') \o Reverse(buf') = m
      OBVIOUS
    <3> DEFINE t == DigitsText(d, value')
    <3>1. t \in Seq(Charset)
      BY <1>2, <2>3, DigitsTextType
    <3>2. <<c>> \in Seq(Charset)
      BY <2>3
    <3> HIDE DEF t
    <3>3. (t \o <<c>>) \o Reverse(buf) = t \o (<<c>> \o Reverse(buf))
      BY <2>5, <3>1, <3>2, ConcatAssociative
    <3> QED BY <2>1, <2>3, <2>4, <3>3 DEF t
  <2>8. pc' = "ntoa" => value' = 0
    <3> SUFFICES ASSUME pc' = "ntoa", value' # 0 PROVE FALSE
      OBVIOUS
    <3>1. Len(buf') >= PRINTF_NTOA_BUFFER_SIZE
      <4>1. ~(Len(buf') < PRINTF_NTOA_BUFFER_SIZE)
        BY <1>0
      <4>2. Len(buf') \in Nat
        BY <2>2, <2>4
      <4> QED BY <4>1, <4>2, BufferHoldsInt
    <3> DEFINE t == DigitsText(d, value')
    <3>2. t \in Seq(Charset) /\ Len(t) >= 1
      BY <1>2, <2>3, DigitsTextType
    <3>3. Reverse(buf') \in Seq(Charset) /\ Len(Reverse(buf')) = Len(buf')
      <4>1. buf' \in Seq(Charset)
        BY <1>0, <2>2, <2>3
      <4> QED BY <4>1, ReverseType DEF Reverse
    <3>4. t \o Reverse(buf') = m
      BY <2>7
    <3> HIDE DEF t, m
    <3>5. Len(m) = Len(t) + Len(buf')
      <4>1. Len(t \o Reverse(buf')) = Len(t) + Len(Reverse(buf'))
        BY <3>2, <3>3, ConcatProperties
      <4> QED BY <3>3, <3>4, <4>1
    <3>6. Len(NumberSign(d)) + Len(m) <= PRINTF_NTOA_BUFFER_SIZE /\ Len(NumberSign(d)) \in Nat
      <4>1. Len(<<"-">>) = 1 /\ Len(<<>>) = 0
        OBVIOUS
      <4> QED BY <1>2, <1>4, <4>1, DigitsFit DEF NumberSign, m
    <3>7. Len(buf') \in Nat /\ Len(t) \in Nat /\ Len(t) >= 1
      BY <2>2, <2>4, <3>2, LenProperties
    <3> QED BY <3>1, <3>5, <3>6, <3>7, BufferHoldsInt
  <2>9. pc' = "digits" => value' # 0
    BY <1>0
  <2> HIDE DEF m, d
  <2>10. flags' = NtoaFlags(d) /\ base' = NtoaBase(d) /\ width' = NtoaWidth(d) /\ precision' = 0
         /\ negative' = IsNegative(d)
    BY <1>0, <2>1
  <2>11. pc' # "out"
    BY <1>3
  <2> QED BY <2>6, <2>7, <2>8, <2>9, <2>10, <2>11 DEF NumberThen, m
<1> QED BY <1>0, <1>1, <1>3, <1>4, NumberGoesOn

(* Zeros behind the digits in the buffer come before them in the text. *)
LEMMA ReverseAfterFill ==
  ASSUME NEW s \in Seq(Charset), NEW c \in Charset, NEW k \in Int
  PROVE  Reverse(s \o Fill(c, k)) = Fill(c, k) \o Reverse(s)
<1> DEFINE f == Fill(c, k)
           t == s \o f
           u == Reverse(t)
           r == Reverse(s)
           v == f \o r
<1>1. f \in Seq(Charset) /\ Len(f) \in Nat /\ \A i \in 1 .. Len(f) : f[i] = c
  <2>1. f \in Seq(Charset)
    BY FillType
  <2>2. f = [i \in 1 .. (IF k > 0 THEN k ELSE 0) |-> c]
    BY DEF Fill
  <2>3. Len(f) = IF k > 0 THEN k ELSE 0
    BY FillType
  <2> HIDE DEF f
  <2>4. \A i \in 1 .. Len(f) : f[i] = c
    BY <2>2, <2>3
  <2> QED BY <2>1, <2>4
<1> HIDE DEF f
<1>2. /\ t \in Seq(Charset) /\ Len(t) = Len(s) + Len(f) /\ Len(s) \in Nat
      /\ \A i \in 1 .. Len(s) + Len(f) : t[i] = IF i <= Len(s) THEN s[i] ELSE f[i - Len(s)]
  BY <1>1, ConcatProperties, LenProperties
<1> HIDE DEF t
<1>3. u \in Seq(Charset) /\ Len(u) = Len(t) /\ \A i \in 1 .. Len(t) : u[i] = t[(Len(t) - i) + 1]
  BY <1>2, ReverseType DEF Reverse
<1>4. r \in Seq(Charset) /\ Len(r) = Len(s) /\ \A i \in 1 .. Len(s) : r[i] = s[(Len(s) - i) + 1]
  BY <1>2, ReverseType DEF Reverse
<1> HIDE DEF u, r
<1>5. /\ v \in Seq(Charset) /\ Len(v) = Len(f) + Len(s)
      /\ \A i \in 1 .. Len(f) + Len(s) : v[i] = IF i <= Len(f) THEN f[i] ELSE r[i - Len(f)]
  <2>1. f \in Seq(Charset) /\ r \in Seq(Charset) /\ Len(r) = Len(s)
    BY <1>1, <1>4
  <2>2. /\ f \o r \in Seq(Charset) /\ Len(f \o r) = Len(f) + Len(r)
        /\ \A i \in 1 .. Len(f) + Len(r) : (f \o r)[i] = IF i <= Len(f) THEN f[i] ELSE r[i - Len(f)]
    BY <2>1, ConcatProperties
  <2> QED BY <2>1, <2>2
<1> HIDE DEF v
<1>6. ASSUME NEW i \in 1 .. Len(s) + Len(f) PROVE u[i] = v[i]
  <2>0. i \in 1 .. Len(t) /\ u[i] = t[(Len(t) - i) + 1]
    BY <1>1, <1>2, <1>3
  <2>1. CASE i <= Len(f)
    <3>1. (Len(t) - i) + 1 \in 1 .. Len(s) + Len(f) /\ ~((Len(t) - i) + 1 <= Len(s))
          /\ (Len(t) - i) + 1 - Len(s) \in 1 .. Len(f) /\ i \in 1 .. Len(f)
      BY <1>1, <1>2, <2>1
    <3>2. u[i] = c
      <4> DEFINE j == (Len(t) - i) + 1
      <4>1. j \in 1 .. Len(s) + Len(f) /\ ~(j <= Len(s)) /\ j - Len(s) \in 1 .. Len(f)
        BY <3>1
      <4>2. u[i] = t[j]
        BY <2>0
      <4> HIDE DEF j
      <4>3. t[j] = f[j - Len(s)]
        BY <1>2, <4>1
      <4>4. f[j - Len(s)] = c
        BY <1>1, <4>1
      <4> QED BY <4>2, <4>3, <4>4
    <3>3. v[i] = c
      BY <1>1, <1>2, <1>5, <2>1, <3>1
    <3> QED BY <3>2, <3>3
  <2>2. CASE ~(i <= Len(f))
    <3>1. i - Len(f) \in 1 .. Len(s) /\ (Len(t) - i) + 1 = (Len(s) - (i - Len(f))) + 1
          /\ (Len(t) - i) + 1 \in 1 .. Len(s) /\ (Len(t) - i) + 1 \in 1 .. Len(s) + Len(f)
          /\ (Len(t) - i) + 1 <= Len(s)
      BY <1>1, <1>2, <2>2
    <3>2. u[i] = s[(Len(t) - i) + 1]
      BY <1>2, <2>0, <3>1
    <3>3. v[i] = r[i - Len(f)]
      BY <1>1, <1>2, <1>5, <2>2
    <3> QED BY <1>4, <3>1, <3>2, <3>3
  <2> QED BY <2>1, <2>2
<1>7. u = v
  <2>1. Len(u) = Len(v) /\ Len(u) = Len(s) + Len(f)
    BY <1>1, <1>2, <1>3, <1>5
  <2> QED BY <1>3, <1>5, <1>6, <2>1, SeqEqual
<1> QED BY <1>7 DEF u, v, t, r, f

(* Neither zeros nor a prefix come before the digits of an integer. *)
LEMMA PlainZeros ==
  ASSUME NEW b \in Seq(Charset), NEW w \in Nat, ~InFtoa, Len(b) <= PRINTF_NTOA_BUFFER_SIZE,
         precision = 0, flags \cap {"LEFT", "PLUS", "SPACE", "HASH", "PRECISION"} = {},
         "ZEROPAD" \in flags => w <= PRINTF_NTOA_BUFFER_SIZE
  PROVE  WithPrefix(WithZeros(b, w), w) = IF "ZEROPAD" \in flags THEN b \o Fill("0", w - Len(b)) ELSE b
<1> DEFINE size == PRINTF_NTOA_BUFFER_SIZE
           l == Len(b)
<1>1. BufferSize = size
  BY DEF BufferSize
<1>2. size \in Nat /\ l \in Nat /\ l <= size
  BY BufferHoldsInt, LenProperties
<1>3. b \o <<>> = b
  BY ConcatEmptySeq
<1>4. UpTo(b, precision) = b
  <2>1. UpTo(b, 0) = b \o Fill("0", IF 0 - l < size - l THEN 0 - l ELSE size - l)
    BY <1>1 DEF UpTo
  <2> HIDE DEF size, l
  <2>2. (IF 0 - l < size - l THEN 0 - l ELSE size - l) \in Int /\ (IF 0 - l < size - l THEN 0 - l ELSE size - l) <= 0
    BY <1>2
  <2>3. Fill("0", IF 0 - l < size - l THEN 0 - l ELSE size - l) = <<>>
    BY <2>2, NothingToFill
  <2> QED BY <1>3, <2>1, <2>3
<1>5. "ZEROPAD" \in flags => UpTo(b, w) = b \o Fill("0", w - l)
  <2> SUFFICES ASSUME "ZEROPAD" \in flags PROVE UpTo(b, w) = b \o Fill("0", w - l)
    OBVIOUS
  <2>1. UpTo(b, w) = b \o Fill("0", IF w - l < size - l THEN w - l ELSE size - l)
    BY <1>1 DEF UpTo
  <2>2. w <= size
    OBVIOUS
  <2> HIDE DEF size, l
  <2>3. (IF w - l < size - l THEN w - l ELSE size - l) = w - l
    BY <1>2, <2>2
  <2> QED BY <2>1, <2>3
<1>6. "LEFT" \notin flags /\ "HASH" \notin flags
  OBVIOUS
<1>7. WithZeros(b, w) = IF "ZEROPAD" \in flags THEN b \o Fill("0", w - l) ELSE b
  BY <1>4, <1>5, <1>6 DEF WithZeros
<1>8. WithPrefix(WithZeros(b, w), w) = WithZeros(b, w)
  BY <1>6 DEF WithPrefix
<1> QED BY <1>7, <1>8

(* _ntoa_format: the zeros of a pointer, the sign of an integer. *)
LEMMA NtoaFormatPlain ==
  ASSUME PrintfType, NumberFits, IsPlain(call), PlainInv, NtoaFormat
  PROVE  PlainInv'
<1>0. /\ pc = "ntoa" /\ buf' = WithSign(WithPrefix(WithZeros(buf, ZeroWidth), ZeroWidth))
      /\ width' = ZeroWidth /\ pc' = "out"
      /\ call' = call /\ pos' = pos /\ arg' = arg /\ text' = text
      /\ flags' = flags /\ precision' = precision /\ negative' = negative /\ base' = base
  BY DEF NtoaFormat, output
<1>1. PICK n \in 0 .. Total - 1 : AtNumber(n)
  BY <1>0, InNumber
<1> DEFINE d == call.directives[n + 1]
           m == DigitsText(d, Magnitude(d))
<1>2. d \in PlainDirectives /\ d.spec \in NumberSpecs
  BY <1>1 DEF AtNumber
<1>3. ASSUME Faultless PROVE NumberThen(d)
  <2>1. /\ flags = NtoaFlags(d) /\ base = NtoaBase(d) /\ width = NtoaWidth(d) /\ precision = 0
        /\ negative = IsNegative(d)
        /\ "ZEROPAD" \in flags <=> d.spec = "p"
        /\ flags \cap {"LEFT", "PLUS", "SPACE", "HASH", "PRECISION"} = {}
        /\ Reverse(buf) = m /\ m \in Seq(Charset)
    BY <1>0, <1>1, <1>3, NumberParts
  <2>2. buf \in Seq(Charset) /\ width \in Nat
    BY DEF PrintfType
  <2>3. Len(buf) <= PRINTF_NTOA_BUFFER_SIZE /\ ~InFtoa
    BY <1>0 DEF NumberFits, InNtoa, InFtoa
  <2>4. Len(m) = Len(buf)
    BY <2>1, <2>2 DEF Reverse
  <2> HIDE DEF m
  <2>5. CASE d.spec = "p"
    <3>1. negative = FALSE /\ width = INT_BIT \div 4
      BY <2>1, <2>5 DEF IsNegative, NtoaWidth
    <3>2. ZeroWidth = width
      BY <2>1, <3>1 DEF ZeroWidth
    <3>3. width <= PRINTF_NTOA_BUFFER_SIZE
      <4>1. INT_BIT \div 4 <= INT_BIT
        BY BufferHoldsInt
      <4>2. INT_BIT \div 4 <= PRINTF_NTOA_BUFFER_SIZE
        BY <2>2, <3>1, <4>1, BufferHoldsInt
      <4> QED BY <3>1, <4>2
    <3>4. WithPrefix(WithZeros(buf, ZeroWidth), ZeroWidth) = buf \o Fill("0", width - Len(buf))
      BY <2>1, <2>2, <2>3, <2>5, <3>2, <3>3, PlainZeros
    <3>5. buf' = buf \o Fill("0", width - Len(buf))
      BY <1>0, <2>1, <3>1, <3>4 DEF WithSign
    <3>6. Reverse(buf') = Fill("0", INT_BIT \div 4 - Len(m)) \o m
      <4>1. width - Len(buf) \in Int
        BY <2>2
      <4>2. "0" \in Charset
        BY CharsOfPrintf
      <4>3. Reverse(buf') = Fill("0", width - Len(buf)) \o Reverse(buf)
        BY <2>2, <3>5, <4>1, <4>2, ReverseAfterFill
      <4> QED BY <2>1, <2>4, <3>1, <4>3
    <3>7. Reverse(buf') = C!Meaning(d)
      BY <1>2, <2>5, <3>6, MeaningOfPointer DEF m
    <3>8. flags' = NtoaFlags(d) /\ base' = NtoaBase(d) /\ width' = NtoaWidth(d) /\ precision' = 0
          /\ negative' = IsNegative(d)
      BY <1>0, <2>1, <3>2
    <3> HIDE DEF d
    <3> QED BY <1>0, <3>7, <3>8 DEF NumberThen
  <2>6. CASE d.spec # "p"
    <3>1. d.spec \in DOMAIN BaseOf /\ "ZEROPAD" \notin flags /\ width = 0
      BY <1>2, <2>1, <2>6 DEF NumberSpecs, NtoaWidth
    <3>2. ZeroWidth = width
      BY <3>1 DEF ZeroWidth
    <3>3. WithPrefix(WithZeros(buf, ZeroWidth), ZeroWidth) = buf
      BY <2>1, <2>2, <2>3, <3>1, <3>2, PlainZeros
    <3>4. buf' = IF negative THEN Push(buf, "-") ELSE buf
      BY <1>0, <2>1, <3>3 DEF WithSign
    <3>5. Reverse(buf') = NumberSign(d) \o m
      <4>1. CASE negative
        <5>1. NumberSign(d) = <<"-">> /\ Len(<<"-">>) = 1
          BY <2>1, <4>1 DEF NumberSign
        <5>2. Len(NumberSign(d)) + Len(m) <= PRINTF_NTOA_BUFFER_SIZE
          BY <1>2, <1>3, DigitsFit DEF m
        <5>3. 1 + Len(buf) <= PRINTF_NTOA_BUFFER_SIZE
          BY <2>4, <5>1, <5>2
        <5>4. Len(buf) < PRINTF_NTOA_BUFFER_SIZE
          BY <2>2, <5>3, BufferHoldsInt
        <5>5. buf' = Append(buf, "-")
          BY <2>3, <3>4, <4>1, <5>4 DEF Push, BufferSize
        <5>6. "-" \in Charset
          BY CharsOfPrintf
        <5>7. Reverse(buf') = <<"-">> \o Reverse(buf)
          BY <2>2, <5>5, <5>6, ReverseAppend
        <5> QED BY <2>1, <5>1, <5>7
      <4>2. CASE ~negative
        <5>1. NumberSign(d) = <<>> /\ buf' = buf
          BY <2>1, <3>4, <4>2 DEF NumberSign
        <5>2. <<>> \o m = m
          BY <2>1, ConcatEmptySeq
        <5> QED BY <2>1, <5>1, <5>2
      <4> QED BY <4>1, <4>2
    <3>6. Reverse(buf') = C!Meaning(d)
      BY <1>2, <3>1, <3>5, MeaningOfInteger DEF m
    <3>7. flags' = NtoaFlags(d) /\ base' = NtoaBase(d) /\ width' = NtoaWidth(d) /\ precision' = 0
          /\ negative' = IsNegative(d)
      BY <1>0, <2>1, <3>2
    <3> HIDE DEF d
    <3> QED BY <1>0, <3>6, <3>7 DEF NumberThen
  <2> QED BY <2>5, <2>6
<1>4. pc' \in {"digits", "ntoa", "out"}
  BY <1>0
<1> QED BY <1>0, <1>1, <1>3, <1>4, NumberGoesOn

(* _out_rev: the number is put out. *)
LEMMA OutRevPlain ==
  ASSUME PrintfType, IsPlain(call), PlainInv, OutRev
  PROVE  PlainInv'
<1> DEFINE s == IF flags \cap {"LEFT", "ZEROPAD"} = {"ZEROPAD"} THEN Reverse(buf) ELSE Padded(Reverse(buf))
<1>0. /\ pc = "out" /\ text' = text \o s /\ pc' = "format"
      /\ call' = call /\ pos' = pos /\ arg' = arg
  BY DEF OutRev, Out
<1>1. PICK n \in 0 .. Total - 1 : AtNumber(n)
  BY <1>0, InNumber
<1> DEFINE d == call.directives[n + 1]
<1>2. /\ d \in PlainDirectives /\ Start(n + 1) \in Nat /\ pos' = Start(n + 1) + 1 /\ arg' <= Given(n + 1) + 1
      /\ Faultless => arg' = Given(n + 1) + 1 /\ text = Said(n) \o <<>>
  BY <1>0, <1>1 DEF AtNumber
<1>3. n + 1 \in 0 .. Total /\ n \in 0 .. Total
  BY PlainCall
<1>4. Faultless => s = C!Meaning(d)
  <2> SUFFICES ASSUME Faultless PROVE s = C!Meaning(d)
    OBVIOUS
  <2>1. /\ width = NtoaWidth(d) /\ ("ZEROPAD" \in flags <=> d.spec = "p")
        /\ flags \cap {"LEFT", "PLUS", "SPACE", "HASH", "PRECISION"} = {}
        /\ Reverse(buf) = C!Meaning(d)
    BY <1>0, <1>1, NumberParts
  <2>2. "LEFT" \notin flags /\ (d.spec = "p" => flags \cap {"LEFT", "ZEROPAD"} = {"ZEROPAD"})
    BY <2>1
  <2>3. CASE d.spec = "p"
    BY <2>1, <2>2, <2>3
  <2>4. CASE d.spec # "p"
    <3>1. width = 0
      BY <2>1, <2>4 DEF NtoaWidth
    <3>2. Reverse(buf) \in Seq(Charset)
      BY ReverseType DEF PrintfType
    <3>3. Padded(Reverse(buf)) = Reverse(buf)
      BY <2>2, <3>1, <3>2, PaddedPlainly
    <3> QED BY <2>1, <3>3
  <2> QED BY <2>3, <2>4
<1>5. Faultless => text' = Said(n + 1)
  <2> SUFFICES ASSUME Faultless PROVE text' = Said(n + 1)
    OBVIOUS
  <2>1. text' = text \o C!Meaning(d) /\ text = Said(n) \o <<>>
    BY <1>0, <1>2, <1>4
  <2>2. Said(n) \in Meanings /\ Said(n + 1) = Said(n) \o C!Meaning(d)
    BY <1>3, SaysDirective
  <2>3. Said(n) \o <<>> = Said(n)
    BY <2>2 DEF Meanings
  <2> QED BY <2>1, <2>2, <2>3
<1> HIDE DEF s
<1> QED BY <1>0, <1>2, <1>3, <1>5, ToFormat

-----------------------------------------------------------------------------
(* Plain calls *)

(* A plain call goes the way that PlainInv describes. *)
LEMMA OnlyPlainSteps ==
  ASSUME IsPlain(call), PlainInv
  PROVE  ~(Flag \/ WidthDigit \/ PrecisionDigit \/ Float \/ FracDigit \/ Point \/ WholeDigit \/ FtoaFormat)
<1>1. ASSUME pc \in {"flags", "width"} PROVE This \notin DOMAIN FlagOf /\ ~IsDigit(This)
  <2>1. PICK n \in 0 .. Total - 1 : Behind(n)
    BY <1>1, InDirective
  <2> QED BY <1>1, <2>1, LetterIsPlain
<1>2. ASSUME pc = "specifier" PROVE This \notin {"f", "F"}
  <2>1. PICK n \in 0 .. Total - 1 : AtSpecifier(n)
    BY <1>2, InSpecifier
  <2>2. PICK d \in PlainDirectives : This = d.spec /\ d.spec # "text"
    BY <2>1 DEF AtSpecifier
  <2> QED BY <2>2, PlainTypes DEF Specifiers, BaseOf
<1>3. pc \in {"format", "flags", "width", "length", "specifier", "digits", "ntoa", "out", "done"}
  BY DEF PlainInv
<1>4. ~Flag /\ ~WidthDigit
  BY <1>1 DEF Flag, WidthDigit
<1>5. ~PrecisionDigit /\ ~FracDigit /\ ~Point /\ ~WholeDigit /\ ~FtoaFormat
  BY <1>3 DEF PrecisionDigit, FracDigit, Point, WholeDigit, FtoaFormat
<1>6. ~Float
  BY <1>2 DEF Float
<1> QED BY <1>4, <1>5, <1>6

(* A step of another function. *)
LEMMA PlainStutters ==
  ASSUME PlainInv, UNCHANGED printfVars
  PROVE  PlainInv'
<1>1. UNCHANGED <<call, pc, pos, arg, flags, width, precision, value, negative, base, buf, text>>
  BY DEF printfVars, directive, number, output
<1>2. Total' = Total /\ (Faultless <=> Faultless')
  BY <1>1 DEF Total, Faultless
<1>3. \A n, k, s : (Taken(n) <=> Taken(n)') /\ (At(n, k) <=> At(n, k)') /\ (Printed(n, s) <=> Printed(n, s)')
  BY <1>1, <1>2 DEF Taken, At, Printed, Upto
<1>4. \A n : Number(call.directives[n + 1]) <=> Number(call.directives[n + 1])'
  BY <1>1 DEF Number
<1> QED BY <1>1, <1>2, <1>3, <1>4 DEF PlainInv

(* Every step of a plain call keeps the invariant, *)
LEMMA PlainStep ==
  ASSUME PrintfInv, IsPlain(call), PlainInv, [PrintfNext]_printfVars
  PROVE  PlainInv'
<1>0. PrintfType /\ NumberFits
  BY DEF PrintfInv
<1>1. CASE Literal
  BY <1>0, <1>1, LiteralPlain
<1>2. CASE Percent
  BY <1>0, <1>2, PercentPlain
<1>3. CASE Width
  BY <1>3, WidthPlain
<1>4. CASE Precision
  BY <1>4, PrecisionPlain
<1>5. CASE Length
  BY <1>5, LengthPlain
<1>6. CASE Integer
  BY <1>0, <1>6, IntegerPlain
<1>7. CASE Unsupported
  BY <1>0, <1>7, UnsupportedPlain
<1>8. CASE Pointer
  BY <1>0, <1>8, PointerPlain
<1>9. CASE Character
  BY <1>0, <1>9, CharacterPlain
<1>10. CASE String
  BY <1>0, <1>10, StringPlain
<1>11. CASE Other
  BY <1>0, <1>11, OtherPlain
<1>12. CASE Digit
  BY <1>0, <1>12, DigitPlain
<1>13. CASE NtoaFormat
  BY <1>0, <1>13, NtoaFormatPlain
<1>14. CASE OutRev
  BY <1>0, <1>14, OutRevPlain
<1>15. CASE Terminate
  BY <1>0, <1>15, TerminatePlain
<1>16. CASE UNCHANGED printfVars
  BY <1>16, PlainStutters
<1>17. CASE Flag \/ WidthDigit \/ PrecisionDigit \/ Float \/ FracDigit \/ Point \/ WholeDigit \/ FtoaFormat
  BY <1>17, OnlyPlainSteps
<1> QED BY <1>1, <1>2, <1>3, <1>4, <1>5, <1>6, <1>7, <1>8, <1>9, <1>10, <1>11, <1>12, <1>13, <1>14, <1>15,
           <1>16, <1>17 DEF PrintfNext

(* in the same call, *)
LEMMA CallStays == [PrintfNext]_printfVars => call' = call
<1>1. Literal \/ Percent \/ Flag \/ Width \/ WidthDigit \/ Precision \/ PrecisionDigit \/ Length => call' = call
  BY DEF Literal, Percent, Flag, Width, WidthDigit, Precision, PrecisionDigit, Length
<1>2. Integer \/ Unsupported \/ Pointer \/ Character \/ String \/ Other => call' = call
  BY DEF Integer, Unsupported, Pointer, Character, String, Other, Ntoa
<1>3. Digit \/ NtoaFormat \/ Float \/ FracDigit \/ Point \/ WholeDigit \/ FtoaFormat \/ OutRev \/ Terminate => call' = call
  BY DEF Digit, NtoaFormat, Float, FracDigit, Point, WholeDigit, FtoaFormat, OutRev, Terminate
<1>4. UNCHANGED printfVars => call' = call
  BY DEF printfVars
<1> QED BY <1>1, <1>2, <1>3, <1>4 DEF PrintfNext

(* which starts with it. *)
LEMMA PlainStart ==
  ASSUME IsPlain(call), pos = 1, arg = 1, text = <<>>, pc = "format" \/ (pc = "done" /\ call.directives = <<>>)
  PROVE  PlainInv
<1>1. call.directives \in Seq(PlainDirectives) /\ Total \in Nat
  BY PlainCall
<1>2. Start(0) = 0
  BY ReadsEnd
<1>3. Given(0) = 0
  <2>1. 0 \in 0 .. Len(call.directives)
    BY <1>1 DEF Total
  <2> QED BY <1>1, <2>1, ArgumentsUpto DEF Given, Upto
<1>4. Said(0) \o <<>> = <<>>
  <2>1. Said(0) = <<>>
    BY SaysDirective
  <2> QED BY <2>1
<1>5. Taken(0) /\ At(0, 0) /\ Printed(0, <<>>)
  <2>1. pos = Start(0) + 0 + 1 /\ arg <= Given(0) + 1 /\ arg = Given(0) + 1
    BY <1>2, <1>3
  <2> QED BY <1>4, <2>1, Parts
<1>6. pc = "done" => Printed(Total, <<>>)
  <2>1. ASSUME pc = "done" PROVE Total = 0
    BY <2>1 DEF Total
  <2> QED BY <1>5, <2>1
<1>7. 0 \in 0 .. Total
  BY <1>1
<1> QED BY <1>5, <1>6, <1>7 DEF PlainInv

(* No argument is taken that was not passed. *)
LEMMA PlainArgumentsPassed ==
  ASSUME PrintfType, IsPlain(call), PlainInv
  PROVE  ArgumentsPassed
<1> SUFFICES ASSUME TakesArgument PROVE arg \in DOMAIN call.args
  BY DEF ArgumentsPassed
<1>1. ASSUME pc \in {"flags", "width"} PROVE This \notin {"*", "."}
  <2>1. PICK n \in 0 .. Total - 1 : Behind(n)
    BY <1>1, InDirective
  <2> QED BY <1>1, <2>1, LetterIsPlain
<1>2. pc # "precision"
  BY DEF PlainInv
<1>3. pc = "specifier" /\ This \in {"p", "c", "s", "f", "F"} \cup DOMAIN BaseOf
  BY <1>1, <1>2 DEF TakesArgument
<1>4. PICK n \in 0 .. Total - 1 : AtSpecifier(n)
  BY <1>3, InSpecifier
<1> DEFINE d == call.directives[n + 1]
<1>5. d \in PlainDirectives /\ d.spec = This /\ d.spec \notin {"text", "%"}
  <2>1. d \in PlainDirectives /\ d.spec = This
    BY <1>4 DEF AtSpecifier
  <2> QED BY <1>3, <2>1 DEF BaseOf
<1>6. Given(n) \in Nat /\ Given(n) + 1 \in DOMAIN call.args /\ DOMAIN call.args = 1 .. Len(call.args)
  BY <1>5, TakesDirective
<1>7. arg <= Given(n) + 1
  BY <1>4 DEF AtSpecifier
<1>8. arg \in Nat \ {0}
  BY DEF PrintfType
<1>9. Given(n) + 1 \in 1 .. Len(call.args)
  BY <1>6
<1>10. arg \in 1 .. Len(call.args)
  <2>1. Given(n) \in Nat
    BY <1>6
  <2> QED BY <1>7, <1>8, <1>9, <2>1
<1> QED BY <1>6, <1>10

(* The invariant says what is printed. *)
LEMMA PlainConforms ==
  ASSUME PrintfType, IsPlain(call), PlainInv
  PROVE  Conforms
<1>1. pc # "lost"
  BY DEF PlainInv
<1>2. ASSUME pc = "done", Faultless PROVE text = C!Sentence(C!Meaning, call.directives)
  <2>1. Printed(Total, <<>>)
    BY <1>2 DEF PlainInv
  <2>2. text = Said(Total) \o <<>>
    BY <1>2, <2>1, Parts
  <2>3. Total \in 0 .. Total
    BY PlainCall
  <2>4. Said(Total) \in Meanings
    BY <2>3, SaysDirective
  <2>5. Said(Total) \o <<>> = Said(Total)
    BY <2>4 DEF Meanings
  <2> QED BY <2>2, <2>5, SaysDirective
<1>3. ArgumentsPassed
  BY PlainArgumentsPassed
<1> QED BY <1>1, <1>2, <1>3 DEF Conforms, Faultless

(* The inductive invariant holds of every plain call. *)
THEOREM PlainCalls == Spec => []PlainCallInv
<1>1. Init => PlainCallInv
  <2>1. ASSUME PrintfInit PROVE PlainCallInv
    <3>1. PICK c \in Calls : PrintfAt(c, "format")
      BY <2>1 DEF PrintfInit
    <3>2. pos = 1 /\ arg = 1 /\ text = <<>> /\ pc = "format"
      BY <3>1 DEF PrintfAt
    <3>3. PrintfInv
      BY <2>1, PrintfInvInit
    <3> QED BY <3>2, <3>3, PlainStart DEF PlainCallInv
  <2>2. ASSUME PrintfAt(NoCall, "done") PROVE PlainCallInv
    <3>1. pos = 1 /\ arg = 1 /\ text = <<>> /\ pc = "done" /\ call = NoCall
      BY <2>2 DEF PrintfAt
    <3>2. IsCall(NoCall) /\ NoCall.sink # "buffer" /\ call.directives = <<>>
      BY <3>1 DEF NoCall, IsCall, Libraries, Sinks
    <3>3. PrintfInv
      BY <2>2, <3>2, PrintfAtInv
    <3> QED BY <3>1, <3>2, <3>3, PlainStart DEF PlainCallInv
  <2> QED BY <2>1, <2>2 DEF Init
<1>2. PlainCallInv /\ [Next]_vars => PlainCallInv'
  <2> SUFFICES ASSUME PlainCallInv, [Next]_vars, IsPlain(call)' PROVE (PrintfInv /\ PlainInv)'
    BY DEF PlainCallInv
  <2>1. [PrintfNext]_printfVars
    BY DEF Next, vars
  <2>2. call' = call
    BY <2>1, CallStays
  <2>3. IsPlain(call)
    BY <2>2 DEF IsPlain, Call
  <2>4. PrintfInv /\ PlainInv
    BY <2>3 DEF PlainCallInv
  <2>5. ArgumentsPassed
    BY <2>3, <2>4, PlainArgumentsPassed DEF PrintfInv
  <2> QED BY <2>1, <2>3, <2>4, <2>5, PrintfInvStep, PlainStep
<1> QED BY <1>1, <1>2, PTL DEF Spec

(* Every call of printf whose format is text and directives without flags,
   width and precision, as all in the kernel are, prints what C says, to the
   character, with the arguments of its directives and no others: however many
   directives, whatever the arguments, the lengths and the base, unless a
   directive is one of the known departures. *)
THEOREM PlainCallsConform == Spec => [](IsPlain(call) => Conforms)
<1>1. PlainCallInv => (IsPlain(call) => Conforms)
  BY PlainConforms DEF PlainCallInv, PrintfInv
<1> QED BY <1>1, PlainCalls, PTL

(* Such a call overruns neither the buffer of a number nor the caller's, and
   needs no assumption on the arguments for that. *)
THEOREM PlainCallsStayInBuffers == Spec => [](IsPlain(call) => StaysInBuffers)
<1>1. PrintfInv /\ StringsType => StaysInBuffers
  BY InvariantStays
<1>2. StringsInv => StringsType
  BY DEF StringsInv
<1>3. PlainCallInv /\ StringsInv => (IsPlain(call) => StaysInBuffers)
  BY <1>1, <1>2 DEF PlainCallInv
<1> QED BY <1>3, PlainCalls, LibcInvariant, PTL

-----------------------------------------------------------------------------
(* Numbers no longer than a long *)

(* What the code's types allow for. *)
LEMMA Widths ==
  /\ 2 <= CHAR_BIT /\ CHAR_BIT <= SHORT_BIT /\ SHORT_BIT <= INT_BIT /\ INT_BIT <= PRINTF_NTOA_BUFFER_SIZE
  /\ {CHAR_BIT, SHORT_BIT, INT_BIT, PRINTF_NTOA_BUFFER_SIZE} \subseteq Nat
BY PrintfAssumption

(* The value of a number of that many bits. *)
LEMMA ValueBounds ==
  ASSUME NEW d \in PlainDirectives, d.spec \in NumberSpecs, NEW bits \in {CHAR_BIT, SHORT_BIT, INT_BIT},
         C!TypeBits(d) = bits
  PROVE  /\ 2^bits \in Nat /\ 2^(bits - 1) \in Nat
         /\ Value(d) < 2^bits
         /\ Value(d) < 0 => -Value(d) < 2^(bits - 1) + 1
<1> DEFINE range == 2^bits
           half == 2^(bits - 1)
           n == d.int % range
<1>1. bits \in Nat /\ bits >= 2
  BY Widths
<1>2. range \in Nat \ {0} /\ half \in Nat /\ range = 2 * half
  <2>1. range \in Nat \ {0}
    BY PowersAreNumbers
  <2>2. bits - 1 \in 0 .. bits - 1 /\ (bits - 1) + 1 = bits
    BY <1>1
  <2>3. 2^(bits - 1) \in Nat \ {0} /\ 2^((bits - 1) + 1) = 2 * 2^(bits - 1)
    BY <2>2, PowersAreNumbers
  <2> QED BY <2>1, <2>2, <2>3
<1>3. d.int \in Int
  BY PlainTypes
<1>4. Value(d) = IF d.spec \in {"d", "i"} /\ 2 * n >= range THEN n - range ELSE n
  BY DEF Value, C!Converted, range
<1> HIDE DEF range, half
<1>5. n \in 0 .. range - 1
  BY <1>2, <1>3
<1> HIDE DEF n
<1>6. Value(d) < range /\ (Value(d) < 0 => -Value(d) < half + 1)
  <2>1. CASE Value(d) = n
    BY <1>2, <1>5, <2>1
  <2>2. CASE Value(d) = n - range /\ 2 * n >= range
    BY <1>2, <1>5, <2>2
  <2> QED BY <1>4, <2>1, <2>2
<1> QED BY <1>2, <1>6 DEF range, half

(* A number no longer than a long fits into the buffer with its sign. *)
LEMMA ShortFits ==
  ASSUME NEW d \in PlainDirectives, d.spec \in DOMAIN BaseOf, d.length \notin {"ll", "j"}
  PROVE  Len(NumberSign(d)) + Len(DigitsText(d, Magnitude(d))) <= PRINTF_NTOA_BUFFER_SIZE
<1> DEFINE l == Len(DigitsText(d, Magnitude(d)))
           b == NtoaBase(d)
<1>0. d.spec \in NumberSpecs /\ d.spec # "p"
  BY DEF NumberSpecs, BaseOf
<1>1. Value(d) \in Int /\ Magnitude(d) \in Nat /\ (Value(d) < 0 => d.spec \in {"d", "i"})
      /\ Magnitude(d) = (IF Value(d) < 0 THEN -Value(d) ELSE Value(d))
  BY <1>0, ValueTypes
<1>2. PICK bits \in {CHAR_BIT, SHORT_BIT, INT_BIT} : C!TypeBits(d) = bits
  <2>1. C!TypeBits(d) \in {CHAR_BIT, SHORT_BIT, INT_BIT}
    BY PlainTypes DEF C!TypeBits
  <2> QED BY <2>1
<1>3. bits \in Nat /\ bits >= 2 /\ bits <= INT_BIT /\ INT_BIT \in Nat
  BY Widths
<1>4. /\ 2^bits \in Nat /\ 2^(bits - 1) \in Nat
      /\ Value(d) < 2^bits
      /\ Value(d) < 0 => -Value(d) < 2^(bits - 1) + 1
  BY <1>0, <1>2, ValueBounds
<1>5. l = Len(C!Numeral(Magnitude(d), b)) /\ l \in Nat
  <2>1. l = Len(C!Numeral(Magnitude(d), b)) /\ DigitsText(d, Magnitude(d)) \in Seq(Charset)
    BY <1>0, <1>1, DigitsTextType
  <2> QED BY <2>1, LenProperties
<1>6. b \in Bases
  BY <1>0, NtoaParameters
<1> HIDE DEF l
<1>7. Len(<<"-">>) = 1 /\ Len(<<>>) = 0
  OBVIOUS
<1>8. CASE Value(d) >= 0
  <2>1. Magnitude(d) < 2^bits + 0
    BY <1>1, <1>4, <1>8
  <2>2. bits \in 1 .. INT_BIT
    BY <1>3
  <2>3. 0 \in {0, 1} /\ (0 = 1 => b # 2)
    OBVIOUS
  <2>4. l <= bits
    BY <1>1, <1>5, <1>6, <2>1, <2>2, <2>3, NumeralShort
  <2>5. NumberSign(d) = <<>>
    BY <1>1, <1>8 DEF NumberSign, IsNegative
  <2>6. 0 + l <= PRINTF_NTOA_BUFFER_SIZE
    BY <1>3, <1>5, <2>4, Widths
  <2> QED BY <1>7, <2>5, <2>6 DEF l
<1>9. CASE Value(d) < 0
  <2>1. Magnitude(d) < 2^(bits - 1) + 1
    BY <1>1, <1>4, <1>9
  <2>2. bits - 1 \in 1 .. INT_BIT
    BY <1>3
  <2>3. b = 10
    BY <1>0, <1>1, <1>9 DEF NtoaBase, C!Radix
  <2>4. 1 \in {0, 1} /\ (1 = 1 => b # 2)
    BY <2>3
  <2>5. l <= bits - 1
    BY <1>1, <1>5, <1>6, <2>1, <2>2, <2>4, NumeralShort
  <2>6. NumberSign(d) = <<"-">>
    BY <1>0, <1>9 DEF NumberSign, IsNegative
  <2>7. 1 + l <= PRINTF_NTOA_BUFFER_SIZE
    BY <1>3, <1>5, <2>5, Widths
  <2> QED BY <1>7, <2>6, <2>7 DEF l
<1> QED BY <1>1, <1>8, <1>9

(* None of the ways in which printf departs from C is open to the directives
   that the kernel writes. *)
LEMMA ShortAgrees ==
  ASSUME NEW d \in PlainDirectives, d.length \notin {"ll", "j"}, NEW library
  PROVE  ~Departs(library, d)
<1>1. d.flags = {} /\ d.width = 0 /\ ~d.hasPrecision /\ d.spec \in Specifiers \cup {"text"}
  BY PlainTypes
<1>2. d.spec \notin {"f", "F"}
  BY <1>1 DEF Specifiers, BaseOf
<1>3. ~NegativePrecision(d) /\ ~OctalZero(d)
  BY <1>1 DEF NegativePrecision, OctalZero
<1>4. ~Omitted(library, d)
  BY DEF Omitted
<1>5. ~C!LeftAligned(d) /\ ~C!Alternative(d)
  BY <1>1 DEF C!LeftAligned, C!Alternative
<1>6. ~ForgetsZeros(d) /\ ~DropsDigits(d)
  BY <1>5 DEF ForgetsZeros, DropsDigits
<1>7. ASSUME d.spec \in {"d", "i", "u", "x", "X", "o", "b"} PROVE ~Overlong(d)
  <2> DEFINE l == Len(DigitsText(d, Magnitude(d)))
             sign == Len(NumberSign(d))
  <2>1. d.spec \in DOMAIN BaseOf
    BY <1>7 DEF BaseOf
  <2>2. C!Prefix(d) = NumberSign(d) /\ DigitsOf(d) = l
    BY <2>1, MeaningOfInteger
  <2>3. sign + l <= PRINTF_NTOA_BUFFER_SIZE
    BY <2>1, ShortFits
  <2>4. sign \in Nat /\ l \in Nat
    <3>1. Len(<<"-">>) = 1 /\ Len(<<>>) = 0
      OBVIOUS
    <3>2. sign \in Nat
      BY <3>1 DEF NumberSign
    <3>3. d.spec \in NumberSpecs
      BY <2>1 DEF NumberSpecs
    <3>4. DigitsText(d, Magnitude(d)) \in Seq(Charset)
      BY <3>3, ValueTypes, DigitsTextType
    <3> QED BY <3>2, <3>4, LenProperties
  <2>5. PRINTF_NTOA_BUFFER_SIZE \in Nat
    BY Widths
  <2> HIDE DEF l, sign
  <2>6. (IF 0 > l THEN 0 ELSE l) = l
    BY <2>4
  <2>7. ~(l > PRINTF_NTOA_BUFFER_SIZE) /\ ~(sign + l > PRINTF_NTOA_BUFFER_SIZE)
    BY <2>3, <2>4, <2>5
  <2>8. Len(C!Prefix(d)) = sign
    BY <2>2 DEF sign
  <2>9. Overlong(d) => (IF 0 > l THEN 0 ELSE l) > PRINTF_NTOA_BUFFER_SIZE
                       \/ sign + (IF 0 > l THEN 0 ELSE l) > PRINTF_NTOA_BUFFER_SIZE
    BY <1>1, <2>2, <2>8 DEF Overlong
  <2> QED BY <2>6, <2>7, <2>9
<1> QED BY <1>2, <1>3, <1>4, <1>6, <1>7 DEF Departs

(* A call as the kernel makes them, whose numbers are no longer than a long
   either, prints what C asks for when it is over, whatever the numbers: none
   of the known departures is open to it.  *)
THEOREM PlainCallsPrintAsC == Spec => []PrintsAsC
<1>1. ASSUME PrintfType, PlainInv, IsShort(call), pc = "done" PROVE text = C!Sentence(C!Meaning, call.directives)
  <2>1. IsPlain(call) /\ \A n \in DOMAIN call.directives : call.directives[n].length \notin {"ll", "j"}
    BY <1>1 DEF IsShort
  <2>2. ASSUME NEW n \in DOMAIN call.directives PROVE ~Departs(call.library, call.directives[n])
    <3>1. call.directives[n] \in PlainDirectives
      BY <2>1, PlainCall, ElementOfSeq
    <3> QED BY <2>1, <3>1, ShortAgrees
  <2>3. Conforms
    BY <1>1, <2>1, PlainConforms
  <2> QED BY <1>1, <2>2, <2>3 DEF Conforms
<1>2. PlainCallInv => PrintsAsC
  BY <1>1 DEF PlainCallInv, PrintfInv, IsShort, PrintsAsC
<1> QED BY <1>2, PlainCalls, PTL
===============================================================================
