------------------------------- MODULE Strings -------------------------------
(***************************************************************************)
(* The functions of libc/string/: loops over bytes of one memory, a round  *)
(* of the loop being a step.  An address is an index of the memory, a byte *)
(* is unsigned, and 0 ends a string.                                       *)
(***************************************************************************)
EXTENDS Integers

CONSTANTS
  Top,      \* the last address
  Byte,     \* bytes: those of memory, and the values of memset
  Size      \* the sizes that are passed

ASSUME StringsAssumption ==
  /\ Top \in Nat
  /\ Byte \subseteq Nat /\ 0 \in Byte
  /\ Size \subseteq Nat /\ 0 \in Size

Address == 0 .. Top

VARIABLES
  fn,     \* the call: [name, a, b, size]; a is dst, aptr, s1 or str, b is
          \* src, bptr, s2 or memset's value
  index,      \* the loop's counter
  memory,
  before, \* memory when the function was called
  returned, result  \* the call is over, what it returned

stringsVars == <<fn, index, memory, before, returned, result>>

Names == {"memmove", "memcpy", "memset", "memcmp", "strncmp", "strcmp", "strlen"}

(* The bytes that a call is given. *)
Bytes(start, size) == start .. start + size - 1

Terminated(m, start) == \E p \in start .. Top : m[p] = 0

(* What callers have to see to: the bytes exist, memcpy's do not overlap, a
   string ends, unless strncmp is given a size that it fills. *)
Proper(m, c) ==
  CASE c.name \in {"memmove", "memcmp"} -> Bytes(c.a, c.size) \cup Bytes(c.b, c.size) \subseteq Address
    [] c.name = "memcpy" -> /\ Bytes(c.a, c.size) \cup Bytes(c.b, c.size) \subseteq Address
                            /\ Bytes(c.a, c.size) \cap Bytes(c.b, c.size) = {}
    [] c.name = "memset" -> Bytes(c.a, c.size) \subseteq Address /\ c.b \in Byte
    [] c.name = "strlen" -> Terminated(m, c.a)
    [] c.name \in {"strcmp", "strncmp"} ->
         \A p \in {c.a, c.b} :
           \/ p \in Address /\ Terminated(m, p)
           \/ c.name = "strncmp" /\ Bytes(p, c.size) \subseteq Address

(* A function that does not take b or a size has 0 there. *)
StringsCalls ==
  {c \in [name : Names, a : Address, b : Address \cup Byte, size : Size] :
     /\ c.name = "strlen" => c.b = 0
     /\ c.name \in {"strlen", "strcmp"} => c.size = 0}

StringsType ==
  /\ fn \in StringsCalls
  /\ index \in Nat
  /\ memory \in [Address -> Byte] /\ before \in [Address -> Byte]
  /\ returned \in BOOLEAN /\ result \in Int

(* Mutant: memmove copies upwards, wherever dst is. *)
BackwardNever(c) == FALSE

(* memmove copies downwards unless dst is below src. *)
Backward(c) == c.name = "memmove" /\ c.a >= c.b

StringsAt(m, c, over) ==
  /\ Proper(m, c)
  /\ fn = c
  /\ index = IF Backward(c) THEN c.size ELSE 0
  /\ memory = m /\ before = m
  /\ returned = over /\ result = 0

StringsInit ==
  \E m \in [Address -> Byte], c \in StringsCalls : StringsAt(m, c, FALSE)

-----------------------------------------------------------------------------
Running(names) == fn.name \in names /\ ~returned

(* The dst or bufptr that was passed, or the verdict, is returned. *)
Return(r) == returned' = TRUE /\ result' = r /\ UNCHANGED <<fn, index, memory, before>>

(* memcpy, and memmove to a lower address *)
CopyUp ==
  /\ Running({"memmove", "memcpy"})
  /\ ~Backward(fn)
  /\ IF index < fn.size
       THEN /\ memory' = [memory EXCEPT ![fn.a + index] = memory[fn.b + index]]
            /\ index' = index + 1
            /\ UNCHANGED <<fn, before, returned, result>>
       ELSE Return(fn.a)

(* memmove to the same or a higher address *)
CopyDown ==
  /\ Running({"memmove"})
  /\ Backward(fn)
  /\ IF index # 0
       THEN /\ memory' = [memory EXCEPT ![fn.a + index - 1] = memory[fn.b + index - 1]]
            /\ index' = index - 1
            /\ UNCHANGED <<fn, before, returned, result>>
       ELSE Return(fn.a)

Set ==
  /\ Running({"memset"})
  /\ IF index < fn.size
       THEN /\ memory' = [memory EXCEPT ![fn.a + index] = fn.b]
            /\ index' = index + 1
            /\ UNCHANGED <<fn, before, returned, result>>
       ELSE Return(fn.a)

NextByte == index' = index + 1 /\ UNCHANGED <<fn, memory, before, returned, result>>

(* Mutant: the last byte is not looked at. *)
MemoryCompareShort ==
  /\ Running({"memcmp"})
  /\ LET x == memory[fn.a + index]
         y == memory[fn.b + index]
     IN  \/ index + 1 >= fn.size /\ Return(0)
         \/ index + 1 < fn.size /\ x < y /\ Return(-1)
         \/ index + 1 < fn.size /\ y < x /\ Return(1)
         \/ index + 1 < fn.size /\ x = y /\ NextByte

MemoryCompare ==
  /\ Running({"memcmp"})
  /\ LET x == memory[fn.a + index]
         y == memory[fn.b + index]
     IN  \/ index >= fn.size /\ Return(0)
         \/ index < fn.size /\ x < y /\ Return(-1)
         \/ index < fn.size /\ y < x /\ Return(1)
         \/ index < fn.size /\ x = y /\ NextByte

(* strcmp, and strncmp, which looks at no more than size bytes *)
StringCompare ==
  /\ Running({"strcmp", "strncmp"})
  /\ IF fn.name = "strncmp" /\ index >= fn.size THEN Return(0)
     ELSE LET x == memory[fn.a + index]
              y == memory[fn.b + index]
          IN  IF x # y \/ x = 0 THEN Return(x - y) ELSE NextByte

StringLength ==
  /\ Running({"strlen"})
  /\ IF memory[fn.a + index] # 0 THEN NextByte ELSE Return(index)

StringsNext ==
  CopyUp \/ CopyDown \/ Set \/ MemoryCompare \/ StringCompare \/ StringLength

StringsSpec == StringsInit /\ [][StringsNext]_stringsVars

-----------------------------------------------------------------------------
(* What is asked of them *)

(* memmove and memcpy copy all bytes as if at once, however the two areas
   overlap, and touch nothing else; memset fills its area. *)
MovesAtOnce ==
  returned =>
    memory = [p \in Address |->
                CASE fn.name \in {"memmove", "memcpy"} /\ p \in Bytes(fn.a, fn.size) ->
                       before[p - fn.a + fn.b]
                  [] fn.name = "memset" /\ p \in Bytes(fn.a, fn.size) -> fn.b
                  [] OTHER -> before[p]]

(* Equal for n bytes, or up to the end of both strings before that. *)
SameBytes(n) == \A k \in 0 .. n - 1 : memory[fn.a + k] = memory[fn.b + k]
NoEnd(n) == \A k \in 0 .. n - 1 : memory[fn.a + k] # 0

(* The comparisons decide at the first byte that differs, and the ones of
   strings at the end of a string; strlen counts the bytes before the NUL. *)
ComparesInOrder ==
  LET differs(n) == SameBytes(n) /\ memory[fn.a + n] # memory[fn.b + n]
      sign == IF result < 0 THEN -1 ELSE IF result > 0 THEN 1 ELSE 0
      verdict(n) == IF memory[fn.a + n] < memory[fn.b + n] THEN -1 ELSE 1
      most == IF fn.name = "strcmp" THEN Top + 1 ELSE fn.size
  IN  returned =>
        /\ fn.name = "memcmp" =>
             \/ SameBytes(fn.size) /\ result = 0
             \/ \E n \in 0 .. fn.size - 1 : differs(n) /\ sign = verdict(n)
        /\ fn.name \in {"strcmp", "strncmp"} =>
             \/ fn.name = "strncmp" /\ NoEnd(fn.size) /\ SameBytes(fn.size) /\ result = 0
             \/ \E n \in 0 .. most - 1 :
                  /\ NoEnd(n) /\ SameBytes(n)
                  /\ \/ memory[fn.a + n] = 0 /\ memory[fn.b + n] = 0 /\ result = 0
                     \/ differs(n) /\ sign = verdict(n)
        /\ fn.name = "strlen" => NoEnd(result) /\ memory[fn.a + result] = 0

-----------------------------------------------------------------------------
(* The inductive invariant behind them: what a loop has done when it is at
   `index'. *)

(* The memory that function leaves when it has seen to the bytes `done'. *)
Treated(done) ==
  [p \in Address |->
     IF p \in done THEN IF fn.name = "memset" THEN fn.b ELSE before[p - fn.a + fn.b]
                   ELSE before[p]]

Writes == {"memmove", "memcpy", "memset"}

(* The bytes a loop that writes has passed: those above index, or below. *)
Passed == IF Backward(fn) THEN fn.a + index .. fn.a + fn.size - 1 ELSE fn.a .. fn.a + index - 1

(* Bytes that the loops have still to read are as they were. *)
Progress ==
  /\ fn.name \in Writes => index <= fn.size /\ memory = Treated(Passed)
  /\ fn.name \notin Writes => memory = before
  /\ fn.name = "memcmp" => index <= fn.size /\ SameBytes(index)
  /\ fn.name \in {"strcmp", "strncmp"} => SameBytes(index) /\ NoEnd(index)
  /\ fn.name = "strncmp" => index <= fn.size
  /\ fn.name = "strlen" => NoEnd(index)

StringsInv ==
  /\ StringsType
  /\ Proper(before, fn)
  /\ ~returned => Progress
  /\ returned => MovesAtOnce /\ ComparesInOrder
===============================================================================
