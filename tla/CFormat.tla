------------------------------- MODULE CFormat -------------------------------
(***************************************************************************)
(* What C asks of a format, apart from how printf goes about it: what a    *)
(* directive looks like in the format, which arguments it takes, and which *)
(* characters it stands for.                                               *)
(*                                                                         *)
(* A directive is a record.  `width' and `precision' are integers with a   *)
(* flag that says whether they are an argument (`*'); a precision may be   *)
(* missing, a width of 0 is none.  Literal text is a directive as well,    *)
(* with specifier "text".                                                  *)
(***************************************************************************)
EXTENDS Integers, SequencesExt

CONSTANTS CharBits, ShortBits, IntBits, LongLongBits, DefaultPrecision,
          Units   \* a double is a number of 1/Units

Directives ==
  [flags : SUBSET {"0", "-", "+", " ", "#"},
   width : Int, widthArg : BOOLEAN,
   hasPrecision : BOOLEAN, precision : Int, precisionArg : BOOLEAN,
   length : {"", "hh", "h", "l", "ll", "j", "z", "t"},
   spec : {"text", "d", "i", "u", "x", "X", "o", "b", "f", "F", "p", "c", "s", "%"},
   int : Int, float : Int, char : STRING, string : Seq(STRING)]

-----------------------------------------------------------------------------
(* How a directive is written *)

Symbols(b) == SubSeq(<<"0", "1", "2", "3", "4", "5", "6", "7", "8", "9", "a", "b", "c", "d", "e", "f">>, 1, b)

(* The number n in base b, without leading zeros, at least one digit. *)
Numeral(n, b) ==
  LET digits[m \in 0 .. n] ==
        IF m < b THEN <<Symbols(b)[m + 1]>>
        ELSE Append(digits[m \div b], Symbols(b)[(m % b) + 1])
  IN  digits[n]

SpelledLength(d) ==
  CASE d.length = ""   -> <<>>
    [] d.length = "hh" -> <<"h", "h">>
    [] d.length = "ll" -> <<"l", "l">>
    [] OTHER           -> <<d.length>>

Spelled(d) ==
  IF d.spec = "text" THEN d.string
  ELSE <<"%">> \o SetToSeq(d.flags)
       \o (CASE d.widthArg -> <<"*">>
             [] ~d.widthArg /\ d.width # 0 -> Numeral(d.width, 10)
             [] ~d.widthArg /\ d.width = 0 -> <<>>)
       \o (CASE d.hasPrecision /\ d.precisionArg -> <<".", "*">>
             [] d.hasPrecision /\ ~d.precisionArg -> <<".">> \o Numeral(d.precision, 10)
             [] ~d.hasPrecision -> <<>>)
       \o SpelledLength(d) \o <<d.spec>>

Arguments(d) ==
  LET number(n) == [int |-> n, float |-> 0, char |-> "NUL", string |-> <<>>]
  IN  (IF d.widthArg THEN <<number(d.width)>> ELSE <<>>)
      \o (IF d.hasPrecision /\ d.precisionArg THEN <<number(d.precision)>> ELSE <<>>)
      \o (IF d.spec \in {"text", "%"} THEN <<>>
          ELSE <<[int |-> d.int, float |-> d.float, char |-> d.char, string |-> d.string]>>)

-----------------------------------------------------------------------------
(* What it stands for *)

Repeat(c, n) == [i \in 1 .. (IF n > 0 THEN n ELSE 0) |-> c]

LeftAligned(d) == "-" \in d.flags \/ d.width < 0
Field(d) == IF d.width < 0 THEN -d.width ELSE d.width
(* "A negative precision is taken as if the precision were omitted." *)
Precise(d) == d.hasPrecision /\ d.precision >= 0

InField(d, s) ==
  LET blanks == Repeat(" ", Field(d) - Len(s)) IN IF LeftAligned(d) THEN s \o blanks ELSE blanks \o s

(* The argument as a number of the type that the length names. *)
TypeBits(d) ==
  CASE d.length = "hh" -> CharBits
    [] d.length = "h" -> ShortBits
    [] d.length \in {"ll", "j"} -> LongLongBits
    [] d.length \in {"", "l", "z", "t"} -> IntBits

Converted(d) ==
  LET range == 2^TypeBits(d)
      n == d.int % range
  IN  IF d.spec \in {"d", "i"} /\ 2 * n >= range THEN n - range ELSE n

Radix(d) ==
  CASE d.spec \in {"d", "i", "u"} -> 10
    [] d.spec = "o" -> 8
    [] d.spec = "b" -> 2
    [] d.spec \in {"x", "X"} -> 16

Capital(c) ==
  CASE c = "a" -> "A" [] c = "b" -> "B" [] c = "c" -> "C" [] c = "d" -> "D" [] c = "e" -> "E"
    [] c = "f" -> "F" [] c = "x" -> "X" [] OTHER -> c

Capitals(s) == [i \in DOMAIN s |-> Capital(s[i])]

(* The digits, with the zeros that the precision asks for. *)
PreciseDigits(d) ==
  LET n == Converted(d)
      s == IF n = 0 /\ Precise(d) /\ d.precision = 0 THEN <<>>
           ELSE Numeral(IF n < 0 THEN -n ELSE n, Radix(d))
  IN  IF Precise(d) THEN Repeat("0", d.precision - Len(s)) \o s ELSE s

Alternative(d) == "#" \in d.flags /\ d.spec \in {"x", "X", "o", "b"}

Prefix(d) ==
  CASE Alternative(d) /\ d.spec \in {"x", "X"} /\ Converted(d) # 0 -> <<"0", "x">>
    [] Alternative(d) /\ d.spec = "b" /\ Converted(d) # 0 -> <<"0", "b">>
    [] Alternative(d) /\ d.spec = "o" ->
         IF PreciseDigits(d) # <<>> /\ PreciseDigits(d)[1] = "0" THEN <<>> ELSE <<"0">>
    [] d.spec \in {"d", "i"} /\ Converted(d) < 0 -> <<"-">>
    [] d.spec \in {"d", "i"} /\ Converted(d) >= 0 /\ "+" \in d.flags -> <<"+">>
    [] d.spec \in {"d", "i"} /\ Converted(d) >= 0 /\ "+" \notin d.flags /\ " " \in d.flags -> <<" ">>
    [] OTHER -> <<>>

NumberText(d) ==
  LET zeros == IF "0" \in d.flags /\ ~LeftAligned(d) /\ ~Precise(d)
                 THEN Repeat("0", Field(d) - Len(Prefix(d)) - Len(PreciseDigits(d))) ELSE <<>>
  IN  InField(d, Prefix(d) \o zeros \o PreciseDigits(d))

Places(d) == IF Precise(d) THEN d.precision ELSE DefaultPrecision

(* The nearest decimal, the even one of two, with its point. *)
FloatDigits(d) ==
  LET n == (IF d.float < 0 THEN -d.float ELSE d.float) * 10^Places(d)
      rest == 2 * (n % Units)
      q == n \div Units + (IF rest > Units \/ (rest = Units /\ (n \div Units) % 2 = 1) THEN 1 ELSE 0)
      s == Numeral(q % 10^Places(d), 10)
  IN  Numeral(q \div 10^Places(d), 10)
      \o (IF Places(d) = 0 THEN IF "#" \in d.flags THEN <<".">> ELSE <<>>
          ELSE <<".">> \o Repeat("0", Places(d) - Len(s)) \o s)

FloatSign(d) ==
  CASE d.float < 0 -> <<"-">>
    [] d.float >= 0 /\ "+" \in d.flags -> <<"+">>
    [] d.float >= 0 /\ "+" \notin d.flags /\ " " \in d.flags -> <<" ">>
    [] OTHER -> <<>>

FloatText(d) ==
  LET zeros == IF "0" \in d.flags /\ ~LeftAligned(d)
                 THEN Repeat("0", Field(d) - Len(FloatSign(d)) - Len(FloatDigits(d))) ELSE <<>>
  IN  InField(d, FloatSign(d) \o zeros \o FloatDigits(d))

(* A pointer is left to the implementation: all its digits, in capitals. *)
PointerText(d) ==
  LET s == Numeral(d.int % 2^IntBits, 16) IN Capitals(Repeat("0", IntBits \div 4 - Len(s)) \o s)

Meaning(d) ==
  CASE d.spec = "text" -> d.string
    [] d.spec = "%" -> <<"%">>
    [] d.spec = "c" -> InField(d, <<d.char>>)
    [] d.spec = "s" ->
         InField(d, IF Precise(d) /\ d.precision < Len(d.string) THEN SubSeq(d.string, 1, d.precision)
                    ELSE d.string)
    [] d.spec = "p" -> PointerText(d)
    [] d.spec \in {"f", "F"} -> FloatText(d)
    [] d.spec = "X" -> Capitals(NumberText(d))
    [] OTHER -> NumberText(d)

Sentence(Part(_), ds) == FlattenSeq([n \in DOMAIN ds |-> Part(ds[n])])
===============================================================================
