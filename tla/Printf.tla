-------------------------------- MODULE Printf --------------------------------
(***************************************************************************)
(* printf and its relatives (libc/stdio/stdio.c): one call of _vsnprintf,  *)
(* which goes through the format once, takes its arguments in turn and     *)
(* gives every character to an output function.                            *)
(*                                                                         *)
(* A character is a string of one letter.  A format is the sequence of its *)
(* characters before the NUL.  An argument is a record of what va_arg      *)
(* finds there if asked for an integer, a character, a string, a sequence  *)
(* of characters again, or a double, a number of fractions of 1.  `text'   *)
(* is every character given to the output function: the code's idx is its  *)
(* length.                                                                 *)
(*                                                                         *)
(* Doubles are small enough for _ftoa's arithmetic to be exact.  Those     *)
(* that it hands to _etoa, and %e and %g, are left out.                    *)
(***************************************************************************)
EXTENDS Integers, SequencesExt

CONSTANTS
  CHAR_BIT, SHORT_BIT,      \* bits of char and short
  INT_BIT,                  \* bits of int, long, size_t and a pointer (32)
  LLONG_BIT,                \* bits of long long (64)
  PRINTF_NTOA_BUFFER_SIZE, PRINTF_FTOA_BUFFER_SIZE,  \* 32
  PRINTF_DEFAULT_FLOAT_PRECISION, MaxPrecision,      \* 6 and 9
  PRINTF_MAX_FLOAT,         \* 1e9
  Fraction,                 \* a double is a number of 1/Fraction
  Charset,                  \* the characters
  Calls                     \* the calls made: [library, format, args, sink, maxlen]

(* libk, the kernel's library, is built without support for long long. *)
Libraries == {"libc", "libk"}

(* What the wrappers choose: printf_ and vprintf_ print on the terminal;
   sprintf_, snprintf_ and vsnprintf_ fill a buffer, with NULL nothing is
   kept; fctprintf calls a function. *)
Sinks == {"terminal", "buffer", "null", "function"}

(* What a caller may pass. *)
IsCall(c) ==
  /\ c.library \in Libraries /\ c.sink \in Sinks /\ c.maxlen \in Nat
  /\ c.format \in Seq(Charset)
  /\ \A n \in DOMAIN c.args :
       /\ c.args[n].int \in Int /\ c.args[n].char \in Charset /\ c.args[n].string \in Seq(Charset)
       /\ c.args[n].float \in Int
       /\ c.args[n].float \div Fraction \in -PRINTF_MAX_FLOAT .. PRINTF_MAX_FLOAT - 1

ASSUME PrintfAssumption ==
  /\ {CHAR_BIT, SHORT_BIT, INT_BIT, LLONG_BIT, PRINTF_NTOA_BUFFER_SIZE, PRINTF_FTOA_BUFFER_SIZE,
      PRINTF_DEFAULT_FLOAT_PRECISION, PRINTF_MAX_FLOAT, Fraction} \subseteq Nat \ {0}
  /\ 2 <= CHAR_BIT /\ CHAR_BIT <= SHORT_BIT /\ SHORT_BIT <= INT_BIT
  /\ INT_BIT <= PRINTF_NTOA_BUFFER_SIZE   \* room for a long, also in binary
  /\ MaxPrecision \in Nat /\ MaxPrecision >= PRINTF_DEFAULT_FLOAT_PRECISION
  /\ {"NUL", " ", "-", "+", ".", "x", "X"} \subseteq Charset
  /\ {"0", "1", "2", "3", "4", "5", "6", "7", "8", "9"} \subseteq Charset
  /\ {"a", "b", "c", "d", "e", "f"} \cup {"A", "B", "C", "D", "E", "F"} \subseteq Charset
  /\ \A c \in Calls : IsCall(c)

(* What is true of every power, and the provers do not know. *)
ASSUME PowersAreNumbers ==
  /\ {2^CHAR_BIT, 2^SHORT_BIT, 2^INT_BIT, 2^LLONG_BIT} \subseteq Nat \ {0}
  /\ 2^0 = 1
  /\ \A bits \in {CHAR_BIT, SHORT_BIT, INT_BIT, LLONG_BIT} :
       \A k \in 0 .. bits - 1 : 2^k \in Nat \ {0} /\ 2^(k + 1) = 2 * 2^k
  /\ \A places \in 0 .. MaxPrecision : 10^places \in Nat \ {0}

VARIABLES
  call,        \* the call
  pc,          \* where _vsnprintf is
  pos,         \* the character of the format that is next
  arg,         \* the argument that is next
  flags, width, precision,
  value, negative, base,  \* parameters of _ntoa_long and _ntoa_long_long
  whole, count,           \* of _ftoa, whose frac is `value'
  buf,         \* their buf, the last digit first
  text,        \* what has been given to the output function
  dest         \* what that has put into the caller's buffer, or on the terminal

directive == <<flags, width, precision>>
number == <<value, negative, base, whole, count, buf>>
output == <<text, dest>>
printfVars == <<call, pc, pos, arg, directive, number, output>>

Flags == {"ZEROPAD", "LEFT", "PLUS", "SPACE", "HASH", "UPPERCASE", "CHAR", "SHORT", "LONG", "LONG_LONG",
          "PRECISION"}

PrintfType ==
  /\ IsCall(call)
  /\ pc \in {"format", "flags", "width", "precision", "places", "length", "specifier", "digits", "ntoa",
             "frac", "zeros", "whole", "float", "out", "done", "lost"}
  /\ pos \in Nat \ {0} /\ arg \in Nat \ {0}
  /\ flags \subseteq Flags
  /\ width \in Nat /\ precision \in Nat /\ value \in Nat /\ whole \in Nat /\ count \in Nat
  /\ negative \in BOOLEAN
  /\ base \in {2, 8, 10, 16}
  /\ buf \in Seq(Charset) /\ text \in Seq(Charset)

PrintfAt(c, where) ==
  /\ call = c
  /\ pc = where
  /\ pos = 1 /\ arg = 1
  /\ flags = {} /\ width = 0 /\ precision = 0
  /\ value = 0 /\ negative = FALSE /\ base = 10 /\ whole = 0 /\ count = 0 /\ buf = <<>>
  /\ text = <<>> /\ dest = <<>>

PrintfInit == \E c \in Calls : PrintfAt(c, "format")

-----------------------------------------------------------------------------
(* Reading the format and the arguments *)

Format(p) == IF p <= Len(call.format) THEN call.format[p] ELSE "NUL"
This == Format(pos)
Argument(type) == call.args[arg][type]

Numerals == <<"0", "1", "2", "3", "4", "5", "6", "7", "8", "9">>
IsDigit(c) == c \in ToSet(Numerals)

(* What a round of _atoi's loop makes of i. *)
Atoi(i, c) == (10 * i + (CHOOSE d \in 0 .. 9 : Numerals[d + 1] = c)) % 2^INT_BIT

(* The value of the low bits of an int. *)
Unsigned(n, bits) == n % 2^bits
Signed(n, bits) == LET u == Unsigned(n, bits) IN IF u < 2^(bits - 1) THEN u ELSE u - 2^bits

-----------------------------------------------------------------------------
(* Output *)

Fill(c, n) == [i \in 1 .. (IF n > 0 THEN n ELSE 0) |-> c]
Take(s, n) == SubSeq(s, 1, IF n < Len(s) THEN n ELSE Len(s))

(* Mutant: idx is compared with maxlen by `<='. *)
KeptOneTooFar(s) ==
  CASE call.sink = "buffer" -> Take(s, call.maxlen + 1 - Len(dest))
    [] call.sink \in {"terminal", "function"} -> SelectSeq(s, LAMBDA c : c # "NUL")
    [] call.sink = "null" -> <<>>

(* What an output function keeps: _out_buffer the characters for which there
   is room, _out_char and _out_fct those that are not NUL, _out_null none. *)
Kept(s) ==
  CASE call.sink = "buffer" -> Take(s, call.maxlen - Len(dest))
    [] call.sink \in {"terminal", "function"} -> SelectSeq(s, LAMBDA c : c # "NUL")
    [] call.sink = "null" -> <<>>

(* The output function is called for each character of s. *)
Out(s) == text' = text \o s /\ dest' = dest \o Kept(s)

-----------------------------------------------------------------------------
(* _vsnprintf, up to the specifier *)

Literal ==
  /\ pc = "format" /\ This \notin {"%", "NUL"}
  /\ Out(<<This>>)
  /\ pos' = pos + 1
  /\ UNCHANGED <<call, pc, arg, directive, number>>

(* Mutant: the flags of the directive before are kept. *)
PercentKeepFlags ==
  /\ pc = "format" /\ This = "%"
  /\ pc' = "flags"
  /\ pos' = pos + 1
  /\ width' = 0 /\ precision' = 0
  /\ UNCHANGED <<call, arg, flags, number, output>>

Percent ==
  /\ pc = "format" /\ This = "%"
  /\ pc' = "flags"
  /\ pos' = pos + 1
  /\ flags' = {} /\ width' = 0 /\ precision' = 0
  /\ UNCHANGED <<call, arg, number, output>>

FlagOf ==
  [c \in {"0", "-", "+", " ", "#"} |->
     CASE c = "0" -> "ZEROPAD" [] c = "-" -> "LEFT" [] c = "+" -> "PLUS" [] c = " " -> "SPACE" [] c = "#" -> "HASH"]

(* Mutant: format is not moved on. *)
FlagStuck ==
  /\ pc = "flags" /\ This \in DOMAIN FlagOf
  /\ flags' = flags \cup {FlagOf[This]}
  /\ UNCHANGED <<call, pc, pos, arg, width, precision, number, output>>

Flag ==
  /\ pc = "flags" /\ This \in DOMAIN FlagOf
  /\ flags' = flags \cup {FlagOf[This]}
  /\ pos' = pos + 1
  /\ UNCHANGED <<call, pc, arg, width, precision, number, output>>

(* A width is an argument, or the digits that follow, if any. *)
Width ==
  /\ pc = "flags" /\ This \notin DOMAIN FlagOf
  /\ \/ /\ This = "*"
        /\ width' = LET n == Argument("int") IN Unsigned(IF n < 0 THEN 0 - n ELSE n, INT_BIT)
        /\ flags' = IF Argument("int") < 0 THEN flags \cup {"LEFT"} ELSE flags
        /\ pos' = pos + 1 /\ arg' = arg + 1
        /\ pc' = "precision"
     \/ /\ This # "*"
        /\ pc' = "width"
        /\ UNCHANGED <<width, pos, arg, flags>>
  /\ UNCHANGED <<call, precision, number, output>>

WidthDigit ==
  /\ pc = "width" /\ IsDigit(This)
  /\ width' = Atoi(width, This)
  /\ pos' = pos + 1
  /\ UNCHANGED <<call, pc, arg, flags, precision, number, output>>

Precision ==
  /\ \/ pc = "precision"
     \/ pc = "width" /\ ~IsDigit(This)
  /\ \/ /\ This # "."
        /\ pc' = "length"
        /\ UNCHANGED <<pos, arg, flags, precision>>
     \/ /\ This = "." /\ Format(pos + 1) = "*"
        /\ flags' = flags \cup {"PRECISION"}
        /\ precision' = IF Argument("int") > 0 THEN Argument("int") ELSE 0
        /\ pos' = pos + 2 /\ arg' = arg + 1
        /\ pc' = "length"
     \/ /\ This = "." /\ Format(pos + 1) # "*"
        /\ flags' = flags \cup {"PRECISION"}
        /\ pos' = pos + 1
        /\ pc' = "places"
        /\ UNCHANGED <<arg, precision>>
  /\ UNCHANGED <<call, width, number, output>>

PrecisionDigit ==
  /\ pc = "places" /\ IsDigit(This)
  /\ precision' = Atoi(precision, This)
  /\ pos' = pos + 1
  /\ UNCHANGED <<call, pc, arg, flags, width, number, output>>

(* ptrdiff_t and size_t are as long as long, intmax_t is not. *)
LengthOf ==
  [c \in {"l", "h", "t", "z", "j"} |->
     CASE c \in {"l", "t", "z"} -> {"LONG"} [] c = "h" -> {"SHORT"} [] c = "j" -> {"LONG_LONG"}]
DoubleOf == [c \in {"l", "h"} |-> CASE c = "l" -> {"LONG_LONG"} [] c = "h" -> {"CHAR"}]

Length ==
  /\ \/ pc = "length"
     \/ pc = "places" /\ ~IsDigit(This)
  /\ pc' = "specifier"
  /\ IF This \notin DOMAIN LengthOf THEN UNCHANGED <<pos, flags>>
     ELSE LET twice == This \in DOMAIN DoubleOf /\ Format(pos + 1) = This
          IN  /\ pos' = pos + (IF twice THEN 2 ELSE 1)
              /\ flags' = flags \cup LengthOf[This] \cup (IF twice THEN DoubleOf[This] ELSE {})
  /\ UNCHANGED <<call, arg, width, precision, number, output>>

-----------------------------------------------------------------------------
(* The specifiers *)

Ntoa(v, f, b, w, n) ==
  /\ value' = v /\ negative' = n /\ base' = b /\ buf' = <<>>
  /\ flags' = IF v = 0 THEN f \ {"HASH"} ELSE f
  /\ width' = w
  /\ pc' = IF "PRECISION" \in f /\ v = 0 THEN "ntoa" ELSE "digits"
  /\ pos' = pos + 1 /\ arg' = arg + 1
  /\ UNCHANGED <<call, precision, whole, count, output>>

BaseOf ==
  [c \in {"d", "i", "u", "x", "X", "o", "b"} |->
     CASE c \in {"d", "i", "u"} -> 10 [] c \in {"x", "X"} -> 16 [] c = "o" -> 8 [] c = "b" -> 2]

Bits ==
  CASE "LONG_LONG" \in flags -> LLONG_BIT
    [] "LONG_LONG" \notin flags /\ "LONG" \in flags -> INT_BIT
    [] flags \cap {"LONG_LONG", "LONG"} = {} /\ "CHAR" \in flags -> CHAR_BIT
    [] flags \cap {"LONG_LONG", "LONG", "CHAR"} = {} /\ "SHORT" \in flags -> SHORT_BIT
    [] OTHER -> INT_BIT

(* Without that support the branch for a long long is empty: nothing is
   printed, and its argument is left for the next directive. *)
Supported == call.library = "libc" \/ "LONG_LONG" \notin flags

Unsupported ==
  /\ pc = "specifier" /\ This \in DOMAIN BaseOf /\ ~Supported
  /\ pc' = "format"
  /\ pos' = pos + 1
  /\ UNCHANGED <<call, arg, directive, number, output>>

Integer ==
  /\ pc = "specifier" /\ This \in DOMAIN BaseOf /\ Supported
  /\ LET signed == This \in {"d", "i"}
         v == IF signed THEN Signed(Argument("int"), Bits)
                        ELSE Unsigned(Argument("int"), Bits)
         dropped == (IF BaseOf[This] = 10 THEN {"HASH"} ELSE {})
                    \cup (IF signed THEN {} ELSE {"PLUS", "SPACE"})
                    \cup (IF "PRECISION" \in flags THEN {"ZEROPAD"} ELSE {})
         kept == (IF This = "X" THEN flags \cup {"UPPERCASE"} ELSE flags) \ dropped
     IN  Ntoa(IF v > 0 THEN v ELSE 0 - v, kept, BaseOf[This], width, v < 0)

(* Two digits for each byte of a pointer. *)
Pointer ==
  /\ pc = "specifier" /\ This = "p"
  /\ Ntoa(Unsigned(Argument("int"), INT_BIT), flags \cup {"ZEROPAD", "UPPERCASE"}, 16, INT_BIT \div 4, FALSE)

(* while (l++ < width) *)
Padded(s) ==
  LET blanks == Fill(" ", width - Len(s)) IN IF "LEFT" \in flags THEN s \o blanks ELSE blanks \o s

Character ==
  /\ pc = "specifier" /\ This = "c"
  /\ Out(Padded(<<Argument("char")>>))
  /\ pc' = "format"
  /\ pos' = pos + 1 /\ arg' = arg + 1
  /\ UNCHANGED <<call, directive, number>>

String ==
  /\ pc = "specifier" /\ This = "s"
  /\ Out(Padded(IF "PRECISION" \in flags THEN Take(Argument("string"), precision)
                                             ELSE Argument("string")))
  /\ pc' = "format"
  /\ pos' = pos + 1 /\ arg' = arg + 1
  /\ UNCHANGED <<call, directive, number>>

(* `%%', and whatever else is no specifier *)
Other ==
  /\ pc = "specifier" /\ This \notin DOMAIN BaseOf \cup {"f", "F", "p", "c", "s"}
  /\ Out(<<This>>)
  /\ pc' = IF This = "NUL" THEN "lost" ELSE "format"   \* format++ leaves the string
  /\ pos' = pos + 1
  /\ UNCHANGED <<call, arg, directive, number>>

-----------------------------------------------------------------------------
(* _ntoa_long and _ntoa_long_long *)

Letters == IF "UPPERCASE" \in flags THEN <<"A", "B", "C", "D", "E", "F">> ELSE <<"a", "b", "c", "d", "e", "f">>
DigitChar(d) == IF d < 10 THEN Numerals[d + 1] ELSE Letters[d - 9]

(* One round of the do loop. *)
Digit ==
  /\ pc = "digits"
  /\ buf' = Append(buf, DigitChar(value % base))
  /\ value' = value \div base
  /\ pc' = IF value' # 0 /\ Len(buf') < PRINTF_NTOA_BUFFER_SIZE THEN "digits" ELSE "ntoa"
  /\ UNCHANGED <<call, pos, arg, directive, negative, base, whole, count, output>>

InFtoa == pc \in {"frac", "zeros", "whole", "float"}
BufferSize == IF InFtoa THEN PRINTF_FTOA_BUFFER_SIZE ELSE PRINTF_NTOA_BUFFER_SIZE

(* buf[len++] = c, if there is room *)
Push(b, c) == IF Len(b) < BufferSize THEN Append(b, c) ELSE b

UpTo(b, n) == LET room == BufferSize - Len(b)
                  wish == n - Len(b)
              IN  b \o Fill("0", IF wish < room THEN wish ELSE room)

(* The width that zeros may fill: a sign takes one of it. *)
ZeroWidth ==
  IF "LEFT" \notin flags /\ "ZEROPAD" \in flags /\ width # 0
       /\ (negative \/ flags \cap {"PLUS", "SPACE"} # {})
    THEN width - 1 ELSE width

WithZeros(b, w) ==
  IF "LEFT" \in flags THEN b
  ELSE LET p == UpTo(b, precision) IN IF "ZEROPAD" \in flags THEN UpTo(p, w) ELSE p

(* len is reduced by what the prefix needs if b fills width or precision. *)
Cut(b, w) ==
  IF "PRECISION" \notin flags /\ b # <<>> /\ Len(b) \in {precision, w}
    THEN SubSeq(b, 1, Len(b) - (IF base = 16 /\ Len(b) > 1 THEN 2 ELSE 1))
    ELSE b

WithPrefix(b, w) ==
  LET c == Cut(b, w) IN
  CASE "HASH" \notin flags -> b
    [] "HASH" \in flags /\ base = 16 ->
         Push(Push(c, IF "UPPERCASE" \in flags THEN "X" ELSE "x"), "0")
    [] "HASH" \in flags /\ base = 2 -> Push(Push(c, "b"), "0")
    [] "HASH" \in flags /\ base \notin {2, 16} -> Push(c, "0")

WithSign(b) ==
  CASE negative -> Push(b, "-")
    [] ~negative /\ "PLUS" \in flags -> Push(b, "+")
    [] ~negative /\ "PLUS" \notin flags /\ "SPACE" \in flags -> Push(b, " ")
    [] OTHER -> b

(* _ntoa_format *)
NtoaFormat ==
  /\ pc = "ntoa"
  /\ buf' = WithSign(WithPrefix(WithZeros(buf, ZeroWidth), ZeroWidth))
  /\ width' = ZeroWidth
  /\ pc' = "out"
  /\ UNCHANGED <<call, pos, arg, flags, precision, value, negative, base, whole, count, output>>

-----------------------------------------------------------------------------
(* _ftoa *)

FloatPrecision == IF "PRECISION" \in flags THEN precision ELSE PRINTF_DEFAULT_FLOAT_PRECISION

(* The zeros that stand for the places behind the ninth. *)
Beyond ==
  LET n == FloatPrecision - MaxPrecision
  IN  IF n < PRINTF_FTOA_BUFFER_SIZE THEN Fill("0", n) ELSE Fill("0", PRINTF_FTOA_BUFFER_SIZE)

Odd(n) == n % 2 = 1

(* frac and what is left of it, in halves of 1/Fraction: more than half. *)
Carry(frac, rest, places) == rest > Fraction /\ frac + 1 = 10^places

Up(frac, rest) == rest > Fraction \/ (rest = Fraction /\ (frac = 0 \/ Odd(frac)))

(* n, a number of fractions, rounded to a number of places: to the nearer
   one, and if there is none to the even one, or if the last digit is 0 up. *)
Rounded(n, places) ==
  LET tmp == (n % Fraction) * 10^places
      frac == tmp \div Fraction
      rest == 2 * (tmp % Fraction)
      carry == Carry(frac, rest, places)
      up == n \div Fraction + (IF carry THEN 1 ELSE 0)
      again == places = 0 /\ 2 * (n - up * Fraction) >= Fraction /\ Odd(up)
  IN  [whole |-> IF again THEN up + 1 ELSE up,
       frac |-> CASE carry -> 0
                  [] ~carry /\ Up(frac, rest) -> frac + 1
                  [] OTHER -> frac]

(* If the zeros fill the buffer then what is read behind pow10 makes no
   difference. *)
Float ==
  /\ pc = "specifier" /\ This \in {"f", "F"}
  /\ LET v == Argument("float")
         places == FloatPrecision - Len(Beyond)
         r == IF places > MaxPrecision THEN [whole |-> 0, frac |-> 0]
              ELSE Rounded(IF v < 0 THEN 0 - v ELSE v, places)
     IN  /\ negative' = (v < 0)
         /\ whole' = r.whole /\ value' = r.frac /\ count' = places
         /\ pc' = IF places = 0 THEN "whole" ELSE "frac"
  /\ buf' = Beyond
  /\ flags' = IF This = "F" THEN flags \cup {"UPPERCASE"} ELSE flags
  /\ pos' = pos + 1 /\ arg' = arg + 1
  /\ UNCHANGED <<call, width, precision, base, output>>

Full == Len(buf) = PRINTF_FTOA_BUFFER_SIZE
Numeral(n) == Numerals[(n % 10) + 1]

(* `count' is unsigned: it would wrap if frac had more digits than places. *)
FracDigit ==
  /\ pc = "frac" /\ ~Full
  /\ buf' = Append(buf, Numeral(value))
  /\ value' = value \div 10
  /\ count' = (count - 1) % 2^INT_BIT
  /\ pc' = IF value' = 0 THEN "zeros" ELSE "frac"
  /\ UNCHANGED <<call, pos, arg, directive, negative, base, whole, output>>

(* The zeros before the first digit of frac, and the point. *)
Point ==
  /\ \/ pc = "zeros"
     \/ pc = "frac" /\ Full
  /\ buf' = Push(UpTo(buf, Len(buf) + count), ".")
  /\ pc' = "whole"
  /\ UNCHANGED <<call, pos, arg, directive, value, negative, base, whole, count, output>>

WholeDigit ==
  /\ pc = "whole" /\ ~Full
  /\ buf' = Append(buf, Numeral(whole))
  /\ whole' = whole \div 10
  /\ pc' = IF whole' = 0 THEN "float" ELSE "whole"
  /\ UNCHANGED <<call, pos, arg, directive, value, negative, base, count, output>>

FtoaFormat ==
  /\ \/ pc = "float"
     \/ pc = "whole" /\ Full
  /\ buf' = WithSign(IF flags \cap {"LEFT", "ZEROPAD"} = {"ZEROPAD"} THEN UpTo(buf, ZeroWidth) ELSE buf)
  /\ width' = ZeroWidth
  /\ pc' = "out"
  /\ UNCHANGED <<call, pos, arg, flags, precision, value, negative, base, whole, count, output>>

-----------------------------------------------------------------------------
(* _out_rev *)
OutRev ==
  /\ pc = "out"
  /\ Out(IF flags \cap {"LEFT", "ZEROPAD"} = {"ZEROPAD"} THEN Reverse(buf) ELSE Padded(Reverse(buf)))
  /\ pc' = "format"
  /\ UNCHANGED <<call, pos, arg, directive, number>>

-----------------------------------------------------------------------------
(* The NUL is put behind the text, or on the last place of the buffer.  idx,
   the length of `text', is returned. *)
Terminate ==
  /\ pc = "format" /\ This = "NUL"
  /\ dest' = CASE call.sink # "buffer" \/ call.maxlen = 0 -> dest
               [] call.sink = "buffer" /\ call.maxlen # 0 ->
                    Append(Take(dest, call.maxlen - 1), "NUL")
  /\ pc' = "done"
  /\ UNCHANGED <<call, pos, arg, directive, number, text>>

PrintfNext ==
  \/ Literal \/ Percent \/ Flag \/ Width \/ WidthDigit \/ Precision \/ PrecisionDigit \/ Length
  \/ Integer \/ Unsupported \/ Pointer \/ Character \/ String \/ Other
  \/ Digit \/ NtoaFormat \/ Float \/ FracDigit \/ Point \/ WholeDigit \/ FtoaFormat \/ OutRev
  \/ Terminate

PrintfSpec == PrintfInit /\ [][PrintfNext]_printfVars

-----------------------------------------------------------------------------
(* The inductive invariant: where a number is put together there is room in
   the buffer of the function at work, and what the caller's buffer holds is
   what it should of the text so far. *)

InNtoa == pc \in {"digits", "ntoa"}

NumberFits ==
  /\ InNtoa => Format(pos - 1) \notin {"f", "F"} /\ Len(buf) <= PRINTF_NTOA_BUFFER_SIZE
  /\ pc = "digits" => Len(buf) < PRINTF_NTOA_BUFFER_SIZE
  /\ InFtoa => Format(pos - 1) \in {"f", "F"} /\ Len(buf) <= PRINTF_FTOA_BUFFER_SIZE
  /\ pc = "out" =>
       Len(buf) <= IF Format(pos - 1) \in {"f", "F"} THEN PRINTF_FTOA_BUFFER_SIZE
                                                     ELSE PRINTF_NTOA_BUFFER_SIZE

TextKept ==
  call.sink = "buffer" =>
    /\ pc # "done" => dest = Take(text, call.maxlen)
    /\ pc = "done" /\ call.maxlen = 0 => dest = <<>>
    /\ pc = "done" /\ call.maxlen # 0 => dest = Append(Take(text, call.maxlen - 1), "NUL")

FormatHeld == pc # "lost" => pos <= Len(call.format) + 1

PrintfInv == PrintfType /\ NumberFits /\ TextKept /\ FormatHeld
===============================================================================
