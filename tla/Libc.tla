--------------------------------- MODULE Libc ---------------------------------
(***************************************************************************)
(* The C library: a caller makes one call, of printf (Printf) or of a      *)
(* function on memory and strings (Strings).  Calls of printf are made of  *)
(* directives, so that what is printed can be held against what C says     *)
(* that they mean (CFormat).                                               *)
(***************************************************************************)
EXTENDS Printf, Strings

C == INSTANCE CFormat WITH
       CharBits <- CHAR_BIT, ShortBits <- SHORT_BIT, IntBits <- INT_BIT, LongLongBits <- LLONG_BIT,
       DefaultPrecision <- PRINTF_DEFAULT_FLOAT_PRECISION, Units <- Fraction

(* The call of printf that a programmer writes. *)
Call(library, directives, sink, maxlen) ==
  [library |-> library, format |-> C!Sentence(C!Spelled, directives), args |-> C!Sentence(C!Arguments, directives),
   sink |-> sink, maxlen |-> maxlen, directives |-> directives]

NoCall == [library |-> "libc", format |-> <<>>, args |-> <<>>, sink |-> "null", maxlen |-> 0, directives |-> <<>>]
NoBytes == [name |-> "memset", a |-> 0, b |-> 0, size |-> 0]

vars == <<printfVars, stringsVars>>

Init ==
  \/ PrintfInit /\ StringsAt([p \in Address |-> 0], NoBytes, TRUE)
  \/ StringsInit /\ PrintfAt(NoCall, "done")

Over == pc \in {"done", "lost"} /\ returned

Next ==
  \/ PrintfNext /\ UNCHANGED stringsVars
  \/ StringsNext /\ UNCHANGED printfVars
  \/ Over /\ UNCHANGED vars

Spec == Init /\ [][Next]_vars

(* Nothing that the functions do waits for anything. *)
FairSpec == Spec /\ WF_vars(Next)

-----------------------------------------------------------------------------
(* Where printf is known to depart from C.  `n' is the number of digits of
   the value, without zeros and sign. *)

Value(d) == C!Converted(d)
DigitsOf(d) == Len(C!Numeral(IF Value(d) < 0 THEN -Value(d) ELSE Value(d), C!Radix(d)))

(* `-' makes it forget the zeros that the precision asks for, also the 0 that
   is the only digit (stdio.c:239). *)
ForgetsZeros(d) == C!LeftAligned(d) /\ d.precision > (IF Value(d) = 0 THEN 0 ELSE DigitsOf(d))

(* `#' adds its 0 to an octal number that the precision has given one, and
   none to a zero that is not printed (stdio.c:268). *)
OctalZero(d) ==
  d.spec = "o" /\ C!Alternative(d) /\ d.hasPrecision
    /\ IF Value(d) = 0 THEN d.precision = 0 ELSE d.precision > DigitsOf(d)

(* `#' makes room for its prefix by dropping the leading digits if the number
   is as wide as the field, zeros or not (stdio.c:253): "%#2x" of 0x4d prints
   0x.  For `b' it makes room for one character of the two. *)
DropsDigits(d) ==
  /\ C!Alternative(d) /\ ~d.hasPrecision /\ Value(d) # 0
  /\ \/ C!Field(d) = DigitsOf(d)
     \/ "0" \in d.flags /\ ~C!LeftAligned(d) /\ d.spec \in {"x", "X"} /\ C!Field(d) = DigitsOf(d) + 1
     \/ "0" \in d.flags /\ ~C!LeftAligned(d) /\ d.spec = "b" /\ C!Field(d) > DigitsOf(d) + 1

(* A negative precision is one of 0, not a missing one (stdio.c:650). *)
NegativePrecision(d) ==
  /\ d.hasPrecision /\ d.precision < 0
  /\ IF d.spec = "s" THEN d.string # <<>> ELSE Value(d) = 0 \/ "0" \in d.flags

(* Digits, zeros, prefix and sign have to fit into the buffer (stdio.c:54). *)
Overlong(d) ==
  LET zeros == IF d.hasPrecision THEN d.precision
               ELSE IF "0" \in d.flags /\ ~C!LeftAligned(d) THEN C!Field(d) ELSE 0
      n == IF zeros > DigitsOf(d) THEN zeros ELSE DigitsOf(d)
  IN  n > PRINTF_NTOA_BUFFER_SIZE \/ Len(C!Prefix(d)) + n > PRINTF_NTOA_BUFFER_SIZE

(* The same for a double (stdio.c:57); a precision that fills the buffer with
   zeros makes the number vanish. *)
OverlongFloat(d) ==
  LET n == (IF d.float < 0 THEN -d.float ELSE d.float) \div Fraction
      places == C!Places(d)
      digits == Len(C!Numeral(n + 1, 10)) + places + (IF places = 0 THEN 0 ELSE 1)
  IN  \/ Len(C!FloatSign(d)) + digits > PRINTF_FTOA_BUFFER_SIZE
      \/ "0" \in d.flags /\ ~C!LeftAligned(d) /\ C!Field(d) > PRINTF_FTOA_BUFFER_SIZE

(* `#' does not make it print a point that nothing follows; a negative
   precision is one of 0. *)
DropsPoint(d) == "#" \in d.flags /\ C!Places(d) = 0

(* libk prints nothing for a long long and takes no argument for it. *)
Omitted(library, d) == library = "libk" /\ d.length \in {"ll", "j"}

Departs(library, d) ==
  \/ d.spec = "s" /\ NegativePrecision(d)
  \/ d.spec \in {"f", "F"} /\ (OverlongFloat(d) \/ DropsPoint(d) \/ d.precision < 0)
  \/ /\ d.spec \in {"d", "i", "u", "x", "X", "o", "b"}
     /\ \/ Omitted(library, d)
        \/ NegativePrecision(d) \/ ForgetsZeros(d) \/ OctalZero(d) \/ DropsDigits(d) \/ Overlong(d)

-----------------------------------------------------------------------------
(* A format that is not one of directives ends in the middle of one. *)
Dangling == call.directives = <<>> /\ call.format # <<>>

(* The code is at a place where it takes an argument. *)
TakesArgument ==
  \/ pc = "flags" /\ This = "*"
  \/ (pc = "precision" \/ pc = "width") /\ This = "." /\ Format(pos + 1) = "*"
  \/ pc = "specifier" /\ This \in {"p", "c", "s", "f", "F"}
  \/ pc = "specifier" /\ This \in DOMAIN BaseOf /\ Supported

(* No argument is taken that the caller did not pass. *)
ArgumentsPassed == TakesArgument => arg \in DOMAIN call.args

(* But for these, any mix of flags, width, precision, length and specifier
   prints what C says, whatever the directives before it were; and the
   arguments are those of the directives, and the end is not missed. *)
Conforms ==
  /\ ArgumentsPassed
  /\ pc = "lost" => Dangling
  /\ pc = "done" /\ (\A n \in DOMAIN call.directives : ~Departs(call.library, call.directives[n])) =>
       text = C!Sentence(C!Meaning, call.directives)

(* No number overruns the buffer of _ntoa_long or _ftoa, nothing is written
   behind the caller's, which when the call is over holds the text, cut off if
   it has to be, and a NUL; the format is not read beyond its end, unless it
   ends in the middle of a directive. *)
StaysInBuffers ==
  /\ PrintfType /\ StringsType
  /\ pc \in {"digits", "ntoa", "frac", "zeros", "whole", "float", "out"} =>
       Len(buf) <= IF Format(pos - 1) \in {"f", "F"} THEN PRINTF_FTOA_BUFFER_SIZE
                                                     ELSE PRINTF_NTOA_BUFFER_SIZE
  /\ call.sink = "buffer" => Len(dest) <= call.maxlen
  /\ pc = "done" /\ call.sink = "buffer" /\ call.maxlen # 0 =>
       dest = Append(Take(text, call.maxlen - 1), "NUL")
  /\ pc # "lost" => pos <= Len(call.format) + 1

(* Every call ends. *)
CallsEnd == <>Over

-----------------------------------------------------------------------------
(* The inductive invariant behind Conforms, for formats as the kernel writes
   them: of text and of directives without flags, width and precision. *)

Specifiers == {"%", "c", "s", "p"} \cup DOMAIN BaseOf

PlainDirectives ==
  {d \in C!Directives :
     /\ d.flags = {} /\ d.width = 0 /\ ~d.widthArg /\ ~d.hasPrecision
     /\ d.spec \in Specifiers \cup {"text"}
     /\ d.char \in Charset /\ d.string \in Seq(Charset)
     /\ d.spec = "text" => d.string \in Seq(Charset \ {"%", "NUL"}) \ {<<>>}}

IsPlain(c) ==
  /\ c.directives \in Seq(PlainDirectives)
  /\ c = Call(c.library, c.directives, c.sink, c.maxlen)

(* The kernel has no numbers longer than a long. *)
IsShort(c) == IsPlain(c) /\ \A n \in DOMAIN c.directives : c.directives[n].length \notin {"ll", "j"}

(* Calls with short numbers print what C says whatever the numbers, none of the
   departures being open to them. *)
PrintsAsC == IsShort(call) /\ pc = "done" => text = C!Sentence(C!Meaning, call.directives)

Faultless == \A n \in DOMAIN call.directives : ~Departs(call.library, call.directives[n])

(* Where a call is that has done n directives. *)
Total == Len(call.directives)
Upto(n) == SubSeq(call.directives, 1, n)
At(n, k) == pos = Len(C!Sentence(C!Spelled, Upto(n))) + k + 1
Taken(n) ==
  LET args == Len(C!Sentence(C!Arguments, Upto(n)))
  IN  arg <= args + 1 /\ (Faultless => arg = args + 1)
Printed(n, s) == Faultless => text = C!Sentence(C!Meaning, Upto(n)) \o s

LengthFlags(l) ==
  CASE l = "" -> {} [] l = "hh" -> {"SHORT", "CHAR"} [] l = "h" -> {"SHORT"} [] l \in {"l", "z", "t"} -> {"LONG"}
    [] l = "ll" -> {"LONG", "LONG_LONG"} [] l = "j" -> {"LONG_LONG"}

(* The parameters of _ntoa_long for a directive. *)
NtoaFlags(d) ==
  LengthFlags(d.length) \cup
    CASE d.spec = "X" -> {"UPPERCASE"} [] d.spec = "p" -> {"UPPERCASE", "ZEROPAD"} [] OTHER -> {}
NtoaBase(d) == IF d.spec = "p" THEN 16 ELSE C!Radix(d)
NtoaWidth(d) == IF d.spec = "p" THEN INT_BIT \div 4 ELSE 0
IsNegative(d) == d.spec # "p" /\ Value(d) < 0
Magnitude(d) ==
  CASE d.spec = "p" -> d.int % 2^INT_BIT
    [] d.spec # "p" /\ Value(d) < 0 -> -Value(d)
    [] d.spec # "p" /\ Value(d) >= 0 -> Value(d)

DigitsText(d, n) ==
  LET s == C!Numeral(n, NtoaBase(d)) IN IF d.spec \in {"X", "p"} THEN C!Capitals(s) ELSE s

(* In _ntoa_long: the digits still to come, then those in buf. *)
Number(d) ==
  /\ flags = NtoaFlags(d) /\ base = NtoaBase(d) /\ width = NtoaWidth(d) /\ precision = 0
  /\ negative = IsNegative(d)
  /\ pc = "digits" =>
       /\ buf # <<>> => value # 0
       /\ DigitsText(d, value) \o Reverse(buf) = DigitsText(d, Magnitude(d))
  /\ pc = "ntoa" => Reverse(buf) = DigitsText(d, Magnitude(d))
  /\ pc = "out" => Reverse(buf) = C!Meaning(d)

PlainInv ==
  /\ pc = "format" =>
       \E n \in 0 .. Total :
         /\ Taken(n)
         /\ \/ At(n, 0) /\ Printed(n, <<>>)
            \/ /\ n < Total /\ call.directives[n + 1].spec = "text"
               /\ \E k \in 1 .. Len(call.directives[n + 1].string) - 1 :
                    At(n, k) /\ Printed(n, SubSeq(call.directives[n + 1].string, 1, k))
  /\ pc \in {"flags", "width", "length", "specifier"} =>
       \E n \in 0 .. Total - 1 :
         LET d == call.directives[n + 1] IN
           /\ d.spec # "text"
           /\ Taken(n) /\ Printed(n, <<>>)
           /\ At(n, IF pc = "specifier" THEN 1 + Len(C!SpelledLength(d)) ELSE 1)
           /\ flags = IF pc = "specifier" THEN LengthFlags(d.length) ELSE {}
           /\ width = 0 /\ precision = 0
  /\ pc \in {"digits", "ntoa", "out"} =>
       \E n \in 0 .. Total - 1 :
         LET d == call.directives[n + 1] IN
           /\ d.spec \in {"p"} \cup DOMAIN BaseOf
           /\ Taken(n + 1) /\ Printed(n, <<>>)
           /\ At(n + 1, 0)
           /\ Faultless => Number(d)
  /\ pc = "done" => Printed(Total, <<>>)
  /\ pc \in {"format", "flags", "width", "length", "specifier", "digits", "ntoa", "out", "done"}

(* printf is somewhere among the directives of a plain call and has kept to
   them (stdio.c:586); the caller passes what they take. *)
PlainCallInv == IsPlain(call) => PrintfInv /\ PlainInv
===============================================================================
