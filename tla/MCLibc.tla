-------------------------------- MODULE MCLibc --------------------------------
(***************************************************************************)
(* An instance of Libc for TLC: char, short, int and long long of 2, 4, 8  *)
(* and 16 bits, and room for the 8 binary digits of an int in _ntoa_long,  *)
(* as there is room for the 32 of the code's; room for 10 characters of a  *)
(* double of which 6 places are computed.                                  *)
(***************************************************************************)
EXTENDS Libc

NoLimit == 64   \* (size_t)-1, no text of the instance being as long

Plain ==
  [flags |-> {}, width |-> 0, widthArg |-> FALSE, hasPrecision |-> FALSE, precision |-> 0,
   precisionArg |-> FALSE, length |-> "", spec |-> "d", int |-> 0, float |-> 0, char |-> "NUL", string |-> <<>>]

(* Every set of flags, with widths and precisions around the number of digits
   and beyond the buffer. *)
Numbers ==
  {[Plain EXCEPT !.flags = f, !.width = w, !.hasPrecision = p >= 0, !.precision = IF p < 0 THEN 0 ELSE p,
                 !.spec = s, !.int = n] :
     f \in SUBSET {"0", "-", "+", " ", "#"}, w \in {0, 2, 3, 4, 9}, p \in {-1, 0, 2, 3},
     s \in {"d", "u", "x", "X", "o", "b"}, n \in {0, 5, 77, -6}}

(* Every length, with numbers that do not fit into it. *)
Lengths ==
  {[Plain EXCEPT !.length = l, !.spec = s, !.int = n] :
     l \in {"", "hh", "h", "l", "ll", "j", "z", "t"}, s \in {"d", "i", "u", "x", "b"},
     n \in {0, 1, 2, 7, 8, 127, 255, 300, 32767, -1, -2, -8, -128, -32768}}

(* Widths and precisions from the arguments. *)
Stars ==
  {[Plain EXCEPT !.flags = f, !.width = w, !.widthArg = TRUE, !.hasPrecision = TRUE, !.precision = p,
                 !.precisionArg = TRUE, !.spec = s, !.int = n] :
     f \in {{}, {"0"}, {"-"}, {"+"}}, w \in {-4, 0, 4}, p \in {-1, 0, 1, 3}, s \in {"d", "x"}, n \in {0, 5}}
  \cup
  {[Plain EXCEPT !.width = w, !.widthArg = TRUE, !.hasPrecision = TRUE, !.precision = p,
                 !.precisionArg = TRUE, !.spec = "s", !.string = <<"s", "t">>] :
     w \in {-4, 0, 4}, p \in {-1, 0, 1, 3}}

Words ==
  {[Plain EXCEPT !.flags = f, !.width = w, !.spec = "c", !.char = c] :
     f \in {{}, {"-"}}, w \in {0, 1, 3}, c \in {"c", "NUL"}}
  \cup
  {[Plain EXCEPT !.flags = f, !.width = w, !.hasPrecision = p >= 0, !.precision = IF p < 0 THEN 0 ELSE p,
                 !.spec = "s", !.string = s] :
     f \in {{}, {"-"}}, w \in {0, 2, 4}, p \in {-1, 0, 1, 5}, s \in {<<>>, <<"s", "t", "r">>}}

(* Eighths, among them those halfway between two decimals, before and behind
   a carry; precisions up to the last place that is computed and beyond. *)
Doubles ==
  {[Plain EXCEPT !.flags = f, !.width = w, !.hasPrecision = p >= 0, !.precision = IF p < 0 THEN 0 ELSE p,
                 !.spec = "f", !.float = n] :
     f \in SUBSET {"0", "-", "+", "#"}, w \in {0, 4, 11}, p \in {-1, 0, 1, 2, 7, 20},
     n \in {0, 1, 4, 6, 12, 20, 79, 796, 799, -1, -12, -799}}
  \cup {[Plain EXCEPT !.flags = {" "}, !.length = "l", !.spec = "F", !.float = 10]}

Pointers == {[Plain EXCEPT !.spec = "p", !.int = n] : n \in {0, 10, 171}}

(* Directives that leave something behind for the next one to trip over. *)
Parts ==
  {[Plain EXCEPT !.spec = "text", !.string = <<"t", "1">>],
   [Plain EXCEPT !.spec = "%"],
   [Plain EXCEPT !.flags = {"-", "+"}, !.width = 3, !.int = 5],
   [Plain EXCEPT !.flags = {"0"}, !.width = 3, !.spec = "X", !.int = 77],
   [Plain EXCEPT !.width = 3, !.hasPrecision = TRUE, !.precision = 2, !.spec = "u", !.int = 5],
   [Plain EXCEPT !.length = "hh", !.spec = "i", !.int = 2],
   [Plain EXCEPT !.length = "ll", !.int = 300],
   [Plain EXCEPT !.width = -3, !.widthArg = TRUE, !.spec = "c", !.char = "c"],
   [Plain EXCEPT !.spec = "s", !.string = <<"s">>]}

AnySink == ({"buffer"} \X (0 .. 5)) \cup ({"buffer", "terminal", "null", "function"} \X {NoLimit})

SomeCalls ==
  {Call("libc", <<d>>, "terminal", NoLimit) : d \in Numbers \cup Lengths \cup Stars \cup Words \cup Doubles \cup Pointers}
  \cup {Call("libk", <<d>>, "terminal", NoLimit) : d \in Lengths}
  \cup {Call(l, <<d, e>>, s[1], s[2]) : l \in Libraries, d \in Parts, e \in Parts, s \in AnySink}
  \cup {[NoCall EXCEPT !.format = f] : f \in {<<"%">>, <<"t", "%", "0">>}}
  \cup {NoCall}

SomeChars ==
  {"NUL", " ", "-", "+", ".", "#", "*", "%"}
  \cup {"0", "1", "2", "3", "4", "5", "6", "7", "8", "9"}
  \cup {"a", "b", "c", "d", "e", "f", "h", "i", "j", "l", "o", "p", "r", "s", "t", "u", "x", "z"}
  \cup {"A", "B", "C", "D", "E", "F", "X"}

SomeBytes == 0 .. 2
SomeSizes == 0 .. 4
===============================================================================
