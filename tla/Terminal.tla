------------------------------- MODULE Terminal -------------------------------
(***************************************************************************)
(* The text screen (arch/i386/tty.c), as printf in the kernel and the      *)
(* keyboard's handler use it.  The handler runs with interrupts disabled,  *)
(* so that its terminal_putchar is one step; the kernel's own may be       *)
(* interrupted between any two accesses to the cursor or the screen, and   *)
(* is split there, in the order of the optimised build, which loads the    *)
(* cursor into registers once.                                             *)
(*                                                                         *)
(* A character is "newline", "tab", "backspace" or a letter, which stands  *)
(* for all others; for the kernel, "clear" is terminal_initialize.  Colour *)
(* is left out.                                                            *)
(***************************************************************************)
EXTENDS Integers

CONSTANTS
  VGA_WIDTH, VGA_HEIGHT,
  Word,      \* the cursor counts modulo Word (2^32)
  MainChars, \* what the kernel prints
  KeyChars,  \* what the keyboard's handler prints
  MaxChars   \* bound on the characters printed

Letter(c) == c \notin {"newline", "tab", "backspace", "clear", "NUL", " "}
Size == VGA_WIDTH * VGA_HEIGHT
LastRow == VGA_HEIGHT - 1

ASSUME TerminalAssumption ==
  /\ VGA_WIDTH \in Nat \ {0} /\ VGA_HEIGHT \in Nat \ {0}
  /\ Word \in Nat /\ Word > 2 * Size
  /\ MaxChars \in Nat
  /\ \A c \in MainChars : Letter(c) \/ c \in {"newline", "clear"}
  /\ \A c \in KeyChars : Letter(c) \/ c \in {"newline", "tab", "backspace"}

VARIABLES
  row, column, \* terminal_row, terminal_column
  cells,       \* terminal_buffer
  main,        \* where the kernel is in a call, and what it has in registers
  (* History: *)
  pages,       \* what the characters printed may have made, before the kernel's call
  printed,     \* the same, with the character of the call
  used,        \* how many characters there have been
  raced,       \* a key was handled inside a call of the kernel
  strayed      \* a tab or backspace has been printed that goes off the screen

vars == <<row, column, cells, main, pages, printed, used, raced, strayed>>

Labels == {"idle", "column", "write", "store", "wrap", "newline", "row", "scroll",
           "last", "home", "blank"}
Idle == [pc |-> "idle", c |-> "clear", row |-> 0, column |-> 0, line |-> 0]
Blank == [i \in 0 .. Size - 1 |-> " "]
Chars == {c \in MainChars \cup KeyChars : Letter(c)} \cup {"NUL", " "}

(* What is promised: a page without an end, of which the screen shows the rows
   from top on, and which goes up by one when the cursor leaves the last. *)
Extent == VGA_WIDTH * (VGA_HEIGHT + MaxChars)
Page == [at : Int, top : Int, ink : [0 .. Extent - 1 -> Chars]]
FirstPage == [at |-> 0, top |-> 0, ink |-> [p \in 0 .. Extent - 1 |-> " "]]

Goto(page, p) ==
  [page EXCEPT !.at = p, !.top = IF p >= @ + Size THEN @ + VGA_WIDTH ELSE @]

PutOnPage(page, c) ==
  LET line == (page.at - page.top) \div VGA_WIDTH
  IN  CASE c = "clear"     -> FirstPage
        [] c = "newline"   -> Goto(page, page.top + (line + 1) * VGA_WIDTH)
        [] c = "tab"       -> Goto(page, page.at + 4 - (line % 4))
        [] c = "backspace" -> [Goto(page, page.at - 1) EXCEPT !.ink[page.at - 1] = "NUL"]
        [] OTHER           -> [Goto(page, page.at + 1) EXCEPT !.ink[page.at] = c]

Put(S, c) == {PutOnPage(page, c) : page \in S}

TypeOK ==
  /\ row \in 0 .. Word - 1 /\ column \in 0 .. Word - 1
  /\ cells \in [0 .. Size - 1 -> Chars]
  /\ main \in [pc : Labels, c : MainChars \cup {"clear"}, row : 0 .. Word - 1,
               column : 0 .. Word - 1, line : 0 .. LastRow]
  /\ pages \subseteq Page /\ printed \subseteq Page /\ used \in 0 .. MaxChars
  /\ raced \in BOOLEAN /\ strayed \in BOOLEAN

(* terminal_initialize is the first thing that kernel_main calls. *)
Init ==
  /\ row = 0 /\ column = 0
  /\ cells = Blank
  /\ main = Idle
  /\ pages = {FirstPage} /\ printed = pages /\ used = 0
  /\ raced = FALSE /\ strayed = FALSE

-----------------------------------------------------------------------------
(* terminal_putchar, step by step *)

(* A cell outside the screen is memory that is not shown. *)
PutEntryAt(screen, c, r, q) ==
  LET index == (r * VGA_WIDTH + q) % Word
  IN  IF index < Size THEN [screen EXCEPT ![index] = c] ELSE screen

Moved(c, at) ==
  CASE c = "newline"   -> [row |-> (at.row + 1) % Word, column |-> 0]
    [] c = "tab"       -> [at EXCEPT !.column = (@ + 4 - (at.row % 4)) % Word]
    [] c = "backspace" -> IF at.column = 0
                            THEN [row |-> (at.row - 1) % Word, column |-> VGA_WIDTH - 1]
                            ELSE [at EXCEPT !.column = @ - 1]
    [] OTHER           -> [at EXCEPT !.column = (@ + 1) % Word]

Drawn(c, at) ==
  CASE Letter(c)       -> PutEntryAt(cells, c, at.row, at.column)
    [] c = "backspace" -> LET to == Moved(c, at) IN PutEntryAt(cells, "NUL", to.row, to.column)
    [] OTHER           -> cells

(* Mutant: the column is compared with the width by `>'. *)
WrappedLate(at) ==
  IF at.column > VGA_WIDTH THEN [row |-> (at.row + 1) % Word, column |-> 0] ELSE at

Wrapped(at) ==
  IF at.column = VGA_WIDTH THEN [row |-> (at.row + 1) % Word, column |-> 0] ELSE at

CopyRow(screen, from, to) ==
  [i \in DOMAIN screen |-> IF i \div VGA_WIDTH = to THEN screen[i + (from - to) * VGA_WIDTH]
                                                    ELSE screen[i]]
BlankRow(screen, r) == [i \in DOMAIN screen |-> IF i \div VGA_WIDTH = r THEN " " ELSE screen[i]]

(* Mutant: the last row stays. *)
ScrolledKeepLast(screen) ==
  [i \in DOMAIN screen |-> IF i \div VGA_WIDTH = LastRow THEN screen[i] ELSE screen[i + VGA_WIDTH]]

(* terminal_scroll *)
Scrolled(screen) ==
  [i \in DOMAIN screen |-> IF i \div VGA_WIDTH = LastRow THEN " " ELSE screen[i + VGA_WIDTH]]

Strays(c, at) ==
  \/ c = "backspace" /\ at.row = 0 /\ at.column = 0
  \/ c = "tab" /\ at.column + 4 - (at.row % 4) > VGA_WIDTH

-----------------------------------------------------------------------------
(* The keyboard's handler *)

Key(c) ==
  LET at == [row |-> row, column |-> column]
      to == Wrapped(Moved(c, at))
      screen == Drawn(c, at)
  IN  /\ used < MaxChars /\ used' = used + 1
      /\ column' = to.column
      /\ IF to.row = VGA_HEIGHT
           THEN row' = LastRow /\ cells' = Scrolled(screen)
           ELSE row' = to.row /\ cells' = screen
      /\ strayed' = (strayed \/ Strays(c, at))
      /\ pages' = Put(pages, c)
      /\ printed' = Put(printed, c) \cup IF main.pc = "idle" THEN {} ELSE Put(pages', main.c)
      /\ raced' = (raced \/ main.pc # "idle")
      /\ UNCHANGED main

-----------------------------------------------------------------------------
(* The kernel *)

Start(m) ==
  /\ used < MaxChars /\ used' = used + 1
  /\ main.pc = "idle" /\ main' = m
  /\ printed' = Put(pages, m.c)
  /\ UNCHANGED <<pages, raced, strayed>>

Step(from, m) ==
  /\ main.pc = from /\ main' = m
  /\ UNCHANGED <<pages, printed, used, raced, strayed>>

(* The call ends: its character came before, between or after the keys that
   were handled meanwhile. *)
Return(from) ==
  /\ main.pc = from /\ main' = Idle
  /\ pages' = printed
  /\ UNCHANGED <<printed, used, raced, strayed>>

At(pc) == [main EXCEPT !.pc = pc]

LoadRow(c) ==
  /\ c # "clear"
  /\ Start([Idle EXCEPT !.pc = IF c = "newline" THEN "newline" ELSE "column",
                        !.c = c, !.row = row])
  /\ UNCHANGED <<row, column, cells>>

LoadColumn ==
  /\ Step("column", [At("write") EXCEPT !.column = column])
  /\ UNCHANGED <<row, column, cells>>

Write ==
  /\ Step("write", At("store"))
  /\ cells' = Drawn(main.c, main)
  /\ UNCHANGED <<row, column>>

(* The row compared with VGA_HEIGHT is the one in the register. *)
StoreColumn ==
  /\ column' = Moved(main.c, main).column
  /\ \/ column' = VGA_WIDTH /\ Step("store", At("wrap"))
     \/ column' # VGA_WIDTH /\ main.row = VGA_HEIGHT /\ Step("store", At("scroll"))
     \/ column' # VGA_WIDTH /\ main.row # VGA_HEIGHT /\ Return("store")
  /\ UNCHANGED <<row, cells>>

ZeroColumn ==
  /\ Step("wrap", At("row")) \/ Step("newline", At("row"))
  /\ column' = 0
  /\ UNCHANGED <<row, cells>>

StoreRow ==
  /\ row' = (main.row + 1) % Word
  /\ IF row' = VGA_HEIGHT THEN Step("row", At("scroll")) ELSE Return("row")
  /\ UNCHANGED <<column, cells>>

(* memmove goes from the top down, then the last row is blanked; a row is the
   grain. *)
ScrollLine ==
  /\ IF main.line < LastRow
       THEN /\ Step("scroll", [main EXCEPT !.line = @ + 1])
            /\ cells' = CopyRow(cells, main.line + 1, main.line)
       ELSE /\ Step("scroll", At("last"))
            /\ cells' = BlankRow(cells, LastRow)
  /\ UNCHANGED <<row, column>>

LastRowAgain ==
  /\ Return("last")
  /\ row' = LastRow
  /\ UNCHANGED <<column, cells>>

(* terminal_initialize, as PANIC calls it. *)
Clear ==
  /\ "clear" \in MainChars
  /\ Start([Idle EXCEPT !.pc = "home"])
  /\ row' = 0
  /\ UNCHANGED <<column, cells>>

Home ==
  /\ Step("home", At("blank"))
  /\ column' = 0
  /\ UNCHANGED <<row, cells>>

ClearLine ==
  /\ cells' = BlankRow(cells, main.line)
  /\ IF main.line < LastRow THEN Step("blank", [main EXCEPT !.line = @ + 1]) ELSE Return("blank")
  /\ UNCHANGED <<row, column>>

Next ==
  \/ \E c \in KeyChars : Key(c)
  \/ \E c \in MainChars : LoadRow(c)
  \/ LoadColumn \/ Write \/ StoreColumn \/ ZeroColumn \/ StoreRow \/ ScrollLine \/ LastRowAgain
  \/ Clear \/ Home \/ ClearLine

Spec == Init /\ [][Next]_vars

-----------------------------------------------------------------------------
Shows(page) ==
  /\ row * VGA_WIDTH + column = page.at - page.top
  /\ \A i \in DOMAIN cells : cells[i] = page.ink[page.top + i]

(* Whatever the keyboard's handler does between two accesses of the kernel to
   the cursor, when the kernel's call is over the cursor is on the screen,
   until a tab at the right edge or a backspace at the top carries it off. *)
CursorOnScreen ==
  /\ TypeOK
  /\ main.pc = "idle" /\ ~strayed => row < VGA_HEIGHT /\ column < VGA_WIDTH

(* Without a key inside a call, the screen shows the text, wrapped and
   scrolled, and the cursor is behind it. *)
ShowsText ==
  main.pc = "idle" /\ ~raced /\ ~strayed => \A page \in pages : Shows(page)

(* printf may be called from the handler while the kernel is in it: "These
   routines are thread safe and reentrant!" (stdio.c:26).  So the screen shows
   the characters of both, in some order. *)
Reentrant == main.pc = "idle" => \E page \in pages : Shows(page)

-----------------------------------------------------------------------------
(* The inductive invariant behind CursorOnScreen. *)

OnScreen == row < VGA_HEIGHT /\ column < VGA_WIDTH

(* What the kernel writes is a letter. *)
WritesLetter ==
  main.pc \in {"column", "write", "store"} => main.c \in MainChars /\ Letter(main.c)

(* In a call of the kernel the cursor may be off the screen only where the
   call is yet to store what brings it back: the column while the call is at
   "wrap", the row from there to the end of the scrolling. *)
CursorInv ==
  /\ main.pc \in {"idle", "column", "write", "store", "newline", "home", "blank"} => OnScreen
  /\ main.pc \in {"row", "scroll", "last"} => column < VGA_WIDTH
  /\ main.pc \in {"column", "write", "store", "wrap", "newline", "row"} => main.row < VGA_HEIGHT
  /\ main.pc \in {"write", "store"} => main.column < VGA_WIDTH

TerminalInv == TypeOK /\ WritesLetter /\ (~strayed => CursorInv)

-----------------------------------------------------------------------------
(* The inductive invariant behind ShowsText.  Between two accesses of the
   kernel the screen shows the page as it was before the call, as it is after
   it, or rows of both. *)

Displays(ink, from, S) == \A i \in S : cells[i] = ink[from + i]
Rows(low, high) == {i \in 0 .. Size - 1 : i \div VGA_WIDTH \in low .. high - 1}

(* The cursor is in the window, nothing is written under it, and n characters
   have moved it. *)
Placed(page, n) ==
  /\ page.top >= 0 /\ page.top <= VGA_WIDTH * n
  /\ page.at - page.top \in 0 .. Size - 1
  /\ \A k \in page.top + Size .. Extent - 1 : page.ink[k] = " "

(* In the call, with p the page before the character and q the one after it. *)
Underway(p, q) ==
  /\ main.c = "clear" <=> main.pc \in {"home", "blank"}
  /\ main.pc = "newline" => main.c = "newline"
  /\ main.pc \notin {"scroll", "last", "blank"} => main.line = 0
  /\ main.pc \in {"column", "write", "newline"} => Shows(p)
  /\ main.pc \in {"column", "write", "store", "newline"} => main.row = row
  /\ main.pc \in {"write", "store"} => main.column = column
  /\ main.pc = "store" => row * VGA_WIDTH + column = p.at - p.top
  /\ main.pc \in {"wrap", "row"} => q.at = p.top + (main.row + 1) * VGA_WIDTH
  /\ main.pc \in {"store", "wrap", "row"} => Displays(q.ink, p.top, 0 .. Size - 1)
  /\ main.pc = "scroll" =>
       /\ Displays(q.ink, q.top, Rows(0, main.line))
       /\ Displays(q.ink, p.top, Rows(main.line, VGA_HEIGHT))
       /\ q.top = p.top + VGA_WIDTH
  /\ main.pc = "last" => Displays(q.ink, q.top, 0 .. Size - 1)
  /\ main.pc \in {"scroll", "last"} => q.at = q.top + LastRow * VGA_WIDTH
  /\ main.pc \in {"row", "scroll", "last", "blank"} => column = 0
  /\ main.pc \in {"home", "blank"} => row = 0
  /\ main.pc = "blank" => \A i \in Rows(0, main.line) : cells[i] = " "

TextInv ==
  IF main.pc = "idle"
    THEN printed = pages /\ \A p \in pages : Placed(p, used) /\ Shows(p)
    ELSE /\ printed = Put(pages, main.c) /\ used > 0
         /\ \A p \in pages : Placed(p, used - 1) /\ Underway(p, PutOnPage(p, main.c))

PageInv == TerminalInv /\ (~raced /\ ~strayed => TextInv)
===============================================================================
