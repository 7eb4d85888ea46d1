---------------------------- MODULE TerminalProofs ----------------------------
(***************************************************************************)
(* Theorems about the text screen, for every size of it, whatever the      *)
(* kernel prints and whichever keys are handled between its steps.         *)
(***************************************************************************)
EXTENDS Terminal, TLAPS

-----------------------------------------------------------------------------
(* Sizes *)

(* The cursor's counters hold every row and column, and one more. *)
LEMMA Sizes ==
  /\ VGA_WIDTH \in Nat \ {0} /\ VGA_HEIGHT \in Nat \ {0} /\ Word \in Nat
  /\ Size \in Nat /\ VGA_WIDTH < Word /\ VGA_HEIGHT < Word
  /\ LastRow \in 0 .. Word - 1 /\ LastRow + 1 = VGA_HEIGHT
<1>1. VGA_WIDTH \in Nat \ {0} /\ VGA_HEIGHT \in Nat \ {0} /\ Word \in Nat /\ Word > 2 * Size
  BY TerminalAssumption
<1>2. VGA_WIDTH * VGA_HEIGHT >= VGA_WIDTH
  <2>1. VGA_WIDTH * (VGA_HEIGHT - 1) >= 0
    BY <1>1
  <2> QED BY <1>1, <2>1
<1>3. VGA_WIDTH * VGA_HEIGHT >= VGA_HEIGHT
  <2>1. (VGA_WIDTH - 1) * VGA_HEIGHT >= 0
    BY <1>1
  <2> QED BY <1>1, <2>1
<1>4. Size \in Nat
  BY <1>1 DEF Size
<1> QED BY <1>1, <1>2, <1>3, <1>4 DEF Size, LastRow

Screens == [0 .. Size - 1 -> Chars]

(* A cell below the last row but one has a cell under it. *)
LEMMA CellBelow ==
  ASSUME NEW i \in 0 .. Size - 1, i \div VGA_WIDTH < LastRow
  PROVE  i + VGA_WIDTH \in 0 .. Size - 1
<1> DEFINE q == i \div VGA_WIDTH
           r == i % VGA_WIDTH
<1>1. i = VGA_WIDTH * q + r /\ q \in Int /\ r \in 0 .. VGA_WIDTH - 1
  BY Sizes
<1> HIDE DEF q, r
<1>2. q + 2 <= VGA_HEIGHT
  BY <1>1, Sizes DEF q
<1>3. VGA_WIDTH * (VGA_HEIGHT - (q + 2)) >= 0
  BY <1>1, <1>2, Sizes
<1>4. VGA_WIDTH * (VGA_HEIGHT - (q + 2)) = VGA_WIDTH * VGA_HEIGHT - VGA_WIDTH * q - 2 * VGA_WIDTH
  BY <1>1, Sizes
<1> QED BY <1>1, <1>3, <1>4, Sizes DEF Size

LEMMA RowOfCell ==
  ASSUME NEW i \in 0 .. Size - 1
  PROVE  i \div VGA_WIDTH \in 0 .. LastRow
<1> DEFINE q == i \div VGA_WIDTH
           r == i % VGA_WIDTH
<1>1. i = VGA_WIDTH * q + r /\ q \in Nat /\ r \in 0 .. VGA_WIDTH - 1
  BY Sizes
<1>2. ASSUME q >= VGA_HEIGHT
      PROVE  FALSE
  <2> HIDE DEF q, r
  <2>1. VGA_WIDTH * (q - VGA_HEIGHT) >= 0
    BY <1>1, <1>2, Sizes
  <2>2. VGA_WIDTH * (q - VGA_HEIGHT) = VGA_WIDTH * q - VGA_WIDTH * VGA_HEIGHT
    BY <1>1, Sizes
  <2> QED BY <1>1, <2>1, <2>2, Sizes DEF Size
<1> QED BY <1>1, <1>2, Sizes DEF LastRow

-----------------------------------------------------------------------------
(* The operations on the screen give screens. *)

LEMMA PutEntryAtType ==
  ASSUME NEW screen \in Screens, NEW c \in Chars, NEW r, NEW q
  PROVE  PutEntryAt(screen, c, r, q) \in Screens
BY DEF PutEntryAt, Screens

LEMMA ScrolledType ==
  ASSUME NEW screen \in Screens
  PROVE  Scrolled(screen) \in Screens
<1>1. DOMAIN screen = 0 .. Size - 1 /\ " " \in Chars
  BY DEF Screens, Chars
<1>2. ASSUME NEW i \in 0 .. Size - 1, i \div VGA_WIDTH # LastRow
      PROVE  screen[i + VGA_WIDTH] \in Chars
  <2>1. i \div VGA_WIDTH < LastRow
    BY <1>2, RowOfCell, Sizes
  <2> QED BY <2>1, CellBelow DEF Screens
<1> QED BY <1>1, <1>2 DEF Scrolled, Screens

LEMMA CopyRowType ==
  ASSUME NEW screen \in Screens, NEW l \in 0 .. LastRow, l < LastRow
  PROVE  CopyRow(screen, l + 1, l) \in Screens
<1>1. DOMAIN screen = 0 .. Size - 1
  BY DEF Screens
<1>2. ASSUME NEW i \in 0 .. Size - 1, i \div VGA_WIDTH = l
      PROVE  screen[i + ((l + 1) - l) * VGA_WIDTH] \in Chars
  <2>1. i + VGA_WIDTH \in 0 .. Size - 1
    BY <1>2, CellBelow
  <2>2. ((l + 1) - l) * VGA_WIDTH = VGA_WIDTH
    BY Sizes
  <2> QED BY <2>1, <2>2 DEF Screens
<1> QED BY <1>1, <1>2 DEF CopyRow, Screens

LEMMA BlankRowType ==
  ASSUME NEW screen \in Screens, NEW r
  PROVE  BlankRow(screen, r) \in Screens
BY DEF BlankRow, Screens, Chars

-----------------------------------------------------------------------------
(* The cursor *)

Cursors == [row : 0 .. Word - 1, column : 0 .. Word - 1]

LEMMA WordMod ==
  ASSUME NEW n \in Int
  PROVE  n % Word \in 0 .. Word - 1 /\ (n \in 0 .. Word - 1 => n % Word = n)
BY Sizes

LEMMA SuccessorMod ==
  ASSUME NEW n \in 0 .. Word - 1
  PROVE  (n + 1) % Word \in 0 .. Word - 1 /\ (n + 1) % Word <= n + 1
<1>1. n + 1 \in Int /\ (n + 1 <= Word - 1 \/ n + 1 = Word)
  BY Sizes
<1>2. (n + 1) % Word \in 0 .. Word - 1
  BY <1>1, WordMod
<1> QED BY <1>1, <1>2, WordMod, Sizes

LEMMA MovedType ==
  ASSUME NEW c \in KeyChars, NEW at \in Cursors
  PROVE  Moved(c, at) \in Cursors
<1>1. at.row \in 0 .. Word - 1 /\ at.column \in 0 .. Word - 1 /\ at.row % 4 \in 0 .. 3
  BY Sizes DEF Cursors
<1>2. CASE c = "newline"
  BY <1>1, <1>2, WordMod, Sizes DEF Moved, Cursors
<1>3. CASE c = "tab"
  <2>1. at.column + 4 - (at.row % 4) \in Int
    BY <1>1, Sizes
  <2>2. (at.column + 4 - (at.row % 4)) % Word \in 0 .. Word - 1
    BY <2>1, WordMod
  <2> QED BY <1>3, <2>2 DEF Moved, Cursors
<1>4. CASE c = "backspace"
  BY <1>1, <1>4, WordMod, Sizes DEF Moved, Cursors
<1>5. CASE c \notin {"newline", "tab", "backspace"}
  <2>1. (at.column + 1) % Word \in 0 .. Word - 1
    BY <1>1, WordMod, Sizes
  <2> QED BY <1>5, <2>1 DEF Moved, Cursors
<1> QED BY <1>2, <1>3, <1>4, <1>5

LEMMA WrappedType ==
  ASSUME NEW at \in Cursors
  PROVE  Wrapped(at) \in Cursors
BY WordMod, Sizes DEF Wrapped, Cursors

LEMMA DrawnType ==
  ASSUME NEW c \in MainChars \cup KeyChars, NEW at, cells \in Screens
  PROVE  Drawn(c, at) \in Screens
<1>1. CASE Letter(c)
  <2>1. c \in Chars
    BY <1>1 DEF Chars
  <2> QED BY <1>1, <2>1, PutEntryAtType DEF Drawn, Letter
<1>2. CASE ~Letter(c)
  <2>1. "NUL" \in Chars
    BY DEF Chars
  <2>2. PutEntryAt(cells, "NUL", Moved(c, at).row, Moved(c, at).column) \in Screens
    BY <2>1, PutEntryAtType
  <2> QED BY <1>2, <2>2 DEF Drawn
<1> QED BY <1>1, <1>2

(* A character that does not stray leaves the column on the screen, and the
   row as well if it was on it and is not the one under the last. *)
LEMMA KeepsOnScreen ==
  ASSUME NEW c \in KeyChars, NEW at \in Cursors, at.column < VGA_WIDTH, ~Strays(c, at)
  PROVE  /\ Wrapped(Moved(c, at)).column < VGA_WIDTH
         /\ at.row < VGA_HEIGHT => Wrapped(Moved(c, at)).row <= VGA_HEIGHT
<1>1. /\ at.row \in 0 .. Word - 1 /\ at.column \in 0 .. Word - 1 /\ at.row % 4 \in 0 .. 3
      /\ at = [row |-> at.row, column |-> at.column]
  BY Sizes DEF Cursors
<1>2. CASE c = "newline"
  BY <1>1, <1>2, WordMod, Sizes DEF Moved, Wrapped
<1>3. CASE c = "tab"
  <2>1. at.column + 4 - (at.row % 4) \in 0 .. VGA_WIDTH
    BY <1>1, <1>3, Sizes DEF Strays
  <2>2. /\ Moved(c, at).column = at.column + 4 - (at.row % 4)
        /\ Moved(c, at).row = at.row
    BY <1>1, <1>3, <2>1, WordMod, Sizes DEF Moved
  <2>3. (at.row + 1) % Word <= at.row + 1
    BY <1>1, WordMod, Sizes
  <2> QED BY <1>1, <2>1, <2>2, <2>3, Sizes DEF Wrapped
<1>4. CASE c = "backspace"
  <2>1. at.column = 0 => at.row # 0
    BY <1>4 DEF Strays
  <2>2. /\ Moved(c, at).column \in 0 .. VGA_WIDTH - 1
        /\ Moved(c, at).row \in 0 .. at.row
    BY <1>1, <1>4, <2>1, WordMod, Sizes DEF Moved
  <2> QED BY <1>1, <2>2, Sizes DEF Wrapped
<1>5. CASE c \notin {"newline", "tab", "backspace"}
  <2>1. Moved(c, at).column = at.column + 1 /\ Moved(c, at).row = at.row
    BY <1>1, <1>5, WordMod, Sizes DEF Moved
  <2>2. (at.row + 1) % Word <= at.row + 1
    BY <1>1, WordMod, Sizes
  <2> QED BY <1>1, <2>1, <2>2, Sizes DEF Wrapped
<1> QED BY <1>2, <1>3, <1>4, <1>5

-----------------------------------------------------------------------------
(* The invariant, action by action *)

LEMMA InvParts ==
  ASSUME TypeOK
  PROVE  /\ cells \in Screens /\ row \in 0 .. Word - 1 /\ column \in 0 .. Word - 1
         /\ main.c \in MainChars \cup {"clear"}
         /\ main.row \in 0 .. Word - 1 /\ main.column \in 0 .. Word - 1
         /\ main.line \in 0 .. LastRow
         /\ [row |-> row, column |-> column] \in Cursors
BY DEF TypeOK, Screens, Chars, Cursors

(* The kernel's registers, one by one. *)
Registers ==
  [pc : Labels, c : MainChars \cup {"clear"}, row : 0 .. Word - 1, column : 0 .. Word - 1,
   line : 0 .. LastRow]

LEMMA MainType ==
  ASSUME NEW label \in Labels, NEW c \in MainChars \cup {"clear"}, NEW r \in 0 .. Word - 1,
         NEW q \in 0 .. Word - 1, NEW l \in 0 .. LastRow
  PROVE  [pc |-> label, c |-> c, row |-> r, column |-> q, line |-> l] \in Registers
BY DEF Registers

LEMMA IdleType == Idle \in Registers /\ Idle.pc = "idle" /\ Idle.row = 0
<1>1. "idle" \in Labels /\ 0 \in 0 .. Word - 1 /\ 0 \in 0 .. LastRow
  BY Sizes DEF Labels
<1>2. Idle \in Registers
  BY <1>1, MainType DEF Idle
<1> QED BY <1>2 DEF Idle

(* The history *)

HistoryType ==
  /\ pages \subseteq Page /\ printed \subseteq Page /\ used \in 0 .. MaxChars
  /\ raced \in BOOLEAN /\ strayed \in BOOLEAN

LEMMA ExtentSize == Extent \in Nat /\ \A n \in 0 .. MaxChars : VGA_WIDTH * n + Size <= Extent
<1>1. VGA_WIDTH \in Nat /\ VGA_HEIGHT \in Nat /\ MaxChars \in Nat
  BY TerminalAssumption
<1>2. VGA_WIDTH * VGA_HEIGHT \in Nat /\ VGA_WIDTH * MaxChars \in Nat
  BY <1>1
<1>3. Extent = VGA_WIDTH * VGA_HEIGHT + VGA_WIDTH * MaxChars
  BY <1>1 DEF Extent
<1>4. ASSUME NEW n \in 0 .. MaxChars
      PROVE  VGA_WIDTH * n <= VGA_WIDTH * MaxChars
  <2>1. VGA_WIDTH * (MaxChars - n) >= 0
    BY <1>1
  <2> QED BY <1>1, <2>1
<1> QED BY <1>1, <1>2, <1>3, <1>4 DEF Size

LEMMA GotoType ==
  ASSUME NEW page \in Page, NEW p \in Int
  PROVE  /\ Goto(page, p) \in Page /\ Goto(page, p).at = p /\ Goto(page, p).ink = page.ink
         /\ Goto(page, p).top = IF p >= page.top + Size THEN page.top + VGA_WIDTH ELSE page.top
         /\ page.at \in Int /\ page.top \in Int /\ page.ink \in [0 .. Extent - 1 -> Chars]
<1> DEFINE top == IF p >= page.top + Size THEN page.top + VGA_WIDTH ELSE page.top
<1>1. /\ page.at \in Int /\ page.top \in Int /\ page.ink \in [0 .. Extent - 1 -> Chars]
      /\ page = [at |-> page.at, top |-> page.top, ink |-> page.ink]
  BY DEF Page
<1>2. top \in Int
  BY <1>1, Sizes
<1>3. Goto(page, p) = [page EXCEPT !.at = p, !.top = top]
  BY DEF Goto
<1> HIDE DEF top
<1>4. Goto(page, p) = [at |-> p, top |-> top, ink |-> page.ink]
  BY <1>1, <1>3
<1>5. Goto(page, p) \in Page
  BY <1>1, <1>2, <1>4 DEF Page
<1> QED BY <1>1, <1>4, <1>5 DEF top

LEMMA FirstPageType == FirstPage \in Page
BY DEF FirstPage, Page, Chars

LEMMA InkType ==
  ASSUME NEW page \in Page, NEW p, NEW c \in Chars
  PROVE  [page EXCEPT !.ink[p] = c] \in Page
BY DEF Page

LEMMA PutOnPageType ==
  ASSUME NEW page \in Page, NEW c \in MainChars \cup KeyChars \cup {"clear"}
  PROVE  PutOnPage(page, c) \in Page
<1> DEFINE line == (page.at - page.top) \div VGA_WIDTH
<1>1. page.at \in Int /\ page.top \in Int
  BY DEF Page
<1>2. line \in Int /\ line % 4 \in Int /\ (line + 1) * VGA_WIDTH \in Int
  BY <1>1, Sizes
<1>3. /\ page.top + (line + 1) * VGA_WIDTH \in Int /\ page.at + 4 - (line % 4) \in Int
      /\ page.at - 1 \in Int /\ page.at + 1 \in Int
  <2> HIDE DEF line
  <2> QED BY <1>1, <1>2
<1>4. c \in {"clear", "newline", "tab", "backspace"} \/ c \in Chars
  BY TerminalAssumption DEF Chars
<1>5. "NUL" \in Chars
  BY DEF Chars
<1>6. CASE c \in {"clear", "newline", "tab", "backspace"}
  <2> HIDE DEF line
  <2>1. CASE c = "clear"
    BY <2>1, FirstPageType DEF PutOnPage
  <2>2. CASE c = "newline"
    BY <1>3, <2>2, GotoType DEF PutOnPage, line
  <2>3. CASE c = "tab"
    BY <1>3, <2>3, GotoType DEF PutOnPage, line
  <2>4. CASE c = "backspace"
    <3>1. Goto(page, page.at - 1) \in Page
      BY <1>3, GotoType
    <3>2. [Goto(page, page.at - 1) EXCEPT !.ink[page.at - 1] = "NUL"] \in Page
      BY <1>5, <3>1, InkType
    <3> QED BY <2>4, <3>2 DEF PutOnPage
  <2> QED BY <1>6, <2>1, <2>2, <2>3, <2>4
<1>7. CASE c \notin {"clear", "newline", "tab", "backspace"}
  <2>1. Goto(page, page.at + 1) \in Page
    BY <1>3, GotoType
  <2>2. [Goto(page, page.at + 1) EXCEPT !.ink[page.at] = c] \in Page
    BY <1>4, <1>7, <2>1, InkType
  <2> QED BY <1>7, <2>2 DEF PutOnPage
<1> QED BY <1>6, <1>7

LEMMA PutType ==
  ASSUME NEW S, S \subseteq Page, NEW c \in MainChars \cup KeyChars \cup {"clear"}
  PROVE  Put(S, c) \subseteq Page
BY PutOnPageType DEF Put

LEMMA HistoryStep ==
  ASSUME TypeOK, UNCHANGED <<printed, used, raced, strayed>>,
         pages' = pages \/ pages' = printed
  PROVE  HistoryType'
BY DEF TypeOK, HistoryType

LEMMA HistoryStart ==
  ASSUME TypeOK, NEW m, Start(m), m.c \in MainChars \cup {"clear"}
  PROVE  HistoryType'
<1>1. Put(pages, m.c) \subseteq Page
  BY PutType DEF TypeOK
<1>2. used' \in 0 .. MaxChars
  BY TerminalAssumption DEF Start, TypeOK
<1> QED BY <1>1, <1>2 DEF Start, TypeOK, HistoryType

LEMMA HistoryKey ==
  ASSUME TypeOK, NEW c \in KeyChars, Key(c)
  PROVE  HistoryType'
<1>1. /\ used < MaxChars /\ used' = used + 1
      /\ strayed' = (strayed \/ Strays(c, [row |-> row, column |-> column]))
      /\ pages' = Put(pages, c)
      /\ printed' = Put(printed, c) \cup (IF main.pc = "idle" THEN {} ELSE Put(pages', main.c))
      /\ raced' = (raced \/ main.pc # "idle")
  BY Zenon DEF Key
<1>2. pages' \subseteq Page
  BY <1>1, PutType DEF TypeOK
<1>3. Put(pages', main.c) \subseteq Page /\ Put(printed, c) \subseteq Page
  BY <1>2, PutType DEF TypeOK
<1>4. used' \in 0 .. MaxChars
  BY <1>1, TerminalAssumption DEF TypeOK
<1>5. raced' \in BOOLEAN /\ strayed' \in BOOLEAN
  BY <1>1, Zenon
<1> QED BY <1>1, <1>2, <1>3, <1>4, <1>5 DEF HistoryType

(* What is left to show of a step of the kernel. *)
LEMMA TypeFrom ==
  ASSUME TypeOK, HistoryType', main' \in Registers, cells' \in Screens,
         row' \in 0 .. Word - 1, column' \in 0 .. Word - 1
  PROVE  TypeOK'
BY DEF TypeOK, HistoryType, Registers, Screens

LEMMA MainRecord ==
  ASSUME TypeOK
  PROVE  main = [pc |-> main.pc, c |-> main.c, row |-> main.row, column |-> main.column,
                 line |-> main.line]
BY DEF TypeOK

(* A key, handled between two steps of the kernel. *)
LEMMA KeyStep ==
  ASSUME TerminalInv, NEW c \in KeyChars, Key(c)
  PROVE  TerminalInv'
<1> DEFINE at == [row |-> row, column |-> column]
           to == Wrapped(Moved(c, at))
           screen == Drawn(c, at)
<1>1. /\ cells \in Screens /\ at \in Cursors
      /\ row \in 0 .. Word - 1 /\ column \in 0 .. Word - 1
  BY InvParts DEF TerminalInv
<1>2. to \in Cursors /\ screen \in Screens
  BY <1>1, MovedType, WrappedType, DrawnType
<1>3. /\ column' = to.column
      /\ \/ to.row = VGA_HEIGHT /\ row' = LastRow /\ cells' = Scrolled(screen)
         \/ to.row # VGA_HEIGHT /\ row' = to.row /\ cells' = screen
      /\ strayed' = (strayed \/ Strays(c, at))
      /\ UNCHANGED main
  BY Zenon DEF Key
<1>4. ~strayed /\ ~Strays(c, at) /\ column < VGA_WIDTH =>
        /\ to.column < VGA_WIDTH
        /\ row < VGA_HEIGHT => to.row <= VGA_HEIGHT
  BY <1>1, KeepsOnScreen
<1>5. to.row \in 0 .. Word - 1 /\ to.column \in 0 .. Word - 1
  BY <1>2 DEF Cursors
<1> HIDE DEF at, to, screen
<1>6. cells' \in Screens /\ row' \in 0 .. Word - 1 /\ column' \in 0 .. Word - 1
  BY <1>2, <1>3, <1>5, ScrolledType, Sizes
<1>7. HistoryType'
  BY HistoryKey DEF TerminalInv
<1>8. UNCHANGED main
  BY <1>3
<1>9. TypeOK' /\ WritesLetter'
  BY <1>6, <1>7, <1>8 DEF TypeOK, HistoryType, WritesLetter, TerminalInv, Screens
<1>10. ASSUME ~strayed'
       PROVE  CursorInv'
  <2>1. ~strayed /\ ~Strays(c, at)
    BY <1>3, <1>10
  <2>2. CursorInv
    BY <2>1 DEF TerminalInv
  <2>3. column < VGA_WIDTH => column' < VGA_WIDTH
    BY <1>3, <1>4, <2>1
  <2>4. OnScreen => OnScreen'
    BY <1>3, <1>4, <1>5, <2>1, Sizes DEF OnScreen
  <2> QED BY <1>8, <2>2, <2>3, <2>4 DEF CursorInv
<1> QED BY <1>8, <1>9, <1>10 DEF TerminalInv

(* The kernel's call begins, and loads the cursor. *)
LEMMA LoadStep ==
  ASSUME TerminalInv, LoadColumn \/ \E c \in MainChars : LoadRow(c)
  PROVE  TerminalInv'
<1>1. CASE LoadColumn
  <2>1. /\ main.pc = "column" /\ main' = [main EXCEPT !.pc = "write", !.column = column]
        /\ UNCHANGED <<row, column, cells, strayed>> /\ HistoryType'
    BY <1>1, MainRecord, HistoryStep DEF LoadColumn, Step, At, TerminalInv
  <2>2. main' = [pc |-> "write", c |-> main.c, row |-> main.row, column |-> column,
                 line |-> main.line]
    BY <2>1, MainRecord DEF TerminalInv
  <2>3. TypeOK'
    <3>1. "write" \in Labels
      BY DEF Labels
    <3>2. main' \in Registers
      BY <2>2, <3>1, InvParts, MainType DEF TerminalInv
    <3> QED BY <2>1, <3>2, InvParts, TypeFrom DEF TerminalInv
  <2>4. WritesLetter' /\ (~strayed' => CursorInv')
    BY <2>1, <2>2 DEF WritesLetter, CursorInv, OnScreen, TerminalInv
  <2> QED BY <2>3, <2>4 DEF TerminalInv
<1>2. ASSUME NEW c \in MainChars, LoadRow(c)
      PROVE  TerminalInv'
  <2> DEFINE label == IF c = "newline" THEN "newline" ELSE "column"
  <2>1. /\ main.pc = "idle" /\ c # "clear"
        /\ main' = [Idle EXCEPT !.pc = label, !.c = c, !.row = row]
        /\ UNCHANGED <<row, column, cells, strayed>> /\ HistoryType'
    <3>1. [Idle EXCEPT !.pc = label, !.c = c, !.row = row].c = c
      BY DEF Idle
    <3>2. HistoryType'
      BY <1>2, <3>1, HistoryStart DEF LoadRow, TerminalInv
    <3> QED BY <1>2, <3>2 DEF LoadRow, Start
  <2>2. main' = [pc |-> label, c |-> c, row |-> row, column |-> 0, line |-> 0]
    BY <2>1 DEF Idle
  <2>3. TypeOK'
    <3>1. label \in Labels /\ 0 \in 0 .. Word - 1 /\ 0 \in 0 .. LastRow
      BY Sizes DEF Labels
    <3>2. main' \in Registers
      <4> HIDE DEF label
      <4> QED BY <2>2, <3>1, InvParts, MainType DEF TerminalInv
    <3> QED BY <2>1, <3>2, InvParts, TypeFrom DEF TerminalInv
  <2>4. WritesLetter' /\ (~strayed' => CursorInv')
    BY <2>1, <2>2, TerminalAssumption DEF WritesLetter, CursorInv, OnScreen, TerminalInv
  <2> QED BY <2>3, <2>4 DEF TerminalInv
<1> QED BY <1>1, <1>2

(* The character is written, and the cursor moved behind it. *)
LEMMA WriteStep ==
  ASSUME TerminalInv, Write
  PROVE  TerminalInv'
<1>1. /\ main.pc = "write" /\ main' = [main EXCEPT !.pc = "store"]
      /\ UNCHANGED <<row, column, strayed>> /\ HistoryType' /\ cells' = Drawn(main.c, main)
  BY HistoryStep DEF Write, Step, At, TerminalInv
<1>2. main' = [pc |-> "store", c |-> main.c, row |-> main.row, column |-> main.column,
               line |-> main.line]
  BY <1>1, MainRecord DEF TerminalInv
<1>3. main' \in Registers
  <2>1. "store" \in Labels
    BY DEF Labels
  <2> QED BY <1>2, <2>1, InvParts, MainType DEF TerminalInv
<1>4. cells' \in Screens
  BY <1>1, InvParts, DrawnType DEF TerminalInv, WritesLetter
<1>5. TypeOK'
  BY <1>1, <1>3, <1>4, InvParts, TypeFrom DEF TerminalInv
<1>6. WritesLetter' /\ (~strayed' => CursorInv')
  BY <1>1, <1>2 DEF WritesLetter, CursorInv, OnScreen, TerminalInv
<1> QED BY <1>5, <1>6 DEF TerminalInv

LEMMA StoreColumnStep ==
  ASSUME TerminalInv, StoreColumn
  PROVE  TerminalInv'
<1>1. /\ main.pc = "store" /\ UNCHANGED <<row, cells, strayed>> /\ HistoryType'
      /\ column' = Moved(main.c, main).column
      /\ \/ column' = VGA_WIDTH /\ main' = [main EXCEPT !.pc = "wrap"]
         \/ column' # VGA_WIDTH /\ main.row = VGA_HEIGHT /\ main' = [main EXCEPT !.pc = "scroll"]
         \/ column' # VGA_WIDTH /\ main.row # VGA_HEIGHT /\ main' = Idle
  BY HistoryStep DEF StoreColumn, Step, At, Return, TerminalInv
<1>2. column' = (main.column + 1) % Word
  <2>1. Letter(main.c)
    BY <1>1 DEF TerminalInv, WritesLetter
  <2>2. main.c \notin {"newline", "tab", "backspace"}
    BY <2>1 DEF Letter
  <2>3. column' = [main EXCEPT !.column = (@ + 1) % Word].column
    BY <1>1, <2>2 DEF Moved
  <2> QED BY <2>3, MainRecord DEF TerminalInv
<1>3. column' \in 0 .. Word - 1 /\ (main.column < VGA_WIDTH => column' <= VGA_WIDTH)
  <2>1. main.column \in 0 .. Word - 1
    BY InvParts DEF TerminalInv
  <2>2. column' \in 0 .. Word - 1 /\ column' <= main.column + 1
    BY <1>2, <2>1, SuccessorMod
  <2> QED BY <2>1, <2>2, Sizes
<1>4. main' \in Registers /\ main'.row \in {main.row, 0}
      /\ \/ main'.pc = "wrap" /\ main'.row = main.row
         \/ main'.pc = "scroll" /\ column' # VGA_WIDTH /\ main.row = VGA_HEIGHT
         \/ main'.pc = "idle" /\ column' # VGA_WIDTH
  <2>1. /\ [main EXCEPT !.pc = "wrap"] =
              [pc |-> "wrap", c |-> main.c, row |-> main.row, column |-> main.column,
               line |-> main.line]
        /\ [main EXCEPT !.pc = "scroll"] =
              [pc |-> "scroll", c |-> main.c, row |-> main.row, column |-> main.column,
               line |-> main.line]
    BY MainRecord DEF TerminalInv
  <2>2. "wrap" \in Labels /\ "scroll" \in Labels
    BY DEF Labels
  <2>3. [main EXCEPT !.pc = "wrap"] \in Registers /\ [main EXCEPT !.pc = "scroll"] \in Registers
    BY <2>1, <2>2, InvParts, MainType DEF TerminalInv
  <2> QED BY <1>1, <2>1, <2>3, IdleType
<1>5. TypeOK'
  BY <1>1, <1>3, <1>4, InvParts, TypeFrom DEF TerminalInv
<1>6. WritesLetter'
  BY <1>4 DEF WritesLetter
<1>7. ASSUME ~strayed'
      PROVE  CursorInv'
  <2>1. OnScreen /\ main.row < VGA_HEIGHT /\ main.column < VGA_WIDTH
    BY <1>1, <1>7 DEF CursorInv, TerminalInv
  <2>2. column' # VGA_WIDTH => column' < VGA_WIDTH
    BY <1>3, <2>1, Sizes
  <2>3. main.row # VGA_HEIGHT
    BY <2>1, InvParts, Sizes DEF TerminalInv
  <2> QED BY <1>1, <1>4, <2>1, <2>2, <2>3 DEF CursorInv, OnScreen
<1> QED BY <1>5, <1>6, <1>7 DEF TerminalInv

(* The cursor's column comes back to the left, its row goes on. *)
LEMMA ZeroColumnStep ==
  ASSUME TerminalInv, ZeroColumn
  PROVE  TerminalInv'
<1>1. /\ main.pc \in {"wrap", "newline"} /\ main' = [main EXCEPT !.pc = "row"]
      /\ UNCHANGED <<row, cells, strayed>> /\ HistoryType' /\ column' = 0
  BY HistoryStep DEF ZeroColumn, Step, At, TerminalInv
<1>2. main' = [pc |-> "row", c |-> main.c, row |-> main.row, column |-> main.column,
               line |-> main.line]
  BY <1>1, MainRecord DEF TerminalInv
<1>3. main' \in Registers
  <2>1. "row" \in Labels
    BY DEF Labels
  <2> QED BY <1>2, <2>1, InvParts, MainType DEF TerminalInv
<1>4. TypeOK'
  BY <1>1, <1>3, InvParts, Sizes, TypeFrom DEF TerminalInv
<1>5. WritesLetter' /\ (~strayed' => CursorInv')
  BY <1>1, <1>2, Sizes DEF WritesLetter, CursorInv, OnScreen, TerminalInv
<1> QED BY <1>4, <1>5 DEF TerminalInv

LEMMA StoreRowStep ==
  ASSUME TerminalInv, StoreRow
  PROVE  TerminalInv'
<1>1. /\ main.pc = "row" /\ UNCHANGED <<column, cells, strayed>> /\ HistoryType'
      /\ row' = (main.row + 1) % Word
      /\ \/ row' = VGA_HEIGHT /\ main' = [main EXCEPT !.pc = "scroll"]
         \/ row' # VGA_HEIGHT /\ main' = Idle
  BY HistoryStep DEF StoreRow, Step, At, Return, TerminalInv
<1>2. row' \in 0 .. Word - 1 /\ (main.row < VGA_HEIGHT => row' <= VGA_HEIGHT)
  <2>1. main.row \in 0 .. Word - 1
    BY InvParts DEF TerminalInv
  <2>2. row' \in 0 .. Word - 1 /\ row' <= main.row + 1
    BY <1>1, <2>1, SuccessorMod
  <2> QED BY <2>1, <2>2, Sizes
<1>3. /\ main' \in Registers
      /\ \/ main'.pc = "scroll" /\ row' = VGA_HEIGHT
         \/ main'.pc = "idle" /\ row' # VGA_HEIGHT
  <2>1. [main EXCEPT !.pc = "scroll"] =
          [pc |-> "scroll", c |-> main.c, row |-> main.row, column |-> main.column,
           line |-> main.line]
    BY MainRecord DEF TerminalInv
  <2>2. "scroll" \in Labels
    BY DEF Labels
  <2>3. [main EXCEPT !.pc = "scroll"] \in Registers
    BY <2>1, <2>2, InvParts, MainType DEF TerminalInv
  <2> QED BY <1>1, <2>1, <2>3, IdleType
<1>4. TypeOK'
  BY <1>1, <1>2, <1>3, InvParts, TypeFrom DEF TerminalInv
<1>5. WritesLetter'
  BY <1>3 DEF WritesLetter
<1>6. ASSUME ~strayed'
      PROVE  CursorInv'
  <2>1. main.row < VGA_HEIGHT /\ column < VGA_WIDTH
    BY <1>1, <1>6 DEF CursorInv, TerminalInv
  <2>2. row' # VGA_HEIGHT => row' < VGA_HEIGHT
    BY <1>2, <2>1, Sizes
  <2> QED BY <1>1, <1>3, <2>1, <2>2 DEF CursorInv, OnScreen
<1> QED BY <1>4, <1>5, <1>6 DEF TerminalInv

(* terminal_scroll, and the row that the cursor then is on. *)
LEMMA ScrollLineStep ==
  ASSUME TerminalInv, ScrollLine
  PROVE  TerminalInv'
<1>1. /\ main.pc = "scroll" /\ UNCHANGED <<row, column, strayed>> /\ HistoryType'
      /\ \/ /\ main.line < LastRow /\ main' = [main EXCEPT !.line = @ + 1]
            /\ cells' = CopyRow(cells, main.line + 1, main.line)
         \/ main' = [main EXCEPT !.pc = "last"] /\ cells' = BlankRow(cells, LastRow)
  BY HistoryStep DEF ScrollLine, Step, At, TerminalInv
<1>2. main.line \in 0 .. LastRow /\ cells \in Screens
  BY InvParts DEF TerminalInv
<1>3. cells' \in Screens
  BY <1>1, <1>2, CopyRowType, BlankRowType
<1>4. main' \in Registers /\ main'.pc \in {"scroll", "last"}
  <2>1. CASE main.line < LastRow /\ main' = [main EXCEPT !.line = @ + 1]
    <3>1. main' = [pc |-> "scroll", c |-> main.c, row |-> main.row, column |-> main.column,
                   line |-> main.line + 1]
      BY <1>1, <2>1, MainRecord DEF TerminalInv
    <3>2. "scroll" \in Labels /\ main.line + 1 \in 0 .. LastRow
      BY <1>2, <2>1, Sizes DEF Labels
    <3> QED BY <3>1, <3>2, InvParts, MainType DEF TerminalInv
  <2>2. CASE main' = [main EXCEPT !.pc = "last"]
    <3>1. main' = [pc |-> "last", c |-> main.c, row |-> main.row, column |-> main.column,
                   line |-> main.line]
      BY <2>2, MainRecord DEF TerminalInv
    <3>2. "last" \in Labels
      BY DEF Labels
    <3> QED BY <3>1, <3>2, InvParts, MainType DEF TerminalInv
  <2> QED BY <1>1, <2>1, <2>2
<1>5. TypeOK'
  BY <1>1, <1>3, <1>4, InvParts, TypeFrom DEF TerminalInv
<1>6. WritesLetter' /\ (~strayed' => CursorInv')
  BY <1>1, <1>4 DEF WritesLetter, CursorInv, TerminalInv
<1> QED BY <1>5, <1>6 DEF TerminalInv

LEMMA LastRowStep ==
  ASSUME TerminalInv, LastRowAgain
  PROVE  TerminalInv'
<1>1. /\ main.pc = "last" /\ UNCHANGED <<column, cells, strayed>> /\ HistoryType'
      /\ main' = Idle /\ row' = LastRow
  BY HistoryStep DEF LastRowAgain, Return, TerminalInv
<1>2. TypeOK'
  BY <1>1, IdleType, InvParts, Sizes, TypeFrom DEF TerminalInv
<1>3. LastRow < VGA_HEIGHT
  BY Sizes
<1>4. WritesLetter' /\ (~strayed' => CursorInv')
  BY <1>1, <1>3, IdleType DEF WritesLetter, CursorInv, OnScreen, TerminalInv
<1> QED BY <1>2, <1>4 DEF TerminalInv

(* terminal_initialize *)
LEMMA ClearStep ==
  ASSUME TerminalInv, Clear
  PROVE  TerminalInv'
<1>1. /\ main.pc = "idle" /\ UNCHANGED <<column, cells, strayed>> /\ HistoryType'
      /\ main' = [Idle EXCEPT !.pc = "home"] /\ row' = 0
  BY HistoryStart DEF Clear, Start, Idle, TerminalInv
<1>2. main' = [pc |-> "home", c |-> "clear", row |-> 0, column |-> 0, line |-> 0]
  BY <1>1 DEF Idle
<1>3. "home" \in Labels /\ 0 \in 0 .. Word - 1 /\ 0 \in 0 .. LastRow
  BY Sizes DEF Labels
<1>4. main' \in Registers
  BY <1>2, <1>3, MainType
<1>5. TypeOK'
  BY <1>1, <1>3, <1>4, InvParts, TypeFrom DEF TerminalInv
<1>6. WritesLetter' /\ (~strayed' => CursorInv')
  BY <1>1, <1>2, Sizes DEF WritesLetter, CursorInv, OnScreen, TerminalInv
<1> QED BY <1>5, <1>6 DEF TerminalInv

LEMMA HomeStep ==
  ASSUME TerminalInv, Home
  PROVE  TerminalInv'
<1>1. /\ main.pc = "home" /\ UNCHANGED <<row, cells, strayed>> /\ HistoryType'
      /\ main' = [main EXCEPT !.pc = "blank"] /\ column' = 0
  BY HistoryStep DEF Home, Step, At, TerminalInv
<1>2. main' = [pc |-> "blank", c |-> main.c, row |-> main.row, column |-> main.column,
               line |-> main.line]
  BY <1>1, MainRecord DEF TerminalInv
<1>3. main' \in Registers
  <2>1. "blank" \in Labels
    BY DEF Labels
  <2> QED BY <1>2, <2>1, InvParts, MainType DEF TerminalInv
<1>4. TypeOK'
  BY <1>1, <1>3, InvParts, Sizes, TypeFrom DEF TerminalInv
<1>5. WritesLetter' /\ (~strayed' => CursorInv')
  BY <1>1, <1>2, Sizes DEF WritesLetter, CursorInv, OnScreen, TerminalInv
<1> QED BY <1>4, <1>5 DEF TerminalInv

LEMMA ClearLineStep ==
  ASSUME TerminalInv, ClearLine
  PROVE  TerminalInv'
<1>1. /\ main.pc = "blank" /\ UNCHANGED <<row, column, strayed>> /\ HistoryType'
      /\ \/ main.line < LastRow /\ main' = [main EXCEPT !.line = @ + 1]
         \/ main' = Idle
      /\ cells' = BlankRow(cells, main.line)
  BY HistoryStep DEF ClearLine, Step, Return, TerminalInv
<1>2. main.line \in 0 .. LastRow /\ cells' \in Screens
  BY <1>1, InvParts, BlankRowType DEF TerminalInv
<1>3. main' \in Registers /\ main'.pc \in {"blank", "idle"}
  <2>1. CASE main.line < LastRow /\ main' = [main EXCEPT !.line = @ + 1]
    <3>1. main' = [pc |-> "blank", c |-> main.c, row |-> main.row, column |-> main.column,
                   line |-> main.line + 1]
      BY <1>1, <2>1, MainRecord DEF TerminalInv
    <3>2. "blank" \in Labels /\ main.line + 1 \in 0 .. LastRow
      BY <1>2, <2>1, Sizes DEF Labels
    <3> QED BY <3>1, <3>2, InvParts, MainType DEF TerminalInv
  <2>2. CASE main' = Idle
    BY <2>2, IdleType
  <2> QED BY <1>1, <2>1, <2>2
<1>4. TypeOK'
  BY <1>1, <1>2, <1>3, InvParts, TypeFrom DEF TerminalInv
<1>5. WritesLetter' /\ (~strayed' => CursorInv')
  BY <1>1, <1>3 DEF WritesLetter, CursorInv, OnScreen, TerminalInv
<1> QED BY <1>4, <1>5 DEF TerminalInv

-----------------------------------------------------------------------------
(* The theorems *)

LEMMA InitInv == Init => TerminalInv
<1> SUFFICES ASSUME Init PROVE TerminalInv
  OBVIOUS
<1>1. /\ row = 0 /\ column = 0 /\ cells = Blank /\ main = Idle
      /\ raced = FALSE /\ strayed = FALSE
      /\ pages = {FirstPage} /\ printed = pages /\ used = 0
  BY DEF Init
<1>2. cells \in [0 .. Size - 1 -> Chars]
  BY <1>1 DEF Blank, Chars
<1>3. pages \subseteq Page /\ printed \subseteq Page /\ used \in 0 .. MaxChars
  BY <1>1, FirstPageType, TerminalAssumption
<1>4. TypeOK
  BY <1>1, <1>2, <1>3, IdleType, Sizes DEF TypeOK, Registers
<1>5. WritesLetter /\ CursorInv
  BY <1>1, IdleType, Sizes DEF WritesLetter, CursorInv, OnScreen
<1> QED BY <1>4, <1>5 DEF TerminalInv

LEMMA NextInv == TerminalInv /\ Next => TerminalInv'
BY KeyStep, LoadStep, WriteStep, StoreColumnStep, ZeroColumnStep, StoreRowStep, ScrollLineStep,
   LastRowStep, ClearStep, HomeStep, ClearLineStep DEF Next

(* The cursor, the registers and the screen, between any two accesses. *)
THEOREM ScreenInvariant == Spec => []TerminalInv
<1>1. TerminalInv /\ UNCHANGED vars => TerminalInv'
  BY DEF vars, TerminalInv, TypeOK, WritesLetter, CursorInv, OnScreen
<1>2. TerminalInv /\ [Next]_vars => TerminalInv'
  BY <1>1, NextInv
<1> QED BY <1>2, InitInv, PTL DEF Spec

(* Whatever is handled in the middle of terminal_putchar and
   terminal_initialize, the cursor is on the screen when they are over. *)
THEOREM CursorStaysOnScreen == Spec => []CursorOnScreen
<1>1. TerminalInv => CursorOnScreen
  BY DEF TerminalInv, CursorInv, OnScreen, CursorOnScreen
<1> QED BY <1>1, ScreenInvariant, PTL

-----------------------------------------------------------------------------
(* Cells and rows *)

(* The cell of a row and a column, and back. *)
LEMMA CellOf ==
  ASSUME NEW r \in Int, NEW q \in 0 .. VGA_WIDTH - 1
  PROVE  /\ r * VGA_WIDTH + q \in Int
         /\ (r * VGA_WIDTH + q) \div VGA_WIDTH = r
<1> DEFINE n == r * VGA_WIDTH + q
           d == n \div VGA_WIDTH
           m == n % VGA_WIDTH
<1>1. n \in Int
  BY Sizes
<1>2. n = VGA_WIDTH * d + m /\ d \in Int /\ m \in 0 .. VGA_WIDTH - 1
  BY <1>1, Sizes
<1>3. n = r * VGA_WIDTH + q
  OBVIOUS
<1> HIDE DEF n, d, m
<1>4. VGA_WIDTH * (d - r) = q - m
  BY <1>2, <1>3, Sizes
<1>5. ASSUME d - r >= 1
      PROVE  FALSE
  <2>1. VGA_WIDTH * (d - r - 1) >= 0
    BY <1>2, <1>5, Sizes
  <2>2. VGA_WIDTH * (d - r - 1) = VGA_WIDTH * (d - r) - VGA_WIDTH
    BY <1>2, Sizes
  <2> QED BY <1>2, <1>4, <2>1, <2>2, Sizes
<1>6. ASSUME r - d >= 1
      PROVE  FALSE
  <2>1. VGA_WIDTH * (r - d - 1) >= 0
    BY <1>2, <1>6, Sizes
  <2>2. VGA_WIDTH * (r - d - 1) = 0 - VGA_WIDTH * (d - r) - VGA_WIDTH
    BY <1>2, Sizes
  <2> QED BY <1>2, <1>4, <2>1, <2>2, Sizes
<1>7. d = r
  BY <1>2, <1>5, <1>6
<1> QED BY <1>1, <1>7 DEF n, d

LEMMA RowBelow ==
  ASSUME NEW i \in Int
  PROVE  (i + VGA_WIDTH) \div VGA_WIDTH = i \div VGA_WIDTH + 1
<1> DEFINE d == i \div VGA_WIDTH
           m == i % VGA_WIDTH
<1>1. i = VGA_WIDTH * d + m /\ d \in Int /\ m \in 0 .. VGA_WIDTH - 1
  BY Sizes
<1> HIDE DEF d, m
<1>2. i + VGA_WIDTH = (d + 1) * VGA_WIDTH + m
  BY <1>1, Sizes
<1>3. (i + VGA_WIDTH) \div VGA_WIDTH = d + 1
  BY <1>1, <1>2, CellOf
<1> QED BY <1>3 DEF d

(* A cursor on the screen is at one of its cells. *)
LEMMA CellOnScreen ==
  ASSUME NEW r \in 0 .. LastRow, NEW q \in 0 .. VGA_WIDTH - 1
  PROVE  /\ r * VGA_WIDTH + q \in 0 .. Size - 1
         /\ (r * VGA_WIDTH + q) % Word = r * VGA_WIDTH + q
         /\ (r + 1) * VGA_WIDTH = r * VGA_WIDTH + VGA_WIDTH
         /\ (r + 1) * VGA_WIDTH <= Size
<1>1. VGA_WIDTH \in Nat /\ VGA_HEIGHT \in Nat /\ r \in Nat /\ r + 1 <= VGA_HEIGHT
  BY Sizes
<1>2. VGA_WIDTH * (VGA_HEIGHT - (r + 1)) >= 0 /\ r * VGA_WIDTH >= 0
  BY <1>1
<1>3. VGA_WIDTH * (VGA_HEIGHT - (r + 1)) = VGA_WIDTH * VGA_HEIGHT - (r + 1) * VGA_WIDTH
  BY <1>1
<1>4. (r + 1) * VGA_WIDTH = r * VGA_WIDTH + VGA_WIDTH
  BY <1>1
<1>5. r * VGA_WIDTH + q \in 0 .. Size - 1 /\ (r + 1) * VGA_WIDTH <= Size
  BY <1>1, <1>2, <1>3, <1>4 DEF Size
<1>6. Size <= Word - 1 /\ Size \in Nat /\ Word \in Nat
  BY TerminalAssumption, Sizes
<1>7. r * VGA_WIDTH + q \in 0 .. Word - 1
  <2> DEFINE n == r * VGA_WIDTH + q
  <2>1. n \in 0 .. Size - 1
    BY <1>5
  <2> HIDE DEF n
  <2>2. n \in 0 .. Word - 1
    BY <1>6, <2>1
  <2> QED BY <2>2 DEF n
<1> QED BY <1>4, <1>5, <1>7, WordMod

LEMMA LastRowSize == LastRow * VGA_WIDTH + VGA_WIDTH = Size /\ VGA_HEIGHT * VGA_WIDTH = Size
<1>1. VGA_WIDTH \in Nat /\ VGA_HEIGHT \in Nat
  BY Sizes
<1> QED BY <1>1 DEF Size, LastRow

-----------------------------------------------------------------------------
(* The page, seen from the window that the screen shows *)

(* Where a character moves a cursor that is on the screen, as a cell. *)
NextCell(c, r, q) ==
  CASE c = "newline"   -> (r + 1) * VGA_WIDTH
    [] c = "tab"       -> r * VGA_WIDTH + q + 4 - (r % 4)
    [] c = "backspace" -> r * VGA_WIDTH + q - 1
    [] OTHER           -> r * VGA_WIDTH + q + 1

NextInk(page, c) ==
  CASE c \in {"newline", "tab"} -> page.ink
    [] c = "backspace"          -> [page.ink EXCEPT ![page.at - 1] = "NUL"]
    [] OTHER                    -> [page.ink EXCEPT ![page.at] = c]

LEMMA PutFields ==
  ASSUME NEW page \in Page, NEW c, c # "clear",
         NEW r \in 0 .. LastRow, NEW q \in 0 .. VGA_WIDTH - 1,
         page.at - page.top = r * VGA_WIDTH + q
  PROVE  LET put == PutOnPage(page, c)
             next == NextCell(c, r, q)
         IN  /\ next \in Int
             /\ put.at = page.top + next
             /\ put.top = IF next >= Size THEN page.top + VGA_WIDTH ELSE page.top
             /\ put.ink = NextInk(page, c)
<1> DEFINE n == r * VGA_WIDTH + q
           line == (page.at - page.top) \div VGA_WIDTH
<1>1. page.at \in Int /\ page.top \in Int /\ page.at - page.top = n /\ n \in Int
  BY CellOnScreen DEF Page
<1>2. line = r /\ r \in Nat
  BY CellOf, Sizes
<1>3. (r + 1) * VGA_WIDTH \in Int /\ r % 4 \in 0 .. 3 /\ Size \in Int /\ VGA_WIDTH \in Int
  BY <1>2, Sizes
<1>4. PutOnPage(page, c) =
        CASE c = "newline"   -> Goto(page, page.top + (r + 1) * VGA_WIDTH)
          [] c = "tab"       -> Goto(page, page.at + 4 - (r % 4))
          [] c = "backspace" -> [Goto(page, page.at - 1) EXCEPT !.ink[page.at - 1] = "NUL"]
          [] OTHER           -> [Goto(page, page.at + 1) EXCEPT !.ink[page.at] = c]
  BY <1>2 DEF PutOnPage
<1> DEFINE put == PutOnPage(page, c)
           next == NextCell(c, r, q)
           Goal == /\ next \in Int
                   /\ put.at = page.top + next
                   /\ put.top = IF next >= Size THEN page.top + VGA_WIDTH ELSE page.top
                   /\ put.ink = NextInk(page, c)
<1> SUFFICES Goal
  OBVIOUS
<1> HIDE DEF line, put, next
<1>5. ASSUME NEW m \in Int, next = m, put.at = page.top + m,
             put.top = Goto(page, page.top + m).top, put.ink = NextInk(page, c)
      PROVE  Goal
  <2>1. put.top = IF page.top + m >= page.top + Size THEN page.top + VGA_WIDTH ELSE page.top
    <3>1. page.top + m \in Int
      BY <1>1, <1>5
    <3> HIDE DEF Goal
    <3> QED BY <1>5, <3>1, GotoType
  <2> QED BY <1>1, <1>3, <1>5, <2>1
<1>6. CASE c = "newline"
  <2> DEFINE w == (r + 1) * VGA_WIDTH
  <2>1. put = Goto(page, page.top + w) /\ next = w /\ NextInk(page, c) = page.ink
    BY <1>4, <1>6 DEF NextCell, NextInk, put, next
  <2>2. w \in Int /\ page.top + w \in Int
    BY <1>1, <1>3
  <2> HIDE DEF w, Goal
  <2> QED BY <1>5, <2>1, <2>2, GotoType
<1>7. CASE c = "tab"
  <2> DEFINE w == n + 4 - (r % 4)
  <2>1. put = Goto(page, page.at + 4 - (r % 4)) /\ next = w /\ NextInk(page, c) = page.ink
    BY <1>4, <1>7 DEF NextCell, NextInk, put, next
  <2>2. w \in Int /\ page.at + 4 - (r % 4) = page.top + w /\ page.top + w \in Int
    <3> HIDE DEF n
    <3> QED BY <1>1, <1>3
  <2> HIDE DEF w, Goal
  <2> QED BY <1>5, <2>1, <2>2, GotoType
<1>8. CASE c = "backspace"
  <2> DEFINE w == n - 1
             there == Goto(page, page.at - 1)
  <2>1. put = [there EXCEPT !.ink[page.at - 1] = "NUL"] /\ next = w
    <3>1. next = w
      BY <1>2, <1>8, Sizes DEF NextCell, next
    <3>2. put = [Goto(page, page.at - 1) EXCEPT !.ink[page.at - 1] = "NUL"]
      BY <1>4, <1>8, Zenon DEF put
    <3> QED BY <3>1, <3>2
  <2>2. w \in Int /\ page.at - 1 = page.top + w /\ page.top + w \in Int
    <3> HIDE DEF n
    <3> QED BY <1>1, <1>3
  <2>3. there \in Page /\ there.at = page.top + w /\ there.ink = page.ink
        /\ there.top = Goto(page, page.top + w).top
    BY <2>2, GotoType
  <2> HIDE DEF w, there, Goal
  <2>4. put.at = there.at /\ put.top = there.top /\ put.ink = [page.ink EXCEPT ![page.at - 1] = "NUL"]
    BY <2>1, <2>3 DEF Page
  <2>5. NextInk(page, c) = [page.ink EXCEPT ![page.at - 1] = "NUL"]
    BY <1>8 DEF NextInk
  <2> QED BY <1>5, <2>1, <2>2, <2>3, <2>4, <2>5
<1>9. CASE c \notin {"newline", "tab", "backspace"}
  <2> DEFINE w == n + 1
             there == Goto(page, page.at + 1)
  <2>1. put = [there EXCEPT !.ink[page.at] = c] /\ next = w
    BY <1>4, <1>9 DEF NextCell, put, next
  <2>2. w \in Int /\ page.at + 1 = page.top + w /\ page.top + w \in Int
    <3> HIDE DEF n
    <3> QED BY <1>1, <1>3
  <2>3. there \in Page /\ there.at = page.top + w /\ there.ink = page.ink
        /\ there.top = Goto(page, page.top + w).top
    BY <2>2, GotoType
  <2> HIDE DEF w, there, Goal
  <2>4. put.at = there.at /\ put.top = there.top /\ put.ink = [page.ink EXCEPT ![page.at] = c]
    BY <2>1, <2>3 DEF Page
  <2>5. NextInk(page, c) = [page.ink EXCEPT ![page.at] = c]
    BY <1>9 DEF NextInk
  <2> QED BY <1>5, <2>1, <2>2, <2>3, <2>4, <2>5
<1> HIDE DEF Goal
<1> QED BY <1>6, <1>7, <1>8, <1>9

(* The cursor that the code computes for a key is at the page's next cell. *)
LEMMA NextCursor ==
  ASSUME NEW c \in KeyChars, NEW r \in 0 .. LastRow, NEW q \in 0 .. VGA_WIDTH - 1,
         ~Strays(c, [row |-> r, column |-> q])
  PROVE  LET to == Wrapped(Moved(c, [row |-> r, column |-> q]))
         IN  /\ to.row \in 0 .. VGA_HEIGHT /\ to.column \in 0 .. VGA_WIDTH - 1
             /\ NextCell(c, r, q) = to.row * VGA_WIDTH + to.column
<1> DEFINE at == [row |-> r, column |-> q]
           to == Wrapped(Moved(c, at))
           Goal == /\ to.row \in 0 .. VGA_HEIGHT /\ to.column \in 0 .. VGA_WIDTH - 1
                   /\ NextCell(c, r, q) = to.row * VGA_WIDTH + to.column
<1>1. /\ r \in Nat /\ q \in Nat /\ r + 1 <= VGA_HEIGHT /\ r + 1 < Word /\ q + 1 < Word
      /\ VGA_WIDTH \in Nat \ {0} /\ VGA_HEIGHT \in Nat /\ Word \in Nat
      /\ VGA_WIDTH < Word /\ VGA_HEIGHT < Word /\ r % 4 \in 0 .. 3
  BY Sizes
<1>2. /\ (r + 1) * VGA_WIDTH = r * VGA_WIDTH + VGA_WIDTH /\ r * VGA_WIDTH \in Int
      /\ (r - 1) * VGA_WIDTH = r * VGA_WIDTH - VGA_WIDTH
  BY <1>1
<1>3. (r + 1) % Word = r + 1 /\ (q + 1) % Word = q + 1
  BY <1>1, WordMod
<1>4. CASE c = "newline"
  <2>1. to = [row |-> r + 1, column |-> 0]
    BY <1>1, <1>3, <1>4 DEF Moved, Wrapped
  <2> QED BY <1>1, <1>2, <1>4, <2>1 DEF NextCell
<1>5. CASE c = "tab"
  <2> DEFINE p == q + 4 - (r % 4)
  <2>1. p \in 0 .. VGA_WIDTH
    BY <1>1, <1>5 DEF Strays
  <2>2. p % Word = p
    BY <1>1, <2>1, WordMod
  <2>3. Moved(c, at) = [row |-> r, column |-> p]
    BY <1>5, <2>2 DEF Moved
  <2>4. NextCell(c, r, q) = r * VGA_WIDTH + p
    BY <1>1, <1>2, <1>5 DEF NextCell
  <2> HIDE DEF p
  <2>5. to = IF p = VGA_WIDTH THEN [row |-> r + 1, column |-> 0] ELSE [row |-> r, column |-> p]
    BY <1>3, <2>3 DEF Wrapped
  <2> QED BY <1>1, <1>2, <2>1, <2>4, <2>5
<1>6. CASE c = "backspace"
  <2>1. q = 0 => r # 0
    BY <1>6 DEF Strays
  <2>2. Moved(c, at) = IF q = 0 THEN [row |-> r - 1, column |-> VGA_WIDTH - 1]
                                ELSE [row |-> r, column |-> q - 1]
    BY <1>1, <1>6, <2>1, WordMod DEF Moved
  <2>3. to = Moved(c, at)
    BY <1>1, <2>2 DEF Wrapped
  <2>4. NextCell(c, r, q) = r * VGA_WIDTH + q - 1
    BY <1>6 DEF NextCell
  <2>5. CASE q = 0
    <3>1. to.row = r - 1 /\ to.column = VGA_WIDTH - 1
      BY <2>2, <2>3, <2>5
    <3> HIDE DEF to
    <3>2. Goal
      BY <1>1, <1>2, <2>1, <2>4, <2>5, <3>1
    <3> QED BY <3>2 DEF to
  <2>6. CASE q # 0
    <3>1. to.row = r /\ to.column = q - 1
      BY <2>2, <2>3, <2>6
    <3> HIDE DEF to
    <3>2. Goal
      BY <1>1, <1>2, <2>1, <2>4, <2>6, <3>1
    <3> QED BY <3>2 DEF to
  <2> QED BY <2>5, <2>6
<1>7. CASE c \notin {"newline", "tab", "backspace"}
  <2>1. Moved(c, at) = [row |-> r, column |-> q + 1]
    BY <1>3, <1>7 DEF Moved
  <2>2. to = IF q + 1 = VGA_WIDTH THEN [row |-> r + 1, column |-> 0]
                                  ELSE [row |-> r, column |-> q + 1]
    BY <1>3, <2>1 DEF Wrapped
  <2>3. NextCell(c, r, q) = r * VGA_WIDTH + q + 1
    BY <1>7 DEF NextCell
  <2>4. \/ q + 1 = VGA_WIDTH /\ to.row = r + 1 /\ to.column = 0
        \/ q + 1 # VGA_WIDTH /\ to.row = r /\ to.column = q + 1
    BY <2>2
  <2> HIDE DEF to
  <2>5. Goal
    BY <1>1, <1>2, <2>3, <2>4
  <2> QED BY <2>5 DEF to
<1> QED BY <1>4, <1>5, <1>6, <1>7

(* A cell has a cell under it unless it is in the last row. *)
LEMMA LastRowCell ==
  ASSUME NEW i \in 0 .. Size - 1
  PROVE  i \div VGA_WIDTH = LastRow <=> i + VGA_WIDTH >= Size
<1>1. i \div VGA_WIDTH \in 0 .. LastRow /\ LastRow \in Int /\ Size \in Int
  BY RowOfCell, Sizes
<1>2. ASSUME i \div VGA_WIDTH = LastRow
      PROVE  i + VGA_WIDTH >= Size
  <2>1. i = VGA_WIDTH * LastRow + (i % VGA_WIDTH) /\ i % VGA_WIDTH \in 0 .. VGA_WIDTH - 1
    BY <1>2, Sizes
  <2> QED BY <2>1, LastRowSize, Sizes
<1>3. ASSUME i \div VGA_WIDTH # LastRow
      PROVE  i + VGA_WIDTH < Size
  <2>1. i + VGA_WIDTH \in 0 .. Size - 1
    BY <1>1, <1>3, CellBelow
  <2> QED BY <2>1, Sizes
<1> QED BY <1>1, <1>2, <1>3, Sizes

CursorAt(page, r, q) == page.at - page.top = r * VGA_WIDTH + q

LEMMA PlacedFirst == ASSUME NEW n \in Nat PROVE Placed(FirstPage, n)
<1>1. VGA_WIDTH * n \in Nat /\ Size - 1 \in Nat
  <2>1. VGA_WIDTH \in Nat /\ VGA_HEIGHT \in Nat /\ VGA_WIDTH > 0 /\ VGA_HEIGHT > 0
    BY Sizes
  <2>2. VGA_WIDTH * VGA_HEIGHT > 0
    BY <2>1
  <2> QED BY <2>1, <2>2 DEF Size
<1>2. ASSUME NEW k \in Size .. Extent - 1
      PROVE  FirstPage.ink[k] = " "
  <2>1. k \in 0 .. Extent - 1
    BY Sizes, ExtentSize
  <2> QED BY <2>1 DEF FirstPage
<1>3. FirstPage.at = 0 /\ FirstPage.top = 0
  BY DEF FirstPage
<1>4. /\ FirstPage.top >= 0 /\ FirstPage.top <= VGA_WIDTH * n
      /\ FirstPage.at - FirstPage.top \in 0 .. Size - 1 /\ FirstPage.top + Size = Size
  BY <1>1, <1>3, Sizes
<1> QED BY <1>2, <1>4, Zenon DEF Placed

(* The window of a page that n characters have made is a part of it. *)
LEMMA Window ==
  ASSUME NEW page \in Page, NEW n \in 0 .. MaxChars, Placed(page, n)
  PROVE  /\ page.top \in Nat /\ page.at \in Int /\ page.at \in 0 .. Extent - 1
         /\ page.top + Size <= Extent /\ page.at < page.top + Size
         /\ page.ink \in [0 .. Extent - 1 -> Chars]
<1>1. page.at \in Int /\ page.top \in Int /\ page.ink \in [0 .. Extent - 1 -> Chars]
  BY DEF Page
<1>2. VGA_WIDTH * n \in Int /\ VGA_WIDTH * n + Size <= Extent /\ Size \in Nat /\ Extent \in Nat
  BY ExtentSize, Sizes
<1>3. page.top >= 0 /\ page.top <= VGA_WIDTH * n /\ page.at - page.top \in 0 .. Size - 1
  BY DEF Placed
<1>4. page.top \in Nat /\ page.top + Size <= Extent /\ page.at < page.top + Size /\ page.at >= page.top
  BY <1>1, <1>2, <1>3
<1> QED BY <1>1, <1>2, <1>4

(* The window follows a cursor that goes at most one row beyond it. *)
LEMMA WindowMoves ==
  ASSUME NEW top \in Nat, NEW bound \in Int, top <= bound,
         NEW next \in 0 .. Size + VGA_WIDTH - 1, NEW up,
         up = IF next >= Size THEN top + VGA_WIDTH ELSE top
  PROVE  /\ up \in Nat /\ up >= top /\ up <= bound + VGA_WIDTH
         /\ (top + next) - up \in 0 .. Size - 1
<1>1. VGA_WIDTH \in Nat \ {0} /\ Size \in Nat /\ VGA_WIDTH <= Size
  <2>1. 0 \in 0 .. LastRow /\ 0 \in 0 .. VGA_WIDTH - 1
    BY Sizes
  <2>2. (0 + 1) * VGA_WIDTH <= Size
    BY <2>1, CellOnScreen
  <2> QED BY <2>2, Sizes
<1>2. CASE next >= Size
  BY <1>1, <1>2
<1>3. CASE ~(next >= Size)
  BY <1>1, <1>3
<1> QED BY <1>2, <1>3

LEMMA BeyondWindow ==
  ASSUME NEW top \in Nat, NEW at \in Int, at < top + Size,
         NEW k \in top + Size .. Extent - 1
  PROVE  k # at /\ k # at - 1 /\ k \in 0 .. Extent - 1
BY Sizes, ExtentSize

LEMMA WidthTimes ==
  ASSUME NEW n \in Int
  PROVE  VGA_WIDTH * n \in Int /\ VGA_WIDTH * (n + 1) = VGA_WIDTH * n + VGA_WIDTH
BY Sizes

LEMMA HigherWindow ==
  ASSUME NEW top \in Nat, NEW up \in Nat, up >= top, NEW k \in up + Size .. Extent - 1
  PROVE  k \in top + Size .. Extent - 1
BY Sizes, ExtentSize

(* A screen that shows the window of a page from top on. *)
Same(screen, ink, top) == \A i \in 0 .. Size - 1 : screen[i] = ink[top + i]

(* Nothing is written under the window. *)
Under(ink, top) == \A k \in top + Size .. Extent - 1 : ink[k] = " "

(* Two functions that agree on a window, changed at the same place of it. *)
LEMMA SameChange ==
  ASSUME NEW ink, NEW top \in Nat, top + Size <= Extent, DOMAIN ink = 0 .. Extent - 1,
         NEW screen, DOMAIN screen = 0 .. Size - 1,
         Same(screen, ink, top), NEW cell \in 0 .. Size - 1, NEW c, NEW p, p = top + cell
  PROVE  Same([screen EXCEPT ![cell] = c], [ink EXCEPT ![p] = c], top)
<1> SUFFICES ASSUME NEW i \in 0 .. Size - 1
             PROVE  [screen EXCEPT ![cell] = c][i] = [ink EXCEPT ![p] = c][top + i]
  BY DEF Same
<1>1. top + i \in 0 .. Extent - 1 /\ (top + i = p <=> i = cell)
  BY Sizes, ExtentSize
<1>2. [screen EXCEPT ![cell] = c][i] = IF i = cell THEN c ELSE screen[i]
  OBVIOUS
<1>3. [ink EXCEPT ![p] = c][top + i] = IF top + i = p THEN c ELSE ink[top + i]
  BY <1>1
<1>4. screen[i] = ink[top + i]
  BY DEF Same
<1> QED BY <1>1, <1>2, <1>3, <1>4

LEMMA PlacedPut ==
  ASSUME NEW page \in Page, NEW n \in Nat, n < MaxChars, Placed(page, n),
         NEW c, c # "clear", NEW r \in 0 .. LastRow, NEW q \in 0 .. VGA_WIDTH - 1,
         CursorAt(page, r, q),
         NextCell(c, r, q) \in 0 .. Size + VGA_WIDTH - 1
  PROVE  /\ Placed(PutOnPage(page, c), n + 1)
         /\ Under(NextInk(page, c), page.top)
<1> DEFINE put == PutOnPage(page, c)
           next == NextCell(c, r, q)
<1>1. /\ put.at = page.top + next
      /\ put.top = IF next >= Size THEN page.top + VGA_WIDTH ELSE page.top
      /\ put.ink = NextInk(page, c)
  BY PutFields DEF CursorAt
<1>2. next \in 0 .. Size + VGA_WIDTH - 1
  OBVIOUS
<1>3. n \in 0 .. MaxChars
  BY TerminalAssumption
<1>4. /\ page.top \in Nat /\ page.at \in Int /\ page.ink \in [0 .. Extent - 1 -> Chars]
      /\ page.at < page.top + Size
  BY <1>3, Window
<1>5. /\ page.top <= VGA_WIDTH * n /\ VGA_WIDTH * n \in Int
      /\ VGA_WIDTH * (n + 1) = VGA_WIDTH * n + VGA_WIDTH
  <2>1. page.top <= VGA_WIDTH * n
    BY Zenon DEF Placed
  <2> QED BY <2>1, WidthTimes
<1>6. ASSUME NEW k \in page.top + Size .. Extent - 1
      PROVE  NextInk(page, c)[k] = " "
  <2>1. page.ink[k] = " "
    BY DEF Placed
  <2>2. k # page.at /\ k # page.at - 1 /\ k \in 0 .. Extent - 1
    BY <1>4, BeyondWindow
  <2> QED BY <1>4, <2>1, <2>2 DEF NextInk
<1> HIDE DEF put, next
<1>7. /\ put.top \in Nat /\ put.top >= page.top /\ put.top <= VGA_WIDTH * (n + 1)
      /\ put.at - put.top \in 0 .. Size - 1
  <2> DEFINE bound == VGA_WIDTH * n
  <2>1. bound \in Int /\ page.top <= bound /\ VGA_WIDTH * (n + 1) = bound + VGA_WIDTH
    BY <1>5
  <2>2. put.top = IF next >= Size THEN page.top + VGA_WIDTH ELSE page.top
    BY <1>1
  <2> HIDE DEF bound
  <2>3. /\ put.top \in Nat /\ put.top >= page.top /\ put.top <= bound + VGA_WIDTH
        /\ (page.top + next) - put.top \in 0 .. Size - 1
    BY <1>2, <1>4, <2>1, <2>2, WindowMoves
  <2> QED BY <1>1, <2>1, <2>3
<1>8. ASSUME NEW k \in put.top + Size .. Extent - 1
      PROVE  put.ink[k] = " "
  <2>1. k \in page.top + Size .. Extent - 1
    BY <1>4, <1>7, HigherWindow
  <2> QED BY <1>1, <1>6, <2>1
<1>9. Placed(put, n + 1)
  <2>1. put.top >= 0
    BY <1>7
  <2> QED BY <1>7, <1>8, <2>1, Zenon DEF Placed
<1>10. Under(NextInk(page, c), page.top)
  BY <1>6 DEF Under
<1> QED BY <1>9, <1>10 DEF put

(* A backspace that does not stray erases the cell before the cursor. *)
LEMMA BackspaceCell ==
  ASSUME NEW r \in 0 .. LastRow, NEW q \in 0 .. VGA_WIDTH - 1,
         ~Strays("backspace", [row |-> r, column |-> q])
  PROVE  LET to == Moved("backspace", [row |-> r, column |-> q])
             cell == r * VGA_WIDTH + q
         IN  /\ to.row * VGA_WIDTH + to.column = cell - 1
             /\ cell - 1 \in 0 .. Size - 1 /\ (cell - 1) % Word = cell - 1
<1> DEFINE to == Moved("backspace", [row |-> r, column |-> q])
           cell == r * VGA_WIDTH + q
<1>1. q = 0 => r # 0
  BY DEF Strays
<1>2. /\ r \in Nat /\ r - 1 \in Int /\ q \in Nat /\ VGA_WIDTH \in Nat \ {0} /\ Word \in Nat
      /\ LastRow \in Nat /\ LastRow + 1 < Word /\ r <= LastRow
  BY Sizes
<1>3. CASE q = 0
  <2>1. r - 1 \in 0 .. LastRow /\ r - 1 \in 0 .. Word - 1
    BY <1>1, <1>2, <1>3
  <2>2. (r - 1) % Word = r - 1
    BY <1>2, <2>1, WordMod
  <2>3. to.row = r - 1 /\ to.column = VGA_WIDTH - 1
    BY <1>3, <2>2 DEF Moved
  <2>4. (r - 1) * VGA_WIDTH + (VGA_WIDTH - 1) = cell - 1
    BY <1>2, <1>3
  <2>5. VGA_WIDTH - 1 \in 0 .. VGA_WIDTH - 1
    BY <1>2
  <2>6. /\ (r - 1) * VGA_WIDTH + (VGA_WIDTH - 1) \in 0 .. Size - 1
        /\ ((r - 1) * VGA_WIDTH + (VGA_WIDTH - 1)) % Word = (r - 1) * VGA_WIDTH + (VGA_WIDTH - 1)
    BY <2>1, <2>5, CellOnScreen
  <2> HIDE DEF to, cell
  <2>7. /\ to.row * VGA_WIDTH + to.column = cell - 1
        /\ cell - 1 \in 0 .. Size - 1 /\ (cell - 1) % Word = cell - 1
    BY <2>3, <2>4, <2>6
  <2> QED BY <2>7 DEF to, cell
<1>4. CASE q # 0
  <2>1. q - 1 \in 0 .. VGA_WIDTH - 1
    BY <1>2, <1>4
  <2>2. to.row = r /\ to.column = q - 1
    BY <1>4 DEF Moved
  <2>3. r * VGA_WIDTH + (q - 1) = cell - 1
    BY <1>2
  <2>4. /\ r * VGA_WIDTH + (q - 1) \in 0 .. Size - 1
        /\ (r * VGA_WIDTH + (q - 1)) % Word = r * VGA_WIDTH + (q - 1)
    BY <2>1, CellOnScreen
  <2> HIDE DEF to, cell
  <2>5. /\ to.row * VGA_WIDTH + to.column = cell - 1
        /\ cell - 1 \in 0 .. Size - 1 /\ (cell - 1) % Word = cell - 1
    BY <2>2, <2>3, <2>4
  <2> QED BY <2>5 DEF to, cell
<1> QED BY <1>3, <1>4

LEMMA CursorCell ==
  ASSUME NEW page \in Page, NEW r \in 0 .. LastRow, NEW q \in 0 .. VGA_WIDTH - 1,
         CursorAt(page, r, q)
  PROVE  page.at = page.top + (r * VGA_WIDTH + q) /\ page.at - 1 = page.top + ((r * VGA_WIDTH + q) - 1)
<1> DEFINE cell == r * VGA_WIDTH + q
<1>1. page.at - page.top = cell /\ cell \in Int
  BY CellOnScreen DEF CursorAt
<1> HIDE DEF cell
<1>2. page.at = page.top + cell /\ page.at - 1 = page.top + (cell - 1)
  BY <1>1 DEF Page
<1> QED BY <1>2 DEF cell

(* What terminal_putentryat writes is what the page gains. *)
LEMMA DrawnShows ==
  ASSUME cells \in Screens, NEW page \in Page, NEW n \in 0 .. MaxChars, Placed(page, n),
         Same(cells, page.ink, page.top),
         NEW c \in MainChars \cup KeyChars, c # "clear",
         NEW r \in 0 .. LastRow, NEW q \in 0 .. VGA_WIDTH - 1, CursorAt(page, r, q),
         NEW at, at.row = r, at.column = q,
         c = "backspace" => at = [row |-> r, column |-> q] /\ ~Strays(c, at)
  PROVE  Same(Drawn(c, at), NextInk(page, c), page.top)
<1> DEFINE cell == r * VGA_WIDTH + q
<1>1. /\ cell \in 0 .. Size - 1 /\ cell % Word = cell /\ cell < Size
      /\ page.at = page.top + cell /\ page.at - 1 = page.top + (cell - 1)
  <2>1. cell \in 0 .. Size - 1 /\ cell % Word = cell
    BY CellOnScreen
  <2>2. cell < Size
    <3> HIDE DEF cell
    <3> QED BY <2>1, Sizes
  <2> QED BY <2>1, <2>2, CursorCell
<1>2. /\ page.top \in Nat /\ page.top + Size <= Extent
      /\ DOMAIN page.ink = 0 .. Extent - 1 /\ DOMAIN cells = 0 .. Size - 1
  BY Window DEF Screens
<1>3. CASE Letter(c)
  <2>1. /\ Drawn(c, at) = PutEntryAt(cells, c, r, q)
        /\ NextInk(page, c) = [page.ink EXCEPT ![page.at] = c]
    BY <1>3 DEF Drawn, NextInk, Letter
  <2>2. Drawn(c, at) = [cells EXCEPT ![cell] = c]
    BY <1>1, <2>1, Zenon DEF PutEntryAt
  <2> HIDE DEF cell
  <2>3. Same([cells EXCEPT ![cell] = c], [page.ink EXCEPT ![page.at] = c], page.top)
    BY <1>1, <1>2, SameChange
  <2> QED BY <2>1, <2>2, <2>3, Zenon
<1>4. CASE c = "backspace"
  <2> DEFINE to == Moved(c, at)
  <2>1. /\ to.row * VGA_WIDTH + to.column = cell - 1
        /\ cell - 1 \in 0 .. Size - 1 /\ (cell - 1) % Word = cell - 1
    BY <1>4, BackspaceCell
  <2>2. /\ Drawn(c, at) = PutEntryAt(cells, "NUL", to.row, to.column)
        /\ NextInk(page, c) = [page.ink EXCEPT ![page.at - 1] = "NUL"]
    BY <1>4 DEF Drawn, NextInk, Letter
  <2> HIDE DEF cell, to
  <2>3. cell - 1 < Size
    BY <2>1, Sizes
  <2>4. Drawn(c, at) = [cells EXCEPT ![cell - 1] = "NUL"]
    BY <2>1, <2>2, <2>3, Zenon DEF PutEntryAt
  <2>5. Same([cells EXCEPT ![cell - 1] = "NUL"], [page.ink EXCEPT ![page.at - 1] = "NUL"],
             page.top)
    BY <1>1, <1>2, <2>1, SameChange
  <2> QED BY <2>2, <2>4, <2>5, Zenon
<1>5. CASE c \in {"newline", "tab"}
  <2>1. Drawn(c, at) = cells /\ NextInk(page, c) = page.ink
    BY <1>5 DEF Drawn, NextInk, Letter
  <2> QED BY <2>1
<1> QED BY <1>3, <1>4, <1>5, TerminalAssumption

(* terminal_scroll shows the window one row further down. *)
LEMMA RowUncovered ==
  ASSUME NEW top \in Nat, top + VGA_WIDTH + Size <= Extent, NEW i \in 0 .. Size - 1
  PROVE  /\ i + VGA_WIDTH >= Size => top + VGA_WIDTH + i \in top + Size .. Extent - 1
         /\ top + (i + VGA_WIDTH) = top + VGA_WIDTH + i
BY Sizes, ExtentSize

LEMMA ScrolledShows ==
  ASSUME NEW screen \in Screens, NEW ink, NEW top \in Nat, top + VGA_WIDTH + Size <= Extent,
         Same(screen, ink, top), Under(ink, top)
  PROVE  Same(Scrolled(screen), ink, top + VGA_WIDTH)
<1> SUFFICES ASSUME NEW i \in 0 .. Size - 1
             PROVE  Scrolled(screen)[i] = ink[top + VGA_WIDTH + i]
  BY DEF Same
<1>1. i \in DOMAIN screen /\ i \div VGA_WIDTH \in 0 .. LastRow /\ LastRow \in Int
  BY Sizes, RowOfCell DEF Screens
<1>2. CASE i \div VGA_WIDTH = LastRow
  <2>1. Scrolled(screen)[i] = " "
    BY <1>1, <1>2 DEF Scrolled
  <2>2. i + VGA_WIDTH >= Size
    BY <1>2, LastRowCell
  <2>3. top + VGA_WIDTH + i \in top + Size .. Extent - 1
    BY <2>2, RowUncovered
  <2> QED BY <2>1, <2>3 DEF Under
<1>3. CASE i \div VGA_WIDTH # LastRow
  <2>1. Scrolled(screen)[i] = screen[i + VGA_WIDTH]
    BY <1>1, <1>3 DEF Scrolled
  <2>2. i + VGA_WIDTH \in 0 .. Size - 1
    BY <1>1, <1>3, CellBelow
  <2>3. screen[i + VGA_WIDTH] = ink[top + (i + VGA_WIDTH)]
    BY <2>2 DEF Same
  <2>4. top + (i + VGA_WIDTH) = top + VGA_WIDTH + i
    BY RowUncovered
  <2> QED BY <2>1, <2>3, <2>4
<1> QED BY <1>2, <1>3

-----------------------------------------------------------------------------
(* The screen shows the text, action by action *)

LEMMA ShowsParts ==
  ASSUME cells \in Screens, NEW page
  PROVE  Shows(page) <=> CursorAt(page, row, column) /\ Same(cells, page.ink, page.top)
<1>1. DOMAIN cells = 0 .. Size - 1
  BY DEF Screens
<1> QED BY <1>1, Zenon DEF Shows, CursorAt, Same

LEMMA ShowsPartsNext ==
  ASSUME cells' \in Screens, NEW page
  PROVE  Shows(page)' <=> CursorAt(page, row', column') /\ Same(cells', page.ink, page.top)
<1>1. DOMAIN cells' = 0 .. Size - 1
  BY DEF Screens
<1> QED BY <1>1, Zenon DEF Shows, CursorAt, Same

(* A key between two calls of the kernel. *)
LEMMA KeyShows ==
  ASSUME TypeOK, TypeOK', OnScreen, NEW c \in KeyChars, Key(c), ~strayed',
         NEW page \in Page, Placed(page, used), Shows(page)
  PROVE  Placed(PutOnPage(page, c), used + 1) /\ Shows(PutOnPage(page, c))'
<1> DEFINE at == [row |-> row, column |-> column]
           to == Wrapped(Moved(c, at))
           screen == Drawn(c, at)
           put == PutOnPage(page, c)
           next == NextCell(c, row, column)
<1>1. /\ used < MaxChars /\ column' = to.column
      /\ \/ to.row = VGA_HEIGHT /\ row' = LastRow /\ cells' = Scrolled(screen)
         \/ to.row # VGA_HEIGHT /\ row' = to.row /\ cells' = screen
      /\ strayed' = (strayed \/ Strays(c, at))
  BY Zenon DEF Key
<1>2. ~Strays(c, at)
  BY <1>1
<1>3. /\ row \in 0 .. LastRow /\ column \in 0 .. VGA_WIDTH - 1
      /\ used \in Nat /\ used \in 0 .. MaxChars /\ used + 1 \in 0 .. MaxChars
  BY <1>1, Sizes, TerminalAssumption DEF TypeOK, OnScreen
<1>4. cells \in Screens /\ cells' \in Screens
  BY DEF TypeOK, Screens
<1>5. CursorAt(page, row, column) /\ Same(cells, page.ink, page.top)
  BY <1>4, ShowsParts
<1>6. c # "clear" /\ c \in MainChars \cup KeyChars
  BY TerminalAssumption DEF Letter
<1>7. /\ to.row \in 0 .. VGA_HEIGHT /\ to.column \in 0 .. VGA_WIDTH - 1
      /\ next = to.row * VGA_WIDTH + to.column
  BY <1>2, <1>3, NextCursor
<1>8. /\ put.at = page.top + next
      /\ put.top = IF next >= Size THEN page.top + VGA_WIDTH ELSE page.top
      /\ put.ink = NextInk(page, c)
  BY <1>3, <1>5, <1>6, PutFields DEF CursorAt
<1>9. Same(screen, put.ink, page.top) /\ screen \in Screens
  <2>1. Same(screen, NextInk(page, c), page.top)
    BY <1>2, <1>3, <1>4, <1>5, <1>6, DrawnShows
  <2> QED BY <1>4, <1>6, <1>8, <2>1, DrawnType
<1>10. \/ /\ to.row = VGA_HEIGHT /\ next >= Size
          /\ next - VGA_WIDTH = LastRow * VGA_WIDTH + to.column
       \/ to.row # VGA_HEIGHT /\ next < Size
  <2> HIDE DEF to, next
  <2>1. CASE to.row = VGA_HEIGHT
    <3>1. next = Size + to.column /\ LastRow * VGA_WIDTH \in Int
      BY <1>7, <2>1, LastRowSize, Sizes
    <3> QED BY <1>7, <2>1, <3>1, LastRowSize, Sizes
  <2>2. CASE to.row # VGA_HEIGHT
    <3>1. to.row \in 0 .. LastRow
      BY <1>7, <2>2, Sizes
    <3>2. next \in 0 .. Size - 1
      BY <1>7, <3>1, CellOnScreen
    <3> QED BY <2>2, <3>2, Sizes
  <2> QED BY <2>1, <2>2
<1>11. next \in 0 .. Size + VGA_WIDTH - 1
  <2> HIDE DEF to, next
  <2>1. CASE to.row = VGA_HEIGHT
    <3>1. next = Size + to.column
      BY <1>7, <2>1, LastRowSize, Sizes
    <3> QED BY <1>7, <3>1, Sizes
  <2>2. CASE to.row # VGA_HEIGHT
    <3>1. to.row \in 0 .. LastRow
      BY <1>7, <2>2, Sizes
    <3>2. next \in 0 .. Size - 1
      BY <1>7, <3>1, CellOnScreen
    <3> QED BY <3>2, Sizes
  <2> QED BY <2>1, <2>2
<1>12. Placed(put, used + 1) /\ Under(put.ink, page.top)
  BY <1>1, <1>3, <1>5, <1>6, <1>8, <1>11, PlacedPut
<1>13. put \in Page
  BY <1>6, PutOnPageType
<1>14. /\ put.top + Size <= Extent /\ page.top \in Nat /\ put.top \in Nat /\ put.at \in Int
  BY <1>3, <1>12, <1>13, Window
<1>15. CursorAt(put, row', column') /\ Same(cells', put.ink, put.top)
  <2> HIDE DEF at, to, screen, put, next
  <2>1. CASE to.row = VGA_HEIGHT
    <3>1. put.top = page.top + VGA_WIDTH
      BY <1>8, <1>10, <2>1
    <3>2. page.top + VGA_WIDTH + Size <= Extent
      BY <1>14, <3>1
    <3>3. Same(Scrolled(screen), put.ink, page.top + VGA_WIDTH)
      BY <1>9, <1>12, <1>14, <3>2, ScrolledShows
    <3>4. put.at - put.top = LastRow * VGA_WIDTH + to.column
      BY <1>8, <1>10, <1>11, <1>14, <2>1, <3>1, Sizes
    <3> QED BY <1>1, <2>1, <3>1, <3>3, <3>4 DEF CursorAt
  <2>2. CASE to.row # VGA_HEIGHT
    <3>1. next < Size /\ next \in Int
      BY <1>10, <1>11, <2>2, Sizes
    <3>2. put.top = page.top
      BY <1>8, <3>1, Sizes
    <3>3. put.at - put.top = to.row * VGA_WIDTH + to.column
      BY <1>7, <1>8, <1>14, <3>1, <3>2
    <3> QED BY <1>1, <1>9, <2>2, <3>2, <3>3 DEF CursorAt
  <2> QED BY <2>1, <2>2
<1>16. ASSUME NEW q, q = put
       PROVE  Shows(q)'
  BY <1>4, <1>15, <1>16, ShowsPartsNext
<1> QED BY <1>12, <1>16

(* A character of the kernel keeps the page where a window shows it. *)
LEMMA PlacedCall ==
  ASSUME NEW page \in Page, NEW n \in Nat, n < MaxChars, Placed(page, n),
         NEW c \in MainChars \cup {"clear"}
  PROVE  /\ Placed(PutOnPage(page, c), n + 1)
         /\ c # "clear" => Under(PutOnPage(page, c).ink, page.top)
<1>1. CASE c = "clear"
  <2>1. PutOnPage(page, c) = FirstPage
    BY <1>1 DEF PutOnPage
  <2> QED BY <1>1, <2>1, PlacedFirst
<1>2. CASE c # "clear"
  <2> DEFINE cell == page.at - page.top
             r == cell \div VGA_WIDTH
             q == cell % VGA_WIDTH
  <2>1. cell \in 0 .. Size - 1
    BY Zenon DEF Placed
  <2>2. cell = r * VGA_WIDTH + q /\ q \in 0 .. VGA_WIDTH - 1
    <3> HIDE DEF cell
    <3> QED BY <2>1, Sizes
  <2>3. r \in 0 .. LastRow
    BY <2>1, RowOfCell
  <2> HIDE DEF r, q
  <2>4. CursorAt(page, r, q) /\ page.at - page.top = r * VGA_WIDTH + q
    BY <2>2 DEF CursorAt
  <2>5. NextCell(c, r, q) \in {(r + 1) * VGA_WIDTH, r * VGA_WIDTH + q + 1}
    BY <1>2, TerminalAssumption DEF NextCell, Letter
  <2>6. NextCell(c, r, q) \in 0 .. Size + VGA_WIDTH - 1
    <3>1. /\ r * VGA_WIDTH + q \in 0 .. Size - 1 /\ (r + 1) * VGA_WIDTH <= Size
          /\ (r + 1) * VGA_WIDTH = r * VGA_WIDTH + VGA_WIDTH
      BY <2>2, <2>3, CellOnScreen
    <3>2. r * VGA_WIDTH \in Int /\ q \in Int /\ VGA_WIDTH \in Nat \ {0} /\ Size \in Nat
          /\ r * VGA_WIDTH >= 0
      BY <2>2, <2>3, Sizes
    <3> QED BY <2>5, <3>1, <3>2
  <2>7. Placed(PutOnPage(page, c), n + 1) /\ Under(NextInk(page, c), page.top)
    BY <1>2, <2>2, <2>3, <2>4, <2>6, PlacedPut
  <2>8. PutOnPage(page, c).ink = NextInk(page, c)
    BY <1>2, <2>2, <2>3, <2>4, PutFields
  <2> QED BY <2>7, <2>8
<1> QED BY <1>1, <1>2

(* The page after the character, in the state after a step. *)
LEMMA UnderwayNext ==
  ASSUME NEW p, NEW q, q = PutOnPage(p, main.c)', Underway(p, q)'
  PROVE  Underway(p, PutOnPage(p, main.c))'
<1>1. q = PutOnPage(p, main'.c)
  OBVIOUS
<1> QED BY <1>1 DEF Underway

(* The call goes on. *)
LEMMA CallStep ==
  ASSUME TypeOK, TextInv, main.pc # "idle", main'.pc # "idle", main'.c = main.c,
         UNCHANGED <<pages, printed, used>>,
         \A p \in pages : \A q : q = PutOnPage(p, main.c) => Underway(p, q)'
  PROVE  TextInv'
<1>1. printed = Put(pages, main.c) /\ used > 0
  BY DEF TextInv
<1>2. ASSUME NEW p \in pages
      PROVE  Placed(p, used - 1)
  BY DEF TextInv
<1>3. ASSUME NEW p \in pages
      PROVE  Underway(p, PutOnPage(p, main.c))'
  <2>1. PutOnPage(p, main.c)' = PutOnPage(p, main.c)
    OBVIOUS
  <2>2. \A q : q = PutOnPage(p, main.c) => Underway(p, q)'
    OBVIOUS
  <2> QED BY <2>1, <2>2, UnderwayNext
<1> QED BY <1>1, <1>2, <1>3 DEF TextInv

(* The call ends: what it has printed is what the screen shows. *)
LEMMA CallEnds ==
  ASSUME TypeOK, TextInv, main.pc # "idle", main' = Idle, pages' = printed, cells' \in Screens,
         UNCHANGED <<printed, used>>,
         \A p \in pages : \A q : q = PutOnPage(p, main.c) =>
           CursorAt(q, row', column') /\ Same(cells', q.ink, q.top)
  PROVE  TextInv'
<1>1. printed = Put(pages, main.c) /\ used > 0
  BY DEF TextInv
<1>2. used - 1 \in Nat /\ used - 1 < MaxChars /\ (used - 1) + 1 = used
  BY <1>1, TerminalAssumption DEF TypeOK
<1>3. ASSUME NEW q \in pages'
      PROVE  Placed(q, used) /\ Shows(q)'
  <2>1. PICK p \in pages : q = PutOnPage(p, main.c)
    BY <1>1 DEF Put
  <2>2. p \in Page /\ Placed(p, used - 1) /\ main.c \in MainChars \cup {"clear"}
    BY DEF TextInv, TypeOK
  <2>3. Placed(q, (used - 1) + 1)
    BY <1>2, <2>1, <2>2, PlacedCall
  <2>4. Shows(q)'
    BY <2>1, ShowsPartsNext
  <2> QED BY <1>2, <2>3, <2>4
<1> QED BY <1>3, IdleType DEF TextInv

LEMMA KeyText ==
  ASSUME PageInv, TerminalInv', NEW c \in KeyChars, Key(c), ~raced', ~strayed'
  PROVE  TextInv'
<1>1. /\ strayed' = (strayed \/ Strays(c, [row |-> row, column |-> column]))
      /\ raced' = (raced \/ main.pc # "idle") /\ used < MaxChars /\ used' = used + 1
      /\ pages' = Put(pages, c)
      /\ printed' = Put(printed, c) \cup (IF main.pc = "idle" THEN {} ELSE Put(pages', main.c))
      /\ UNCHANGED main
  BY Zenon DEF Key
<1>2. ~strayed /\ ~raced /\ main.pc = "idle"
  BY <1>1
<1>3. TextInv /\ OnScreen /\ TypeOK /\ TypeOK'
  BY <1>2 DEF PageInv, TerminalInv, CursorInv
<1>4. printed = pages /\ printed' = pages'
  BY <1>1, <1>2, <1>3 DEF TextInv
<1>5. ASSUME NEW q \in pages'
      PROVE  Placed(q, used + 1) /\ Shows(q)'
  <2>1. PICK page \in pages : q = PutOnPage(page, c)
    BY <1>1 DEF Put
  <2>2. page \in Page /\ Placed(page, used) /\ Shows(page)
    BY <1>2, <1>3 DEF TextInv, TypeOK
  <2>3. Placed(PutOnPage(page, c), used + 1) /\ Shows(PutOnPage(page, c))'
    BY <1>3, <2>2, KeyShows
  <2> QED BY <2>1, <2>3
<1> QED BY <1>1, <1>2, <1>4, <1>5 DEF TextInv

(* The call begins. *)
LEMMA CallBegins ==
  ASSUME TypeOK, TextInv, NEW m, Start(m), m.pc # "idle",
         \A p \in pages : \A q : q = PutOnPage(p, m.c) => Underway(p, q)'
  PROVE  TextInv'
<1>1. /\ main.pc = "idle" /\ main' = m /\ printed' = Put(pages, m.c) /\ used' = used + 1
      /\ pages' = pages
  BY DEF Start
<1>2. used' - 1 = used /\ used' > 0
  BY <1>1, TerminalAssumption DEF TypeOK
<1>3. ASSUME NEW p \in pages
      PROVE  Placed(p, used' - 1)
  BY <1>1, <1>2 DEF TextInv
<1>4. ASSUME NEW p \in pages
      PROVE  Underway(p, PutOnPage(p, main.c))'
  <2>1. PutOnPage(p, main.c)' = PutOnPage(p, m.c)
    BY <1>1
  <2>2. \A q : q = PutOnPage(p, m.c) => Underway(p, q)'
    OBVIOUS
  <2> QED BY <2>1, <2>2, UnderwayNext
<1> QED BY <1>1, <1>2, <1>3, <1>4 DEF TextInv

(* What is known in a call of the page before the character and of the one
   after it. *)
LEMMA CallParts ==
  ASSUME PageInv, ~raced, ~strayed, main.pc # "idle",
         NEW p \in pages, NEW q, q = PutOnPage(p, main.c)
  PROVE  /\ TypeOK /\ CursorInv /\ TextInv /\ cells \in Screens
         /\ p \in Page /\ p.top \in Nat /\ p.at \in Int
         /\ p.top + Size <= Extent
         /\ q.top \in Nat /\ q.at \in Int /\ q.top + Size <= Extent
         /\ used - 1 \in 0 .. MaxChars /\ Placed(p, used - 1)
         /\ Underway(p, q)
         /\ main.c # "clear" => Under(q.ink, p.top)
<1>1. TypeOK /\ CursorInv /\ TextInv
  BY DEF PageInv, TerminalInv
<1>2. cells \in Screens /\ p \in Page /\ main.c \in MainChars \cup {"clear"}
  BY <1>1 DEF TypeOK, Screens
<1>3. /\ used - 1 \in Nat /\ used - 1 < MaxChars /\ used - 1 \in 0 .. MaxChars
      /\ (used - 1) + 1 = used /\ used \in 0 .. MaxChars
  BY <1>1, TerminalAssumption DEF TextInv, TypeOK
<1>4. Placed(p, used - 1) /\ Underway(p, q)
  BY <1>1 DEF TextInv
<1>5. Placed(q, (used - 1) + 1) /\ (main.c # "clear" => Under(q.ink, p.top))
  BY <1>2, <1>3, <1>4, PlacedCall
<1>6. q \in Page
  BY <1>2, PutOnPageType
<1>7. p.top \in Nat /\ p.at \in Int /\ p.top + Size <= Extent
  BY <1>2, <1>3, <1>4, Window
<1>8. q.top \in Nat /\ q.at \in Int /\ q.top + Size <= Extent
  BY <1>3, <1>5, <1>6, Window
<1> QED BY <1>1, <1>2, <1>3, <1>4, <1>5, <1>7, <1>8

LEMMA LoadRowText ==
  ASSUME PageInv, ~raced, ~strayed, NEW c \in MainChars, LoadRow(c)
  PROVE  TextInv'
<1> DEFINE label == IF c = "newline" THEN "newline" ELSE "column"
           m == [Idle EXCEPT !.pc = label, !.c = c, !.row = row]
<1>1. c # "clear" /\ Start(m) /\ UNCHANGED <<row, column, cells>>
  BY DEF LoadRow
<1>2. m = [pc |-> label, c |-> c, row |-> row, column |-> 0, line |-> 0] /\ main.pc = "idle"
      /\ main' = m
  <2>1. main' = [Idle EXCEPT !.pc = label, !.c = c, !.row = row] /\ main.pc = "idle"
    BY <1>1 DEF Start
  <2>2. main' = [pc |-> label, c |-> c, row |-> row, column |-> 0, line |-> 0]
    BY <2>1 DEF Idle
  <2> QED BY <2>1, <2>2
<1>3. TypeOK /\ TextInv
  BY DEF PageInv, TerminalInv
<1>4. ASSUME NEW p \in pages, NEW q
      PROVE  Underway(p, q)'
  <2>1. Shows(p)
    BY <1>2, <1>3 DEF TextInv
  <2>2. Shows(p)'
    BY <1>1, <2>1 DEF Shows
  <2>3. main'.pc \in {"newline", "column"} /\ main'.c = c /\ main'.row = row' /\ main'.line = 0
        /\ (main'.pc = "newline" => c = "newline")
    BY <1>1, <1>2
  <2> QED BY <1>1, <2>2, <2>3 DEF Underway
<1>5. m.pc # "idle" /\ m.c = c
  BY <1>2
<1> HIDE DEF m
<1> QED BY <1>1, <1>3, <1>4, <1>5, CallBegins

LEMMA LoadColumnText ==
  ASSUME PageInv, ~raced, ~strayed, LoadColumn
  PROVE  TextInv'
<1>1. /\ main.pc = "column" /\ main' = [main EXCEPT !.pc = "write", !.column = column]
      /\ UNCHANGED <<row, column, cells, pages, printed, used>>
  BY DEF LoadColumn, Step, At
<1>2. TypeOK /\ TextInv
  BY <1>1 DEF PageInv, TerminalInv
<1>3. main' = [pc |-> "write", c |-> main.c, row |-> main.row, column |-> column,
               line |-> main.line]
  BY <1>1, <1>2, MainRecord
<1>4. ASSUME NEW p \in pages, NEW q, q = PutOnPage(p, main.c)
      PROVE  Underway(p, q)'
  <2>1. Underway(p, q)
    BY <1>1, <1>4, CallParts
  <2>2. Shows(p) /\ main.c # "clear" /\ main.row = row /\ main.line = 0
    BY <1>1, <2>1 DEF Underway
  <2>3. Shows(p)'
    BY <1>1, <2>2 DEF Shows
  <2> QED BY <1>1, <1>3, <2>2, <2>3 DEF Underway
<1> QED BY <1>1, <1>2, <1>3, <1>4, CallStep

LEMMA WriteText ==
  ASSUME PageInv, ~raced, ~strayed, Write
  PROVE  TextInv'
<1>1. /\ main.pc = "write" /\ main' = [main EXCEPT !.pc = "store"]
      /\ UNCHANGED <<row, column, pages, printed, used>> /\ cells' = Drawn(main.c, main)
  BY DEF Write, Step, At
<1>2. TypeOK /\ TextInv /\ OnScreen /\ Letter(main.c) /\ main.c \in MainChars
  BY <1>1 DEF PageInv, TerminalInv, CursorInv, WritesLetter
<1>3. main' = [pc |-> "store", c |-> main.c, row |-> main.row, column |-> main.column,
               line |-> main.line]
  BY <1>1, <1>2, MainRecord
<1>4. row \in 0 .. LastRow /\ column \in 0 .. VGA_WIDTH - 1
  BY <1>2, Sizes DEF TypeOK, OnScreen
<1>5. main.c \notin {"clear", "newline", "tab", "backspace"} /\ main.c \in MainChars \cup KeyChars
  BY <1>2 DEF Letter
<1>6. ASSUME NEW p \in pages, NEW q, q = PutOnPage(p, main.c)
      PROVE  Underway(p, q)'
  <2>1. /\ Underway(p, q) /\ p \in Page /\ used - 1 \in 0 .. MaxChars /\ Placed(p, used - 1)
        /\ cells \in Screens
    BY <1>1, <1>6, CallParts
  <2>2. Shows(p) /\ main.row = row /\ main.column = column /\ main.line = 0
    BY <1>1, <2>1 DEF Underway
  <2>3. CursorAt(p, row, column) /\ Same(cells, p.ink, p.top)
    BY <2>1, <2>2, ShowsParts
  <2>4. Same(cells', NextInk(p, main.c), p.top)
    BY <1>1, <1>4, <1>5, <2>1, <2>2, <2>3, DrawnShows
  <2>5. q.ink = NextInk(p, main.c)
    BY <1>4, <1>5, <1>6, <2>1, <2>3, PutFields DEF CursorAt
  <2>6. Displays(q.ink, p.top, 0 .. Size - 1)' /\ row' * VGA_WIDTH + column' = p.at - p.top
    BY <1>1, <2>3, <2>4, <2>5 DEF Displays, Same, CursorAt
  <2> QED BY <1>1, <1>3, <1>5, <2>2, <2>6 DEF Underway
<1> QED BY <1>1, <1>2, <1>3, <1>6, CallStep

(* Where a letter or a newline of the kernel takes the page. *)
LEMMA PutByCall ==
  ASSUME NEW p \in Page, NEW r \in 0 .. LastRow, NEW x \in 0 .. VGA_WIDTH - 1, CursorAt(p, r, x),
         NEW c, Letter(c) \/ c = "newline"
  PROVE  LET next == IF c = "newline" THEN (r + 1) * VGA_WIDTH ELSE r * VGA_WIDTH + x + 1
         IN  /\ PutOnPage(p, c).at = p.top + next
             /\ PutOnPage(p, c).top = IF next >= Size THEN p.top + VGA_WIDTH ELSE p.top
             /\ c = "newline" => PutOnPage(p, c).ink = p.ink
<1>1. c # "clear" /\ c # "tab" /\ c # "backspace"
  BY DEF Letter
<1>2. p.at - p.top = r * VGA_WIDTH + x
  BY DEF CursorAt
<1>3. NextCell(c, r, x) = IF c = "newline" THEN (r + 1) * VGA_WIDTH ELSE r * VGA_WIDTH + x + 1
  BY <1>1 DEF NextCell
<1>4. c = "newline" => NextInk(p, c) = p.ink
  BY DEF NextInk
<1> QED BY <1>1, <1>2, <1>3, <1>4, PutFields

(* Whether the window goes up is decided by where the page is left. *)
LEMMA TopOf ==
  ASSUME NEW p \in Page, NEW n, Placed(p, n), NEW c, c # "clear", NEW next \in Int,
         PutOnPage(p, c).at = p.top + next
  PROVE  PutOnPage(p, c).top = IF next >= Size THEN p.top + VGA_WIDTH ELSE p.top
<1> DEFINE cell == p.at - p.top
           r == cell \div VGA_WIDTH
           x == cell % VGA_WIDTH
<1>1. cell \in 0 .. Size - 1
  BY Zenon DEF Placed
<1>2. cell = r * VGA_WIDTH + x /\ x \in 0 .. VGA_WIDTH - 1
  <2> HIDE DEF cell
  <2> QED BY <1>1, Sizes
<1>3. r \in 0 .. LastRow
  BY <1>1, RowOfCell
<1> HIDE DEF r, x
<1>4. /\ NextCell(c, r, x) \in Int
      /\ PutOnPage(p, c).at = p.top + NextCell(c, r, x)
      /\ PutOnPage(p, c).top = IF NextCell(c, r, x) >= Size THEN p.top + VGA_WIDTH ELSE p.top
  BY <1>2, <1>3, PutFields
<1>5. NextCell(c, r, x) = next
  BY <1>4 DEF Page
<1> QED BY <1>4, <1>5

LEMMA StoreColumnText ==
  ASSUME PageInv, ~raced, ~strayed, StoreColumn
  PROVE  TextInv'
<1>1. /\ main.pc = "store" /\ UNCHANGED <<row, cells, printed, used>>
      /\ column' = Moved(main.c, main).column
      /\ \/ /\ column' = VGA_WIDTH /\ main' = [main EXCEPT !.pc = "wrap"]
            /\ pages' = pages
         \/ column' # VGA_WIDTH /\ main.row = VGA_HEIGHT
         \/ column' # VGA_WIDTH /\ main' = Idle /\ pages' = printed
  BY DEF StoreColumn, Step, At, Return
<1>2. TypeOK /\ TextInv /\ OnScreen /\ Letter(main.c) /\ main.row < VGA_HEIGHT
  BY <1>1 DEF PageInv, TerminalInv, CursorInv, WritesLetter
<1>3. row \in 0 .. LastRow /\ column \in 0 .. VGA_WIDTH - 1 /\ main.row # VGA_HEIGHT
  BY <1>2, Sizes DEF TypeOK, OnScreen
<1>4. column' = (main.column + 1) % Word
  <2>1. main.c \notin {"newline", "tab", "backspace"}
    BY <1>2 DEF Letter
  <2>2. column' = [main EXCEPT !.column = (@ + 1) % Word].column
    BY <1>1, <2>1 DEF Moved
  <2> QED BY <1>2, <2>2, MainRecord
<1>5. ASSUME NEW p \in pages, NEW q, q = PutOnPage(p, main.c)
      PROVE  /\ q.at = p.top + (row * VGA_WIDTH + column') /\ column' = column + 1
             /\ q.top = IF row * VGA_WIDTH + column' >= Size THEN p.top + VGA_WIDTH ELSE p.top
             /\ Same(cells, q.ink, p.top) /\ main.row = row /\ main.line = 0
             /\ p.top \in Int /\ q.at \in Int
  <2>1. Underway(p, q) /\ p \in Page /\ p.top \in Int /\ q.at \in Int
    BY <1>1, <1>5, CallParts
  <2>2. /\ row * VGA_WIDTH + column = p.at - p.top /\ main.row = row /\ main.column = column
        /\ main.line = 0 /\ Same(cells, q.ink, p.top)
    BY <1>1, <2>1 DEF Underway, Displays, Same
  <2>3. column' = column + 1
    <3>1. column + 1 \in 0 .. Word - 1
      BY <1>3, Sizes
    <3> QED BY <1>4, <2>2, <3>1, WordMod
  <2>4. CursorAt(p, row, column) /\ main.c # "newline"
    BY <1>2, <2>2 DEF CursorAt, Letter
  <2>5. row * VGA_WIDTH + column + 1 = row * VGA_WIDTH + column'
    BY <1>3, <2>3, Sizes
  <2>6. /\ q.at = p.top + (row * VGA_WIDTH + column + 1)
        /\ q.top = IF row * VGA_WIDTH + column + 1 >= Size THEN p.top + VGA_WIDTH ELSE p.top
    BY <1>2, <1>3, <1>5, <2>1, <2>4, PutByCall
  <2> QED BY <2>1, <2>2, <2>3, <2>5, <2>6
<1>6. CASE column' = VGA_WIDTH /\ main' = [main EXCEPT !.pc = "wrap"] /\ pages' = pages
  <2>1. main' = [pc |-> "wrap", c |-> main.c, row |-> main.row, column |-> main.column,
                 line |-> main.line]
    BY <1>2, <1>6, MainRecord
  <2>2. ASSUME NEW p \in pages, NEW q, q = PutOnPage(p, main.c)
        PROVE  Underway(p, q)'
    <3>1. q.at = p.top + (main.row + 1) * VGA_WIDTH
      <4>1. row * VGA_WIDTH + VGA_WIDTH = (row + 1) * VGA_WIDTH
        BY <1>3, Sizes
      <4> QED BY <1>5, <1>6, <2>2, <4>1
    <3>2. Displays(q.ink, p.top, 0 .. Size - 1)' /\ main.line = 0
      BY <1>1, <1>5, <2>2 DEF Displays, Same
    <3>3. main.c # "clear"
      BY <1>2 DEF Letter
    <3> QED BY <2>1, <3>1, <3>2, <3>3 DEF Underway
  <2> QED BY <1>1, <1>2, <1>6, <2>1, <2>2, CallStep
<1>7. CASE column' # VGA_WIDTH /\ main' = Idle /\ pages' = printed
  <2>1. ASSUME NEW p \in pages, NEW q, q = PutOnPage(p, main.c)
        PROVE  CursorAt(q, row', column') /\ Same(cells', q.ink, q.top)
    <3>1. column' \in 0 .. VGA_WIDTH - 1
      BY <1>3, <1>5, <1>7, <2>1, Sizes
    <3> DEFINE cell == row * VGA_WIDTH + column'
    <3>2. cell \in 0 .. Size - 1
      BY <1>3, <3>1, CellOnScreen
    <3>3. /\ q.at = p.top + cell /\ p.top \in Int
          /\ q.top = IF cell >= Size THEN p.top + VGA_WIDTH ELSE p.top
      BY <1>5, <2>1
    <3> HIDE DEF cell
    <3>4. q.top = p.top /\ q.at - q.top = cell
      BY <3>2, <3>3, Sizes
    <3>5. Same(cells', q.ink, q.top)
      BY <1>1, <1>5, <2>1, <3>4
    <3>6. CursorAt(q, row', column')
      BY <1>1, <3>4 DEF CursorAt, cell
    <3> QED BY <3>5, <3>6
  <2>2. cells' \in Screens
    BY <1>1, <1>2 DEF TypeOK, Screens
  <2> QED BY <1>1, <1>2, <1>7, <2>1, <2>2, CallEnds
<1> QED BY <1>1, <1>3, <1>6, <1>7

LEMMA ZeroColumnText ==
  ASSUME PageInv, ~raced, ~strayed, ZeroColumn
  PROVE  TextInv'
<1>1. /\ main.pc \in {"wrap", "newline"} /\ main' = [main EXCEPT !.pc = "row"]
      /\ UNCHANGED <<row, cells, pages, printed, used>> /\ column' = 0
  BY DEF ZeroColumn, Step, At
<1>2. TypeOK /\ TextInv
  BY <1>1 DEF PageInv, TerminalInv
<1>3. main' = [pc |-> "row", c |-> main.c, row |-> main.row, column |-> main.column,
               line |-> main.line]
  BY <1>1, <1>2, MainRecord
<1>4. ASSUME NEW p \in pages, NEW q, q = PutOnPage(p, main.c)
      PROVE  Underway(p, q)'
  <2>1. Underway(p, q) /\ p \in Page /\ cells \in Screens
    BY <1>1, <1>4, CallParts
  <2>2. main.c # "clear" /\ main.line = 0
    BY <1>1, <2>1 DEF Underway
  <2>3. q.at = p.top + (main.row + 1) * VGA_WIDTH /\ Displays(q.ink, p.top, 0 .. Size - 1)
    <3>1. CASE main.pc = "wrap"
      BY <2>1, <3>1 DEF Underway
    <3>2. CASE main.pc = "newline"
      <4>1. Shows(p) /\ main.c = "newline" /\ main.row = row
        BY <2>1, <3>2 DEF Underway
      <4>2. CursorAt(p, row, column) /\ Same(cells, p.ink, p.top)
        BY <2>1, <4>1, ShowsParts
      <4>3. row \in 0 .. LastRow /\ column \in 0 .. VGA_WIDTH - 1
        <5>1. OnScreen
          BY <3>2 DEF PageInv, TerminalInv, CursorInv
        <5> QED BY <1>2, <5>1, Sizes DEF TypeOK, OnScreen
      <4>4. q.at = p.top + (row + 1) * VGA_WIDTH /\ q.ink = p.ink
        BY <1>4, <2>1, <4>1, <4>2, <4>3, PutByCall
      <4> QED BY <4>1, <4>2, <4>4 DEF Displays, Same
    <3> QED BY <1>1, <3>1, <3>2
  <2>4. Displays(q.ink, p.top, 0 .. Size - 1)'
    BY <1>1, <2>3 DEF Displays
  <2> QED BY <1>1, <1>3, <2>2, <2>3, <2>4 DEF Underway
<1> QED BY <1>1, <1>2, <1>3, <1>4, CallStep

LEMMA StoreRowText ==
  ASSUME PageInv, ~raced, ~strayed, StoreRow
  PROVE  TextInv'
<1>1. /\ main.pc = "row" /\ UNCHANGED <<column, cells, printed, used>>
      /\ row' = (main.row + 1) % Word
      /\ \/ row' = VGA_HEIGHT /\ main' = [main EXCEPT !.pc = "scroll"] /\ pages' = pages
         \/ row' # VGA_HEIGHT /\ main' = Idle /\ pages' = printed
  BY DEF StoreRow, Step, At, Return
<1>2. TypeOK /\ TextInv /\ main.row < VGA_HEIGHT
  BY <1>1 DEF PageInv, TerminalInv, CursorInv
<1>3. main.row \in 0 .. LastRow /\ row' = main.row + 1
  <2>1. main.row \in 0 .. LastRow /\ main.row + 1 \in 0 .. Word - 1
    BY <1>2, Sizes DEF TypeOK
  <2> QED BY <1>1, <2>1, WordMod
<1>4. ASSUME NEW p \in pages, NEW q, q = PutOnPage(p, main.c)
      PROVE  /\ q.at = p.top + row' * VGA_WIDTH
             /\ q.top = IF row' * VGA_WIDTH >= Size THEN p.top + VGA_WIDTH ELSE p.top
             /\ Same(cells, q.ink, p.top) /\ column = 0 /\ main.line = 0 /\ main.c # "clear"
             /\ p.top \in Nat /\ q.at \in Int
  <2>1. Underway(p, q) /\ p \in Page /\ p.top \in Nat /\ q.at \in Int /\ Placed(p, used - 1)
    BY <1>1, <1>4, CallParts
  <2>2. /\ q.at = p.top + (main.row + 1) * VGA_WIDTH /\ Same(cells, q.ink, p.top)
        /\ column = 0 /\ main.line = 0 /\ main.c # "clear"
    BY <1>1, <2>1 DEF Underway, Displays, Same
  <2>3. (main.row + 1) * VGA_WIDTH \in Int
    BY <1>3, Sizes
  <2>4. q.top = IF (main.row + 1) * VGA_WIDTH >= Size THEN p.top + VGA_WIDTH ELSE p.top
    BY <1>4, <2>1, <2>2, <2>3, TopOf
  <2> QED BY <1>3, <2>1, <2>2, <2>4
<1>5. CASE row' = VGA_HEIGHT /\ main' = [main EXCEPT !.pc = "scroll"] /\ pages' = pages
  <2>1. main' = [pc |-> "scroll", c |-> main.c, row |-> main.row, column |-> main.column,
                 line |-> main.line]
    BY <1>2, <1>5, MainRecord
  <2>2. ASSUME NEW p \in pages, NEW q, q = PutOnPage(p, main.c)
        PROVE  Underway(p, q)'
    <3>1. q.at = p.top + Size /\ q.top = p.top + VGA_WIDTH
      <4>1. row' * VGA_WIDTH = Size /\ Size >= Size
        BY <1>5, LastRowSize, Sizes
      <4> QED BY <1>4, <2>2, <4>1
    <3>2. q.at = q.top + LastRow * VGA_WIDTH
      <4>1. LastRow * VGA_WIDTH \in Int /\ LastRow * VGA_WIDTH + VGA_WIDTH = Size
        BY LastRowSize, Sizes
      <4> QED BY <1>4, <2>2, <3>1, <4>1, Sizes
    <3>3. main.line = 0 /\ column = 0 /\ main.c # "clear"
      BY <1>4, <2>2
    <3>4. Displays(q.ink, q.top, Rows(0, main.line))'
      <4>1. Rows(0, 0) = {}
        BY DEF Rows
      <4> QED BY <2>1, <3>3, <4>1 DEF Displays
    <3>5. Displays(q.ink, p.top, Rows(main.line, VGA_HEIGHT))'
      BY <1>1, <1>4, <2>2 DEF Displays, Same, Rows
    <3> QED BY <1>1, <2>1, <3>1, <3>2, <3>3, <3>4, <3>5 DEF Underway
  <2> QED BY <1>1, <1>2, <1>5, <2>1, <2>2, CallStep
<1>6. CASE row' # VGA_HEIGHT /\ main' = Idle /\ pages' = printed
  <2>1. row' \in 0 .. LastRow
    BY <1>3, <1>6, Sizes
  <2> DEFINE cell == row' * VGA_WIDTH
  <2>2. cell \in 0 .. Size - 1 /\ cell = row' * VGA_WIDTH + 0
    <3>1. 0 \in 0 .. VGA_WIDTH - 1 /\ row' * VGA_WIDTH + 0 = row' * VGA_WIDTH
      BY <2>1, Sizes
    <3> QED BY <2>1, <3>1, CellOnScreen
  <2>3. ASSUME NEW p \in pages, NEW q, q = PutOnPage(p, main.c)
        PROVE  CursorAt(q, row', column') /\ Same(cells', q.ink, q.top)
    <3>1. /\ q.at = p.top + cell /\ q.top = IF cell >= Size THEN p.top + VGA_WIDTH ELSE p.top
          /\ Same(cells, q.ink, p.top) /\ column = 0 /\ p.top \in Nat
      BY <1>4, <2>3
    <3> HIDE DEF cell
    <3>2. q.top = p.top /\ q.at - q.top = cell
      BY <2>2, <3>1, Sizes
    <3>3. CursorAt(q, row', column')
      BY <1>1, <2>2, <3>1, <3>2 DEF CursorAt
    <3> QED BY <1>1, <3>1, <3>2, <3>3
  <2>4. cells' \in Screens
    BY <1>1, <1>2 DEF TypeOK, Screens
  <2> QED BY <1>1, <1>2, <1>6, <2>3, <2>4, CallEnds
<1> QED BY <1>1, <1>5, <1>6

(* The screen while terminal_scroll is under way: above the line the window
   of the page after the character, from it on the one before. *)
Mixed(screen, ink, from, to, line) ==
  \A i \in 0 .. Size - 1 :
    screen[i] = IF i \div VGA_WIDTH < line THEN ink[to + i] ELSE ink[from + i]

LEMMA MixedIs ==
  ASSUME NEW p, NEW q, main.line \in 0 .. LastRow
  PROVE  /\ Displays(q.ink, q.top, Rows(0, main.line))
         /\ Displays(q.ink, p.top, Rows(main.line, VGA_HEIGHT))
         <=> Mixed(cells, q.ink, p.top, q.top, main.line)
<1>1. ASSUME NEW i \in 0 .. Size - 1
      PROVE  /\ i \in Rows(0, main.line) <=> i \div VGA_WIDTH < main.line
             /\ i \in Rows(main.line, VGA_HEIGHT) <=> ~(i \div VGA_WIDTH < main.line)
  <2>1. i \div VGA_WIDTH \in 0 .. LastRow
    BY RowOfCell
  <2> QED BY <2>1, Sizes DEF Rows
<1>2. Rows(0, main.line) \subseteq 0 .. Size - 1
      /\ Rows(main.line, VGA_HEIGHT) \subseteq 0 .. Size - 1
  BY DEF Rows
<1> QED BY <1>1, <1>2, Zenon DEF Displays, Mixed

LEMMA MixedIsNext ==
  ASSUME NEW p, NEW q, main'.line \in 0 .. LastRow
  PROVE  /\ Displays(q.ink, q.top, Rows(0, main.line))'
         /\ Displays(q.ink, p.top, Rows(main.line, VGA_HEIGHT))'
         <=> Mixed(cells', q.ink, p.top, q.top, main'.line)
<1>1. ASSUME NEW i \in 0 .. Size - 1
      PROVE  /\ i \in Rows(0, main'.line) <=> i \div VGA_WIDTH < main'.line
             /\ i \in Rows(main'.line, VGA_HEIGHT) <=> ~(i \div VGA_WIDTH < main'.line)
  <2>1. i \div VGA_WIDTH \in 0 .. LastRow
    BY RowOfCell
  <2> QED BY <2>1, Sizes DEF Rows
<1>2. Rows(0, main'.line) \subseteq 0 .. Size - 1
      /\ Rows(main'.line, VGA_HEIGHT) \subseteq 0 .. Size - 1
  BY DEF Rows
<1> QED BY <1>1, <1>2, Zenon DEF Displays, Mixed

LEMMA CellOfScreen ==
  ASSUME NEW screen \in Screens, NEW i \in 0 .. Size - 1
  PROVE  i \in DOMAIN screen /\ i \div VGA_WIDTH \in 0 .. LastRow /\ LastRow \in Int
BY Sizes, RowOfCell DEF Screens

LEMMA MixedCopy ==
  ASSUME NEW screen \in Screens, NEW ink, NEW top \in Nat, NEW l \in 0 .. LastRow, l < LastRow,
         Mixed(screen, ink, top, top + VGA_WIDTH, l)
  PROVE  Mixed(CopyRow(screen, l + 1, l), ink, top, top + VGA_WIDTH, l + 1)
<1> DEFINE next == CopyRow(screen, l + 1, l)
<1> SUFFICES ASSUME NEW i \in 0 .. Size - 1
             PROVE  next[i] = IF i \div VGA_WIDTH < l + 1 THEN ink[top + VGA_WIDTH + i]
                                                         ELSE ink[top + i]
  BY DEF Mixed
<1>1. i \in DOMAIN screen /\ i \div VGA_WIDTH \in 0 .. LastRow /\ l \in Int /\ VGA_WIDTH \in Int
  BY CellOfScreen, Sizes
<1>2. CASE i \div VGA_WIDTH = l
  <2>1. next[i] = screen[i + ((l + 1) - l) * VGA_WIDTH]
    BY <1>1, <1>2 DEF CopyRow
  <2>2. ((l + 1) - l) * VGA_WIDTH = VGA_WIDTH
    BY <1>1
  <2>3. i + VGA_WIDTH \in 0 .. Size - 1
    BY <1>2, CellBelow
  <2>4. ~((i + VGA_WIDTH) \div VGA_WIDTH < l)
    <3>1. (i + VGA_WIDTH) \div VGA_WIDTH = l + 1
      BY <1>2, RowBelow
    <3> QED BY <1>1, <3>1
  <2>5. screen[i + VGA_WIDTH] = ink[top + (i + VGA_WIDTH)]
    BY <2>3, <2>4 DEF Mixed
  <2>6. top + (i + VGA_WIDTH) = top + VGA_WIDTH + i
    BY <1>1
  <2>7. i \div VGA_WIDTH < l + 1
    BY <1>1, <1>2
  <2> QED BY <2>1, <2>2, <2>5, <2>6, <2>7
<1>3. CASE i \div VGA_WIDTH # l
  <2>1. next[i] = screen[i]
    BY <1>1, <1>3 DEF CopyRow
  <2>2. i \div VGA_WIDTH < l + 1 <=> i \div VGA_WIDTH < l
    <3> DEFINE d == i \div VGA_WIDTH
    <3>1. d \in Int /\ d # l
      BY <1>1, <1>3
    <3> HIDE DEF d
    <3>2. d < l + 1 <=> d < l
      BY <1>1, <3>1
    <3> QED BY <3>2 DEF d
  <2> QED BY <2>1, <2>2 DEF Mixed
<1> QED BY <1>2, <1>3

LEMMA MixedLast ==
  ASSUME NEW screen \in Screens, NEW ink, NEW top \in Nat, top + VGA_WIDTH + Size <= Extent,
         Under(ink, top), Mixed(screen, ink, top, top + VGA_WIDTH, LastRow)
  PROVE  Same(BlankRow(screen, LastRow), ink, top + VGA_WIDTH)
<1> SUFFICES ASSUME NEW i \in 0 .. Size - 1
             PROVE  BlankRow(screen, LastRow)[i] = ink[top + VGA_WIDTH + i]
  BY DEF Same
<1>1. i \in DOMAIN screen /\ i \div VGA_WIDTH \in 0 .. LastRow /\ LastRow \in Int
  BY CellOfScreen
<1>2. CASE i \div VGA_WIDTH = LastRow
  <2>1. BlankRow(screen, LastRow)[i] = " "
    BY <1>1, <1>2 DEF BlankRow
  <2>2. i + VGA_WIDTH >= Size
    BY <1>2, LastRowCell
  <2>3. top + VGA_WIDTH + i \in top + Size .. Extent - 1
    BY <2>2, RowUncovered
  <2> QED BY <2>1, <2>3 DEF Under
<1>3. CASE i \div VGA_WIDTH # LastRow
  <2>1. BlankRow(screen, LastRow)[i] = screen[i]
    BY <1>1, <1>3 DEF BlankRow
  <2>2. i \div VGA_WIDTH < LastRow
    BY <1>1, <1>3
  <2> QED BY <2>1, <2>2 DEF Mixed
<1> QED BY <1>2, <1>3

LEMMA ScrollLineText ==
  ASSUME PageInv, ~raced, ~strayed, ScrollLine
  PROVE  TextInv'
<1>1. /\ main.pc = "scroll" /\ UNCHANGED <<row, column, pages, printed, used>>
      /\ \/ /\ main.line < LastRow /\ main' = [main EXCEPT !.line = @ + 1]
            /\ cells' = CopyRow(cells, main.line + 1, main.line)
         \/ /\ ~(main.line < LastRow) /\ main' = [main EXCEPT !.pc = "last"]
            /\ cells' = BlankRow(cells, LastRow)
  BY DEF ScrollLine, Step, At
<1>2. TypeOK /\ TextInv /\ cells \in Screens /\ main.line \in 0 .. LastRow
  BY <1>1, InvParts DEF PageInv, TerminalInv
<1>3. ASSUME NEW p \in pages, NEW q, q = PutOnPage(p, main.c)
      PROVE  /\ Mixed(cells, q.ink, p.top, p.top + VGA_WIDTH, main.line)
             /\ q.top = p.top + VGA_WIDTH /\ q.at = q.top + LastRow * VGA_WIDTH /\ column = 0
             /\ main.c # "clear" /\ p.top \in Nat /\ p.top + VGA_WIDTH + Size <= Extent
             /\ Under(q.ink, p.top)
  <2>1. /\ Underway(p, q) /\ p.top \in Nat /\ q.top + Size <= Extent
        /\ (main.c # "clear" => Under(q.ink, p.top))
    BY <1>1, <1>3, CallParts
  <2>2. /\ Displays(q.ink, q.top, Rows(0, main.line))
        /\ Displays(q.ink, p.top, Rows(main.line, VGA_HEIGHT))
        /\ q.top = p.top + VGA_WIDTH /\ q.at = q.top + LastRow * VGA_WIDTH /\ column = 0
        /\ main.c # "clear"
    BY <1>1, <2>1 DEF Underway
  <2>3. Mixed(cells, q.ink, p.top, q.top, main.line)
    BY <1>2, <2>2, MixedIs
  <2> QED BY <2>1, <2>2, <2>3
<1>4. CASE /\ main.line < LastRow /\ main' = [main EXCEPT !.line = @ + 1]
           /\ cells' = CopyRow(cells, main.line + 1, main.line)
  <2>1. main' = [pc |-> "scroll", c |-> main.c, row |-> main.row, column |-> main.column,
                 line |-> main.line + 1]
    BY <1>1, <1>2, <1>4, MainRecord
  <2>2. main'.line \in 0 .. LastRow
    BY <1>2, <1>4, <2>1, Sizes
  <2>3. ASSUME NEW p \in pages, NEW q, q = PutOnPage(p, main.c)
        PROVE  Underway(p, q)'
    <3>1. Mixed(cells', q.ink, p.top, p.top + VGA_WIDTH, main.line + 1)
      BY <1>2, <1>3, <1>4, <2>3, MixedCopy
    <3>2. /\ Displays(q.ink, q.top, Rows(0, main.line))'
          /\ Displays(q.ink, p.top, Rows(main.line, VGA_HEIGHT))'
      BY <1>3, <2>1, <2>2, <2>3, <3>1, MixedIsNext
    <3> QED BY <1>1, <1>3, <2>1, <2>3, <3>2 DEF Underway
  <2> QED BY <1>1, <1>2, <2>1, <2>3, CallStep
<1>5. CASE /\ ~(main.line < LastRow) /\ main' = [main EXCEPT !.pc = "last"]
           /\ cells' = BlankRow(cells, LastRow)
  <2>1. main' = [pc |-> "last", c |-> main.c, row |-> main.row, column |-> main.column,
                 line |-> main.line]
    BY <1>2, <1>5, MainRecord
  <2>2. main.line = LastRow
    BY <1>2, <1>5, Sizes
  <2>3. ASSUME NEW p \in pages, NEW q, q = PutOnPage(p, main.c)
        PROVE  Underway(p, q)'
    <3>1. Same(cells', q.ink, q.top)
      BY <1>2, <1>3, <1>5, <2>2, <2>3, MixedLast
    <3>2. Displays(q.ink, q.top, 0 .. Size - 1)'
      BY <3>1 DEF Displays, Same
    <3> QED BY <1>1, <1>3, <2>1, <2>3, <3>2 DEF Underway
  <2> QED BY <1>1, <1>2, <2>1, <2>3, CallStep
<1> QED BY <1>1, <1>4, <1>5

LEMMA LastRowText ==
  ASSUME PageInv, ~raced, ~strayed, LastRowAgain
  PROVE  TextInv'
<1>1. /\ main.pc = "last" /\ UNCHANGED <<column, cells, printed, used>>
      /\ main' = Idle /\ row' = LastRow /\ pages' = printed
  BY DEF LastRowAgain, Return
<1>2. TypeOK /\ TextInv
  BY <1>1 DEF PageInv, TerminalInv
<1>3. ASSUME NEW p \in pages, NEW q, q = PutOnPage(p, main.c)
      PROVE  CursorAt(q, row', column') /\ Same(cells', q.ink, q.top)
  <2>1. Underway(p, q) /\ q.top \in Int /\ q.at \in Int
    BY <1>1, <1>3, CallParts
  <2>2. q.at = q.top + LastRow * VGA_WIDTH /\ column = 0 /\ Same(cells, q.ink, q.top)
    BY <1>1, <2>1 DEF Underway, Displays, Same
  <2>3. q.at - q.top = LastRow * VGA_WIDTH + 0
    <3>1. LastRow * VGA_WIDTH \in Int
      BY Sizes
    <3> QED BY <2>1, <2>2, <3>1
  <2> QED BY <1>1, <2>2, <2>3 DEF CursorAt
<1>4. cells' \in Screens
  BY <1>1, <1>2 DEF TypeOK, Screens
<1> QED BY <1>1, <1>2, <1>3, <1>4, CallEnds

LEMMA ClearText ==
  ASSUME PageInv, ~raced, ~strayed, Clear
  PROVE  TextInv'
<1> DEFINE m == [Idle EXCEPT !.pc = "home"]
<1>1. Start(m) /\ main.pc = "idle" /\ main' = m /\ row' = 0
  BY DEF Clear, Start
<1>2. main' = [pc |-> "home", c |-> "clear", row |-> 0, column |-> 0, line |-> 0]
  BY <1>1 DEF Idle
<1>3. TypeOK /\ TextInv
  BY DEF PageInv, TerminalInv
<1>4. ASSUME NEW p \in pages, NEW q
      PROVE  Underway(p, q)'
  BY <1>1, <1>2 DEF Underway
<1>5. m.pc # "idle"
  BY <1>1, <1>2
<1> HIDE DEF m
<1> QED BY <1>1, <1>3, <1>4, <1>5, CallBegins

LEMMA HomeText ==
  ASSUME PageInv, ~raced, ~strayed, Home
  PROVE  TextInv'
<1>1. /\ main.pc = "home" /\ UNCHANGED <<row, cells, pages, printed, used>>
      /\ main' = [main EXCEPT !.pc = "blank"] /\ column' = 0
  BY DEF Home, Step, At
<1>2. TypeOK /\ TextInv
  BY <1>1 DEF PageInv, TerminalInv
<1>3. main' = [pc |-> "blank", c |-> main.c, row |-> main.row, column |-> main.column,
               line |-> main.line]
  BY <1>1, <1>2, MainRecord
<1>4. ASSUME NEW p \in pages, NEW q, q = PutOnPage(p, main.c)
      PROVE  Underway(p, q)'
  <2>1. Underway(p, q)
    BY <1>1, <1>4, CallParts
  <2>2. main.c = "clear" /\ row = 0 /\ main.line = 0
    BY <1>1, <2>1 DEF Underway
  <2>3. Rows(0, 0) = {}
    BY DEF Rows
  <2>4. \A i \in Rows(0, main'.line) : cells'[i] = " "
    BY <1>3, <2>2, <2>3
  <2>5. Rows(0, main'.line) = Rows(0, main.line)'
    BY DEF Rows
  <2> QED BY <1>1, <1>3, <2>2, <2>4, <2>5 DEF Underway
<1> QED BY <1>1, <1>2, <1>3, <1>4, CallStep

(* terminal_initialize blanks the rows from the top. *)
Blanked(screen, line) == \A i \in 0 .. Size - 1 : i \div VGA_WIDTH < line => screen[i] = " "

LEMMA BlankedMore ==
  ASSUME NEW screen \in Screens, NEW l \in 0 .. LastRow, Blanked(screen, l)
  PROVE  Blanked(BlankRow(screen, l), l + 1)
<1> SUFFICES ASSUME NEW i \in 0 .. Size - 1, i \div VGA_WIDTH < l + 1
             PROVE  BlankRow(screen, l)[i] = " "
  BY DEF Blanked
<1>1. i \in DOMAIN screen /\ i \div VGA_WIDTH \in 0 .. LastRow
  BY CellOfScreen
<1>2. CASE i \div VGA_WIDTH = l
  BY <1>1, <1>2 DEF BlankRow
<1>3. CASE i \div VGA_WIDTH # l
  <2>1. i \div VGA_WIDTH < l
    <3> DEFINE d == i \div VGA_WIDTH
    <3>1. d \in Int /\ d < l + 1 /\ d # l
      BY <1>1, <1>3
    <3> HIDE DEF d
    <3>2. d < l
      BY <3>1
    <3> QED BY <3>2 DEF d
  <2> QED BY <1>1, <1>3, <2>1 DEF BlankRow, Blanked
<1> QED BY <1>2, <1>3

LEMMA BlankedAll ==
  ASSUME NEW screen, Blanked(screen, LastRow + 1)
  PROVE  Same(screen, FirstPage.ink, FirstPage.top) /\ CursorAt(FirstPage, 0, 0)
<1>1. FirstPage.top = 0 /\ FirstPage.at = 0 /\ 0 * VGA_WIDTH + 0 = 0
  BY Sizes DEF FirstPage
<1>2. ASSUME NEW i \in 0 .. Size - 1
      PROVE  screen[i] = FirstPage.ink[FirstPage.top + i]
  <2>1. i \div VGA_WIDTH < LastRow + 1
    BY RowOfCell, Sizes
  <2>2. i \in 0 .. Extent - 1 /\ 0 + i = i
    <3>1. Size <= Extent
      <4>1. 0 \in 0 .. MaxChars /\ VGA_WIDTH * 0 + Size = Size
        BY TerminalAssumption, Sizes
      <4> QED BY <4>1, ExtentSize
    <3> QED BY <3>1, Sizes, ExtentSize
  <2>3. FirstPage.ink[i] = " "
    BY <2>2 DEF FirstPage
  <2> QED BY <1>1, <2>1, <2>2, <2>3 DEF Blanked
<1> QED BY <1>1, <1>2 DEF Same, CursorAt

LEMMA ClearLineText ==
  ASSUME PageInv, ~raced, ~strayed, ClearLine
  PROVE  TextInv'
<1>1. /\ main.pc = "blank" /\ UNCHANGED <<row, column, printed, used>>
      /\ cells' = BlankRow(cells, main.line)
      /\ \/ main.line < LastRow /\ main' = [main EXCEPT !.line = @ + 1] /\ pages' = pages
         \/ ~(main.line < LastRow) /\ main' = Idle /\ pages' = printed
  BY DEF ClearLine, Step, Return
<1>2. TypeOK /\ TextInv /\ cells \in Screens /\ main.line \in 0 .. LastRow
  BY <1>1, InvParts DEF PageInv, TerminalInv
<1>3. ASSUME NEW p \in pages, NEW q, q = PutOnPage(p, main.c)
      PROVE  Blanked(cells', main.line + 1) /\ row = 0 /\ column = 0 /\ main.c = "clear"
  <2>1. Underway(p, q)
    BY <1>1, <1>3, CallParts
  <2>2. /\ \A i \in Rows(0, main.line) : cells[i] = " "
        /\ row = 0 /\ column = 0 /\ main.c = "clear"
    BY <1>1, <2>1 DEF Underway
  <2>3. Blanked(cells, main.line)
    <3>1. ASSUME NEW i \in 0 .. Size - 1, i \div VGA_WIDTH < main.line
          PROVE  i \in Rows(0, main.line)
      <4>1. i \div VGA_WIDTH \in 0 .. LastRow
        BY RowOfCell
      <4> QED BY <1>2, <3>1, <4>1, Sizes DEF Rows
    <3> QED BY <2>2, <3>1 DEF Blanked
  <2> QED BY <1>1, <1>2, <2>2, <2>3, BlankedMore
<1>4. CASE main.line < LastRow /\ main' = [main EXCEPT !.line = @ + 1] /\ pages' = pages
  <2>1. main' = [pc |-> "blank", c |-> main.c, row |-> main.row, column |-> main.column,
                 line |-> main.line + 1]
    BY <1>1, <1>2, <1>4, MainRecord
  <2>2. ASSUME NEW p \in pages, NEW q, q = PutOnPage(p, main.c)
        PROVE  Underway(p, q)'
    <3>1. ASSUME NEW i \in Rows(0, main'.line)
          PROVE  cells'[i] = " "
      <4>1. i \in 0 .. Size - 1 /\ i \div VGA_WIDTH < main.line + 1
        <5>1. i \in 0 .. Size - 1 /\ i \div VGA_WIDTH \in 0 .. (main.line + 1) - 1
          BY <2>1 DEF Rows
        <5> QED BY <1>2, <5>1, Sizes
      <4> QED BY <1>3, <2>2, <4>1 DEF Blanked
    <3>2. Rows(0, main'.line) = Rows(0, main.line)'
      BY DEF Rows
    <3> QED BY <1>1, <1>3, <2>1, <2>2, <3>1, <3>2 DEF Underway
  <2> QED BY <1>1, <1>2, <1>4, <2>1, <2>2, CallStep
<1>5. CASE ~(main.line < LastRow) /\ main' = Idle /\ pages' = printed
  <2>1. main.line = LastRow
    BY <1>2, <1>5, Sizes
  <2>2. ASSUME NEW p \in pages, NEW q, q = PutOnPage(p, main.c)
        PROVE  CursorAt(q, row', column') /\ Same(cells', q.ink, q.top)
    <3>1. q = FirstPage
      BY <1>3, <2>2 DEF PutOnPage
    <3>2. Blanked(cells', LastRow + 1) /\ row' = 0 /\ column' = 0
      BY <1>1, <1>3, <2>1, <2>2
    <3> QED BY <3>1, <3>2, BlankedAll
  <2>3. cells' \in Screens
    BY <1>1, <1>2, BlankRowType
  <2> QED BY <1>1, <1>2, <1>5, <2>2, <2>3, CallEnds
<1> QED BY <1>1, <1>4, <1>5

LEMMA TextStep ==
  ASSUME PageInv, TerminalInv', ~raced', ~strayed', Next
  PROVE  TextInv'
<1>1. ASSUME NEW c \in KeyChars, Key(c)
      PROVE  TextInv'
  BY <1>1, KeyText
<1>2. CASE ~(\E c \in KeyChars : Key(c))
  <2>1. UNCHANGED <<raced, strayed>>
    BY <1>2 DEF Next, LoadRow, LoadColumn, Write, StoreColumn, ZeroColumn, StoreRow, ScrollLine,
       LastRowAgain, Clear, Home, ClearLine, Start, Step, Return
  <2>2. ~raced /\ ~strayed
    BY <2>1
  <2> QED BY <1>2, <2>2, LoadRowText, LoadColumnText, WriteText, StoreColumnText, ZeroColumnText,
          StoreRowText, ScrollLineText, LastRowText, ClearText, HomeText, ClearLineText DEF Next
<1> QED BY <1>1, <1>2

(* What the screen shows, between any two accesses to it, of the page before
   the kernel's character and of the one after it. *)
THEOREM PageInvariant == Spec => []PageInv
<1>1. Init => PageInv
  <2> SUFFICES ASSUME Init PROVE TextInv /\ TerminalInv
    BY DEF PageInv
  <2>1. /\ row = 0 /\ column = 0 /\ cells = Blank /\ main = Idle
        /\ pages = {FirstPage} /\ printed = pages /\ used = 0
    BY DEF Init
  <2>2. TerminalInv
    BY InitInv
  <2>3. cells \in Screens
    BY <2>2 DEF TerminalInv, TypeOK, Screens
  <2>4. Blanked(cells, LastRow + 1)
    BY <2>1 DEF Blank, Blanked
  <2>5. Shows(FirstPage)
    BY <2>1, <2>3, <2>4, BlankedAll, ShowsParts
  <2>6. Placed(FirstPage, 0)
    BY PlacedFirst
  <2> QED BY <2>1, <2>2, <2>5, <2>6, IdleType DEF TextInv
<1>2. PageInv /\ [Next]_vars => PageInv'
  <2> SUFFICES ASSUME PageInv, [Next]_vars PROVE PageInv'
    OBVIOUS
  <2>1. CASE UNCHANGED vars
    <3>1. TerminalInv'
      BY <2>1 DEF vars, PageInv, TerminalInv, TypeOK, WritesLetter, CursorInv, OnScreen
    <3>2. ASSUME TextInv
          PROVE  TextInv'
      <4>1. ASSUME NEW p
            PROVE  Shows(p) => Shows(p)'
        BY <2>1 DEF vars, Shows
      <4>2. CASE main.pc = "idle"
        BY <2>1, <3>2, <4>1, <4>2 DEF vars, TextInv
      <4>3. CASE main.pc # "idle"
        <5>1. ASSUME NEW p, NEW q, Underway(p, q)
              PROVE  Underway(p, q)'
          BY <2>1, <5>1 DEF vars, Underway, Displays, Shows
        <5>2. \A p \in pages : Underway(p, PutOnPage(p, main.c))
          BY <3>2, <4>3 DEF TextInv
        <5> QED BY <2>1, <3>2, <4>3, <5>1, <5>2, CallStep DEF vars, PageInv, TerminalInv
      <4> QED BY <4>2, <4>3
    <3> QED BY <2>1, <3>1, <3>2 DEF vars, PageInv
  <2>2. CASE Next
    <3>1. TerminalInv'
      BY <2>2, NextInv DEF PageInv
    <3>2. ~raced' /\ ~strayed' => TextInv'
      BY <2>2, <3>1, TextStep
    <3> QED BY <3>1, <3>2 DEF PageInv
  <2> QED BY <2>1, <2>2
<1> QED BY <1>1, <1>2, PTL DEF Spec

(* With no key in the middle of terminal_putchar the screen shows what has
   been printed, wrapped and scrolled, for every size of it and every text. *)
THEOREM ScreenShowsText == Spec => []ShowsText
<1>1. PageInv => ShowsText
  BY DEF PageInv, TextInv, ShowsText
<1> QED BY <1>1, PageInvariant, PTL
===============================================================================
