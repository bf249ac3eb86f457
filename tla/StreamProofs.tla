----------------------------- MODULE StreamProofs -----------------------------
(***************************************************************************)
(* The output stays in its buffer and in its window, for every window of   *)
(* every screen, every length of the buffer, every text, and interrupts    *)
(* that print at any point of put(), print() and flush(); and until the    *)
(* first of those prints, the window is the terminal of Terminal.          *)
(***************************************************************************)
EXTENDS Stream, SequenceTheorems, TLAPS

-----------------------------------------------------------------------------
(* Cells                                                                   *)

LEMMA Multiples ==
  ASSUME NEW C \in Nat, NEW i \in Nat, NEW j \in Nat, i < j
  PROVE  i * C + C <= j * C
<1>1. PICK z \in Nat : j = (i + 1) + z
  OBVIOUS
<1>2. j * C = i * C + C + z * C /\ z * C \in Nat /\ i * C \in Nat
  BY <1>1
<1> QED BY <1>2

\* A cell has one line and one column.
LEMMA CellAt ==
  ASSUME NEW C \in Nat, NEW x \in 0 .. C - 1, NEW r \in Nat
  PROVE  /\ (x + r * C) \div C = r /\ (x + r * C) % C = x
         /\ x + r * C \in Nat
<1> DEFINE a == x + r * C
           w == a \div C
           m == a % C
<1>1. r * C \in Nat /\ a \in Nat /\ C \in Nat \ {0}
  OBVIOUS
<1>2. w \in Nat /\ m \in 0 .. C - 1 /\ a = w * C + m
  <2> HIDE DEF a
  <2> QED BY <1>1
<1> HIDE DEF w, m
<1>3. \A i, j \in Nat : i < j => i * C + C <= j * C
  BY Multiples
<1>4. w * C \in Nat
  BY <1>1, <1>2
<1>5. ~(r < w)
  BY <1>1, <1>2, <1>3, <1>4
<1>6. ~(w < r)
  BY <1>1, <1>2, <1>3, <1>4
<1>7. w = r
  BY <1>2, <1>5, <1>6
<1>8. m = x
  BY <1>1, <1>2, <1>7
<1> QED BY <1>1, <1>7, <1>8 DEF w, m

Column == 0 .. width - 1
Row == 0 .. height - 1

\* The cell at (x, y) of the window.
At(x, y) == from_col + x + (from_row + y) * Columns

LEMMA Sizes == /\ width \in Nat \ {0} /\ height \in Nat \ {0}
               /\ 0 \in Column /\ 0 \in Row
BY WindowAssumption DEF width, height, Column, Row

LEMMA AtIsInWindow ==
  ASSUME NEW x \in Column, NEW y \in Row
  PROVE  /\ At(x, y) \in Nat
         /\ At(x, y) % Columns = from_col + x /\ At(x, y) \div Columns = from_row + y
         /\ InWindow(At(x, y))
<1>1. from_col + x \in 0 .. Columns - 1 /\ from_row + y \in Nat
  BY WindowAssumption DEF Column, Row, width, height
<1>2. /\ At(x, y) \in Nat
      /\ At(x, y) % Columns = from_col + x /\ At(x, y) \div Columns = from_row + y
  BY <1>1, CellAt, WindowAssumption DEF At
<1>3. InWindow(At(x, y))
  BY <1>2, WindowAssumption DEF InWindow, Column, Row, width, height
<1> QED BY <1>2, <1>3

-----------------------------------------------------------------------------
(* The loop of print()                                                     *)

\* print() leaves the locals in the window, and the cells outside of it alone.
LEMMA IterationInside ==
  ASSUME NEW scr, DOMAIN scr = Cell, NEW s, NEW c,
         s.x \in Column, s.y \in Row
  PROVE  LET t == Iteration(scr, s, c)
         IN  /\ t.x \in Column /\ t.y \in Row
             /\ DOMAIN t.screen = Cell
             /\ \A n \in Cell : ~InWindow(n) => t.screen[n] = scr[n]
<1> DEFINE back == c = "backspace"
           x == IF back /\ s.x > 0 THEN s.x - 1 ELSE s.x
           newline == ~back /\ (s.x = width - 1 \/ c = "newline")
           last == newline /\ s.y = height - 1
           remain == IF c = "tab" /\ s.remain = 0 THEN Indent - (x % Indent) ELSE s.remain
           inTab == c = "tab" /\ remain > 1
           shown == IF c = "newline" \/ (c = "tab" /\ ~inTab) THEN scr
                    ELSE show(scr, from_col + x, from_row + s.y, IF back \/ inTab THEN " " ELSE c)
           t == Iteration(scr, s, c)
<1>1. x \in Column
  BY Sizes DEF Column
<1>2. ASSUME NEW d
      PROVE  LET u == show(scr, from_col + x, from_row + s.y, d)
             IN  /\ DOMAIN u = Cell
                 /\ \A n \in Cell : ~InWindow(n) => u[n] = scr[n]
  <2> HIDE DEF x
  <2>1. ~(from_col + x < 0) /\ ~(from_row + s.y < 0)
    BY <1>1, WindowAssumption DEF Column, Row
  <2>2. show(scr, from_col + x, from_row + s.y, d) =
          IF from_col + x \in 0 .. Columns - 1 /\ from_row + s.y \in 0 .. Rows - 1
          THEN [scr EXCEPT ![At(x, s.y)] = d] ELSE scr
    BY <2>1 DEF show, At
  <2>3. InWindow(At(x, s.y))
    BY <1>1, AtIsInWindow
  <2> QED BY <2>2, <2>3
<1> HIDE DEF x
<1>3. DOMAIN shown = Cell /\ \A n \in Cell : ~InWindow(n) => shown[n] = scr[n]
  BY <1>2
<1> HIDE DEF shown
<1>4. ASSUME NEW y
      PROVE  /\ DOMAIN Scroll(shown, y) = Cell
             /\ \A n \in Cell : ~InWindow(n) => Scroll(shown, y)[n] = scr[n]
  BY <1>3 DEF Scroll
<1>5. CASE c = "nul"
  <2>1. t.screen = scr /\ t.x = s.x /\ t.y = s.y
    BY <1>5 DEF Iteration
  <2> QED BY <2>1
<1>6. CASE c # "nul"
  <2>1. /\ t.screen = IF last THEN Scroll(shown, s.y) ELSE shown
        /\ t.x = IF newline THEN 0 ELSE IF back THEN x ELSE x + 1
        /\ t.y = IF newline /\ ~last THEN s.y + 1 ELSE s.y
    BY <1>6 DEF Iteration, x, shown
  <2>2. t.x \in Column
    <3>1. CASE newline \/ back
      BY <1>1, <2>1, <3>1, Sizes
    <3>2. CASE ~newline /\ ~back
      <4>1. s.x # width - 1 /\ x = s.x
        BY <3>2 DEF x
      <4> QED BY <2>1, <3>2, <4>1, Sizes DEF Column
    <3> QED BY <3>1, <3>2
  <2>3. t.y \in Row
    BY <2>1, Sizes DEF Row
  <2>4. DOMAIN t.screen = Cell /\ \A n \in Cell : ~InWindow(n) => t.screen[n] = scr[n]
    BY <1>3, <1>4, <2>1
  <2> QED BY <2>2, <2>3, <2>4
<1> QED BY <1>5, <1>6

-----------------------------------------------------------------------------
(* The inductive invariant                                                 *)

Label == {"idle", "convert", "put", "store", "increment", "flush", "print", "flushed"}
Putting == {"put", "store", "increment"}

Letter == {"0", "1", "2", "3", "4", "5", "6", "7", "8", "9", "a", "b", "c", "d", "e", "f"}
            \cup {"x", "-", "i", "newline", "tab", "backspace", "nul"} \cup Char

\* What the handler saves of the code that it interrupts, and what it does itself.
ContextTypes(p, t, n, k, len, loc) ==
  /\ p \in Label /\ t \in Seq(Letter) /\ n \in Nat /\ k \in Nat
  /\ len \in 0 .. BufferSize
  /\ loc.x \in Column /\ loc.y \in Row
  /\ p = "idle" => t = << >>
  /\ p \in Putting => t # << >>

StatementTypes == ContextTypes(pc, text, count, copy, length, local)
SavedTypes ==
  ContextTypes(saved.pc, saved.text, saved.count, saved.copy, saved.length, saved.local)

CursorTypes == /\ use_cursor => \E x \in Column, y \in Row : cursor = At(x, y)
               /\ rel_x \in Column /\ rel_y \in Row

NumberTypes == base \in Base /\ ival \in Nat /\ digits \in Seq(Letter)

StreamTypes == /\ DOMAIN screen = Cell /\ pos \in Nat
               /\ CursorTypes /\ NumberTypes /\ StatementTypes /\ SavedTypes

\* kout: pos is below the end when a character is stored, and flush() comes at once
\* when it is not.
KoutFits ==
  use_cursor => /\ ~handler
                /\ pos <= BufferSize
                /\ pc \notin {"flush", "print", "flushed"} => pos < BufferSize
                /\ pc \in {"store", "increment"} => copy = pos

\* A statement of the debugging output: what is in the buffer, and what is to be put
\* there yet, are no more than its characters, for pos as for the copy of it.
StatementFits(p, t, n, k) ==
  /\ n < BufferSize
  /\ p # "convert" => Len(t) <= n
  /\ p \in {"store", "increment"} => k + Len(t) <= n

DebugFits ==
  ~use_cursor /\ ~handler =>
    /\ StatementFits(pc, text, count, copy)
    /\ pos <= count
    /\ pc \in Putting => pos + Len(text) <= count

\* The handler puts its characters behind those of the statement, which it prints
\* with them; in the end the buffer is empty.
HandlerFits ==
  handler =>
    /\ StatementFits(saved.pc, saved.text, saved.count, saved.copy)
    /\ pos <= BufferSize
    /\ pc \notin {"flush", "print", "flushed"} => pos < BufferSize
    /\ pc \in {"store", "increment"} => copy = pos
    /\ pc # "convert"
    /\ count = 0 => pc = "idle" /\ pos = 0

StreamInv == StreamTypes /\ KoutFits /\ DebugFits /\ HandlerFits

LEMMA StreamInit == Init => StreamInv
<1> SUFFICES ASSUME Init PROVE StreamInv
  OBVIOUS
<1> USE Sizes, WindowAssumption, NumberAssumption
<1>1. CursorTypes
  <2>1. PICK p \in Start : rel_x = p[1] /\ rel_y = p[2]
    BY DEF Init
  <2>2. rel_x \in Column /\ rel_y \in Row
    BY <2>1 DEF Column, Row
  <2>3. cursor = At(rel_x, rel_y)
    BY DEF Init, At
  <2> QED BY <2>2, <2>3 DEF CursorTypes
<1>2. NoLocal.x \in Column /\ NoLocal.y \in Row
  BY DEF NoLocal
<1>3. 0 \in 0 .. BufferSize /\ << >> \in Seq(Letter) /\ "idle" \in Label /\ "idle" \notin Putting
  BY DEF Label, Putting
<1>4. StatementTypes
  <2>1. pc = "idle" /\ text = << >> /\ count = 0 /\ copy = 0 /\ length = 0 /\ local = NoLocal
    BY DEF Init
  <2> QED BY <1>2, <1>3, <2>1 DEF StatementTypes, ContextTypes
<1>5. SavedTypes
  <2>1. /\ saved.pc = "idle" /\ saved.text = << >> /\ saved.count = 0 /\ saved.copy = 0
        /\ saved.length = 0 /\ saved.local = NoLocal
    BY DEF Init, NoSaved
  <2> QED BY <1>2, <1>3, <2>1 DEF SavedTypes, ContextTypes
<1>6. NumberTypes /\ DOMAIN screen = Cell /\ pos \in Nat
  BY DEF Init, NumberTypes, Base
<1>7. KoutFits /\ DebugFits /\ HandlerFits
  BY DEF KoutFits, DebugFits, HandlerFits, StatementFits, Putting, Init
<1> QED BY <1>1, <1>4, <1>5, <1>6, <1>7 DEF StreamInv, StreamTypes

-----------------------------------------------------------------------------
(* The cursor                                                              *)

\* getpos() finds a cell of the window.
LEMMA getposInside == ASSUME StreamTypes PROVE getpos.x \in Column /\ getpos.y \in Row
<1>1. CASE use_cursor
  <2>1. PICK x \in Column, y \in Row : cursor = At(x, y)
    BY <1>1 DEF StreamTypes, CursorTypes
  <2>2. cursor % Columns = from_col + x /\ cursor \div Columns = from_row + y
    BY <2>1, AtIsInWindow
  <2>3. getpos.x = (from_col + x) - from_col /\ getpos.y = (from_row + y) - from_row
    BY <1>1, <2>2 DEF getpos
  <2>4. getpos.x = x /\ getpos.y = y
    BY <2>3, WindowAssumption DEF Column, Row
  <2> QED BY <2>4
<1>2. CASE ~use_cursor
  BY <1>2 DEF StreamTypes, CursorTypes, getpos
<1> QED BY <1>1, <1>2

\* setpos() leaves the cursor in the window.
LEMMA setposInside ==
  ASSUME CursorTypes, NEW x \in Int, NEW y \in Int, setpos(x, y), UNCHANGED use_cursor
  PROVE  CursorTypes' /\ (~use_cursor => UNCHANGED cursor)
<1>1. CASE x \notin Column \/ y \notin Row
  BY <1>1 DEF setpos, CursorTypes, cursorVars, Column, Row
<1>2. CASE x \in Column /\ y \in Row
  BY <1>2 DEF setpos, CursorTypes, At, Column, Row
<1> QED BY <1>1, <1>2

LEMMA CursorKept == ASSUME CursorTypes, UNCHANGED <<use_cursor, cursorVars>> PROVE CursorTypes'
BY DEF CursorTypes, cursorVars

-----------------------------------------------------------------------------
(* Operators                                                               *)

LEMMA LenFacts ==
  ASSUME NEW t \in Seq(Letter)
  PROVE  /\ Len(t) \in Nat /\ (t = << >> <=> Len(t) = 0)
         /\ t # << >> => Tail(t) \in Seq(Letter) /\ Len(Tail(t)) = Len(t) - 1
OBVIOUS

LEMMA WordFacts == Word \in Nat
<1>1. /\ Bits \in 1 .. Bits /\ 2 \in Base
  BY NumberAssumption DEF Base
<1>2. /\ Power[2][Bits] \in Nat
  BY <1>1, PowerAssumption
<1> QED BY <1>2 DEF Word

LEMMA Figure == \A k \in 1 .. 16 : Figures[k] \in Letter
<1> SUFFICES ASSUME NEW k \in 1 .. 16 PROVE Figures[k] \in Letter
  OBVIOUS
<1>1. k \in {1, 2, 3, 4, 5, 6, 7, 8, 9, 10, 11, 12, 13, 14, 15, 16}
  OBVIOUS
<1> QED BY <1>1 DEF Figures, Letter

\* A step that puts nothing into the buffer and prints nothing.
Quiet == UNCHANGED <<use_cursor, screen, cursorVars, buffer, pos, copy, printVars, handlerVars>>

LEMMA OutStep ==
  ASSUME StreamInv, pc \in {"idle", "convert"}, ~handler, Quiet,
         NEW t \in Seq(Letter), NEW b \in Base, Out(t, b), ival' \in Nat,
         digits' \in Seq(Letter)
  PROVE  StreamInv'
<1> USE DEF StreamInv, Quiet
<1>1. Len(t) \in Nat /\ (t = << >> <=> Len(t) = 0)
  BY LenFacts
<1>2. /\ text' = t /\ base' = b /\ count' = count + Len(t)
      /\ pc' = IF t = << >> THEN "idle" ELSE "put"
      /\ use_cursor \/ count + Len(t) < BufferSize
  BY DEF Out
<1>3. CursorTypes'
  BY CursorKept DEF StreamTypes
<1>4. NumberTypes' /\ DOMAIN screen' = Cell /\ pos' \in Nat
  BY <1>2 DEF StreamTypes, NumberTypes
<1>5. StatementTypes'
  BY <1>1, <1>2 DEF StreamTypes, StatementTypes, ContextTypes, Label, Putting, printVars
<1>6. SavedTypes'
  BY DEF StreamTypes, SavedTypes, handlerVars
<1>7. KoutFits'
  BY <1>2 DEF KoutFits, handlerVars
<1>8. DebugFits'
  <2> SUFFICES ASSUME ~use_cursor
               PROVE  /\ StatementFits(pc', text', count', copy')
                      /\ pos' <= count'
                      /\ pc' \in Putting => pos' + Len(text') <= count'
    BY DEF DebugFits, StatementFits
  <2>1. pos <= count /\ pos \in Nat /\ count \in Nat
    BY DEF DebugFits, StreamTypes, StatementTypes, ContextTypes
  <2> QED BY <1>1, <1>2, <2>1 DEF StatementFits, Putting
<1>9. HandlerFits'
  BY DEF HandlerFits, handlerVars
<1> QED BY <1>3, <1>4, <1>5, <1>6, <1>7, <1>8, <1>9 DEF StreamTypes

LEMMA NumberBegins ==
  ASSUME StreamInv, pc = "idle", ~handler, Quiet,
         NEW sign \in Seq(Letter), NEW n \in Nat, NEW b \in Base,
         UnsignedLong(sign, n, b)
  PROVE  StreamInv'
<1>1. CASE n = 0
  <2>1. <<"0">> \in Seq(Letter)
    BY DEF Letter
  <2>2. Out(<<"0">>, b) /\ ival' \in Nat /\ digits' \in Seq(Letter)
    BY <1>1 DEF UnsignedLong, numberVars, StreamInv, StreamTypes, NumberTypes
  <2> QED BY <2>1, <2>2, OutStep
<1>2. CASE n # 0
  <2> USE DEF StreamInv, Quiet
  <2>1. ival' = n /\ digits' = << >> /\ text' = sign /\ pc' = "convert" /\ UNCHANGED <<base, count>>
    BY <1>2 DEF UnsignedLong
  <2>2. CursorTypes'
    BY CursorKept DEF StreamTypes
  <2>3. NumberTypes' /\ DOMAIN screen' = Cell /\ pos' \in Nat
    BY <2>1 DEF StreamTypes, NumberTypes
  <2>4. StatementTypes'
    BY <2>1 DEF StreamTypes, StatementTypes, ContextTypes, Label, Putting, printVars
  <2>5. SavedTypes'
    BY DEF StreamTypes, SavedTypes, handlerVars
  <2>6. KoutFits' /\ DebugFits' /\ HandlerFits'
    BY <2>1 DEF KoutFits, DebugFits, HandlerFits, StatementFits, Putting, handlerVars
  <2> QED BY <2>2, <2>3, <2>4, <2>5, <2>6 DEF StreamTypes
<1> QED BY <1>1, <1>2

LEMMA WriteStep == ASSUME StreamInv, Write PROVE StreamInv'
<1> USE DEF Base
<1>1. pc = "idle" /\ ~handler /\ Quiet
  BY DEF Write, Operator, Quiet
<1>2. ival' \in Nat /\ digits' \in Seq(Letter) /\ base \in Base
  BY DEF Write, numberVars, StreamInv, StreamTypes, NumberTypes
<1>3. ASSUME NEW t \in Seq(Letter), NEW b \in Base, Out(t, b) PROVE StreamInv'
  BY <1>1, <1>2, <1>3, OutStep
<1>4. /\ \A c \in Char \cup {"newline", "tab", "backspace", "nul"} : <<c>> \in Seq(Letter)
      /\ <<"0", "b">> \in Seq(Letter) /\ <<"0">> \in Seq(Letter) /\ <<"0", "x">> \in Seq(Letter)
      /\ << >> \in Seq(Letter)
  BY DEF Letter
<1> QED BY <1>2, <1>3, <1>4 DEF Write

LEMMA WriteNumberStep == ASSUME StreamInv, WriteNumber PROVE StreamInv'
<1> USE DEF Base
<1>1. pc = "idle" /\ ~handler /\ Quiet
  BY DEF WriteNumber, Operator, Quiet
<1>2. base \in Base
  BY DEF StreamInv, StreamTypes, NumberTypes
<1>3. << >> \in Seq(Letter) /\ <<"-">> \in Seq(Letter)
  BY DEF Letter
<1>4. PICK n \in Number : Long(n) \/ (n >= 0 /\ UnsignedLong(<< >>, n, base))
  BY DEF WriteNumber
<1>5. n \in Int /\ n + Word \in Nat
  BY NumberAssumption, WordFacts
<1>6. CASE n >= 0 /\ UnsignedLong(<< >>, n, base)
  <2>1. n \in Nat
    BY <1>5, <1>6
  <2> QED BY <1>1, <1>2, <1>3, <1>6, <2>1, NumberBegins
<1>7. CASE Long(n)
  <2>1. CASE base = 10 /\ n < 0
    <3>1. UnsignedLong(<<"-">>, -n, 10) /\ -n \in Nat
      BY <1>5, <1>7, <2>1 DEF Long
    <3> QED BY <1>1, <1>3, <3>1, NumberBegins
  <2>2. CASE ~(base = 10 /\ n < 0)
    <3> DEFINE m == IF n < 0 THEN n + Word ELSE n
    <3>1. UnsignedLong(<< >>, m, 10) /\ m \in Nat
      BY <1>5, <1>7, <2>2 DEF Long
    <3> QED BY <1>1, <1>3, <3>1, NumberBegins
  <2> QED BY <2>1, <2>2
<1> QED BY <1>4, <1>6, <1>7

LEMMA DivideStep == ASSUME StreamInv, Divide PROVE StreamInv'
<1> USE DEF StreamInv
<1>1. base \in Base /\ ival \in Nat /\ digits \in Seq(Letter)
  BY DEF StreamTypes, NumberTypes
<1>2. ival \div base \in Nat /\ (ival % base) + 1 \in 1 .. 16
  BY <1>1 DEF Base
<1>3. <<Figures[(ival % base) + 1]>> \o digits \in Seq(Letter)
  BY <1>1, <1>2, Figure
<1>4. UNCHANGED <<use_cursor, screen, cursorVars, bufferVars, pc, textVars, printVars, handlerVars>>
  BY DEF Divide
<1>5. CursorTypes'
  BY <1>4, CursorKept DEF StreamTypes
<1>6. NumberTypes' /\ DOMAIN screen' = Cell /\ pos' \in Nat
  BY <1>1, <1>2, <1>3, <1>4 DEF Divide, StreamTypes, NumberTypes, bufferVars
<1>7. StatementTypes' /\ SavedTypes'
  BY <1>4 DEF StreamTypes, StatementTypes, SavedTypes, textVars, printVars, handlerVars
<1>8. KoutFits' /\ DebugFits' /\ HandlerFits'
  BY <1>4 DEF KoutFits, DebugFits, HandlerFits, textVars, bufferVars, handlerVars
<1> QED BY <1>5, <1>6, <1>7, <1>8 DEF StreamTypes

LEMMA ConvertedStep == ASSUME StreamInv, Converted PROVE StreamInv'
<1> USE DEF Base
<1>1. pc = "convert" /\ ~handler /\ Quiet
  BY DEF Converted, Quiet, StreamInv, HandlerFits
<1>2. text \o digits \in Seq(Letter) /\ ival' \in Nat /\ digits' \in Seq(Letter)
  BY DEF Converted, StreamInv, StreamTypes, NumberTypes, StatementTypes, ContextTypes
<1> QED BY <1>1, <1>2, OutStep DEF Converted

-----------------------------------------------------------------------------
(* setpos() and reset()                                                    *)

LEMMA SetPosStep == ASSUME StreamInv, SetPos PROVE StreamInv' /\ use_cursor /\ UNCHANGED screen
<1> USE DEF StreamInv
<1>1. UNCHANGED <<use_cursor, screen, bufferVars, pc, text, count, copy, printVars, numberVars,
                  handlerVars>>
  BY DEF SetPos
<1>2. PICK x \in {-1, 0, width - 1, width}, y \in {0, height - 1, height} : setpos(x, y)
  BY DEF SetPos
<1>3. x \in Int /\ y \in Int
  BY Sizes
<1>4. CursorTypes'
  BY <1>1, <1>2, <1>3, setposInside DEF StreamTypes
<1>5. StreamTypes'
  BY <1>1, <1>4 DEF StreamTypes, NumberTypes, StatementTypes, SavedTypes, bufferVars, printVars,
                    numberVars, handlerVars
<1>6. KoutFits' /\ DebugFits' /\ HandlerFits'
  BY <1>1 DEF KoutFits, DebugFits, HandlerFits, bufferVars, handlerVars
<1> QED BY <1>1, <1>5, <1>6 DEF SetPos

LEMMA ResetStep ==
  ASSUME StreamInv, Reset
  PROVE  StreamInv' /\ use_cursor /\ \A n \in Cell : ~InWindow(n) => screen'[n] = screen[n]
<1> USE DEF StreamInv
<1>1. /\ UNCHANGED <<use_cursor, bufferVars, pc, text, count, copy, printVars, numberVars,
                     handlerVars>>
      /\ screen' = [n \in Cell |-> IF InWindow(n) THEN " " ELSE screen[n]]
      /\ cursor' = from_col + from_row * Columns /\ rel_x' = 0 /\ rel_y' = 0
  BY DEF Reset
<1>2. CursorTypes'
  <2>1. At(0, 0) = from_col + from_row * Columns
    BY WindowAssumption DEF At
  <2> QED BY <1>1, <2>1, Sizes DEF CursorTypes
<1>3. StreamTypes'
  BY <1>1, <1>2 DEF StreamTypes, NumberTypes, StatementTypes, SavedTypes, bufferVars, printVars,
                    numberVars, handlerVars
<1>4. KoutFits' /\ DebugFits' /\ HandlerFits'
  BY <1>1 DEF KoutFits, DebugFits, HandlerFits, bufferVars, handlerVars
<1> QED BY <1>1, <1>3, <1>4 DEF Reset

-----------------------------------------------------------------------------
(* put()                                                                   *)

\* What the steps of put() and flush() leave alone.
Aside == UNCHANGED <<use_cursor, base, numberVars, handlerVars>>

LEMMA AsideKeeps ==
  ASSUME StreamTypes, Aside, UNCHANGED screen, CursorTypes', StatementTypes', pos' \in Nat
  PROVE  StreamTypes'
BY DEF StreamTypes, Aside, NumberTypes, SavedTypes, numberVars, handlerVars

\* In each case: pos and, after Load, copy are below the end.
LEMMA PutRoom ==
  ASSUME StreamInv, pc \in Putting
  PROVE  /\ pos \in 0 .. BufferSize - 1
         /\ pc \in {"store", "increment"} => copy \in 0 .. BufferSize - 1
<1> USE DEF StreamInv, StreamTypes, StatementTypes, ContextTypes
<1>1. Len(text) \in Nat \ {0} /\ pos \in Nat /\ copy \in Nat /\ count \in Nat
  BY LenFacts
<1>2. CASE use_cursor
  BY <1>1, <1>2, NumberAssumption DEF KoutFits, Putting
<1>3. CASE handler
  BY <1>1, <1>3, NumberAssumption DEF HandlerFits, Putting
<1>4. CASE ~use_cursor /\ ~handler
  BY <1>1, <1>4, NumberAssumption DEF DebugFits, StatementFits, Putting
<1> QED BY <1>2, <1>3, <1>4

LEMMA LoadStep == ASSUME StreamInv, Load PROVE StreamInv'
<1> USE DEF StreamInv
<1>1. /\ Aside /\ UNCHANGED <<screen, cursorVars, buffer, pos, text, count, printVars>>
      /\ pc = "put" /\ copy' = pos /\ pc' = "store"
  BY DEF Load, Aside, bufferVars
<1>2. CursorTypes'
  BY <1>1, CursorKept DEF StreamTypes, Aside
<1>3. StatementTypes'
  BY <1>1 DEF StreamTypes, StatementTypes, ContextTypes, Label, Putting, printVars
<1>4. StreamTypes'
  BY <1>1, <1>2, <1>3, AsideKeeps DEF StreamTypes
<1>5. KoutFits' /\ DebugFits' /\ HandlerFits'
  BY <1>1 DEF KoutFits, DebugFits, HandlerFits, StatementFits, Putting, Aside, handlerVars
<1> QED BY <1>4, <1>5

LEMMA StoreStep == ASSUME StreamInv, Store PROVE StreamInv'
<1> USE DEF StreamInv
<1>1. /\ Aside /\ UNCHANGED <<screen, cursorVars, pos, text, count, copy, printVars>>
      /\ pc = "store" /\ pc' = "increment"
  BY DEF Store, Aside, textVars
<1>2. CursorTypes'
  BY <1>1, CursorKept DEF StreamTypes, Aside
<1>3. StatementTypes'
  BY <1>1 DEF StreamTypes, StatementTypes, ContextTypes, Label, Putting, printVars
<1>4. StreamTypes'
  BY <1>1, <1>2, <1>3, AsideKeeps DEF StreamTypes
<1>5. KoutFits' /\ DebugFits' /\ HandlerFits'
  BY <1>1 DEF KoutFits, DebugFits, HandlerFits, StatementFits, Putting, Aside, handlerVars
<1> QED BY <1>4, <1>5

LEMMA IncrementStep == ASSUME StreamInv, Increment PROVE StreamInv'
<1> USE DEF StreamInv
<1>1. /\ Aside /\ UNCHANGED <<screen, cursorVars, count, copy, printVars>>
      /\ pc = "increment" /\ text' = Tail(text)
      /\ pc' = IF pos' = BufferSize THEN "flush" ELSE IF text' = << >> THEN "idle" ELSE "put"
  BY DEF Increment, Aside, bufferVars
<1>2. PICK p \in {copy, pos} : pos' = p + 1
  BY DEF Increment
<1>3. /\ text \in Seq(Letter) /\ text # << >> /\ pos \in Nat /\ copy \in Nat /\ count \in Nat
  BY <1>1 DEF StreamTypes, StatementTypes, ContextTypes, Putting
<1>4. /\ Len(text) \in Nat \ {0} /\ text' \in Seq(Letter) /\ Len(text') = Len(text) - 1
      /\ text' = << >> <=> Len(text') = 0
  BY <1>1, <1>3, LenFacts
<1>5. p \in 0 .. BufferSize - 1
  BY <1>1, <1>2, PutRoom DEF Putting
<1>6. CursorTypes'
  BY <1>1, CursorKept DEF StreamTypes, Aside
<1>7. StatementTypes'
  BY <1>1, <1>4 DEF StreamTypes, StatementTypes, ContextTypes, Label, Putting, printVars
<1>8. pos' \in 0 .. BufferSize
  BY <1>2, <1>5, NumberAssumption
<1>9. StreamTypes'
  BY <1>1, <1>6, <1>7, <1>8, AsideKeeps DEF StreamTypes
<1>10. KoutFits'
  BY <1>1, <1>8, NumberAssumption DEF KoutFits, Aside, handlerVars
<1>11. DebugFits'
  <2> SUFFICES ASSUME ~use_cursor, ~handler
               PROVE  /\ StatementFits(pc', text', count', copy')
                      /\ pos' <= count'
                      /\ pc' \in Putting => pos' + Len(text') <= count'
    BY <1>1 DEF DebugFits, StatementFits, Aside, handlerVars
  <2>1. /\ count < BufferSize /\ p + Len(text) <= count
    BY <1>1, <1>2 DEF DebugFits, StatementFits, Putting
  <2>2. pos' + Len(text') <= count
    BY <1>2, <1>3, <1>4, <1>5, <2>1
  <2> QED BY <1>1, <1>3, <1>4, <1>8, <2>1, <2>2 DEF StatementFits, Putting
<1>12. HandlerFits'
  BY <1>1, <1>8, NumberAssumption DEF HandlerFits, StatementFits, Aside, handlerVars
<1> QED BY <1>9, <1>10, <1>11, <1>12

-----------------------------------------------------------------------------
(* flush()                                                                 *)

LEMMA EndStatementStep == ASSUME StreamInv, EndStatement PROVE StreamInv'
<1> USE DEF StreamInv
<1>1. /\ Aside /\ UNCHANGED <<screen, cursorVars, pos, text, count, copy, printVars>>
      /\ pc = "idle" /\ count > 0 /\ pc' = "flush"
  BY DEF EndStatement, Aside, bufferVars, textVars
<1>2. CursorTypes'
  BY <1>1, CursorKept DEF StreamTypes, Aside
<1>3. StatementTypes'
  BY <1>1 DEF StreamTypes, StatementTypes, ContextTypes, Label, Putting, printVars
<1>4. StreamTypes'
  BY <1>1, <1>2, <1>3, AsideKeeps DEF StreamTypes
<1>5. KoutFits' /\ DebugFits' /\ HandlerFits'
  BY <1>1 DEF KoutFits, DebugFits, HandlerFits, StatementFits, Putting, Aside, handlerVars
<1> QED BY <1>4, <1>5

\* flush() never finds more in the buffer than it holds.
LEMMA PosInBuffer == ASSUME StreamInv PROVE pos \in 0 .. BufferSize
BY NumberAssumption DEF StreamInv, StreamTypes, StatementTypes, ContextTypes, KoutFits, DebugFits,
                        HandlerFits, StatementFits

LEMMA FlushStep == ASSUME StreamInv, Flush PROVE StreamInv'
<1> USE DEF StreamInv
<1>1. /\ Aside /\ UNCHANGED <<screen, cursorVars, pos, text, count, copy>>
      /\ pc = "flush" /\ pc' = "print" /\ length' = pos
      /\ local' = [NoLocal EXCEPT !.x = getpos.x, !.y = getpos.y]
  BY DEF Flush, Aside, bufferVars, textVars
<1>2. local'.x \in Column /\ local'.y \in Row
  <2>1. local'.x = getpos.x /\ local'.y = getpos.y
    BY <1>1 DEF NoLocal
  <2> QED BY <2>1, getposInside
<1>3. CursorTypes'
  BY <1>1, CursorKept DEF StreamTypes, Aside
<1>4. StatementTypes'
  BY <1>1, <1>2, PosInBuffer DEF StreamTypes, StatementTypes, ContextTypes, Label, Putting
<1>5. StreamTypes'
  BY <1>1, <1>3, <1>4, AsideKeeps DEF StreamTypes
<1>6. KoutFits' /\ DebugFits' /\ HandlerFits'
  BY <1>1 DEF KoutFits, DebugFits, HandlerFits, StatementFits, Putting, Aside, handlerVars
<1> QED BY <1>5, <1>6

LEMMA ShowNextStep ==
  ASSUME StreamInv, ShowNext
  PROVE  StreamInv' /\ UNCHANGED cursor /\ \A n \in Cell : ~InWindow(n) => screen'[n] = screen[n]
<1> USE DEF StreamInv
<1> DEFINE s == Iteration(screen, local, buffer[local.i])
<1>1. /\ Aside /\ UNCHANGED <<cursorVars, pos, pc, text, count, copy, length>>
      /\ pc = "print" /\ screen' = s.screen
      /\ local' = [x |-> s.x, y |-> s.y, i |-> s.i, remain |-> s.remain]
  BY DEF ShowNext, Aside, bufferVars, textVars
<1>2. /\ s.x \in Column /\ s.y \in Row
      /\ DOMAIN s.screen = Cell
      /\ \A n \in Cell : ~InWindow(n) => s.screen[n] = screen[n]
  BY IterationInside DEF StreamTypes, StatementTypes, ContextTypes
<1> HIDE DEF s
<1>3. local'.x \in Column /\ local'.y \in Row
  BY <1>1, <1>2
<1>4. CursorTypes'
  BY <1>1, CursorKept DEF StreamTypes, Aside
<1>5. StatementTypes'
  BY <1>1, <1>3 DEF StreamTypes, StatementTypes, ContextTypes
<1>6. NumberTypes' /\ SavedTypes' /\ DOMAIN screen' = Cell /\ pos' \in Nat
  BY <1>1, <1>2 DEF StreamTypes, Aside, NumberTypes, SavedTypes, numberVars, handlerVars
<1>7. KoutFits' /\ DebugFits' /\ HandlerFits'
  BY <1>1 DEF KoutFits, DebugFits, HandlerFits, StatementFits, Putting, Aside, handlerVars
<1> QED BY <1>1, <1>2, <1>4, <1>5, <1>6, <1>7 DEF StreamTypes, cursorVars

LEMMA PrintedStep ==
  ASSUME StreamInv, Printed
  PROVE  StreamInv' /\ UNCHANGED <<use_cursor, screen>> /\ (~use_cursor => UNCHANGED cursor)
<1> USE DEF StreamInv
<1>1. /\ Aside /\ UNCHANGED <<screen, pos, text, count, copy, printVars>>
      /\ pc = "print" /\ pc' = "flushed" /\ setpos(local.x, local.y)
  BY DEF Printed, Aside, bufferVars, textVars
<1>2. local.x \in Int /\ local.y \in Int
  BY Sizes DEF StreamTypes, StatementTypes, ContextTypes, Column, Row
<1>3. CursorTypes' /\ (~use_cursor => UNCHANGED cursor)
  BY <1>1, <1>2, setposInside DEF StreamTypes, Aside
<1>4. StatementTypes'
  BY <1>1 DEF StreamTypes, StatementTypes, ContextTypes, Label, Putting, printVars
<1>5. StreamTypes'
  BY <1>1, <1>3, <1>4, AsideKeeps DEF StreamTypes
<1>6. KoutFits' /\ DebugFits' /\ HandlerFits'
  BY <1>1 DEF KoutFits, DebugFits, HandlerFits, StatementFits, Putting, Aside, handlerVars
<1> QED BY <1>1, <1>3, <1>5, <1>6 DEF Aside

LEMMA FlushedStep == ASSUME StreamInv, Flushed PROVE StreamInv'
<1> USE DEF StreamInv
<1>1. /\ Aside /\ UNCHANGED <<screen, cursorVars, text, copy>>
      /\ pc = "flushed" /\ pos' = 0 /\ length' = 0 /\ local' = NoLocal
      /\ \/ text = << >> /\ pc' = "idle" /\ count' = 0
         \/ text # << >> /\ pc' = "put" /\ count' = count
  BY DEF Flushed, Aside
<1>2. CursorTypes'
  BY <1>1, CursorKept DEF StreamTypes, Aside
<1>3. NoLocal.x \in Column /\ NoLocal.y \in Row /\ 0 \in 0 .. BufferSize
  BY Sizes, NumberAssumption DEF NoLocal
<1>4. StatementTypes'
  BY <1>1, <1>3 DEF StreamTypes, StatementTypes, ContextTypes, Label, Putting
<1>5. StreamTypes'
  BY <1>1, <1>2, <1>4, AsideKeeps DEF StreamTypes
<1>6. KoutFits' /\ HandlerFits'
  BY <1>1, NumberAssumption DEF KoutFits, HandlerFits, StatementFits, Putting, Aside, handlerVars
<1>7. DebugFits'
  <2>1. Len(text) \in Nat /\ count \in Nat
    BY LenFacts DEF StreamTypes, StatementTypes, ContextTypes
  <2> QED BY <1>1, <2>1, NumberAssumption DEF DebugFits, StatementFits, Putting, Aside, handlerVars
<1> QED BY <1>5, <1>6, <1>7

-----------------------------------------------------------------------------
(* Interrupts                                                              *)

LEMMA InterruptStep == ASSUME StreamInv, Interrupt PROVE StreamInv'
<1> USE DEF StreamInv
<1>1. /\ UNCHANGED <<use_cursor, screen, cursorVars, pos, base, numberVars>>
      /\ ~use_cursor /\ ~handler /\ handler'
      /\ saved' = [pc |-> pc, text |-> text, count |-> count, copy |-> copy,
                   length |-> length, local |-> local]
      /\ text' = <<"i", "newline">> /\ count' = 2 /\ pc' = "put"
      /\ copy' = 0 /\ length' = 0 /\ local' = NoLocal
  BY DEF Interrupt, bufferVars
<1>2. CursorTypes'
  BY <1>1, CursorKept DEF StreamTypes
<1>3. NoLocal.x \in Column /\ NoLocal.y \in Row /\ 0 \in 0 .. BufferSize
  BY Sizes, NumberAssumption DEF NoLocal
<1>4. <<"i", "newline">> \in Seq(Letter) /\ <<"i", "newline">> # << >>
  BY DEF Letter
<1>5. StatementTypes'
  BY <1>1, <1>3, <1>4 DEF StatementTypes, ContextTypes, Label, Putting
<1>6. /\ saved'.pc = pc /\ saved'.text = text /\ saved'.count = count /\ saved'.copy = copy
      /\ saved'.length = length /\ saved'.local = local
  BY <1>1
<1>7. SavedTypes'
  BY <1>6 DEF StreamTypes, StatementTypes, SavedTypes, ContextTypes
<1>8. StreamTypes'
  BY <1>1, <1>2, <1>5, <1>7 DEF StreamTypes, NumberTypes, numberVars
<1>9. HandlerFits'
  <2>1. StatementFits(pc, text, count, copy) /\ pos <= count /\ pos \in Nat /\ count \in Nat
    BY <1>1 DEF DebugFits, StreamTypes, StatementTypes, ContextTypes
  <2> QED BY <1>1, <1>6, <2>1, NumberAssumption DEF HandlerFits, StatementFits
<1> QED BY <1>1, <1>8, <1>9 DEF KoutFits, DebugFits

LEMMA ReturnStep == ASSUME StreamInv, Return PROVE StreamInv'
<1> USE DEF StreamInv
<1>1. /\ UNCHANGED <<use_cursor, screen, cursorVars, pos, base, numberVars>>
      /\ handler /\ ~handler' /\ count = 0
      /\ pc' = saved.pc /\ text' = saved.text /\ count' = saved.count
      /\ copy' = saved.copy /\ length' = saved.length /\ local' = saved.local
      /\ saved' = NoSaved
  BY DEF Return, bufferVars
<1>2. CursorTypes'
  BY <1>1, CursorKept DEF StreamTypes
<1>3. StatementTypes'
  BY <1>1 DEF StreamTypes, StatementTypes, SavedTypes, ContextTypes
<1>4. SavedTypes'
  <2>1. NoLocal.x \in Column /\ NoLocal.y \in Row /\ 0 \in 0 .. BufferSize
    BY Sizes, NumberAssumption DEF NoLocal
  <2>2. /\ saved'.pc = "idle" /\ saved'.text = << >> /\ saved'.count = 0 /\ saved'.copy = 0
        /\ saved'.length = 0 /\ saved'.local = NoLocal
    BY <1>1 DEF NoSaved
  <2> QED BY <2>1, <2>2 DEF SavedTypes, ContextTypes, Label, Putting
<1>5. StreamTypes'
  BY <1>1, <1>2, <1>3, <1>4 DEF StreamTypes, NumberTypes, numberVars
<1>6. DebugFits'
  <2>1. /\ pos = 0 /\ StatementFits(saved.pc, saved.text, saved.count, saved.copy)
        /\ saved.count \in Nat /\ Len(saved.text) \in Nat
    BY <1>1, LenFacts DEF HandlerFits, StreamTypes, SavedTypes, ContextTypes
  <2> QED BY <1>1, <2>1 DEF DebugFits, StatementFits, Putting
<1>7. ~use_cursor
  BY <1>1 DEF KoutFits
<1> QED BY <1>1, <1>5, <1>6, <1>7 DEF KoutFits, HandlerFits

-----------------------------------------------------------------------------
(* The theorems                                                            *)

LEMMA StreamNext == StreamInv /\ [Next]_vars => StreamInv'
<1> SUFFICES ASSUME StreamInv, [Next]_vars PROVE StreamInv'
  OBVIOUS
<1>1. CASE Write
  BY <1>1, WriteStep
<1>2. CASE WriteNumber
  BY <1>2, WriteNumberStep
<1>3. CASE Divide
  BY <1>3, DivideStep
<1>4. CASE Converted
  BY <1>4, ConvertedStep
<1>5. CASE SetPos
  BY <1>5, SetPosStep
<1>6. CASE Reset
  BY <1>6, ResetStep
<1>7. CASE Load
  BY <1>7, LoadStep
<1>8. CASE Store
  BY <1>8, StoreStep
<1>9. CASE Increment
  BY <1>9, IncrementStep
<1>10. CASE EndStatement
  BY <1>10, EndStatementStep
<1>11. CASE Flush
  BY <1>11, FlushStep
<1>12. CASE ShowNext
  BY <1>12, ShowNextStep
<1>13. CASE Printed
  BY <1>13, PrintedStep
<1>14. CASE Flushed
  BY <1>14, FlushedStep
<1>15. CASE Interrupt
  BY <1>15, InterruptStep
<1>16. CASE Return
  BY <1>16, ReturnStep
<1>17. CASE UNCHANGED vars
  <2>1. CursorTypes'
    BY <1>17, CursorKept DEF StreamInv, StreamTypes, vars
  <2>2. StreamTypes'
    BY <1>17, <2>1 DEF StreamInv, StreamTypes, NumberTypes, StatementTypes, SavedTypes, vars,
                       bufferVars, textVars, printVars, numberVars, handlerVars
  <2> QED BY <1>17, <2>2 DEF StreamInv, KoutFits, DebugFits, HandlerFits, vars, bufferVars,
                             textVars, handlerVars
<1> QED BY <1>1, <1>2, <1>3, <1>4, <1>5, <1>6, <1>7, <1>8, <1>9, <1>10, <1>11, <1>12, <1>13,
           <1>14, <1>15, <1>16, <1>17 DEF Next

LEMMA StreamInvariant == Spec => []StreamInv
BY StreamInit, StreamNext, PTL DEF Spec

\* Wherever interrupts print into the middle of a statement, no character is stored
\* outside the buffer, and the text goes on inside the window, for every window and
\* every length of the buffer (strbuf.cc 5-12, cgascr.cc 22-26).
THEOREM OutputInBounds == Spec => []InBounds
<1>1. StreamInv => InBounds
  <2> SUFFICES ASSUME StreamInv PROVE InBounds
    OBVIOUS
  <2>1. pos \in 0 .. BufferSize - 1 \/ (pos = BufferSize /\ pc \notin {"idle", "put"})
    BY NumberAssumption DEF StreamInv, StreamTypes, StatementTypes, ContextTypes, KoutFits,
                            DebugFits, HandlerFits, StatementFits
  <2>2. pc = "store" => copy \in 0 .. BufferSize - 1
    BY PutRoom DEF Putting
  <2>3. getpos.x \in Column /\ getpos.y \in Row
    BY getposInside DEF StreamInv
  <2> QED BY <2>1, <2>2, <2>3, NumberAssumption
          DEF InBounds, StreamInv, StreamTypes, StatementTypes, ContextTypes, Column, Row
<1> QED BY <1>1, StreamInvariant, PTL

\* No operator, flush or interrupt changes a cell outside of the window, and only kout
\* moves the cursor of the hardware, for every window and screen (cgascr.h 22-23).
THEOREM WindowsApart == Spec => OutsideUntouched
<1> DEFINE Apart == /\ \A n \in Cell : ~InWindow(n) => screen'[n] = screen[n]
                    /\ ~use_cursor => cursor' = cursor
<1>1. StreamInv /\ [Next]_vars => [Apart]_vars
  <2> SUFFICES ASSUME StreamInv, Next PROVE Apart
    OBVIOUS
  <2>1. CASE SetPos
    BY <2>1, SetPosStep
  <2>2. CASE Reset
    BY <2>2, ResetStep
  <2>3. CASE ShowNext
    BY <2>3, ShowNextStep
  <2>4. CASE Printed
    BY <2>4, PrintedStep
  <2>5. CASE Write \/ WriteNumber \/ Converted
    BY <2>5 DEF Write, WriteNumber, Operator, Converted, cursorVars
  <2>6. CASE Divide \/ Load \/ Store \/ Increment
    BY <2>6 DEF Divide, Load, Store, Increment, cursorVars
  <2>7. CASE EndStatement \/ Flush \/ Flushed \/ Interrupt \/ Return
    BY <2>7 DEF EndStatement, Flush, Flushed, Interrupt, Return, cursorVars
  <2> QED BY <2>1, <2>2, <2>3, <2>4, <2>5, <2>6, <2>7 DEF Next
<1> QED BY <1>1, StreamInvariant, PTL DEF Spec, OutsideUntouched

-----------------------------------------------------------------------------
(* The window as a tape                                                    *)

\* Cells of the tape, from the lines and columns of the window.
LEMMA Folded ==
  /\ \A x \in Column, y \in Row : /\ x + y * width \in Term!Cells
                                  /\ (x + y * width) % width = x
                                  /\ (x + y * width) \div width = y
  /\ \A n \in Term!Cells : /\ n \in Nat /\ n % width \in Column /\ n \div width \in Row
                           /\ n = (n % width) + (n \div width) * width
<1>1. ASSUME NEW x \in Column, NEW y \in Row
      PROVE  /\ x + y * width \in Term!Cells
             /\ (x + y * width) % width = x /\ (x + y * width) \div width = y
  <2>1. y * width + width <= height * width
    BY Sizes, Multiples DEF Row
  <2>2. /\ x + y * width \in Nat
        /\ (x + y * width) % width = x /\ (x + y * width) \div width = y
    BY Sizes, CellAt DEF Column, Row
  <2>3. y * width \in Nat /\ height * width \in Nat /\ height * width = width * height
    BY Sizes DEF Row
  <2>4. x + y * width <= width * height - 1
    BY <2>1, <2>3, Sizes DEF Column
  <2> QED BY <2>2, <2>3, <2>4 DEF Term!Cells
<1>2. ASSUME NEW n \in Term!Cells
      PROVE  /\ n \in Nat /\ n % width \in Column /\ n \div width \in Row
             /\ n = (n % width) + (n \div width) * width
  <2>1. width * height \in Nat /\ width * height = height * width
    BY Sizes
  <2>2. n \in Nat /\ n < height * width
    BY <2>1 DEF Term!Cells
  <2> DEFINE q == n \div width
             m == n % width
  <2>3. q \in Nat /\ m \in 0 .. width - 1 /\ n = q * width + m
    BY <2>2, Sizes
  <2> HIDE DEF q, m
  <2>4. q * width \in Nat
    BY <2>3, Sizes
  <2>5. ASSUME q >= height PROVE FALSE
    <3>1. height * width <= q * width
      <4>1. CASE height = q
        BY <4>1, <2>4
      <4>2. CASE height < q
        BY <4>2, <2>1, <2>3, <2>4, Sizes, Multiples
      <4> QED BY <4>1, <4>2, <2>3, <2>5, Sizes
    <3> QED BY <2>1, <2>2, <2>3, <2>4, <3>1, Sizes
  <2>6. q \in Row /\ m \in Column /\ n = m + q * width
    BY <2>3, <2>4, <2>5, Sizes DEF Row, Column
  <2> QED BY <2>2, <2>6 DEF q, m
<1> QED BY <1>1, <1>2

LEMMA AtIsCell ==
  ASSUME NEW x \in Column, NEW y \in Row
  PROVE  /\ At(x, y) \in Cell
         /\ \A a \in Column, b \in Row : At(x, y) = At(a, b) => x = a /\ y = b
<1>1. from_row + y \in 0 .. Rows - 1 /\ from_col + x \in 0 .. Columns - 1
  BY WindowAssumption DEF Column, Row, width, height
<1>2. (from_row + y) * Columns + Columns <= Rows * Columns
  BY <1>1, WindowAssumption, Multiples
<1>3. /\ (from_row + y) * Columns \in Nat /\ Rows * Columns \in Nat
      /\ Rows * Columns = Columns * Rows
  BY <1>1, WindowAssumption
<1>4. At(x, y) \in Cell
  BY <1>1, <1>2, <1>3, WindowAssumption DEF At, Cell
<1>5. ASSUME NEW a \in Column, NEW b \in Row, At(x, y) = At(a, b) PROVE x = a /\ y = b
  <2>1. from_col + x = from_col + a /\ from_row + y = from_row + b
    BY <1>5, AtIsInWindow
  <2> QED BY <2>1, WindowAssumption DEF Column, Row
<1> QED BY <1>4, <1>5

\* What the window shows of a screen.
PageOf(scr) == [n \in Term!Cells |-> scr[At(n % width, n \div width)]]

LEMMA WindowIsPage == Window = PageOf(screen)
BY DEF Window, PageOf, At, Term!Cells

\* show() changes one cell of the window.
LEMMA ShowPage ==
  ASSUME NEW scr, DOMAIN scr = Cell, NEW x \in Column, NEW y \in Row, NEW d
  PROVE  PageOf(show(scr, from_col + x, from_row + y, d)) = [PageOf(scr) EXCEPT ![x + y * width] = d]
<1> DEFINE new == show(scr, from_col + x, from_row + y, d)
<1>1. new = [scr EXCEPT ![At(x, y)] = d]
  <2>1. from_row + y \in 0 .. Rows - 1 /\ from_col + x \in 0 .. Columns - 1
    BY WindowAssumption DEF Column, Row, width, height
  <2>2. ~(from_row + y < 0) /\ ~(from_col + x < 0)
    BY <2>1
  <2> QED BY <2>1, <2>2 DEF show, At
<1> HIDE DEF new
<1>2. x + y * width \in Term!Cells
  BY Folded
<1>3. ASSUME NEW n \in Term!Cells
      PROVE  PageOf(new)[n] = [PageOf(scr) EXCEPT ![x + y * width] = d][n]
  <2>1. /\ n % width \in Column /\ n \div width \in Row
        /\ n = (n % width) + (n \div width) * width
    BY Folded
  <2>2. At(n % width, n \div width) \in Cell
    BY <2>1, AtIsCell
  <2>3. PageOf(new)[n] = new[At(n % width, n \div width)]
    BY DEF PageOf
  <2>4. CASE n = x + y * width
    <3>1. n % width = x /\ n \div width = y
      BY <2>4, Folded
    <3> QED BY <1>1, <2>2, <2>3, <2>4, <3>1 DEF PageOf
  <2>5. CASE n # x + y * width
    <3>1. At(n % width, n \div width) # At(x, y)
      BY <2>1, <2>5, AtIsCell
    <3> QED BY <1>1, <2>2, <2>3, <2>5, <3>1 DEF PageOf
  <2> QED BY <2>4, <2>5
<1> QED BY <1>3 DEF PageOf, new

\* Clearing the last line moves the page up by a line.
LEMMA ScrollPage ==
  ASSUME NEW scr, DOMAIN scr = Cell
  PROVE  PageOf(Scroll(scr, height - 1)) =
           [n \in Term!Cells |-> IF n + width \in Term!Cells THEN PageOf(scr)[n + width] ELSE " "]
<1> DEFINE new == Scroll(scr, height - 1)
<1>1. ASSUME NEW n \in Term!Cells
      PROVE  PageOf(new)[n] = IF n + width \in Term!Cells THEN PageOf(scr)[n + width] ELSE " "
  <2> DEFINE x == n % width
             y == n \div width
  <2>1. x \in Column /\ y \in Row /\ n = x + y * width
    BY Folded
  <2>2. PageOf(new)[n] = new[At(x, y)]
    BY DEF PageOf
  <2> HIDE DEF x, y, new
  <2>3. /\ At(x, y) \in Cell /\ InWindow(At(x, y)) /\ At(x, y) \div Columns = from_row + y
    BY <2>1, AtIsCell, AtIsInWindow
  <2>4. new[At(x, y)] = IF from_row + y < to_row THEN scr[At(x, y) + Columns]
                        ELSE IF from_row + y = from_row + (height - 1) THEN " " ELSE scr[At(x, y)]
    BY <2>3 DEF new, Scroll
  <2>5. CASE y < height - 1
    <3>1. y + 1 \in Row /\ from_row + y < to_row
      BY <2>1, <2>5, WindowAssumption DEF Row, height
    <3>2. At(x, y) + Columns = At(x, y + 1)
      <4>1. (from_row + (y + 1)) * Columns = (from_row + y) * Columns + Columns
            /\ (from_row + y) * Columns \in Nat
        BY <2>1, WindowAssumption DEF Row
      <4> QED BY <2>1, <4>1, WindowAssumption DEF At, Column
    <3>3. n + width = x + (y + 1) * width
      <4>1. (y + 1) * width = y * width + width /\ y * width \in Nat
        BY <2>1, Sizes DEF Row
      <4> QED BY <2>1, <4>1, Sizes DEF Column
    <3>4. /\ n + width \in Term!Cells /\ (n + width) % width = x /\ (n + width) \div width = y + 1
      BY <2>1, <3>1, <3>3, Folded
    <3> QED BY <2>2, <2>4, <3>1, <3>2, <3>4 DEF PageOf
  <2>6. CASE ~(y < height - 1)
    <3>1. y = height - 1 /\ ~(from_row + y < to_row)
      BY <2>1, <2>6, WindowAssumption DEF Row, height
    <3>2. n + width \notin Term!Cells
      <4>1. y * width + width = height * width /\ y * width \in Nat /\ height * width = width * height
        BY <2>1, <3>1, Sizes
      <4> QED BY <2>1, <4>1, Sizes DEF Column, Term!Cells
    <3> QED BY <2>2, <2>4, <3>1, <3>2
  <2> QED BY <2>1, <2>5, <2>6, Sizes DEF Row
<1> QED BY <1>1 DEF PageOf, new

-----------------------------------------------------------------------------
(* One character                                                           *)

\* Term!MoveTo, as a relation: cell p of the page is next, which is cell q of a page
\* that may have moved up.
Arrives(p, page, q, newpage) ==
  IF p \in Term!Cells THEN q = p /\ newpage = page
  ELSE /\ q = p - width
       /\ newpage = [n \in Term!Cells |-> IF n + width \in Term!Cells THEN page[n + width] ELSE " "]

\* A new line begins, below line y or by moving the lines up.
LEMMA LineEnds ==
  ASSUME NEW scr, DOMAIN scr = Cell, NEW y \in Row
  PROVE  Arrives((y + 1) * width, PageOf(scr), (IF y = height - 1 THEN y ELSE y + 1) * width,
                 PageOf(IF y = height - 1 THEN Scroll(scr, y) ELSE scr))
<1>1. CASE y = height - 1
  <2>1. /\ (y + 1) * width = width * height /\ y * width = (y + 1) * width - width
        /\ width * height \in Nat
    BY <1>1, Sizes
  <2>2. (y + 1) * width \notin Term!Cells
    BY <2>1 DEF Term!Cells
  <2> QED BY <1>1, <2>1, <2>2, ScrollPage DEF Arrives
<1>2. CASE y # height - 1
  <2>1. y + 1 \in Row /\ (y + 1) * width \in Nat
    BY <1>2, Sizes DEF Row
  <2>2. 0 + (y + 1) * width \in Term!Cells
    BY <2>1, Folded, Sizes
  <2>3. (y + 1) * width \in Term!Cells
    BY <2>1, <2>2
  <2> QED BY <1>2, <2>3 DEF Arrives
<1> QED BY <1>1, <1>2

\* The next cell is reached, in the line or in the next one.
LEMMA Advance ==
  ASSUME NEW scr, DOMAIN scr = Cell, NEW x \in Column, NEW y \in Row
  PROVE  LET end == x = width - 1
             last == end /\ y = height - 1
         IN  Arrives(x + y * width + 1, PageOf(scr),
                     (IF end THEN 0 ELSE x + 1) + (IF end /\ ~last THEN y + 1 ELSE y) * width,
                     PageOf(IF last THEN Scroll(scr, y) ELSE scr))
<1>1. y * width \in Nat /\ (y + 1) * width = y * width + width
  BY Sizes DEF Row
<1>2. CASE x = width - 1
  <2>1. x + y * width + 1 = (y + 1) * width
    BY <1>1, <1>2, Sizes
  <2>2. 0 + y * width = y * width /\ 0 + (y + 1) * width = (y + 1) * width
    BY <1>1, Sizes
  <2>3. CASE y = height - 1
    BY <1>2, <2>1, <2>2, <2>3, LineEnds
  <2>4. CASE y # height - 1
    BY <1>2, <2>1, <2>2, <2>4, LineEnds
  <2> QED BY <2>3, <2>4
<1>3. CASE x # width - 1
  <2>1. x + 1 \in Column /\ (x + 1) + y * width = x + y * width + 1
    BY <1>1, <1>3, Sizes DEF Column
  <2>2. x + y * width + 1 \in Term!Cells
    BY <2>1, Folded
  <2> QED BY <1>3, <2>1, <2>2 DEF Arrives
<1> QED BY <1>2, <1>3

\* Iteration t shows character c, or a cell of a tab, on screen scr with locals s.
Shows(scr, s, c, t) ==
  LET at       == s.x + s.y * width
      previous == IF at % width = 0 THEN at ELSE at - 1
      cells    == IF s.remain = 0 THEN Indent - ((at % width) % Indent) ELSE s.remain
      Comes(p, page) == Arrives(p, page, t.x + t.y * width, PageOf(t.screen))
  IN  IF c = "tab" /\ cells > 1
      THEN /\ Comes(at + 1, [PageOf(scr) EXCEPT ![at] = " "])
           /\ t.i = s.i /\ t.remain = cells - 1
      ELSE /\ t.i = s.i + 1 /\ t.remain = IF c = "tab" THEN 0 ELSE s.remain
           /\ c = "newline" => Comes((at \div width + 1) * width, PageOf(scr))
           /\ c = "backspace" => Comes(previous, [PageOf(scr) EXCEPT ![previous] = " "])
           /\ c = "nul" => t.x + t.y * width = at /\ PageOf(t.screen) = PageOf(scr)
           /\ c = "tab" => Comes(at + 1, PageOf(scr))
           /\ c \notin Term!Control => Comes(at + 1, [PageOf(scr) EXCEPT ![at] = c])

\* One iteration of the loop of print() shows a character, or a cell of a tab, as the
\* terminal does.
LEMMA IterationShows ==
  ASSUME NEW scr, DOMAIN scr = Cell, NEW s, s.x \in Column, s.y \in Row, s.remain \in Nat, NEW c
  PROVE  Shows(scr, s, c, Iteration(scr, s, c))
<1> DEFINE t == Iteration(scr, s, c)
           at == s.x + s.y * width
           previous == IF at % width = 0 THEN at ELSE at - 1
           cells == IF s.remain = 0 THEN Indent - ((at % width) % Indent) ELSE s.remain
           Comes(p, page) == Arrives(p, page, t.x + t.y * width, PageOf(t.screen))
           shown(x, d) == show(scr, from_col + x, from_row + s.y, d)
           end == s.x = width - 1
           last == s.y = height - 1
<1>1. at \in Term!Cells /\ at % width = s.x /\ at \div width = s.y
  BY Folded
<1>2. cells = IF s.remain = 0 THEN Indent - (s.x % Indent) ELSE s.remain
  BY <1>1
<1>3. cells \in Int
  BY <1>2, NumberAssumption DEF Column
<1> HIDE DEF at, cells
<1>4. ASSUME NEW x \in Column, NEW d
      PROVE  /\ DOMAIN shown(x, d) = Cell
             /\ PageOf(shown(x, d)) = [PageOf(scr) EXCEPT ![x + s.y * width] = d]
  <2>1. DOMAIN shown(x, d) = Cell
    BY DEF show
  <2> QED BY <2>1, ShowPage
<1>5. PageOf(shown(s.x, " ")) = [PageOf(scr) EXCEPT ![at] = " "]
      /\ PageOf(shown(s.x, c)) = [PageOf(scr) EXCEPT ![at] = c]
  BY <1>4 DEF at
<1>6. ASSUME NEW u, DOMAIN u = Cell,
             t.screen = IF end /\ last THEN Scroll(u, s.y) ELSE u,
             t.x = IF end THEN 0 ELSE s.x + 1,
             t.y = IF end /\ ~last THEN s.y + 1 ELSE s.y
      PROVE  Comes(at + 1, PageOf(u))
  <2> HIDE DEF t
  <2>1. Arrives(at + 1, PageOf(u),
                (IF end THEN 0 ELSE s.x + 1) + (IF end /\ ~last THEN s.y + 1 ELSE s.y) * width,
                PageOf(IF end /\ last THEN Scroll(u, s.y) ELSE u))
    BY <1>6, Advance DEF at
  <2> QED BY <1>6, <2>1 DEF Arrives
<1> DEFINE back == c = "backspace"
           to == IF back /\ s.x > 0 THEN s.x - 1 ELSE s.x
           newline == ~back /\ (s.x = width - 1 \/ c = "newline")
           scrolls == newline /\ s.y = height - 1
           remain == IF c = "tab" /\ s.remain = 0 THEN Indent - (to % Indent) ELSE s.remain
           inTab == c = "tab" /\ remain > 1
           drawn == IF c = "newline" \/ (c = "tab" /\ ~inTab) THEN scr
                  ELSE shown(to, IF back \/ inTab THEN " " ELSE c)
           newScreen == IF scrolls THEN Scroll(drawn, s.y) ELSE drawn
           newX == IF newline THEN 0 ELSE IF back THEN to ELSE to + 1
           newY == IF newline /\ ~scrolls THEN s.y + 1 ELSE s.y
           newRemain == IF inTab THEN remain - 1 ELSE IF c = "tab" THEN 0 ELSE remain
           newI == IF inTab THEN s.i ELSE s.i + 1
<1>7. t = IF c = "nul"
           THEN [screen |-> scr, x |-> s.x, y |-> s.y, remain |-> s.remain, i |-> s.i + 1]
           ELSE [screen |-> newScreen, x |-> newX, y |-> newY, remain |-> newRemain, i |-> newI]
  BY Zenon DEF Iteration
<1> HIDE DEF t, newScreen, newX, newY, newRemain, newI
<1>8. c # "nul" => t.screen = newScreen /\ t.x = newX /\ t.y = newY /\ t.remain = newRemain
                  /\ t.i = newI
  BY <1>7
<1>9. c = "tab" => to = s.x /\ remain = cells /\ ~back /\ c # "newline"
  BY <1>2
<1> HIDE DEF t, shown, remain
<1>10. CASE c = "tab" /\ cells > 1
  <2>1. /\ t.screen = IF end /\ last THEN Scroll(shown(s.x, " "), s.y) ELSE shown(s.x, " ")
        /\ t.x = IF end THEN 0 ELSE s.x + 1
        /\ t.y = IF end /\ ~last THEN s.y + 1 ELSE s.y
        /\ t.remain = cells - 1 /\ t.i = s.i
    BY <1>10, <1>8, <1>9 DEF newScreen, newX, newY, newRemain, newI
  <2>2. Comes(at + 1, PageOf(shown(s.x, " ")))
    BY <1>1, <1>4, <1>6, <2>1 DEF Arrives
  <2> QED BY <1>5, <1>10, <2>1, <2>2 DEF Shows, t, at, cells
<1>11. CASE c = "tab" /\ ~(cells > 1)
  <2>1. /\ t.screen = IF end /\ last THEN Scroll(scr, s.y) ELSE scr
        /\ t.x = IF end THEN 0 ELSE s.x + 1
        /\ t.y = IF end /\ ~last THEN s.y + 1 ELSE s.y
        /\ t.remain = 0 /\ t.i = s.i + 1
    BY <1>11, <1>8, <1>9 DEF newScreen, newX, newY, newRemain, newI
  <2>2. Comes(at + 1, PageOf(scr))
    BY <1>6, <2>1 DEF Arrives
  <2> QED BY <1>11, <2>1, <2>2 DEF Shows, t, at, cells, Term!Control
<1>12. CASE c = "nul"
  <2>1. t.screen = scr /\ t.x = s.x /\ t.y = s.y /\ t.remain = s.remain /\ t.i = s.i + 1
    BY <1>12, <1>7
  <2> QED BY <1>12, <2>1 DEF Shows, t, at, cells, Term!Control
<1>13. CASE c = "newline"
  <2>1. /\ t.screen = IF last THEN Scroll(scr, s.y) ELSE scr
        /\ t.x = 0 /\ t.y = IF last THEN s.y ELSE s.y + 1
        /\ t.remain = s.remain /\ t.i = s.i + 1
    BY <1>13, <1>8 DEF remain, newScreen, newX, newY, newRemain, newI
  <2>2. 0 + s.y * width = s.y * width /\ 0 + (s.y + 1) * width = (s.y + 1) * width
    BY Sizes DEF Row
  <2>3. Comes((s.y + 1) * width, PageOf(scr))
    BY <2>1, <2>2, LineEnds
  <2>4. Comes((at \div width + 1) * width, PageOf(scr))
    BY <1>1, <2>3
  <2> QED BY <1>13, <2>1, <2>4 DEF Shows, t, at, cells, Term!Control
<1>14. CASE c = "backspace"
  <2> DEFINE x == IF s.x > 0 THEN s.x - 1 ELSE s.x
  <2>1. /\ t.screen = shown(x, " ") /\ t.x = x /\ t.y = s.y
        /\ t.remain = s.remain /\ t.i = s.i + 1
    BY <1>14, <1>8 DEF remain, newScreen, newX, newY, newRemain, newI
  <2>2. x \in Column /\ x + s.y * width = previous
    <3>1. s.y * width \in Nat
      BY Sizes DEF Row
    <3>2. x \in Column
      BY Sizes DEF Column
    <3>3. previous = IF s.x = 0 THEN at ELSE at - 1
      BY <1>1
    <3>4. x + s.y * width = IF s.x = 0 THEN at ELSE at - 1
      BY <3>1 DEF at, Column
    <3> QED BY <3>2, <3>3, <3>4
  <2>3. previous \in Term!Cells
    BY <2>2, Folded
  <2>4. Comes(previous, [PageOf(scr) EXCEPT ![previous] = " "])
    BY <1>4, <2>1, <2>2, <2>3 DEF Arrives
  <2> QED BY <1>14, <2>1, <2>4 DEF Shows, t, at, cells, Term!Control
<1>15. CASE c \notin Term!Control
  <2>1. /\ t.screen = IF end /\ last THEN Scroll(shown(s.x, c), s.y) ELSE shown(s.x, c)
        /\ t.x = IF end THEN 0 ELSE s.x + 1
        /\ t.y = IF end /\ ~last THEN s.y + 1 ELSE s.y
        /\ t.remain = s.remain /\ t.i = s.i + 1
    BY <1>15, <1>8 DEF Term!Control, remain, newScreen, newX, newY, newRemain, newI
  <2>2. Comes(at + 1, PageOf(shown(s.x, c)))
    BY <1>1, <1>4, <1>6, <2>1 DEF Arrives
  <2> QED BY <1>5, <1>15, <2>1, <2>2 DEF Shows, t, at, cells, Term!Control
<1> QED BY <1>10, <1>11, <1>12, <1>13, <1>14, <1>15 DEF Term!Control

-----------------------------------------------------------------------------
(* What is written and not shown                                           *)

\* The characters i to n - 1 of buffer b.
Piece(b, i, n) == [k \in 1 .. n - i |-> b[i + k - 1]]

LEMMA NoPiece ==
  ASSUME NEW b, NEW i \in Nat, NEW n \in Nat, i >= n PROVE Piece(b, i, n) = << >>
<1>1. 1 .. n - i = 1 .. 0
  OBVIOUS
<1> QED BY <1>1 DEF Piece

LEMMA Pieces ==
  ASSUME NEW b \in [0 .. BufferSize - 1 -> Letter], NEW i \in 0 .. BufferSize,
         NEW n \in 0 .. BufferSize
  PROVE  /\ Piece(b, i, n) \in Seq(Letter)
         /\ i <= n => Len(Piece(b, i, n)) = n - i
         /\ i >= n => Piece(b, i, n) = << >>
<1>1. BufferSize \in Nat
  BY NumberAssumption
<1>2. CASE i <= n
  <2>1. n - i \in Nat /\ \A k \in 1 .. n - i : b[i + k - 1] \in Letter
    BY <1>1, <1>2
  <2>2. Piece(b, i, n) \in Seq(Letter) /\ Len(Piece(b, i, n)) = n - i
    BY <2>1 DEF Piece
  <2>3. i >= n => Piece(b, i, n) = << >>
    BY <2>2, <1>2, EmptySeq
  <2> QED BY <1>2, <2>2, <2>3
<1>3. CASE ~(i <= n)
  <2>1. i \in Nat /\ n \in Nat /\ i >= n
    BY <1>1, <1>3
  <2>2. Piece(b, i, n) = << >>
    BY <2>1, NoPiece
  <2> QED BY <1>1, <1>3, <2>2
<1> QED BY <1>2, <1>3

\* The first character is shown.
LEMMA PieceHead ==
  ASSUME NEW b \in [0 .. BufferSize - 1 -> Letter], NEW n \in 0 .. BufferSize, NEW i \in 0 .. n - 1,
         NEW t \in Seq(Letter)
  PROVE  /\ Piece(b, i, n) \o t # << >>
         /\ Head(Piece(b, i, n) \o t) = b[i]
         /\ Tail(Piece(b, i, n) \o t) = Piece(b, i + 1, n) \o t
<1> DEFINE p == Piece(b, i, n)
           q == Piece(b, i + 1, n)
<1>1. BufferSize \in Nat /\ n \in Nat
  BY NumberAssumption
<1>2. /\ p \in Seq(Letter) /\ Len(p) = n - i /\ q \in Seq(Letter) /\ Len(q) = n - (i + 1)
  <2>1. /\ i \in 0 .. BufferSize /\ i + 1 \in 0 .. BufferSize /\ n \in 0 .. BufferSize
        /\ i <= n /\ i + 1 <= n
    BY <1>1
  <2> QED BY <2>1, Pieces
<1>3. \A k \in 1 .. n - i : p[k] = b[i + k - 1]
  BY DEF Piece
<1>4. \A k \in 1 .. n - (i + 1) : q[k] = b[(i + 1) + k - 1]
  BY DEF Piece
<1> HIDE DEF p, q
<1>5. /\ p \o t \in Seq(Letter) /\ Len(p \o t) = (n - i) + Len(t) /\ Len(t) \in Nat
      /\ \A k \in 1 .. (n - i) + Len(t) : (p \o t)[k] = IF k <= n - i THEN p[k] ELSE t[k - (n - i)]
  <2>1. /\ p \o t \in Seq(Letter) /\ Len(p \o t) = Len(p) + Len(t)
        /\ \A k \in 1 .. Len(p) + Len(t) :
             (p \o t)[k] = IF k <= Len(p) THEN p[k] ELSE t[k - Len(p)]
    BY <1>2, ConcatProperties
  <2> QED BY <1>2, <2>1, LenProperties
<1>6. /\ q \o t \in Seq(Letter) /\ Len(q \o t) = (n - (i + 1)) + Len(t)
      /\ \A k \in 1 .. (n - (i + 1)) + Len(t) :
           (q \o t)[k] = IF k <= n - (i + 1) THEN q[k] ELSE t[k - (n - (i + 1))]
  <2>1. /\ q \o t \in Seq(Letter) /\ Len(q \o t) = Len(q) + Len(t)
        /\ \A k \in 1 .. Len(q) + Len(t) :
             (q \o t)[k] = IF k <= Len(q) THEN q[k] ELSE t[k - Len(q)]
    BY <1>2, ConcatProperties
  <2> QED BY <1>2, <2>1, LenProperties
<1> DEFINE u == p \o t
           v == q \o t
<1> HIDE DEF u, v
<1>7. u # << >> /\ u \in Seq(Letter) /\ v \in Seq(Letter)
  BY <1>1, <1>5, <1>6, EmptySeq DEF u, v
<1>8. Head(u) = b[i]
  <2>1. Head(u) = u[1]
    BY <1>7
  <2>2. 1 \in 1 .. n - i /\ 1 \in 1 .. (n - i) + Len(t) /\ i + 1 - 1 = i
    BY <1>1, <1>5
  <2>3. u[1] = p[1] /\ p[1] = b[i]
    BY <1>1, <1>3, <1>5, <2>2 DEF u
  <2> QED BY <2>1, <2>3
<1>9. Tail(u) = v
  <2>1. /\ Tail(u) \in Seq(Letter) /\ Len(Tail(u)) = Len(u) - 1
        /\ \A k \in 1 .. Len(Tail(u)) : Tail(u)[k] = u[k + 1]
    BY <1>7, HeadTailProperties
  <2>2. Len(Tail(u)) = Len(v) /\ Len(v) = (n - (i + 1)) + Len(t)
    BY <1>1, <1>5, <1>6, <2>1 DEF u, v
  <2>3. ASSUME NEW k \in 1 .. Len(Tail(u)) PROVE Tail(u)[k] = v[k]
    <3>1. Tail(u)[k] = u[k + 1] /\ k \in 1 .. (n - (i + 1)) + Len(t)
      BY <2>1, <2>2
    <3>2. CASE k <= n - (i + 1)
      <4>1. u[k + 1] = b[i + (k + 1) - 1]
        BY <1>1, <1>3, <1>5, <3>1, <3>2 DEF u
      <4>2. v[k] = b[(i + 1) + k - 1]
        BY <1>1, <1>4, <1>6, <3>1, <3>2 DEF v
      <4>3. i + (k + 1) - 1 = (i + 1) + k - 1
        BY <1>1
      <4> QED BY <3>1, <4>1, <4>2, <4>3
    <3>3. CASE ~(k <= n - (i + 1))
      <4>1. u[k + 1] = t[(k + 1) - (n - i)]
        BY <1>1, <1>5, <3>1, <3>3 DEF u
      <4>2. v[k] = t[k - (n - (i + 1))]
        BY <1>1, <1>6, <3>1, <3>3 DEF v
      <4>3. (k + 1) - (n - i) = k - (n - (i + 1))
        BY <1>1
      <4> QED BY <3>1, <4>1, <4>2, <4>3
    <3> QED BY <3>2, <3>3
  <2> QED BY <1>7, <2>1, <2>2, <2>3, SeqEqual
<1> QED BY <1>7, <1>8, <1>9 DEF p, q, u, v

\* The first character of a text is moved to the end of the buffer.
LEMMA PieceGrows ==
  ASSUME NEW b \in [0 .. BufferSize - 1 -> Letter], NEW n \in 0 .. BufferSize - 1,
         NEW t \in Seq(Letter), t # << >>, b[n] = Head(t)
  PROVE  Piece(b, 0, n + 1) \o Tail(t) = Piece(b, 0, n) \o t
<1> DEFINE p == Piece(b, 0, n)
           q == Piece(b, 0, n + 1)
<1>1. BufferSize \in Nat /\ n \in Nat
  BY NumberAssumption
<1>2. /\ p \in Seq(Letter) /\ Len(p) = n /\ q \in Seq(Letter) /\ Len(q) = n + 1
  <2>1. /\ 0 \in 0 .. BufferSize /\ n \in 0 .. BufferSize /\ n + 1 \in 0 .. BufferSize
        /\ 0 <= n /\ 0 <= n + 1 /\ n - 0 = n /\ (n + 1) - 0 = n + 1
    BY <1>1
  <2> QED BY <2>1, Pieces
<1>3. /\ \A k \in 1 .. n : p[k] = b[k - 1]
      /\ \A k \in 1 .. n + 1 : q[k] = b[k - 1]
  BY <1>1 DEF Piece
<1> HIDE DEF p, q
<1>4. /\ Tail(t) \in Seq(Letter) /\ Len(Tail(t)) = Len(t) - 1 /\ Len(t) \in Nat \ {0}
      /\ \A k \in 1 .. Len(t) - 1 : Tail(t)[k] = t[k + 1]
      /\ t[1] = b[n]
  BY HeadTailProperties, EmptySeq
<1>5. /\ p \o t \in Seq(Letter) /\ Len(p \o t) = n + Len(t)
      /\ \A k \in 1 .. n + Len(t) : (p \o t)[k] = IF k <= n THEN p[k] ELSE t[k - n]
  BY <1>2, ConcatProperties
<1>6. /\ q \o Tail(t) \in Seq(Letter) /\ Len(q \o Tail(t)) = (n + 1) + (Len(t) - 1)
      /\ \A k \in 1 .. (n + 1) + (Len(t) - 1) :
           (q \o Tail(t))[k] = IF k <= n + 1 THEN q[k] ELSE Tail(t)[k - (n + 1)]
  <2>1. /\ q \o Tail(t) \in Seq(Letter) /\ Len(q \o Tail(t)) = Len(q) + Len(Tail(t))
        /\ \A k \in 1 .. Len(q) + Len(Tail(t)) :
             (q \o Tail(t))[k] = IF k <= Len(q) THEN q[k] ELSE Tail(t)[k - Len(q)]
    BY <1>2, <1>4, ConcatProperties
  <2> QED BY <1>2, <1>4, <2>1, LenProperties
<1> DEFINE u == p \o t
           v == q \o Tail(t)
<1> HIDE DEF u, v
<1>7. Len(v) = Len(u) /\ Len(u) = n + Len(t)
  BY <1>1, <1>4, <1>5, <1>6 DEF u, v
<1>8. ASSUME NEW k \in 1 .. Len(v) PROVE v[k] = u[k]
  <2>1. k \in 1 .. n + Len(t) /\ k \in 1 .. (n + 1) + (Len(t) - 1)
    BY <1>1, <1>4, <1>7
  <2>2. CASE k <= n
    BY <1>1, <1>3, <1>5, <1>6, <2>1, <2>2 DEF u, v
  <2>3. CASE k = n + 1
    <3>1. v[k] = q[k] /\ q[k] = b[k - 1] /\ k - 1 = n
      BY <1>1, <1>3, <1>6, <2>1, <2>3 DEF v
    <3>2. u[k] = t[k - n] /\ k - n = 1
      BY <1>1, <1>5, <2>1, <2>3 DEF u
    <3> QED BY <1>4, <3>1, <3>2
  <2>4. CASE k > n + 1
    <3>1. v[k] = Tail(t)[k - (n + 1)] /\ k - (n + 1) \in 1 .. Len(t) - 1
      BY <1>1, <1>4, <1>6, <2>1, <2>4 DEF v
    <3>2. u[k] = t[k - n]
      BY <1>1, <1>5, <2>1, <2>4 DEF u
    <3>3. Tail(t)[k - (n + 1)] = t[(k - (n + 1)) + 1] /\ (k - (n + 1)) + 1 = k - n
      BY <1>1, <1>4, <2>1, <3>1
    <3> QED BY <3>1, <3>2, <3>3
  <2> QED BY <1>1, <2>1, <2>2, <2>3, <2>4
<1>9. v = u
  BY <1>5, <1>6, <1>7, <1>8, SeqEqual DEF u, v
<1> QED BY <1>9 DEF p, q, u, v

-----------------------------------------------------------------------------
(* Numbers                                                                 *)

LEMMA DivDiv ==
  ASSUME NEW a \in Nat, NEW b \in Nat \ {0}, NEW c \in Nat \ {0}
  PROVE  (a \div b) \div c = a \div (c * b)
<1> DEFINE q == a \div b
           m == a % b
           s == q \div c
           t == q % c
<1>1. q \in Nat /\ m \in 0 .. b - 1 /\ a = q * b + m
  OBVIOUS
<1> HIDE DEF q, m
<1>2. s \in Nat /\ t \in 0 .. c - 1 /\ q = s * c + t
  BY <1>1
<1> HIDE DEF s, t
<1>3. t * b + b <= c * b
  BY <1>2, Multiples
<1>4. t * b \in Nat /\ c * b \in Nat /\ q * b = s * (c * b) + t * b
  <2>1. t * b \in Nat /\ c * b \in Nat
    BY <1>2
  <2>2. q * b = (s * c) * b + t * b
    BY <1>2
  <2>3. (s * c) * b = s * (c * b)
    BY <1>2
  <2> QED BY <2>1, <2>2, <2>3
<1>5. t * b + m \in 0 .. (c * b) - 1 /\ a = (t * b + m) + s * (c * b)
  <2>1. s * (c * b) \in Nat
    BY <1>2, <1>4
  <2> QED BY <1>1, <1>3, <1>4, <2>1
<1>6. a \div (c * b) = s
  BY <1>2, <1>4, <1>5, CellAt
<1> QED BY <1>6 DEF q, s

LEMMA Powers ==
  ASSUME NEW b \in Base
  PROVE  /\ b \in Nat /\ b >= 2 /\ Power[b][0] = 1 /\ Bits \in Nat \ {0}
         /\ \A k \in 1 .. Bits : Power[b][k] \in Nat /\ Power[b][k] = b * Power[b][k - 1]
BY PowerAssumption, NumberAssumption DEF Base

\* The digits d of v in base b have been found, and i is left.
Digits(v, b, d, i) ==
  /\ Len(d) \in 0 .. Bits
  /\ i = v \div Power[b][Len(d)]
  /\ \A k \in 1 .. Len(d) : d[k] = Figures[((v \div Power[b][Len(d) - k]) % b) + 1]
  /\ \A j \in 0 .. Len(d) : 1 <= Power[2][j] /\ Power[2][j] <= Power[b][j]
  /\ \A j \in 0 .. Len(d) - 1 : Power[b][j] <= v

LEMMA DigitsBegin ==
  ASSUME NEW v \in Nat, NEW b \in Base
  PROVE  Digits(v, b, << >>, v)
<1>1. 2 \in Base /\ Len(<< >>) = 0 /\ v \div 1 = v
  BY DEF Base
<1>2. Power[2][0] = 1 /\ Power[b][0] = 1 /\ Bits \in Nat
  BY <1>1, Powers
<1> QED BY <1>1, <1>2 DEF Digits

\* There are no more digits than bits: v would have been used up.
LEMMA DigitsGrow ==
  ASSUME NEW b \in Base, NEW v \in 1 .. Word - 1, NEW d \in Seq(Letter), NEW i \in Nat,
         Digits(v, b, d, i), i # 0
  PROVE  Digits(v, b, <<Figures[(i % b) + 1]>> \o d, i \div b)
<1> DEFINE L == Len(d)
           f == Figures[(i % b) + 1]
           e == <<f>> \o d
           P(j) == Power[b][j]
           T(j) == Power[2][j]
<1>1. /\ b \in Nat /\ b >= 2 /\ P(0) = 1 /\ Bits \in Nat \ {0}
      /\ \A k \in 1 .. Bits : P(k) \in Nat /\ P(k) = b * P(k - 1)
  BY Powers
<1>2. /\ T(0) = 1
      /\ \A k \in 1 .. Bits : T(k) \in Nat /\ T(k) = 2 * T(k - 1)
  <2>1. 2 \in Base
    BY DEF Base
  <2> QED BY <2>1, Powers
<1>3. /\ L \in 0 .. Bits /\ i = v \div P(L)
      /\ \A k \in 1 .. L : d[k] = Figures[((v \div P(L - k)) % b) + 1]
      /\ \A j \in 0 .. L : 1 <= T(j) /\ T(j) <= P(j)
      /\ \A j \in 0 .. L - 1 : P(j) <= v
  BY DEF Digits
<1>4. T(Bits) = Word /\ v \in Nat
  BY WordFacts DEF Word
<1>5. f \in Letter
  <2>1. i % b \in 0 .. b - 1 /\ b <= 16
    BY <1>1 DEF Base
  <2>2. (i % b) + 1 \in 1 .. 16
    BY <1>1, <2>1
  <2> QED BY <2>2, Figure
<1> HIDE DEF f, P, T, L
<1>6. L \in Nat /\ P(L) \in Nat \ {0} /\ T(L) \in Nat /\ T(L) <= P(L)
  <2>1. CASE L = 0
    BY <1>1, <1>2, <2>1
  <2>2. CASE L # 0
    <3>1. L \in 1 .. Bits /\ L \in 0 .. L
      BY <1>1, <1>3, <2>2
    <3>2. P(L) \in Nat /\ T(L) \in Nat /\ 1 <= T(L) /\ T(L) <= P(L)
      BY <1>1, <1>2, <1>3, <3>1
    <3> QED BY <3>1, <3>2
  <2> QED BY <2>1, <2>2
<1>7. P(L) <= v
  <2> DEFINE w == P(L)
  <2>1. w \in Nat \ {0} /\ v \div w # 0
    BY <1>3, <1>6
  <2> HIDE DEF w
  <2>2. w <= v
    BY <1>4, <2>1
  <2> QED BY <2>2 DEF w
<1>8. L + 1 \in 1 .. Bits
  <2>1. L # Bits
    <3> SUFFICES ASSUME L = Bits PROVE FALSE
      OBVIOUS
    <3>1. Word <= P(L)
      BY <1>4, <1>6
    <3> QED BY <1>4, <1>6, <1>7, <3>1, WordFacts
  <2> QED BY <1>1, <1>3, <2>1
<1>9. P(L + 1) = b * P(L) /\ T(L + 1) = 2 * T(L)
  BY <1>1, <1>2, <1>6, <1>8
<1>10. i \div b = v \div P(L + 1)
  BY <1>1, <1>3, <1>4, <1>6, <1>9, DivDiv
<1>11. /\ e \in Seq(Letter) /\ Len(e) = L + 1 /\ e[1] = f
       /\ \A k \in 1 .. L : e[k + 1] = d[k]
  BY <1>5, <1>6 DEF L
<1>12. ASSUME NEW k \in 1 .. L + 1 PROVE e[k] = Figures[((v \div P((L + 1) - k)) % b) + 1]
  <2>1. CASE k = 1
    <3>1. (L + 1) - k = L
      BY <1>6, <2>1
    <3> QED BY <1>3, <1>11, <2>1, <3>1 DEF f
  <2>2. CASE k # 1
    <3>1. k - 1 \in 1 .. L /\ (k - 1) + 1 = k /\ L - (k - 1) = (L + 1) - k
      BY <1>6, <2>2
    <3>2. e[(k - 1) + 1] = d[k - 1]
      BY <1>11, <3>1
    <3>3. d[k - 1] = Figures[((v \div P(L - (k - 1))) % b) + 1]
      BY <1>3, <3>1
    <3> QED BY <3>1, <3>2, <3>3
  <2> QED BY <2>1, <2>2
<1>13. 1 <= T(L + 1) /\ T(L + 1) <= P(L + 1)
  <2>1. 1 <= T(L)
    BY <1>3, <1>6
  <2>2. 2 * P(L) <= b * P(L)
    BY <1>1, <1>6
  <2>3. b * P(L) \in Nat /\ T(L) <= P(L) /\ T(L) \in Nat /\ P(L) \in Nat
    BY <1>1, <1>6
  <2> QED BY <1>9, <2>1, <2>2, <2>3
<1>14. ASSUME NEW j \in 0 .. L + 1 PROVE 1 <= T(j) /\ T(j) <= P(j)
  <2>1. j \in 0 .. L \/ j = L + 1
    BY <1>6
  <2> QED BY <1>3, <1>13, <2>1
<1>15. ASSUME NEW j \in 0 .. L PROVE P(j) <= v
  <2>1. j \in 0 .. L - 1 \/ j = L
    BY <1>6
  <2> QED BY <1>3, <1>7, <2>1
<1>16. /\ Len(e) \in 0 .. Bits
       /\ \A j \in 0 .. Len(e) - 1 : P(j) <= v
       /\ \A j \in 0 .. Len(e) : 1 <= T(j) /\ T(j) <= P(j)
       /\ \A k \in 1 .. Len(e) : e[k] = Figures[((v \div P(Len(e) - k)) % b) + 1]
       /\ i \div b = v \div P(Len(e))
  <2>1. (L + 1) - 1 = L /\ L + 1 \in 0 .. Bits
    BY <1>1, <1>6, <1>8
  <2> QED BY <1>10, <1>11, <1>12, <1>14, <1>15, <2>1
<1> QED BY <1>16 DEF Digits, P, T, f

\* In the end the digits are the numeral.
LEMMA DigitsEnd ==
  ASSUME NEW b \in Base, NEW v \in Nat \ {0}, NEW d \in Seq(Letter), Digits(v, b, d, 0)
  PROVE  Term!Numeral(v, b) = d
<1> DEFINE L == Len(d)
           P(j) == Power[b][j]
           Least(k) == P(k) > v /\ \A j \in 1 .. k - 1 : P(j) <= v
<1>1. /\ b \in Nat /\ b >= 2 /\ P(0) = 1 /\ Bits \in Nat \ {0}
      /\ \A k \in 1 .. Bits : P(k) \in Nat /\ P(k) = b * P(k - 1)
  BY Powers
<1>2. /\ L \in 0 .. Bits /\ 0 = v \div P(L)
      /\ \A k \in 1 .. L : d[k] = Figures[((v \div P(L - k)) % b) + 1]
      /\ \A j \in 0 .. L : 1 <= Power[2][j] /\ Power[2][j] <= P(j)
      /\ \A j \in 0 .. L - 1 : P(j) <= v
  BY DEF Digits
<1> HIDE DEF P, L
<1>3. L \in 1 .. Bits
  <2>1. v \div 1 = v
    OBVIOUS
  <2> QED BY <1>1, <1>2, <2>1
<1>4. P(L) > v
  <2> DEFINE w == P(L)
  <2>1. w \in Nat \ {0} /\ v \div w = 0
    <3>1. L \in 0 .. L /\ 2 \in Base
      BY <1>3 DEF Base
    <3>2. Power[2][L] \in Nat
      BY <1>3, <3>1, Powers
    <3>3. 1 <= Power[2][L] /\ Power[2][L] <= P(L) /\ P(L) \in Nat
      BY <1>1, <1>2, <1>3, <3>1
    <3> QED BY <1>2, <3>2, <3>3
  <2> HIDE DEF w
  <2>2. v < w
    BY <2>1
  <2> QED BY <2>1, <2>2 DEF w
<1>5. Least(L)
  <2>1. \A j \in 1 .. L - 1 : j \in 0 .. L - 1
    BY <1>3
  <2> QED BY <1>2, <1>4, <2>1
<1>6. ASSUME NEW k \in 1 .. Bits, Least(k) PROVE k = L
  <2>1. ~(k < L)
    <3> SUFFICES ASSUME k < L PROVE FALSE
      OBVIOUS
    <3>1. k \in 0 .. L - 1
      BY <1>3
    <3>2. P(k) <= v /\ P(k) \in Nat
      BY <1>1, <1>2, <3>1
    <3> QED BY <1>6, <3>2
  <2>2. ~(L < k)
    <3> SUFFICES ASSUME L < k PROVE FALSE
      OBVIOUS
    <3>1. L \in 1 .. k - 1
      BY <1>3
    <3>2. P(L) <= v /\ P(L) \in Nat
      BY <1>1, <1>3, <1>6, <3>1
    <3> QED BY <1>4, <3>2
  <2> QED BY <1>3, <2>1, <2>2
<1>7. (CHOOSE k \in 1 .. Bits : Least(k)) = L
  <2> HIDE DEF Least
  <2> QED BY <1>3, <1>5, <1>6
<1>8. Term!Numeral(v, b) = [j \in 1 .. L |-> Figures[((v \div P(L - j)) % b) + 1]]
  <2> DEFINE K == CHOOSE k \in 1 .. Bits : Least(k)
  <2>1. Term!Numeral(v, b) = [j \in 1 .. K |-> Term!Figures[((v \div P(K - j)) % b) + 1]]
    BY Zenon DEF Term!Numeral, P
  <2>2. Term!Figures = Figures
    BY DEF Term!Figures, Figures
  <2>3. K = L
    BY <1>7
  <2> HIDE DEF K
  <2> QED BY <2>1, <2>2, <2>3
<1>9. d = [j \in 1 .. L |-> d[j]]
  BY DEF L
<1> QED BY <1>2, <1>8, <1>9

LEMMA NumeralOfZero == ASSUME NEW b \in Base PROVE Term!Numeral(0, b) = <<"0">>
<1> DEFINE P(j) == Power[b][j]
           Least(k) == P(k) > 0 /\ \A j \in 1 .. k - 1 : P(j) <= 0
<1>1. /\ b \in Nat /\ b >= 2 /\ P(0) = 1 /\ Bits \in Nat \ {0}
      /\ \A k \in 1 .. Bits : P(k) \in Nat /\ P(k) = b * P(k - 1)
  BY Powers
<1> HIDE DEF P
<1>2. 1 \in 1 .. Bits /\ P(1) = b
  BY <1>1
<1>3. Least(1)
  BY <1>1, <1>2
<1>4. ASSUME NEW k \in 1 .. Bits, Least(k) PROVE k = 1
  <2> SUFFICES ASSUME k # 1 PROVE FALSE
    OBVIOUS
  <2>1. 1 \in 1 .. k - 1
    OBVIOUS
  <2> QED BY <1>1, <1>2, <1>4, <2>1
<1>5. (CHOOSE k \in 1 .. Bits : Least(k)) = 1
  <2> HIDE DEF Least
  <2> QED BY <1>2, <1>3, <1>4
<1>6. Term!Numeral(0, b) = [j \in 1 .. 1 |-> Figures[((0 \div P(1 - j)) % b) + 1]]
  <2> DEFINE K == CHOOSE k \in 1 .. Bits : Least(k)
  <2>1. Term!Numeral(0, b) = [j \in 1 .. K |-> Term!Figures[((0 \div P(K - j)) % b) + 1]]
    BY Zenon DEF Term!Numeral, P
  <2>2. Term!Figures = Figures
    BY DEF Term!Figures, Figures
  <2>3. K = 1
    BY <1>5
  <2> HIDE DEF K
  <2> QED BY <2>1, <2>2, <2>3
<1>7. ((0 \div P(1 - 1)) % b) + 1 = 1
  BY <1>1
<1>8. [j \in 1 .. 1 |-> Figures[((0 \div P(1 - j)) % b) + 1]] = <<"0">>
  BY <1>7 DEF Figures
<1> QED BY <1>6, <1>8

-----------------------------------------------------------------------------
(* The inductive invariant of a stream in which no interrupt has printed    *)

\* The number that is written, and what is left of it behind the sign.
Asked(n, v) == \/ n > 0 /\ v = n /\ text = << >>
               \/ n < 0 /\ base = 10 /\ v = -n /\ text = <<"-">>
               \/ n < 0 /\ base # 10 /\ v = n + Word /\ text = << >>

Converting == \E n \in Number, v \in 1 .. Word - 1 : Asked(n, v) /\ Digits(v, base, digits, ival)

PutInv == /\ buffer \in [0 .. BufferSize - 1 -> Letter]
          /\ pc \in {"store", "increment"} => copy = pos
          /\ pc = "increment" => buffer[pos] = Head(text)

\* A tab that has begun is the next character.
PrintInv == /\ local.i \in Nat /\ local.remain \in Nat
            /\ pc # "print" => local.remain = 0
            /\ local.remain # 0 => local.i < length /\ buffer[local.i] = "tab"

TerminalInv == /\ interrupts \in Nat
               /\ interrupts = 0 => /\ ~handler /\ PutInv /\ PrintInv
                                    /\ pc = "convert" => Converting

\* Nothing is left in the buffer when a statement begins.
Emptied == interrupts = 0 /\ count = 0 => pos = 0 /\ pc \in {"idle", "convert"}

\* What a step is for the terminal.
TerminalStep == \/ Term!Output \/ UNCHANGED Term!vars
                \/ SetPos /\ Term!Place
                \/ Reset /\ Term!Clear

LEMMA TerminalInit == Init => TerminalInv /\ Term!Init
<1> SUFFICES ASSUME Init PROVE TerminalInv /\ Term!Init
  OBVIOUS
<1>1. StreamInv
  BY StreamInit
<1>2. /\ buffer = [n \in 0 .. BufferSize - 1 |-> "nul"] /\ pos = 0 /\ base = 10
      /\ pc = "idle" /\ text = << >> /\ local = NoLocal /\ ~handler /\ interrupts = 0
  BY DEF Init
<1>3. local.remain = 0 /\ local.i = 0
  BY <1>2 DEF NoLocal
<1>4. PutInv
  BY <1>2 DEF PutInv, Letter
<1>5. TerminalInv
  BY <1>2, <1>3, <1>4 DEF TerminalInv, PrintInv
<1>6. Position \in Term!Cells
  <2>1. getpos.x \in Column /\ getpos.y \in Row
    BY <1>1, getposInside DEF StreamInv
  <2>2. getpos.x + getpos.y * width \in Term!Cells
    BY <2>1, Folded
  <2> QED BY <1>2, <2>2 DEF Position
<1>7. NotShown = << >>
  <2>1. NotShown = Piece(buffer, 0, 0) \o << >>
    BY <1>2 DEF NotShown, Piece
  <2>2. 0 \in 0 .. BufferSize
    BY NumberAssumption
  <2>3. Piece(buffer, 0, 0) = << >>
    BY <1>4, <2>2, Pieces DEF PutInv
  <2> QED BY <2>1, <2>3
<1>8. DOMAIN Window = Term!Cells
  BY DEF Window, Term!Cells
<1> QED BY <1>2, <1>3, <1>5, <1>6, <1>7, <1>8 DEF Term!Init

-----------------------------------------------------------------------------
(* What is written                                                         *)

\* A text is put behind all that is not shown.
LEMMA OutWrites ==
  ASSUME StreamInv, TerminalInv, interrupts = 0, pc \in {"idle", "convert"}, Quiet,
         NEW t \in Seq(Letter), NEW b \in Base, Out(t, b)
  PROVE  Term!Write(t, b) /\ TerminalInv'
<1>1. /\ ~handler /\ PutInv /\ PrintInv
      /\ pc = "idle" => text = << >>
  BY DEF TerminalInv, StreamInv, StreamTypes, StatementTypes, ContextTypes
<1>2. /\ text' = t /\ base' = b
      /\ pc' = IF t = << >> THEN "idle" ELSE "put"
  BY DEF Out
<1>3. UNCHANGED <<Window, Position, local>>
  BY <1>2 DEF Quiet, Window, Position, getpos, cursorVars, printVars
<1>4. NotShown = Piece(buffer, 0, pos) \o << >> /\ NotShown' = Piece(buffer, 0, pos) \o t
  BY <1>1, <1>2 DEF Quiet, NotShown, Piece
<1>5. Piece(buffer, 0, pos) \in Seq(Letter)
  <2>1. 0 \in 0 .. BufferSize /\ pos \in 0 .. BufferSize
    BY PosInBuffer, NumberAssumption
  <2> QED BY <1>1, <2>1, Pieces DEF PutInv
<1>6. NotShown' = NotShown \o t
  BY <1>4, <1>5
<1>7. Term!Write(t, b)
  BY <1>2, <1>3, <1>6 DEF Term!Write
<1>8. PutInv' /\ PrintInv'
  BY <1>1, <1>2 DEF Quiet, PutInv, PrintInv, printVars
<1>9. TerminalInv'
  BY <1>1, <1>2, <1>8 DEF TerminalInv, Quiet, handlerVars
<1> QED BY <1>7, <1>9

LEMMA WriteTerminal ==
  ASSUME StreamInv, TerminalInv, interrupts = 0, Write PROVE TerminalStep /\ TerminalInv'
<1>1. pc = "idle" /\ Quiet /\ base \in Base
  BY DEF Write, Operator, Quiet, StreamInv, StreamTypes, NumberTypes
<1>2. ASSUME NEW t \in Seq(Letter), NEW b \in Base, Out(t, b) PROVE Term!Write(t, b) /\ TerminalInv'
  BY <1>1, <1>2, OutWrites
<1>3. CASE \E c \in Char \cup {"newline", "tab", "backspace", "nul"} : Out(<<c>>, base)
  <2>1. PICK c \in Char \cup Term!Control : Out(<<c>>, base)
    BY <1>3 DEF Term!Control
  <2>2. <<c>> \in Seq(Letter)
    BY DEF Letter, Term!Control
  <2>3. Term!Write(<<c>>, base) /\ TerminalInv'
    BY <1>1, <1>2, <2>1, <2>2
  <2> QED BY <2>3 DEF TerminalStep, Term!Output, Term!WriteChar
<1>4. CASE Out(<<"0", "b">>, 2) \/ Out(<<"0">>, 8) \/ Out(<<"0", "x">>, 16) \/ Out(<< >>, 10)
  <2>1. /\ <<"0", "b">> \in Seq(Letter) /\ <<"0">> \in Seq(Letter)
        /\ <<"0", "x">> \in Seq(Letter) /\ << >> \in Seq(Letter)
        /\ 2 \in Base /\ 8 \in Base /\ 16 \in Base /\ 10 \in Base
    BY DEF Letter, Base
  <2>2. /\ TerminalInv'
        /\ \/ Term!Write(<<"0", "b">>, 2) \/ Term!Write(<<"0">>, 8)
           \/ Term!Write(<<"0", "x">>, 16) \/ Term!Write(<< >>, 10)
    BY <1>2, <1>4, <2>1
  <2> QED BY <2>2 DEF TerminalStep, Term!Output, Term!ChooseBase
<1> QED BY <1>3, <1>4 DEF Write

\* A number other than zero is taken, and nothing is written yet.
LEMMA NumberTaken ==
  ASSUME StreamInv, TerminalInv, interrupts = 0, pc = "idle", Quiet,
         NEW n \in Number, NEW v \in 1 .. Word - 1, NEW sign, NEW b, UnsignedLong(sign, v, b),
         \/ n > 0 /\ v = n /\ sign = << >>
         \/ n < 0 /\ base = 10 /\ v = -n /\ sign = <<"-">>
         \/ n < 0 /\ base # 10 /\ v = n + Word /\ sign = << >>
  PROVE  UNCHANGED Term!vars /\ TerminalInv'
<1>1. /\ ~handler /\ PutInv /\ PrintInv /\ text = << >> /\ base \in Base
  BY DEF TerminalInv, StreamInv, StreamTypes, StatementTypes, ContextTypes, NumberTypes
<1>2. v \in Nat /\ v # 0
  BY WordFacts
<1>3. ival' = v /\ digits' = << >> /\ text' = sign /\ pc' = "convert" /\ UNCHANGED <<base, count>>
  BY <1>2 DEF UnsignedLong
<1>4. UNCHANGED Term!vars
  <2>1. UNCHANGED <<Window, Position, local, base>>
    BY <1>3 DEF Quiet, Window, Position, getpos, cursorVars, printVars
  <2>2. UNCHANGED NotShown
    BY <1>1, <1>3 DEF Quiet, NotShown
  <2> QED BY <2>1, <2>2 DEF Term!vars
<1>5. Converting'
  <2>1. Digits(v, base, << >>, v)
    BY <1>1, <1>2, DigitsBegin
  <2>2. Digits(v, base', digits', ival')
    BY <1>3, <2>1
  <2>3. Asked(n, v)'
    BY <1>3 DEF Asked
  <2> QED BY <2>2, <2>3 DEF Converting
<1>6. PutInv' /\ PrintInv'
  BY <1>1, <1>3 DEF Quiet, PutInv, PrintInv, printVars
<1> QED BY <1>1, <1>4, <1>5, <1>6 DEF TerminalInv, Quiet, handlerVars

LEMMA WriteNumberTerminal ==
  ASSUME StreamInv, TerminalInv, interrupts = 0, WriteNumber PROVE TerminalStep /\ TerminalInv'
<1>1. pc = "idle" /\ Quiet /\ base \in Base /\ 10 \in Base
  BY DEF WriteNumber, Operator, Quiet, StreamInv, StreamTypes, NumberTypes, Base
<1>2. PICK n \in Number : Long(n) \/ (n >= 0 /\ UnsignedLong(<< >>, n, base))
  BY DEF WriteNumber
<1>3. n \in Int /\ n \in 1 - Word .. Word - 1 /\ Word \in Nat
  BY NumberAssumption, WordFacts
<1>4. CASE n = 0
  <2>1. PICK b \in {base, 10} : Out(<<"0">>, b)
    BY <1>2, <1>4 DEF Long, UnsignedLong
  <2>2. <<"0">> \in Seq(Letter)
    BY DEF Letter
  <2>3. Term!Write(<<"0">>, b) /\ TerminalInv'
    BY <1>1, <2>1, <2>2, OutWrites
  <2>4. Term!Numeral(n, base) = <<"0">>
    BY <1>1, <1>4, NumeralOfZero
  <2>5. Term!WriteNumber
    <3>1. CASE b = base
      <4>1. n >= 0 /\ Term!Write(Term!Numeral(n, base), IF n = 0 THEN base ELSE 10)
        BY <1>4, <2>3, <2>4, <3>1
      <4> QED BY <4>1 DEF Term!WriteNumber
    <3>2. CASE b = 10
      <4>1. n >= 0 /\ Term!Write(Term!Numeral(n, base), 10)
        BY <1>4, <2>3, <2>4, <3>2
      <4> QED BY <4>1 DEF Term!WriteNumber
    <3> QED BY <2>1, <3>1, <3>2
  <2> QED BY <2>3, <2>5 DEF TerminalStep, Term!Output
<1>5. CASE n > 0
  <2>1. n \in 1 .. Word - 1 /\ ~(n < 0) /\ n # 0
    BY <1>3, <1>5
  <2>2. \E b : UnsignedLong(<< >>, n, b)
    BY <1>2, <2>1 DEF Long
  <2>3. UNCHANGED Term!vars /\ TerminalInv'
    BY <1>1, <1>5, <2>1, <2>2, NumberTaken
  <2> QED BY <2>3 DEF TerminalStep
<1>6. CASE n < 0 /\ base = 10
  <2>1. UnsignedLong(<<"-">>, -n, 10) /\ -n \in 1 .. Word - 1
    BY <1>2, <1>3, <1>6 DEF Long
  <2>2. UNCHANGED Term!vars /\ TerminalInv'
    BY <1>1, <1>6, <2>1, NumberTaken
  <2> QED BY <2>2 DEF TerminalStep
<1>7. CASE n < 0 /\ base # 10
  <2>1. UnsignedLong(<< >>, n + Word, 10) /\ n + Word \in 1 .. Word - 1
    BY <1>2, <1>3, <1>7 DEF Long
  <2>2. UNCHANGED Term!vars /\ TerminalInv'
    BY <1>1, <1>7, <2>1, NumberTaken
  <2> QED BY <2>2 DEF TerminalStep
<1> QED BY <1>3, <1>4, <1>5, <1>6, <1>7

LEMMA DivideTerminal ==
  ASSUME StreamInv, TerminalInv, interrupts = 0, Divide PROVE TerminalStep /\ TerminalInv'
<1>1. /\ ~handler /\ PutInv /\ PrintInv /\ Converting
      /\ base \in Base /\ ival \in Nat /\ digits \in Seq(Letter)
  BY DEF TerminalInv, Divide, StreamInv, StreamTypes, NumberTypes
<1>2. /\ pc = "convert" /\ ival # 0
      /\ digits' = <<Figures[(ival % base) + 1]>> \o digits /\ ival' = ival \div base
      /\ UNCHANGED <<use_cursor, screen, cursorVars, bufferVars, pc, textVars, printVars,
                     handlerVars>>
  BY DEF Divide
<1>3. UNCHANGED Term!vars
  <2>1. UNCHANGED <<Window, Position, local, base>>
    BY <1>2 DEF Window, Position, getpos, cursorVars, printVars, bufferVars
  <2>2. UNCHANGED NotShown
    BY <1>2 DEF NotShown, bufferVars, textVars, printVars
  <2> QED BY <2>1, <2>2 DEF Term!vars
<1>4. Converting'
  <2>1. PICK n \in Number, v \in 1 .. Word - 1 : Asked(n, v) /\ Digits(v, base, digits, ival)
    BY <1>1 DEF Converting
  <2>2. Digits(v, base, digits', ival')
    BY <1>1, <1>2, <2>1, DigitsGrow
  <2>3. UNCHANGED <<base, text>>
    BY <1>2 DEF bufferVars, textVars
  <2>4. Asked(n, v)' /\ Digits(v, base', digits', ival')
    BY <2>1, <2>2, <2>3 DEF Asked
  <2> QED BY <2>4 DEF Converting
<1>5. PutInv' /\ PrintInv'
  BY <1>1, <1>2 DEF PutInv, PrintInv, printVars, bufferVars, textVars
<1>6. TerminalInv'
  BY <1>1, <1>2, <1>4, <1>5 DEF TerminalInv, handlerVars
<1> QED BY <1>3, <1>6 DEF TerminalStep

LEMMA ConvertedTerminal ==
  ASSUME StreamInv, TerminalInv, interrupts = 0, Converted PROVE TerminalStep /\ TerminalInv'
<1>1. /\ pc = "convert" /\ ival = 0 /\ Quiet /\ Out(text \o digits, 10)
  BY DEF Converted, Quiet
<1>2. /\ base \in Base /\ 10 \in Base /\ digits \in Seq(Letter) /\ text \in Seq(Letter)
      /\ text \o digits \in Seq(Letter)
  BY DEF StreamInv, StreamTypes, NumberTypes, StatementTypes, ContextTypes, Base
<1>3. Term!Write(text \o digits, 10) /\ TerminalInv'
  BY <1>1, <1>2, OutWrites
<1>4. PICK n \in Number, v \in 1 .. Word - 1 : Asked(n, v) /\ Digits(v, base, digits, 0)
  BY <1>1 DEF TerminalInv, Converting
<1>5. n \in Int /\ v \in Nat \ {0}
  BY NumberAssumption, WordFacts
<1>6. Term!Numeral(v, base) = digits
  BY <1>2, <1>4, <1>5, DigitsEnd
<1>7. << >> \o digits = digits
  BY <1>2
<1>8. text \o digits = IF n >= 0 THEN Term!Numeral(n, base)
                       ELSE IF base = 10 THEN <<"-">> \o Term!Numeral(-n, 10)
                       ELSE Term!Numeral(n + Power[2][Bits], base)
  <2>1. CASE n > 0 /\ v = n /\ text = << >>
    BY <1>5, <1>6, <1>7, <2>1
  <2>2. CASE n < 0 /\ base = 10 /\ v = -n /\ text = <<"-">>
    BY <1>5, <1>6, <2>2
  <2>3. CASE n < 0 /\ base # 10 /\ v = n + Word /\ text = << >>
    BY <1>5, <1>6, <1>7, <2>3 DEF Word
  <2> QED BY <1>4, <2>1, <2>2, <2>3 DEF Asked
<1>9. Term!WriteNumber
  BY <1>3, <1>8 DEF Term!WriteNumber
<1> QED BY <1>3, <1>9 DEF TerminalStep, Term!Output

-----------------------------------------------------------------------------
(* The cursor and the buffer                                               *)

\* getpos() finds what setpos() has set.
LEMMA setposReaches ==
  ASSUME NEW x \in Column, NEW y \in Row, setpos(x, y), UNCHANGED use_cursor
  PROVE  getpos'.x = x /\ getpos'.y = y
<1>1. CASE use_cursor
  <2>1. cursor' = At(x, y)
    BY <1>1 DEF setpos, At, Column, Row
  <2>2. cursor' % Columns = from_col + x /\ cursor' \div Columns = from_row + y
    BY <2>1, AtIsInWindow
  <2>3. getpos'.x = (from_col + x) - from_col /\ getpos'.y = (from_row + y) - from_row
    BY <1>1, <2>2 DEF getpos
  <2> QED BY <2>3, WindowAssumption DEF Column, Row
<1>2. CASE ~use_cursor
  BY <1>2 DEF setpos, getpos, Column, Row
<1> QED BY <1>1, <1>2

\* Between two statements all is shown.
LEMMA NothingLeft ==
  ASSUME StreamInv, TerminalInv, Emptied, interrupts = 0, pc = "idle", count = 0
  PROVE  NotShown = << >>
<1>1. text = << >> /\ pos = 0 /\ PutInv
  BY DEF TerminalInv, Emptied, StreamInv, StreamTypes, StatementTypes, ContextTypes
<1>2. NotShown = Piece(buffer, 0, 0) \o << >>
  BY <1>1 DEF NotShown, Piece
<1>3. 0 \in 0 .. BufferSize
  BY NumberAssumption
<1>4. Piece(buffer, 0, 0) = << >>
  BY <1>1, <1>3, Pieces DEF PutInv
<1> QED BY <1>2, <1>4

LEMMA SetPosTerminal ==
  ASSUME StreamInv, TerminalInv, Emptied, interrupts = 0, SetPos
  PROVE  TerminalStep /\ TerminalInv'
<1>1. /\ UNCHANGED <<use_cursor, screen, bufferVars, pc, text, count, copy, printVars, numberVars,
                     handlerVars>>
      /\ pc = "idle"
  BY DEF SetPos
<1>2. PICK x \in {-1, 0, width - 1, width}, y \in {0, height - 1, height} : setpos(x, y)
  BY DEF SetPos
<1>3. UNCHANGED <<Window, NotShown, local, base>>
  BY <1>1 DEF Window, NotShown, bufferVars, printVars
<1>4. ASSUME x \in Column, y \in Row PROVE Term!Place
  <2>1. Position' = x + y * width
    BY <1>1, <1>2, <1>4, setposReaches DEF Position
  <2>2. x + y * width \in Term!Cells
    BY <1>4, Folded
  <2> QED BY <1>3, <2>1, <2>2, NothingLeft DEF SetPos, Term!Place
<1>5. ASSUME ~(x \in Column /\ y \in Row) PROVE UNCHANGED Term!vars
  <2>1. UNCHANGED cursorVars
    BY <1>2, <1>5 DEF setpos, Column, Row
  <2>2. UNCHANGED Position
    BY <1>1, <2>1 DEF Position, getpos, cursorVars
  <2> QED BY <1>3, <2>2 DEF Term!vars
<1>6. TerminalStep
  BY <1>4, <1>5 DEF TerminalStep
<1>7. TerminalInv'
  BY <1>1 DEF TerminalInv, PutInv, PrintInv, bufferVars, printVars, handlerVars
<1> QED BY <1>6, <1>7

LEMMA ResetTerminal ==
  ASSUME StreamInv, TerminalInv, Emptied, interrupts = 0, Reset
  PROVE  TerminalStep /\ TerminalInv'
<1>1. /\ UNCHANGED <<use_cursor, bufferVars, pc, text, count, copy, printVars, numberVars,
                     handlerVars>>
      /\ screen' = [n \in Cell |-> IF InWindow(n) THEN " " ELSE screen[n]]
      /\ cursor' = from_col + from_row * Columns
      /\ pc = "idle" /\ use_cursor
  BY DEF Reset
<1>2. UNCHANGED <<NotShown, local, base>>
  BY <1>1 DEF NotShown, bufferVars, printVars
<1>3. Window' = [n \in Term!Cells |-> " "]
  <2>1. Window' = [n \in Term!Cells |-> screen'[At(n % width, n \div width)]]
    BY DEF Window, At, Term!Cells
  <2>2. ASSUME NEW n \in Term!Cells PROVE screen'[At(n % width, n \div width)] = " "
    <3>1. n % width \in Column /\ n \div width \in Row
      BY Folded
    <3>2. At(n % width, n \div width) \in Cell /\ InWindow(At(n % width, n \div width))
      BY <3>1, AtIsCell, AtIsInWindow
    <3> QED BY <1>1, <3>2
  <2> QED BY <2>1, <2>2
<1>4. Position' = 0
  <2>1. cursor' = At(0, 0)
    <3>1. At(0, 0) = from_col + from_row * Columns
      BY WindowAssumption DEF At
    <3> QED BY <1>1, <3>1
  <2>2. cursor' % Columns = from_col + 0 /\ cursor' \div Columns = from_row + 0
    BY <2>1, AtIsInWindow, Sizes
  <2>3. getpos'.x = 0 /\ getpos'.y = 0
    <3>1. getpos'.x = (from_col + 0) - from_col /\ getpos'.y = (from_row + 0) - from_row
      BY <1>1, <2>2 DEF getpos
    <3> QED BY <3>1, WindowAssumption
  <2>4. 0 + 0 * width = 0
    BY Sizes
  <2> QED BY <1>1, <2>3, <2>4 DEF Position
<1>5. Term!Clear
  BY <1>2, <1>3, <1>4, NothingLeft DEF Reset, Term!Clear
<1>6. TerminalInv'
  BY <1>1 DEF TerminalInv, PutInv, PrintInv, bufferVars, printVars, handlerVars
<1> QED BY <1>5, <1>6 DEF TerminalStep

\* put() moves a character from the text to the end of the buffer.
LEMMA LoadTerminal ==
  ASSUME StreamInv, TerminalInv, interrupts = 0, Load PROVE TerminalStep /\ TerminalInv'
<1>1. /\ UNCHANGED <<use_cursor, screen, cursorVars, bufferVars, text, printVars, handlerVars>>
      /\ pc = "put" /\ copy' = pos /\ pc' = "store"
  BY DEF Load
<1>2. UNCHANGED Term!vars
  <2>1. UNCHANGED <<Window, Position, local, base>>
    BY <1>1 DEF Window, Position, getpos, cursorVars, printVars, bufferVars
  <2>2. UNCHANGED NotShown
    BY <1>1 DEF NotShown, bufferVars, printVars
  <2> QED BY <2>1, <2>2 DEF Term!vars
<1>3. TerminalInv'
  BY <1>1 DEF TerminalInv, PutInv, PrintInv, bufferVars, printVars, handlerVars
<1> QED BY <1>2, <1>3 DEF TerminalStep

LEMMA StoreTerminal ==
  ASSUME StreamInv, TerminalInv, interrupts = 0, Store PROVE TerminalStep /\ TerminalInv'
<1>1. /\ UNCHANGED <<use_cursor, screen, cursorVars, pos, base, textVars, printVars, handlerVars>>
      /\ pc = "store" /\ pc' = "increment"
      /\ buffer' = [buffer EXCEPT ![copy] = Head(text)]
  BY DEF Store
<1>2. copy = pos /\ pos \in 0 .. BufferSize - 1 /\ PutInv /\ PrintInv
  BY <1>1, PutRoom DEF TerminalInv, PutInv, Putting
<1>3. Head(text) \in Letter
  <2>1. text \in Seq(Letter) /\ text # << >>
    BY <1>1 DEF StreamInv, StreamTypes, StatementTypes, ContextTypes, Putting
  <2> QED BY <2>1
<1>4. PutInv'
  BY <1>1, <1>2, <1>3 DEF PutInv, textVars
<1>5. UNCHANGED NotShown
  <2>1. NotShown = Piece(buffer, 0, pos) \o text /\ NotShown' = Piece(buffer', 0, pos) \o text
    <3>1. pc = "store" /\ pc' = "increment" /\ UNCHANGED <<pos, text>>
      BY <1>1 DEF textVars
    <3> QED BY <3>1 DEF NotShown, Piece
  <2>2. ASSUME NEW k \in 1 .. pos - 0 PROVE buffer'[0 + k - 1] = buffer[0 + k - 1]
    BY <1>1, <1>2, NumberAssumption DEF PutInv
  <2>3. Piece(buffer, 0, pos) = Piece(buffer', 0, pos)
    BY <2>2 DEF Piece
  <2> QED BY <2>1, <2>3
<1>6. UNCHANGED <<Window, Position, local, base>>
  BY <1>1 DEF Window, Position, getpos, cursorVars, printVars
<1>7. TerminalInv'
  BY <1>1, <1>2, <1>4 DEF TerminalInv, PrintInv, printVars, handlerVars
<1> QED BY <1>5, <1>6, <1>7 DEF TerminalStep, Term!vars

LEMMA IncrementTerminal ==
  ASSUME StreamInv, TerminalInv, interrupts = 0, Increment PROVE TerminalStep /\ TerminalInv'
<1>1. /\ UNCHANGED <<use_cursor, screen, cursorVars, buffer, base, copy, printVars, handlerVars>>
      /\ pc = "increment" /\ text' = Tail(text) /\ pc' \in {"flush", "idle", "put"}
  BY DEF Increment
<1>2. /\ copy = pos /\ pos \in 0 .. BufferSize - 1 /\ PutInv /\ PrintInv /\ buffer[pos] = Head(text)
  BY <1>1, PutRoom DEF TerminalInv, PutInv, Putting
<1>3. pos' = pos + 1
  BY <1>2 DEF Increment
<1>4. text \in Seq(Letter) /\ text # << >>
  BY <1>1 DEF StreamInv, StreamTypes, StatementTypes, ContextTypes, Putting
<1>5. UNCHANGED NotShown
  <2>1. /\ NotShown = Piece(buffer, 0, pos) \o text
        /\ NotShown' = Piece(buffer, 0, pos + 1) \o Tail(text)
    BY <1>1, <1>3 DEF NotShown, Piece
  <2>2. buffer \in [0 .. BufferSize - 1 -> Letter]
    BY <1>2 DEF PutInv
  <2> QED BY <1>2, <1>4, <2>1, <2>2, PieceGrows
<1>6. UNCHANGED <<Window, Position, local, base>>
  BY <1>1 DEF Window, Position, getpos, cursorVars, printVars
<1>7. TerminalInv'
  BY <1>1, <1>2 DEF TerminalInv, PutInv, PrintInv, printVars, handlerVars
<1> QED BY <1>5, <1>6, <1>7 DEF TerminalStep, Term!vars

-----------------------------------------------------------------------------
(* What is shown                                                           *)

LEMMA EndStatementTerminal ==
  ASSUME StreamInv, TerminalInv, interrupts = 0, EndStatement PROVE TerminalStep /\ TerminalInv'
<1>1. /\ UNCHANGED <<use_cursor, screen, cursorVars, bufferVars, textVars, printVars, handlerVars>>
      /\ pc = "idle" /\ pc' = "flush"
  BY DEF EndStatement
<1>2. UNCHANGED <<Window, Position, local, base>>
  BY <1>1 DEF Window, Position, getpos, cursorVars, printVars, bufferVars
<1>3. UNCHANGED NotShown
  BY <1>1 DEF NotShown, bufferVars, textVars, printVars
<1>4. TerminalInv'
  BY <1>1 DEF TerminalInv, PutInv, PrintInv, bufferVars, textVars, printVars, handlerVars
<1> QED BY <1>2, <1>3, <1>4 DEF TerminalStep, Term!vars

LEMMA FlushTerminal ==
  ASSUME StreamInv, TerminalInv, interrupts = 0, Flush PROVE TerminalStep /\ TerminalInv'
<1>1. /\ UNCHANGED <<use_cursor, screen, cursorVars, bufferVars, textVars, handlerVars>>
      /\ pc = "flush" /\ pc' = "print" /\ length' = pos
      /\ local' = [NoLocal EXCEPT !.x = getpos.x, !.y = getpos.y]
  BY DEF Flush
<1>2. /\ local'.x = getpos.x /\ local'.y = getpos.y /\ local'.i = 0 /\ local'.remain = 0
      /\ local.remain = 0 /\ PutInv
  BY <1>1 DEF NoLocal, TerminalInv, PrintInv
<1>3. UNCHANGED <<Window, Position, local.remain, base>>
  BY <1>1, <1>2 DEF Window, Position, bufferVars
<1>4. UNCHANGED NotShown
  <2>1. NotShown = Piece(buffer, 0, pos) \o text /\ NotShown' = Piece(buffer, 0, pos) \o text
    <3>1. /\ pc = "flush" /\ pc' = "print" /\ length' = pos /\ local'.i = 0
          /\ UNCHANGED <<buffer, text>>
      BY <1>1, <1>2 DEF bufferVars, textVars
    <3> QED BY <3>1 DEF NotShown, Piece
  <2> QED BY <2>1
<1>5. TerminalInv'
  BY <1>1, <1>2 DEF TerminalInv, PutInv, PrintInv, bufferVars, textVars, handlerVars
<1> QED BY <1>3, <1>4, <1>5 DEF TerminalStep, Term!vars

LEMMA PrintedTerminal ==
  ASSUME StreamInv, TerminalInv, interrupts = 0, Printed PROVE TerminalStep /\ TerminalInv'
<1>1. /\ UNCHANGED <<use_cursor, screen, bufferVars, textVars, printVars, handlerVars>>
      /\ pc = "print" /\ pc' = "flushed" /\ local.i >= length /\ setpos(local.x, local.y)
  BY DEF Printed
<1>2. /\ local.x \in Column /\ local.y \in Row /\ length \in 0 .. BufferSize /\ local.i \in Nat
      /\ local.remain = 0 /\ PutInv
  BY <1>1, NumberAssumption DEF StreamInv, StreamTypes, StatementTypes, ContextTypes, TerminalInv, PrintInv
<1>3. UNCHANGED Position
  <2>1. getpos'.x = local.x /\ getpos'.y = local.y
    BY <1>1, <1>2, setposReaches
  <2> QED BY <1>1, <2>1 DEF Position
<1>4. UNCHANGED NotShown
  <2>1. /\ NotShown = Piece(buffer, local.i, length) \o text
        /\ NotShown' = Piece(buffer, length, length) \o text
    BY <1>1 DEF NotShown, Piece, bufferVars, textVars, printVars
  <2>2. Piece(buffer, local.i, length) = Piece(buffer, length, length)
    <3>1. length \in Nat
      BY <1>2, NumberAssumption
    <3> QED BY <1>1, <1>2, <3>1, NoPiece
  <2> QED BY <2>1, <2>2
<1>5. UNCHANGED <<Window, local, base>>
  BY <1>1 DEF Window, bufferVars, printVars
<1>6. TerminalInv'
  BY <1>1, <1>2 DEF TerminalInv, PutInv, PrintInv, bufferVars, textVars, printVars, handlerVars
<1> QED BY <1>3, <1>4, <1>5, <1>6 DEF TerminalStep, Term!vars

LEMMA FlushedTerminal ==
  ASSUME StreamInv, TerminalInv, interrupts = 0, Flushed PROVE TerminalStep /\ TerminalInv'
<1>1. /\ UNCHANGED <<use_cursor, screen, cursorVars, buffer, base, text, handlerVars>>
      /\ pc = "flushed" /\ pc' \in {"idle", "put"} /\ pos' = 0 /\ length' = 0 /\ local' = NoLocal
  BY DEF Flushed
<1>2. /\ local.remain = 0 /\ local'.remain = 0 /\ local'.i = 0 /\ PutInv /\ length \in 0 .. BufferSize
  BY <1>1 DEF NoLocal, StreamInv, StreamTypes, StatementTypes, ContextTypes, TerminalInv, PrintInv
<1>3. UNCHANGED NotShown
  <2>1. /\ NotShown = Piece(buffer, length, length) \o text
        /\ NotShown' = Piece(buffer, 0, 0) \o text
    BY <1>1 DEF NotShown, Piece
  <2>2. Piece(buffer, length, length) = Piece(buffer, 0, 0)
    <3>1. length \in Nat
      BY <1>2, NumberAssumption
    <3> QED BY <3>1, NoPiece
  <2> QED BY <2>1, <2>2
<1>4. UNCHANGED <<Window, Position, local.remain, base>>
  BY <1>1, <1>2 DEF Window, Position, getpos, cursorVars
<1>5. TerminalInv'
  BY <1>1, <1>2 DEF TerminalInv, PutInv, PrintInv, handlerVars
<1> QED BY <1>3, <1>4, <1>5 DEF TerminalStep, Term!vars

LEMMA ShowNextTerminal ==
  ASSUME StreamInv, TerminalInv, interrupts = 0, ShowNext PROVE TerminalStep /\ TerminalInv'
<1> DEFINE c == buffer[local.i]
           s == Iteration(screen, local, c)
           at == Position
           previous == IF at % width = 0 THEN at ELSE at - 1
           cells == IF local.remain = 0 THEN Indent - ((at % width) % Indent) ELSE local.remain
           Comes(p, page) == Arrives(p, page, Position', Window')
<1>1. /\ UNCHANGED <<use_cursor, cursorVars, bufferVars, pc, textVars, length, handlerVars>>
      /\ pc = "print" /\ local.i < length
      /\ screen' = s.screen
      /\ local' = [x |-> s.x, y |-> s.y, i |-> s.i, remain |-> s.remain]
  BY DEF ShowNext
<1>2. /\ ~handler /\ PutInv /\ PrintInv /\ local.i \in Nat /\ local.remain \in Nat
      /\ local.x \in Column /\ local.y \in Row /\ length \in 0 .. BufferSize
      /\ DOMAIN screen = Cell /\ text \in Seq(Letter)
  BY DEF TerminalInv, PrintInv, StreamInv, StreamTypes, StatementTypes, ContextTypes
<1>3. local.remain # 0 => c = "tab"
  BY <1>2 DEF PrintInv
<1>4. /\ local'.x = s.x /\ local'.y = s.y /\ local'.i = s.i /\ local'.remain = s.remain
  BY <1>1
<1>5. /\ at = local.x + local.y * width /\ Position' = s.x + s.y * width
      /\ Window = PageOf(screen) /\ Window' = PageOf(s.screen)
  <2>1. Window' = PageOf(screen')
    BY DEF Window, PageOf, At, Term!Cells
  <2> QED BY <1>1, <1>4, <2>1, WindowIsPage DEF Position
<1>6. /\ NotShown # << >> /\ Head(NotShown) = c
      /\ s.i = local.i => NotShown' = NotShown
      /\ s.i = local.i + 1 => NotShown' = Tail(NotShown)
  <2>1. /\ NotShown = Piece(buffer, local.i, length) \o text
        /\ NotShown' = Piece(buffer, s.i, length) \o text
    BY <1>1, <1>4 DEF NotShown, Piece, bufferVars, textVars
  <2>2. buffer \in [0 .. BufferSize - 1 -> Letter] /\ local.i \in 0 .. length - 1
    <3> DEFINE i == local.i
    <3>1. i < length /\ i \in Nat /\ length \in Nat
      BY <1>1, <1>2, NumberAssumption
    <3> HIDE DEF i
    <3>2. i \in 0 .. length - 1
      BY <3>1
    <3> QED BY <1>2, <3>2 DEF PutInv, i
  <2>3. /\ Piece(buffer, local.i, length) \o text # << >>
        /\ Head(Piece(buffer, local.i, length) \o text) = buffer[local.i]
        /\ Tail(Piece(buffer, local.i, length) \o text) = Piece(buffer, local.i + 1, length) \o text
    BY <1>2, <2>2, PieceHead
  <2> QED BY <2>1, <2>3
<1>7. IF c = "tab" /\ cells > 1
      THEN /\ Comes(at + 1, [Window EXCEPT ![at] = " "])
           /\ s.i = local.i /\ s.remain = cells - 1
      ELSE /\ s.i = local.i + 1 /\ s.remain = IF c = "tab" THEN 0 ELSE local.remain
           /\ c = "newline" => Comes((at \div width + 1) * width, Window)
           /\ c = "backspace" => Comes(previous, [Window EXCEPT ![previous] = " "])
           /\ c = "nul" => Position' = at /\ Window' = Window
           /\ c = "tab" => Comes(at + 1, Window)
           /\ c \notin Term!Control => Comes(at + 1, [Window EXCEPT ![at] = c])
  <2>1. Shows(screen, local, c, s)
    BY <1>2, IterationShows, Zenon
  <2> HIDE DEF c, s
  <2> QED BY <1>5, <2>1 DEF Shows, Arrives
<1>8. at \in Nat
  <2>1. local.x + local.y * width \in Term!Cells
    BY <1>2, Folded
  <2> QED BY <1>5, <2>1, Sizes DEF Term!Cells
<1>9. cells \in Int
  BY <1>2, <1>8, Sizes, NumberAssumption
<1> HIDE DEF c, s, at, previous, cells
<1>10. UNCHANGED base
  BY <1>1 DEF bufferVars
<1>11. \A p, page : Term!MoveTo(p, page) <=> Comes(p, page)
  BY DEF Term!MoveTo, Arrives
<1> HIDE DEF Comes
<1>12. Term!Show /\ PrintInv'
  <2>1. CASE c = "tab" /\ cells > 1
    <3>1. Term!Put(" ") /\ local'.remain = cells - 1 /\ UNCHANGED NotShown
      BY <1>4, <1>6, <1>7, <1>11, <2>1 DEF Term!Put, at
    <3>2. Term!Show
      BY <1>6, <1>10, <2>1, <3>1 DEF Term!Show, Term!Put, Term!MoveTo, cells, at
    <3>3. PrintInv'
      <4>1. local'.i = local.i /\ local'.remain \in Nat
        <5>1. s.i = local.i /\ s.remain = cells - 1
          BY <1>7, <2>1
        <5> QED BY <1>4, <1>9, <2>1, <5>1
      <4>2. UNCHANGED <<pc, length, buffer>> /\ pc = "print" /\ local.i < length /\ local.i \in Nat
        BY <1>1, <1>2 DEF bufferVars
      <4> QED BY <2>1, <4>1, <4>2 DEF PrintInv, c
    <3> QED BY <3>2, <3>3
  <2>2. CASE ~(c = "tab" /\ cells > 1)
    <3>1. local'.remain = 0 /\ NotShown' = Tail(NotShown) /\ local'.i = local.i + 1
      BY <1>3, <1>4, <1>6, <1>7, <2>2
    <3>2. /\ c = "newline" => Term!MoveTo((at \div width + 1) * width, Window)
          /\ c = "backspace" => Term!MoveTo(previous, [Window EXCEPT ![previous] = " "])
          /\ c = "nul" => UNCHANGED <<Window, Position>>
          /\ c = "tab" => Term!MoveTo(at + 1, Window)
          /\ c \notin Term!Control => Term!Put(c)
      BY <1>7, <1>11, <2>2 DEF Term!Put, at
    <3>3. Term!Show
      BY <1>6, <1>10, <2>2, <3>1, <3>2 DEF Term!Show, Term!Control, cells, previous, at
    <3>4. PrintInv'
      BY <1>1, <1>2, <3>1 DEF PrintInv
    <3> QED BY <3>3, <3>4
  <2> QED BY <2>1, <2>2
<1>13. PutInv'
  BY <1>1, <1>2 DEF PutInv, bufferVars, textVars
<1>14. TerminalInv'
  BY <1>1, <1>2, <1>12, <1>13 DEF TerminalInv, handlerVars
<1> QED BY <1>12, <1>14 DEF TerminalStep, Term!Output

-----------------------------------------------------------------------------
(* The refinement                                                          *)

\* Interrupts are counted from the first one on.
LEMMA Interrupted ==
  ASSUME StreamInv, TerminalInv, [Next]_vars, interrupts # 0
  PROVE  TerminalInv' /\ interrupts' # 0
<1>1. interrupts \in Nat /\ interrupts' \in {interrupts, interrupts + 1}
  BY DEF TerminalInv, Next, Write, WriteNumber, Operator, Divide, Converted, SetPos, Reset, Load, Store,
         Increment, EndStatement, Flush, ShowNext, Printed, Flushed, Interrupt, Return, handlerVars,
         vars
<1>2. interrupts' \in Nat /\ interrupts' # 0
  BY <1>1
<1> QED BY <1>2 DEF TerminalInv

\* A text that is not empty makes the statement longer.
LEMMA OutEmptied ==
  ASSUME StreamInv, Emptied, pc \in {"idle", "convert"}, UNCHANGED <<pos, interrupts>>,
         NEW t \in Seq(Letter), NEW b, Out(t, b)
  PROVE  Emptied'
<1>1. /\ count' = count + Len(t) /\ count \in Nat /\ Len(t) \in Nat
      /\ pc' = IF t = << >> THEN "idle" ELSE "put"
  BY LenFacts DEF Out, StreamInv, StreamTypes, StatementTypes, ContextTypes
<1>2. ASSUME count' = 0 PROVE count = 0 /\ t = << >>
  BY <1>1, <1>2, LenFacts
<1> QED BY <1>1, <1>2 DEF Emptied

LEMMA EmptiedNext ==
  ASSUME StreamInv, TerminalInv, Emptied, [Next]_vars PROVE Emptied'
<1>1. ASSUME pc = "idle", Quiet, NEW sign, NEW n, NEW b, UnsignedLong(sign, n, b) PROVE Emptied'
  <2>1. UNCHANGED <<pos, interrupts>>
    BY <1>1 DEF Quiet, handlerVars
  <2>2. CASE n = 0
    <3>1. <<"0">> \in Seq(Letter) /\ Out(<<"0">>, b)
      BY <1>1, <2>2 DEF UnsignedLong, Letter
    <3> QED BY <1>1, <2>1, <3>1, OutEmptied
  <2>3. CASE n # 0
    BY <1>1, <2>1, <2>3 DEF UnsignedLong, Emptied
  <2> QED BY <2>2, <2>3
<1>2. CASE Write
  <2>1. pc = "idle" /\ UNCHANGED <<pos, interrupts>>
    BY <1>2 DEF Write, Operator, handlerVars
  <2>2. \E t \in Seq(Letter), b \in Base \cup {base} : Out(t, b)
    <3>1. /\ <<"0", "b">> \in Seq(Letter) /\ <<"0">> \in Seq(Letter)
          /\ <<"0", "x">> \in Seq(Letter) /\ << >> \in Seq(Letter)
          /\ \A c \in Char \cup {"newline", "tab", "backspace", "nul"} : <<c>> \in Seq(Letter)
          /\ {2, 8, 10, 16} \subseteq Base
      BY DEF Letter, Base
    <3> QED BY <1>2, <3>1 DEF Write
  <2> QED BY <2>1, <2>2, OutEmptied
<1>3. CASE WriteNumber
  <2>1. pc = "idle" /\ Quiet
    BY <1>3 DEF WriteNumber, Operator, Quiet
  <2>2. \E sign, n, b : UnsignedLong(sign, n, b)
    BY <1>3 DEF WriteNumber, Long
  <2> QED BY <1>1, <2>1, <2>2
<1>4. CASE Converted
  <2>1. pc = "convert" /\ UNCHANGED <<pos, interrupts>> /\ Out(text \o digits, 10)
    BY <1>4 DEF Converted, handlerVars
  <2>2. text \o digits \in Seq(Letter)
    BY DEF StreamInv, StreamTypes, NumberTypes, StatementTypes, ContextTypes
  <2> QED BY <2>1, <2>2, OutEmptied
<1>5. CASE Flushed
  BY <1>5 DEF Flushed, Emptied, handlerVars
<1>6. CASE SetPos \/ Reset \/ Divide
  BY <1>6 DEF SetPos, Reset, Divide, Emptied, bufferVars, textVars, handlerVars
<1>7. CASE Load \/ Store \/ Increment \/ EndStatement \/ Flush \/ ShowNext \/ Printed
  <2>1. /\ count' = count /\ interrupts' = interrupts
        /\ pc \notin {"idle", "convert"} \/ count > 0
    BY <1>7 DEF Load, Store, Increment, EndStatement, Flush, ShowNext, Printed, textVars, handlerVars
  <2>2. interrupts = 0 => count # 0
    BY <2>1 DEF Emptied
  <2> QED BY <2>1, <2>2 DEF Emptied
<1>8. CASE Interrupt
  BY <1>8 DEF Interrupt, TerminalInv, Emptied
<1>9. CASE Return
  BY <1>9 DEF Return, TerminalInv, Emptied
<1>10. CASE UNCHANGED vars
  BY <1>10 DEF vars, Emptied, bufferVars, textVars, handlerVars
<1> QED BY <1>2, <1>3, <1>4, <1>5, <1>6, <1>7, <1>8, <1>9, <1>10 DEF Next

LEMMA TerminalNext ==
  ASSUME StreamInv, TerminalInv, Emptied, [Next]_vars
  PROVE  TerminalInv' /\ (interrupts' = 0 => TerminalStep)
<1>1. CASE interrupts # 0
  BY <1>1, Interrupted
<1>2. CASE interrupts = 0
  <2>1. CASE Write \/ WriteNumber \/ Divide \/ Converted
    BY <1>2, <2>1, WriteTerminal, WriteNumberTerminal, DivideTerminal, ConvertedTerminal
  <2>2. CASE SetPos \/ Reset
    BY <1>2, <2>2, SetPosTerminal, ResetTerminal
  <2>3. CASE Load \/ Store \/ Increment
    BY <1>2, <2>3, LoadTerminal, StoreTerminal, IncrementTerminal
  <2>4. CASE EndStatement \/ Flush \/ ShowNext
    BY <1>2, <2>4, EndStatementTerminal, FlushTerminal, ShowNextTerminal
  <2>5. CASE Printed \/ Flushed
    BY <1>2, <2>5, PrintedTerminal, FlushedTerminal
  <2>6. CASE Interrupt
    <3>1. interrupts' = 1
      BY <1>2, <2>6 DEF Interrupt
    <3> QED BY <3>1 DEF TerminalInv
  <2>7. CASE Return
    BY <1>2, <2>7 DEF Return, TerminalInv
  <2>8. CASE UNCHANGED vars
    <3>1. TerminalInv'
      <4>1. UNCHANGED <<pc, buffer, copy, pos, text, local, length, handler, interrupts, base, digits, ival>>
        BY <2>8 DEF vars, bufferVars, textVars, printVars, numberVars, handlerVars
      <4> QED BY <4>1 DEF TerminalInv, PutInv, PrintInv, Converting, Asked
    <3>2. UNCHANGED Term!vars
      BY <2>8 DEF Term!vars, Window, Position, NotShown, getpos, vars, cursorVars, bufferVars,
                  textVars, printVars
    <3> QED BY <3>1, <3>2 DEF TerminalStep
  <2> QED BY <2>1, <2>2, <2>3, <2>4, <2>5, <2>6, <2>7, <2>8 DEF Next
<1> QED BY <1>1, <1>2

\* What the window shows is what has been written, in order, every character behind the
\* one before it, in whatever pieces the buffer is flushed, wherever a tab, a line or the
\* window ends, and numbers are written in the base that was chosen, for every window,
\* every length of the buffer and every word, until an interrupt prints.  No step but
\* setpos() and reset(), between two statements, lets the text go on in another cell
\* (o_stream.cc, strbuf.cc, cgastr.cc 23-27, cgascr.cc).
THEOREM TerminalRefinement == Spec => ImplementsTerminal
<1>1. Init => StreamInv /\ TerminalInv /\ Emptied /\ Term!Init
  BY StreamInit, TerminalInit DEF Init, Emptied
<1>2. StreamInv /\ TerminalInv /\ Emptied /\ [Next]_vars =>
        StreamInv' /\ TerminalInv' /\ Emptied' /\ [interrupts' = 0 => TerminalStep]_vars
  BY StreamNext, TerminalNext, EmptiedNext
<1>3. Spec => Term!Init /\ [][interrupts' = 0 => TerminalStep]_vars
  BY <1>1, <1>2, PTL DEF Spec
<1> QED BY <1>3 DEF ImplementsTerminal, TerminalStep

=============================================================================
