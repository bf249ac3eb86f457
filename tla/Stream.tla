-------------------------------- MODULE Stream --------------------------------
(***************************************************************************)
(* A CGA_Stream: the operators of O_Stream put characters into the buffer   *)
(* of Stringbuffer, flush() has CGA_Screen::print() show them in a window,  *)
(* which is a part of the screen.                                          *)
(*                                                                         *)
(* kout has the cursor of the hardware and is used on the kernel level only,*)
(* by one context at a time (Guard).  The output for debugging of a CPU is  *)
(* written by its contexts, statement by statement, and by guardian(), in   *)
(* the middle of any statement, with interrupts disabled.                  *)
(***************************************************************************)
EXTENDS Integers, Sequences

CONSTANTS from_col, to_col, from_row, to_row,  \* the window
          Columns, Rows,   \* the screen, 80 x 25
          BufferSize,      \* 80
          Indent,          \* 4
          Bits, Power,     \* the bits of a number, 32, and Power[b][k] = b^k
          Char, Number,    \* what is written
          Old, Start,      \* what is on the screen, and where the next character goes
          MaxItems,        \* bound: uses of an operator
          MaxInterrupts    \* bound: interrupts

width == to_col - from_col + 1
height == to_row - from_row + 1

Base == {2, 8, 10, 16}
Word == Power[2][Bits]   \* 2^32

Cell == 0 .. Columns * Rows - 1

\* The window is on the screen.
ASSUME WindowAssumption ==
  /\ Columns \in Nat /\ Rows \in Nat
  /\ from_col \in Nat /\ to_col \in from_col .. Columns - 1
  /\ from_row \in Nat /\ to_row \in from_row .. Rows - 1
  /\ Start \subseteq (0 .. width - 1) \X (0 .. height - 1)
  /\ DOMAIN Old = Cell

\* Numbers are those of a long or an unsigned long.
ASSUME NumberAssumption == /\ BufferSize \in Nat \ {0} /\ Indent \in Nat \ {0}
                           /\ Bits \in Nat \ {0} /\ Number \subseteq 1 - Word .. Word - 1

ASSUME PowerAssumption ==
  \A b \in Base : /\ Power[b][0] = 1
                  /\ \A k \in 1 .. Bits : /\ Power[b][k] \in Nat
                                          /\ Power[b][k] = b * Power[b][k - 1]

VARIABLES use_cursor,    \* the stream is kout
          screen,
          cursor,        \* the cursor register of the hardware
          rel_x, rel_y,  \* the cursor of the software
          buffer, pos, base,
          pc, text,      \* what the statement does, and what an operator has to put yet
          count,         \* the characters of the statement
          copy,          \* put(): pos, as it was read
          length,        \* the parameter of print()
          local,         \* the local variables x, y, i, remain of print()
          ival, digits,  \* operator<<(unsigned long): what is left, and the end of buff
          handler,       \* guardian() is printing
          saved,         \* the interrupted code
          items, interrupts

bufferVars == <<buffer, pos, base>>
cursorVars == <<cursor, rel_x, rel_y>>
textVars == <<text, count, copy, items>>
printVars == <<length, local>>
numberVars == <<ival, digits>>
handlerVars == <<handler, saved, interrupts>>
vars == <<use_cursor, screen, cursorVars, bufferVars, pc, textVars, printVars, numberVars,
          handlerVars>>

NoLocal == [x |-> 0, y |-> 0, i |-> 0, remain |-> 0]
NoSaved == [pc |-> "idle", text |-> << >>, count |-> 0, copy |-> 0, length |-> 0, local |-> NoLocal]

Init == /\ use_cursor \in BOOLEAN
        /\ screen = Old
        /\ \E p \in Start : rel_x = p[1] /\ rel_y = p[2]
        /\ cursor = from_col + rel_x + (from_row + rel_y) * Columns
        /\ buffer = [n \in 0 .. BufferSize - 1 |-> "nul"] /\ pos = 0 /\ base = 10
        /\ pc = "idle" /\ text = << >> /\ count = 0 /\ copy = 0
        /\ length = 0 /\ local = NoLocal
        /\ ival = 0 /\ digits = << >>
        /\ handler = FALSE /\ saved = NoSaved
        /\ items = 0 /\ interrupts = 0

-----------------------------------------------------------------------------
\* CGA_Screen

\* show(): negative coordinates count from the other side.
show(scr, x, y, c) ==
  LET col == IF x < 0 THEN Columns + x ELSE x
      row == IF y < 0 THEN Rows + y ELSE y
  IN  IF col \in 0 .. Columns - 1 /\ row \in 0 .. Rows - 1
      THEN [scr EXCEPT ![col + row * Columns] = c] ELSE scr

InWindow(n) == /\ n % Columns \in from_col .. to_col
               /\ n \div Columns \in from_row .. to_row

\* Mutant: the line that is cleared is a column too long.
MutantScroll(scr, y) ==
  [n \in Cell |-> IF InWindow(n) /\ n \div Columns < to_row THEN scr[n + Columns]
                  ELSE IF n \div Columns = from_row + y /\ n % Columns \in from_col .. to_col + 1
                  THEN " " ELSE scr[n]]

\* All lines of the window but the last move up; line y is cleared.
Scroll(scr, y) ==
  [n \in Cell |-> IF InWindow(n) /\ n \div Columns < to_row THEN scr[n + Columns]
                  ELSE IF InWindow(n) /\ n \div Columns = from_row + y THEN " " ELSE scr[n]]

\* One iteration of the loop of print(), for character c, on screen scr with locals s.
Iteration(scr, s, c) ==
  LET back    == c = "backspace"
      x       == IF back /\ s.x > 0 THEN s.x - 1 ELSE s.x
      newline == ~back /\ (s.x = width - 1 \/ c = "newline")
      last    == newline /\ s.y = height - 1
      remain  == IF c = "tab" /\ s.remain = 0 THEN Indent - (x % Indent) ELSE s.remain
      inTab   == c = "tab" /\ remain > 1
      shown   == IF c = "newline" \/ (c = "tab" /\ ~inTab) THEN scr
                 ELSE show(scr, from_col + x, from_row + s.y, IF back \/ inTab THEN " " ELSE c)
  IN  IF c = "nul" THEN [screen |-> scr, x |-> s.x, y |-> s.y, remain |-> s.remain, i |-> s.i + 1]
      ELSE [screen |-> IF last THEN Scroll(shown, s.y) ELSE shown,
            x      |-> IF newline THEN 0 ELSE IF back THEN x ELSE x + 1,
            y      |-> IF newline /\ ~last THEN s.y + 1 ELSE s.y,
            remain |-> IF inTab THEN remain - 1 ELSE IF c = "tab" THEN 0 ELSE remain,
            i      |-> IF inTab THEN s.i ELSE s.i + 1]

\* Coordinates outside the window change nothing.
setpos(x, y) ==
  IF x \notin 0 .. width - 1 \/ y \notin 0 .. height - 1 THEN UNCHANGED cursorVars
  ELSE IF use_cursor
  THEN cursor' = from_col + x + (from_row + y) * Columns /\ UNCHANGED <<rel_x, rel_y>>
  ELSE rel_x' = x /\ rel_y' = y /\ UNCHANGED cursor

getpos == IF use_cursor THEN [x |-> (cursor % Columns) - from_col,
                                 y |-> (cursor \div Columns) - from_row]
                        ELSE [x |-> rel_x, y |-> rel_y]

-----------------------------------------------------------------------------
\* O_Stream

Figures == <<"0", "1", "2", "3", "4", "5", "6", "7", "8", "9", "a", "b", "c", "d", "e", "f">>

\* An operator is used, by the code that the stream belongs to.
Operator == /\ pc = "idle" /\ ~handler /\ items < MaxItems
            /\ items' = items + 1
            /\ UNCHANGED <<use_cursor, screen, cursorVars, buffer, pos, copy, printVars, handlerVars>>

\* An operator has the characters t to put, and leaves the base b.  The debugging
\* output has short statements only: a statement of DBG fits into the buffer.
Out(t, b) == /\ use_cursor \/ count + Len(t) < BufferSize
             /\ text' = t /\ base' = b
             /\ count' = count + Len(t)
             /\ pc' = IF t = << >> THEN "idle" ELSE "put"

\* operator<<(char), and the manipulators bin, oct, hex and dec
Write == /\ Operator
         /\ \/ \E c \in Char \cup {"newline", "tab", "backspace", "nul"} : Out(<<c>>, base)
            \/ Out(<<"0", "b">>, 2) \/ Out(<<"0">>, 8) \/ Out(<<"0", "x">>, 16)
            \/ Out(<< >>, 10)
         /\ UNCHANGED numberVars

\* operator<<(unsigned long) begins, behind a sign.  A zero leaves the base b.
UnsignedLong(sign, n, b) ==
  IF n = 0 THEN Out(<<"0">>, b) /\ UNCHANGED numberVars
  ELSE /\ ival' = n /\ digits' = << >>
       /\ text' = sign
       /\ pc' = "convert"
       /\ UNCHANGED <<base, count>>

\* Negative numbers have a sign in base 10 and are taken as they are in others.
Long(n) == IF base = 10 /\ n < 0 THEN UnsignedLong(<<"-">>, -n, 10)
           ELSE UnsignedLong(<< >>, IF n < 0 THEN n + Word ELSE n, 10)

WriteNumber == /\ Operator
               /\ \E n \in Number : Long(n) \/ (n >= 0 /\ UnsignedLong(<< >>, n, base))

\* The loop of operator<<(unsigned long): the digits from the right.
Divide == /\ pc = "convert" /\ ival # 0
          /\ digits' = <<Figures[(ival % base) + 1]>> \o digits
          /\ ival' = ival \div base
          /\ UNCHANGED <<use_cursor, screen, cursorVars, bufferVars, pc, textVars, printVars,
                         handlerVars>>

Converted == /\ pc = "convert" /\ ival = 0
             /\ Out(text \o digits, 10)
             /\ digits' = << >>
             /\ UNCHANGED <<use_cursor, screen, cursorVars, buffer, pos, copy, items, ival,
                            printVars, handlerVars>>

\* setpos() and reset(), by a user of kout between two statements
SetPos == /\ use_cursor /\ pc = "idle" /\ count = 0 /\ items < MaxItems
          /\ \E x \in {-1, 0, width - 1, width}, y \in {0, height - 1, height} : setpos(x, y)
          /\ items' = items + 1
          /\ UNCHANGED <<use_cursor, screen, bufferVars, pc, text, count, copy, printVars, numberVars, handlerVars>>

Reset == /\ use_cursor /\ pc = "idle" /\ count = 0 /\ items < MaxItems
         /\ screen' = [n \in Cell |-> IF InWindow(n) THEN " " ELSE screen[n]]
         /\ cursor' = from_col + from_row * Columns
         /\ rel_x' = 0 /\ rel_y' = 0
         /\ items' = items + 1
         /\ UNCHANGED <<use_cursor, bufferVars, pc, text, count, copy, printVars, numberVars, handlerVars>>

-----------------------------------------------------------------------------
\* Stringbuffer::put(): pos is read, the character is stored, pos is written.  (The
\* compiler may keep what it has read, or read pos again for pos++.)
Load == /\ pc = "put"
        /\ copy' = pos
        /\ pc' = "store"
        /\ UNCHANGED <<use_cursor, screen, cursorVars, bufferVars, text, count, items, printVars, numberVars, handlerVars>>

Store == /\ pc = "store"
         /\ buffer' = [buffer EXCEPT ![copy] = Head(text)]
         /\ pc' = "increment"
         /\ UNCHANGED <<use_cursor, screen, cursorVars, pos, base, textVars, printVars, numberVars, handlerVars>>

\* Mutant: the buffer is flushed when it is too late.
MutantIncrement ==
  /\ pc = "increment"
  /\ \E p \in {copy, pos} : pos' = p + 1
  /\ text' = Tail(text)
  /\ pc' = IF pos' = BufferSize + 1 THEN "flush" ELSE IF text' = << >> THEN "idle" ELSE "put"
  /\ UNCHANGED <<use_cursor, screen, cursorVars, buffer, base, count, copy, items, printVars, numberVars, handlerVars>>

Increment ==
  /\ pc = "increment"
  /\ \E p \in {copy, pos} : pos' = p + 1
  /\ text' = Tail(text)
  /\ pc' = IF pos' = BufferSize THEN "flush" ELSE IF text' = << >> THEN "idle" ELSE "put"
  /\ UNCHANGED <<use_cursor, screen, cursorVars, buffer, base, count, copy, items, printVars, numberVars, handlerVars>>

\* The manipulators flush and endl end a statement.
EndStatement == /\ pc = "idle" /\ count > 0
                /\ pc' = "flush"
                /\ UNCHANGED <<use_cursor, screen, cursorVars, bufferVars, textVars, printVars, numberVars, handlerVars>>

\* CGA_Stream::flush() calls print(buffer, pos, attr), which calls getpos().
Flush == /\ pc = "flush"
         /\ length' = pos
         /\ local' = [NoLocal EXCEPT !.x = getpos.x, !.y = getpos.y]
         /\ pc' = "print"
         /\ UNCHANGED <<use_cursor, screen, cursorVars, bufferVars, textVars, numberVars, handlerVars>>

ShowNext == /\ pc = "print" /\ local.i < length
         /\ LET s == Iteration(screen, local, buffer[local.i])
            IN  /\ screen' = s.screen
                /\ local' = [x |-> s.x, y |-> s.y, i |-> s.i, remain |-> s.remain]
         /\ UNCHANGED <<use_cursor, cursorVars, bufferVars, pc, textVars, length, numberVars, handlerVars>>

\* Mutant: print() forgets setpos(), so that the next piece overwrites this one.
MutantPrinted == /\ pc = "print" /\ local.i >= length
                 /\ pc' = "flushed"
                 /\ UNCHANGED <<use_cursor, screen, cursorVars, bufferVars, textVars, printVars, numberVars,
                                handlerVars>>

Printed == /\ pc = "print" /\ local.i >= length
           /\ setpos(local.x, local.y)
           /\ pc' = "flushed"
           /\ UNCHANGED <<use_cursor, screen, bufferVars, textVars, printVars, numberVars, handlerVars>>

\* pos = 0: the statement is over, or put() returns.
Flushed == /\ pc = "flushed"
           /\ pos' = 0
           /\ IF text = << >> THEN pc' = "idle" /\ count' = 0 ELSE pc' = "put" /\ UNCHANGED count
           /\ length' = 0 /\ local' = NoLocal
           /\ UNCHANGED <<use_cursor, screen, cursorVars, buffer, base, text, copy, items, numberVars, handlerVars>>

-----------------------------------------------------------------------------
\* guardian(): DBG << "int" << endl, which is "i" and a newline here, with interrupts
\* disabled.  It has locals of its own.
Interrupt == /\ ~use_cursor /\ ~handler /\ interrupts < MaxInterrupts
             /\ handler' = TRUE
             /\ saved' = [pc |-> pc, text |-> text, count |-> count, copy |-> copy,
                          length |-> length, local |-> local]
             /\ text' = <<"i", "newline">> /\ count' = 2 /\ pc' = "put"
             /\ copy' = 0 /\ length' = 0 /\ local' = NoLocal
             /\ interrupts' = interrupts + 1
             /\ UNCHANGED <<use_cursor, screen, cursorVars, bufferVars, numberVars, items>>

\* The interrupted code goes on.
Return == /\ handler /\ pc = "idle" /\ count = 0
          /\ handler' = FALSE
          /\ pc' = saved.pc /\ text' = saved.text /\ count' = saved.count
          /\ copy' = saved.copy /\ length' = saved.length /\ local' = saved.local
          /\ saved' = NoSaved
          /\ UNCHANGED <<use_cursor, screen, cursorVars, bufferVars, numberVars, items, interrupts>>

Next == \/ Write \/ WriteNumber \/ Divide \/ Converted \/ SetPos \/ Reset
        \/ Load \/ Store \/ Increment
        \/ EndStatement \/ Flush \/ ShowNext \/ Printed \/ Flushed
        \/ Interrupt \/ Return

Spec == Init /\ [][Next]_vars

-----------------------------------------------------------------------------
\* Wherever interrupts print into the middle of a statement, no character is stored
\* outside the buffer, and the text goes on inside the window (strbuf.cc 5-12,
\* cgascr.cc 22-26).
InBounds == /\ pos \in 0 .. BufferSize - 1 \/ (pos = BufferSize /\ pc \notin {"idle", "put"})
            /\ pc = "store" => copy \in 0 .. BufferSize - 1
            /\ length <= BufferSize
            /\ getpos.x \in 0 .. width - 1 /\ getpos.y \in 0 .. height - 1
            /\ local.x \in 0 .. width - 1 /\ local.y \in 0 .. height - 1

\* A stream does not touch the screen outside its window, and only kout moves the
\* cursor of the hardware (cgascr.h 22-23).
OutsideUntouched == [][/\ \A n \in Cell : ~InWindow(n) => screen'[n] = screen[n]
                       /\ ~use_cursor => cursor' = cursor]_vars

\* What the window is for its user.
Position == IF pc = "print" THEN local.x + local.y * width ELSE getpos.x + getpos.y * width

NotShown == LET first == IF pc = "print" THEN local.i ELSE IF pc = "flushed" THEN length ELSE 0
                end == IF pc \in {"print", "flushed"} THEN length ELSE pos
            IN  [n \in 1 .. end - first |-> buffer[first + n - 1]]
                \o (IF pc = "convert" THEN << >> ELSE text)

Window == [n \in 0 .. width * height - 1 |->
             screen[from_col + (n % width) + (from_row + (n \div width)) * Columns]]

Term == INSTANCE Terminal WITH Width <- width, Height <- height, page <- Window,
                               at <- Position, todo <- NotShown, left <- local.remain

\* The window is a terminal, as long as no interrupt prints in it: what is written
\* appears in order, every character behind the one before it, in whatever pieces
\* the buffer is flushed and however lines are moved (o_stream.cc 6-131, strbuf.cc 5-12,
\* cgastr.cc 23-27, cgascr.cc 65-174).  The text goes on in another cell only when setpos()
\* or reset() is called between two statements.
ImplementsTerminal ==
  Term!Init /\ [][interrupts' = 0 => \/ Term!Output \/ UNCHANGED Term!vars
                                     \/ SetPos /\ Term!Place
                                     \/ Reset /\ Term!Clear]_vars
=============================================================================
