------------------------------- MODULE Terminal -------------------------------
(***************************************************************************)
(* What a window of the screen promises: what is written appears in order, *)
(* on a tape of cells that is folded into lines and moves up by a line when *)
(* its end is reached, whenever and in however many pieces it is shown.    *)
(***************************************************************************)
EXTENDS Integers, Sequences

CONSTANTS Width, Height, Indent,
          Char,    \* characters that fill a cell, without the control characters
          Number,  \* numbers that are written
          Bits,    \* bits of a number
          Power    \* Power[b][k] = b^k, for the bases

VARIABLES page,  \* page[n]: cell n, counted through the lines
          at,    \* the cell for the next character
          todo,  \* characters that are written and not shown
          left,  \* the cells of a tab that are left, when it has begun
          base   \* the base of the next number

vars == <<page, at, todo, left, base>>

Cells == 0 .. Width * Height - 1
Control == {"newline", "tab", "backspace", "nul"}
Figures == <<"0", "1", "2", "3", "4", "5", "6", "7", "8", "9", "a", "b", "c", "d", "e", "f">>

\* n in positional notation, without leading zeros
Numeral(n, b) ==
  LET k == CHOOSE k \in 1 .. Bits : Power[b][k] > n /\ \A j \in 1 .. k - 1 : Power[b][j] <= n
  IN  [j \in 1 .. k |-> Figures[((n \div Power[b][k - j]) % b) + 1]]

Init == DOMAIN page = Cells /\ at \in Cells /\ todo = << >> /\ left = 0 /\ base = 10

\* A character, or a number in the chosen base, which holds for one number (and
\* for the zeros before it); a negative number has a sign in base 10 only.
Write(text, b) == todo' = todo \o text /\ base' = b /\ UNCHANGED <<page, at, left>>

WriteChar == \E c \in Char \cup Control : Write(<<c>>, base)

WriteNumber ==
  \E n \in Number :
    \/ n >= 0 /\ Write(Numeral(n, base), IF n = 0 THEN base ELSE 10)
    \/ Write(IF n >= 0 THEN Numeral(n, base)
             ELSE IF base = 10 THEN <<"-">> \o Numeral(-n, 10)
             ELSE Numeral(n + Power[2][Bits], base), 10)

ChooseBase == \/ Write(<<"0", "b">>, 2) \/ Write(<<"0">>, 8)
              \/ Write(<<"0", "x">>, 16) \/ Write(<< >>, 10)

\* Cell p is next; behind the last one, the page moves up.
MoveTo(p, cells) ==
  IF p \in Cells THEN at' = p /\ page' = cells
  ELSE /\ at' = p - Width
       /\ page' = [n \in Cells |-> IF n + Width \in Cells THEN cells[n + Width] ELSE " "]

Put(c) == MoveTo(at + 1, [page EXCEPT ![at] = c])

\* The next character is shown, or the next cell of a tab, which goes on in the
\* next line if it has to; its last cell stays as it is.
Show ==
  /\ todo # << >>
  /\ LET c == Head(todo)
         previous == IF at % Width = 0 THEN at ELSE at - 1
         cells == IF left = 0 THEN Indent - ((at % Width) % Indent) ELSE left
     IN  IF c = "tab" /\ cells > 1
         THEN Put(" ") /\ left' = cells - 1 /\ UNCHANGED todo
         ELSE /\ CASE c = "newline"   -> MoveTo((at \div Width + 1) * Width, page)
                   [] c = "backspace" -> MoveTo(previous, [page EXCEPT ![previous] = " "])
                   [] c = "nul"       -> UNCHANGED <<page, at>>
                   [] c = "tab"       -> MoveTo(at + 1, page)
                   [] OTHER           -> Put(c)
              /\ left' = 0 /\ todo' = Tail(todo)
  /\ UNCHANGED base

\* Writing and showing never jump: the text goes on where it has stopped.
Output == WriteChar \/ WriteNumber \/ ChooseBase \/ Show

\* Only the user of the window chooses another cell, when all is shown that is written.
Place == todo = << >> /\ at' \in Cells /\ UNCHANGED <<page, todo, left, base>>

Clear == /\ todo = << >>
         /\ page' = [n \in Cells |-> " "] /\ at' = 0
         /\ UNCHANGED <<todo, left, base>>

Next == Output \/ Place \/ Clear

Spec == Init /\ [][Next]_vars
=============================================================================
