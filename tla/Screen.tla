-------------------------------- MODULE Screen --------------------------------
(***************************************************************************)
(* The text screen of the guest kernel (video.cpp), to which the trap      *)
(* handlers print: the cursor and the lines of the video buffer.  A line   *)
(* is a string that ends at its first 0.                                   *)
(***************************************************************************)
EXTENDS Integers

CONSTANTS
  LINE_BUF_WIDTH,  \* bytes of a line in the buffer
  MAX_SCREEN_HEIGHT,
  Width, Height,   \* what Init is called with
  Chars            \* printable characters

\* A screen of one line would make scroll copy (0 - 1) lines.
ScreenAssumption ==
  /\ LINE_BUF_WIDTH \in Nat /\ LINE_BUF_WIDTH >= 2
  /\ MAX_SCREEN_HEIGHT \in Nat \ {0}
  /\ Width \in Nat /\ Width >= 2 /\ Height \in Nat /\ Height >= 2
  /\ 0 \notin Chars

MAX_SCREEN_WIDTH == LINE_BUF_WIDTH - 1
m_screen_width == IF Width <= MAX_SCREEN_WIDTH THEN Width - 1 ELSE MAX_SCREEN_WIDTH
m_screen_height == IF Height <= MAX_SCREEN_HEIGHT THEN Height - 1 ELSE MAX_SCREEN_HEIGHT
Line == 0 .. m_screen_height
Column == 0 .. LINE_BUF_WIDTH - 1

VARIABLES
  cell,        \* the buffer: line -> column -> character or 0
  m_cursor_x,
  m_cursor_y

vars == <<cell, m_cursor_x, m_cursor_y>>

\* VirtualAlloc gives the guest zeroed memory.
Init ==
  /\ cell = [y \in Line |-> [x \in Column |-> 0]]
  /\ m_cursor_x = 0 /\ m_cursor_y = 0

\* scroll(1): a memcpy of m_screen_height - 1 lines.
Scrolled_OneLineShort ==
  [y \in Line |-> IF y < m_screen_height - 2 THEN cell[y + 1] ELSE cell[y]]
Scrolled ==
  [y \in Line |-> IF y < m_screen_height - 1 THEN cell[y + 1] ELSE cell[y]]

CarriageReturn ==
  /\ m_cursor_x' = 0
  /\ UNCHANGED <<cell, m_cursor_y>>

LineFeed ==
  /\ IF m_cursor_y < m_screen_height
     THEN m_cursor_y' = m_cursor_y + 1 /\ UNCHANGED cell
     ELSE cell' = Scrolled /\ UNCHANGED m_cursor_y
  /\ UNCHANGED m_cursor_x

\* A character, after a wrap when the cursor is at the last column.
Put(lines, x, y, ch) ==
  /\ cell' = [lines EXCEPT ![y] = [@ EXCEPT ![x] = ch, ![x + 1] = 0]]
  /\ m_cursor_x' = x + 1 /\ m_cursor_y' = y

PutChar(ch) ==
  IF m_cursor_x < m_screen_width
  THEN Put(cell, m_cursor_x, m_cursor_y, ch)
  ELSE IF m_cursor_y < m_screen_height
  THEN Put(cell, 0, m_cursor_y + 1, ch)
  ELSE Put(Scrolled, 0, m_cursor_y, ch)

clear ==
  /\ cell' = [y \in Line |-> [cell[y] EXCEPT ![0] = 0]]
  /\ UNCHANGED <<m_cursor_x, m_cursor_y>>

gotoxy(x, y) ==
  /\ m_cursor_x' = x /\ m_cursor_y' = y
  /\ UNCHANGED cell

Next ==
  \/ CarriageReturn \/ LineFeed \/ clear
  \/ \E ch \in Chars : PutChar(ch)
  \/ \E x \in 0 .. m_screen_width, y \in Line : gotoxy(x, y)

Spec == Init /\ [][Next]_vars

-----------------------------------------------------------------------------
(* Properties *)

\* The cursor never leaves the screen, so that no character is written
\* outside its line of the buffer.
TypeOK ==
  /\ cell \in [Line -> [Column -> Chars \cup {0}]]
  /\ m_cursor_x \in 0 .. m_screen_width /\ m_cursor_y \in Line

Text(line) == LET end == CHOOSE e \in Column : line[e] = 0 /\ \A x \in 0 .. e - 1 : line[x] # 0
              IN  [x \in 0 .. end - 1 |-> line[x]]

\* Every line keeps a terminator within its bytes, even on the widest screen,
\* through overwriting, wrapping and scrolling: a reader of one line never runs into the next.
LinesTerminated == \A y \in Line : \E x \in Column : cell[y][x] = 0

\* Printing never rewrites history: a step leaves the text of every line but
\* the cursor's, or moves up the text of all lines between the first and the
\* bottom one.
TextKept ==
  ~clear =>
    \/ \A y \in Line \ {m_cursor_y'} : Text(cell'[y]) = Text(cell[y])
    \/ \A y \in 1 .. m_screen_height - 1 : Text(cell'[y - 1]) = Text(cell[y])
===============================================================================
