------------------------------ MODULE MCGuestOs ------------------------------
(***************************************************************************)
(* The guest kernel outside its memory management, for TLC: traps, tables  *)
(* and screen side by side.  They share no step: a behaviour is of one     *)
(* part, chosen at the start, and what belongs to the others is "idle"     *)
(* throughout.  traps: Trap; tables: DescriptorTables; screen: Screen.     *)
(***************************************************************************)
EXTENDS Trap

CONSTANTS
  MAX_GDT_NUM, MAX_IDT_NUM, Bases, Limits, Attributes, Argcs,  \* DescriptorTables
  LINE_BUF_WIDTH, MAX_SCREEN_HEIGHT, Width, Height, Chars      \* Screen

VARIABLES
  part,
  pc, m_gdt, m_idt, tss, tr, ret, issued,
  cell, m_cursor_x, m_cursor_y

Tables == INSTANCE DescriptorTables
Video == INSTANCE Screen

\* What the two are instantiated with.
ASSUME PartsAssumption ==
  Tables!TablesAssumption /\ Tables!AttributesAssumption /\ Video!ScreenAssumption

table_vars == <<pc, m_gdt, m_idt, tss, tr, ret, issued>>
screen_vars == <<cell, m_cursor_x, m_cursor_y>>
os_vars == <<part, vars, table_vars, screen_vars>>

NoTraps ==
  /\ at = "idle" /\ resume = "idle" /\ vector = "idle" /\ regs = "idle" /\ stack = "idle"
  /\ seen = "idle" /\ todo = "idle" /\ reports = "idle" /\ before = "idle"
NoTables ==
  /\ pc = "idle" /\ m_gdt = "idle" /\ m_idt = "idle" /\ tss = "idle" /\ tr = "idle"
  /\ ret = "idle" /\ issued = "idle"
NoScreen == cell = "idle" /\ m_cursor_x = "idle" /\ m_cursor_y = "idle"

OsInit ==
  \/ part = "traps" /\ Init /\ NoTables /\ NoScreen
  \/ part = "tables" /\ Tables!Init /\ NoTraps /\ NoScreen
  \/ part = "screen" /\ Video!Init /\ NoTraps /\ NoTables

StepTrap == part = "traps" /\ Next /\ UNCHANGED <<part, table_vars, screen_vars>>
StepKernel == part = "traps" /\ Kernel /\ UNCHANGED <<part, table_vars, screen_vars>>
StepTables == part = "tables" /\ Tables!Next /\ UNCHANGED <<part, vars, screen_vars>>
StepScreen == part = "screen" /\ Video!Next /\ UNCHANGED <<part, vars, table_vars>>

\* The fairness of Trap: a trap's stub, its handler and the host keep running.
OsSpec ==
  OsInit /\ [][StepTrap \/ StepTables \/ StepScreen]_os_vars /\ WF_os_vars(StepKernel)

-----------------------------------------------------------------------------
(* Constants *)

\* The bases of the two FS segments, and addresses with an empty half.
MCBases == {<<65503, 61440>>, <<1, 0>>}
\* 0xF0000, and a limit that does not fit 20 bits.
MCLimits == {983040, 1048577}
\* DA_DRW | DA_DPL3 | DA_32, and DA_CR | DA_32 | DA_LIMIT_4K.
MCAttributes == {146 + 96 + 16384, 154 + 16384 + 32768}
MCArgcs == {0, 257}

-----------------------------------------------------------------------------
(* Properties: those of Trap, which hold trivially in the other parts, and *)
(* those of the other parts, of their behaviours only.                     *)

\* A trap finds its way: the gates, the task register and the selectors that
\* GDT::Init, IDT::Init, TSS::Init and TRAP::Init set up go on designating
\* what was asked for, and dispatch reads the trap that was delivered.
TrapsFindTheirWay ==
  /\ part = "traps" => DispatchSeesTrap
  /\ part = "tables" =>
       Tables!TypeOK /\ Tables!IssuedKept /\ Tables!TaskRegisterUsable /\ Tables!VectorsHandled
\* Printing changes the text of no line but the cursor's, except by scrolling;
\* every line keeps its terminator, and the cursor stays on the screen.
LinesKept ==
  [][part = "screen" =>
       Video!TextKept /\ Video!LinesTerminated' /\ Video!TypeOK']_os_vars
=============================================================================
