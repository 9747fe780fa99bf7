--------------------------- MODULE GuestOsProofs ---------------------------
(***************************************************************************)
(* Proofs about the guest kernel outside its memory management: traps find *)
(* their way and leave no trace, selectors designate what was asked for,   *)
(* and printing keeps the lines, for any tables, screen and trap.          *)
(***************************************************************************)
EXTENDS MCGuestOs, SequenceTheorems, TLAPS

-----------------------------------------------------------------------------
(* The screen *)

Lines == [Video!Line -> [Video!Column -> Chars \cup {0}]]

\* The sizes Screen is instantiated with.
LEMMA ScreenFacts ==
  /\ LINE_BUF_WIDTH \in Nat /\ LINE_BUF_WIDTH >= 2
  /\ Video!m_screen_width \in 1 .. LINE_BUF_WIDTH - 1
  /\ Video!m_screen_height \in Nat \ {0}
BY PartsAssumption
   DEF Video!ScreenAssumption, Video!m_screen_width, Video!m_screen_height,
       Video!MAX_SCREEN_WIDTH

\* Init: every line is empty.
LEMMA ScreenBegins ==
  ASSUME Video!Init
  PROVE  Video!TypeOK /\ Video!LinesTerminated
<1>1. 0 \in Video!Column /\ 0 \in Video!Line /\ 0 \in 0 .. Video!m_screen_width
  BY ScreenFacts DEF Video!Column, Video!Line
<1> QED BY <1>1 DEF Video!Init, Video!TypeOK, Video!LinesTerminated

\* scroll(1) moves up the lines between the first and the bottom one.
LEMMA ScrolledLines ==
  ASSUME Video!TypeOK, Video!LinesTerminated
  PROVE  /\ Video!Scrolled \in Lines
         /\ \A y \in Video!Line : \E x \in Video!Column : Video!Scrolled[y][x] = 0
         /\ \A y \in 1 .. Video!m_screen_height - 1 : Video!Scrolled[y - 1] = cell[y]
<1>1. \A y \in Video!Line :
        \/ Video!Scrolled[y] = cell[y]
        \/ y + 1 \in Video!Line /\ Video!Scrolled[y] = cell[y + 1]
  <2> TAKE y \in Video!Line
  <2>1. Video!Scrolled[y] = IF y < Video!m_screen_height - 1 THEN cell[y + 1] ELSE cell[y]
    BY DEF Video!Scrolled
  <2>2. y < Video!m_screen_height - 1 => y + 1 \in Video!Line
    BY ScreenFacts DEF Video!Line
  <2> QED BY <2>1, <2>2
<1>2. \A y \in 1 .. Video!m_screen_height - 1 : Video!Scrolled[y - 1] = cell[y]
  BY ScreenFacts DEF Video!Scrolled, Video!Line
<1>3. Video!Scrolled \in Lines
  <2>1. \A y \in Video!Line : Video!Scrolled[y] \in [Video!Column -> Chars \cup {0}]
    BY <1>1 DEF Video!TypeOK
  <2>2. Video!Scrolled = [y \in Video!Line |-> Video!Scrolled[y]]
    BY DEF Video!Scrolled
  <2> HIDE DEF Video!Scrolled
  <2> QED BY <2>1, <2>2 DEF Lines
<1>4. \A y \in Video!Line : \E x \in Video!Column : Video!Scrolled[y][x] = 0
  BY <1>1 DEF Video!LinesTerminated
<1> QED BY <1>2, <1>3, <1>4

\* A character ends its line behind it, and changes no other line.
LEMMA PutLines ==
  ASSUME NEW lines \in Lines,
         \A y \in Video!Line : \E x \in Video!Column : lines[y][x] = 0,
         NEW x \in 0 .. Video!m_screen_width - 1, NEW y \in Video!Line, NEW ch \in Chars,
         Video!Put(lines, x, y, ch)
  PROVE  /\ Video!TypeOK' /\ Video!LinesTerminated'
         /\ \A z \in Video!Line \ {m_cursor_y'} : cell'[z] = lines[z]
<1>0. /\ x \in Video!Column /\ x + 1 \in Video!Column /\ x + 1 \in 0 .. Video!m_screen_width
      /\ x # x + 1
  BY ScreenFacts DEF Video!Column
<1> DEFINE line == [lines[y] EXCEPT ![x] = ch, ![x + 1] = 0]
<1>1. line \in [Video!Column -> Chars \cup {0}] /\ line[x + 1] = 0
  BY <1>0 DEF Lines
<1>2. cell' = [lines EXCEPT ![y] = line] /\ m_cursor_x' = x + 1 /\ m_cursor_y' = y
  BY DEF Video!Put
<1> HIDE DEF line
<1>3. cell' \in Lines /\ cell'[y] = line /\ \A z \in Video!Line \ {y} : cell'[z] = lines[z]
  BY <1>1, <1>2 DEF Lines
<1>4. Video!TypeOK'
  BY <1>0, <1>2, <1>3 DEF Video!TypeOK, Lines
<1>5. Video!LinesTerminated'
  BY <1>0, <1>1, <1>3 DEF Video!LinesTerminated
<1> QED BY <1>2, <1>3, <1>4, <1>5

\* Every step of the screen keeps what was printed, and the terminators.
LEMMA ScreenStep ==
  ASSUME Video!TypeOK, Video!LinesTerminated, Video!Next
  PROVE  Video!TypeOK' /\ Video!LinesTerminated' /\ Video!TextKept
<1> USE DEF Video!TypeOK, Video!LinesTerminated
<1>0. cell \in Lines
  BY DEF Lines
<1>1. CASE Video!CarriageReturn
  BY <1>1, ScreenFacts DEF Video!CarriageReturn, Video!TextKept
<1>2. CASE Video!LineFeed
  <2>1. CASE m_cursor_y < Video!m_screen_height
    <3>1. cell' = cell /\ m_cursor_x' = m_cursor_x /\ m_cursor_y' = m_cursor_y + 1
      BY <1>2, <2>1 DEF Video!LineFeed
    <3>2. m_cursor_y' \in Video!Line
      BY <2>1, <3>1, ScreenFacts DEF Video!Line
    <3> QED BY <3>1, <3>2 DEF Video!TextKept
  <2>2. CASE ~(m_cursor_y < Video!m_screen_height)
    <3>1. cell' = Video!Scrolled /\ m_cursor_x' = m_cursor_x /\ m_cursor_y' = m_cursor_y
      BY <1>2, <2>2 DEF Video!LineFeed
    <3> QED BY <3>1, ScrolledLines DEF Video!TextKept, Lines
  <2> QED BY <2>1, <2>2
<1>3. ASSUME NEW ch \in Chars, Video!PutChar(ch)
      PROVE  Video!TypeOK' /\ Video!LinesTerminated' /\ Video!TextKept
  <2>1. CASE m_cursor_x < Video!m_screen_width
    <3>1. Video!Put(cell, m_cursor_x, m_cursor_y, ch) /\ m_cursor_x \in 0 .. Video!m_screen_width - 1
      BY <1>3, <2>1, ScreenFacts DEF Video!PutChar
    <3> QED BY <1>0, <3>1, PutLines DEF Video!TextKept
  <2>2. CASE ~(m_cursor_x < Video!m_screen_width) /\ m_cursor_y < Video!m_screen_height
    <3>1. Video!Put(cell, 0, m_cursor_y + 1, ch) /\ m_cursor_y + 1 \in Video!Line
          /\ 0 \in 0 .. Video!m_screen_width - 1
      BY <1>3, <2>2, ScreenFacts DEF Video!PutChar, Video!Line
    <3> QED BY <1>0, <3>1, PutLines DEF Video!TextKept
  <2>3. CASE ~(m_cursor_x < Video!m_screen_width) /\ ~(m_cursor_y < Video!m_screen_height)
    <3>1. Video!Put(Video!Scrolled, 0, m_cursor_y, ch) /\ 0 \in 0 .. Video!m_screen_width - 1
      BY <1>3, <2>3, ScreenFacts DEF Video!PutChar
    <3>2. /\ Video!TypeOK' /\ Video!LinesTerminated'
          /\ \A z \in Video!Line \ {m_cursor_y'} : cell'[z] = Video!Scrolled[z]
      BY <3>1, ScrolledLines, PutLines
    <3>3. m_cursor_y' = Video!m_screen_height
      BY <2>3, <3>1, ScreenFacts DEF Video!Put, Video!Line
    <3>4. \A y \in 1 .. Video!m_screen_height - 1 : cell'[y - 1] = cell[y]
      BY <3>2, <3>3, ScrolledLines, ScreenFacts DEF Video!Line
    <3> QED BY <3>2, <3>4 DEF Video!TextKept
  <2> QED BY <2>1, <2>2, <2>3
<1>4. CASE Video!clear
  <2>1. 0 \in Video!Column
    BY ScreenFacts DEF Video!Column
  <2> QED BY <1>4, <2>1 DEF Video!clear, Video!TextKept
<1>5. ASSUME NEW x \in 0 .. Video!m_screen_width, NEW y \in Video!Line, Video!gotoxy(x, y)
      PROVE  Video!TypeOK' /\ Video!LinesTerminated' /\ Video!TextKept
  BY <1>5 DEF Video!gotoxy, Video!TextKept
<1> QED BY <1>1, <1>2, <1>3, <1>4, <1>5 DEF Video!Next

-----------------------------------------------------------------------------
(* The descriptor tables *)

\* Half of a double word is a number of sixteen bits.
LEMMA HalfFacts == \A x : x \in Tables!Half <=> x \in Int /\ 0 <= x /\ x <= 65535
<1> DEFINE n == 65535
<1>1. n \in Nat /\ Tables!Half = 0 .. n
  BY SMT DEF Tables!Half
<1> HIDE DEF n
<1>2. \A x : x \in Tables!Half <=> x \in Int /\ 0 <= x /\ x <= n
  BY <1>1, SMT
<1> QED BY <1>2, SMT DEF n

\* A byte is a number of eight bits.
LEMMA ByteFacts == \A x : x \in Tables!Byte <=> x \in Int /\ 0 <= x /\ x <= 255
BY SMT DEF Tables!Byte

\* An address is put together again from its upper half's bytes.
LEMMA AddressBytes ==
  ASSUME NEW base \in Tables!Half \X Tables!Half
  PROVE  /\ base = <<base[1], base[2]>> /\ base[2] \in Tables!Half
         /\ base[1] % 256 \in Tables!Byte /\ base[1] \div 256 \in Tables!Byte
         /\ 256 * (base[1] \div 256) + (base[1] % 256) = base[1]
<1>1. base = <<base[1], base[2]>> /\ base[1] \in Tables!Half /\ base[2] \in Tables!Half
  BY SMT
<1>2. base[1] \in Int /\ 0 <= base[1] /\ base[1] <= 65535
  BY <1>1, HalfFacts, SMT
<1>3. /\ base[1] % 256 \in Int /\ base[1] \div 256 \in Int
      /\ 0 <= base[1] % 256 /\ base[1] % 256 <= 255
      /\ 0 <= base[1] \div 256 /\ base[1] \div 256 <= 255
      /\ 256 * (base[1] \div 256) + (base[1] % 256) = base[1]
  BY <1>2, SMT
<1> QED BY <1>1, <1>3, ByteFacts, SMT

\* The bits of a limit and of the attributes that share a byte.
LEMMA SharedByte ==
  ASSUME NEW limit \in Nat, NEW attribute \in Nat
  PROVE  LET low == (limit \div 65536) % 16
             flags == (attribute \div 4096) % 16 IN
         /\ low + 16 * flags \in Tables!Byte
         /\ (low + 16 * flags) % 16 = low /\ (low + 16 * flags) \div 16 = flags
<1> DEFINE low == (limit \div 65536) % 16
           flags == (attribute \div 4096) % 16
<1>1. low \in 0 .. 15 /\ flags \in 0 .. 15
  BY SMT
<1> HIDE DEF low, flags
<1>2. low + 16 * flags \in Tables!Byte
  BY <1>1, ByteFacts, SMT
<1>3. (low + 16 * flags) % 16 = low /\ (low + 16 * flags) \div 16 = flags
  BY <1>1, SMT
<1> QED BY <1>2, <1>3, SMT DEF low, flags

\* The low byte and the low word of a number.
LEMMA Remainders ==
  ASSUME NEW n \in Nat
  PROVE  n % 256 \in Tables!Byte /\ n % 65536 \in Tables!Half
<1>1. n % 256 \in Int /\ 0 <= n % 256 /\ n % 256 <= 255
  BY SMT
<1>2. n % 65536 \in Int /\ 0 <= n % 65536 /\ n % 65536 <= 65535
  BY SMT
<1> QED BY <1>1, <1>2, HalfFacts, ByteFacts, SMT

\* A segment descriptor is eight bytes, and free only without a type.
LEMMA SegmentWritten ==
  ASSUME NEW base \in Tables!Half \X Tables!Half, NEW limit \in Nat, NEW attribute \in Nat,
         NEW d, d = Tables!Segment(base, limit, attribute)
  PROVE  d \in Tables!Descriptor /\ d[4] = attribute % 256
<1> DEFINE low == (limit \div 65536) % 16
           flags == (attribute \div 4096) % 16
           shared == low + 16 * flags
<1>1. shared \in Tables!Byte
  BY ONLY limit \in Nat, attribute \in Nat, SharedByte, SMT
<1>2. d = <<limit % 65536, base[2], base[1] % 256, attribute % 256, shared, base[1] \div 256>>
  BY SMT DEF Tables!Segment
<1> HIDE DEF shared, low, flags
<1> QED BY <1>1, <1>2, AddressBytes, Remainders, SMT DEF Tables!Descriptor

\* What there is of an address, a limit and attributes in a segment descriptor.
SegmentOf(base, limit, attribute) ==
  [base |-> base, limit |-> limit % 1048576, access |-> attribute % 256,
   flags |-> (attribute \div 4096) % 16]

\* What is read from a segment descriptor is what was written: no byte of the
\* base, the limit or the attributes is lost on its way through the layout.
LEMMA SegmentRead ==
  ASSUME NEW base \in Tables!Half \X Tables!Half, NEW limit \in Nat, NEW attribute \in Nat
  PROVE  Tables!AsSegment(Tables!Segment(base, limit, attribute)) =
           SegmentOf(base, limit, attribute)
<1> DEFINE low == (limit \div 65536) % 16
           flags == (attribute \div 4096) % 16
           d == Tables!Segment(base, limit, attribute)
<1>1. (low + 16 * flags) % 16 = low /\ (low + 16 * flags) \div 16 = flags
  BY SharedByte, SMT
<1>2. (limit % 65536) + 65536 * low = limit % 1048576
  BY SMT
<1>3. d = <<limit % 65536, base[2], base[1] % 256, attribute % 256, low + 16 * flags,
            base[1] \div 256>>
  BY SMT DEF Tables!Segment
<1> HIDE DEF low, flags, d
<1>4. Tables!AsSegment(d) = [base |-> base, limit |-> limit % 1048576,
                             access |-> attribute % 256, flags |-> flags]
  BY <1>1, <1>2, <1>3, AddressBytes, SMT DEF Tables!AsSegment
<1> QED BY <1>4, SMT DEF flags, d, SegmentOf

\* The same of a gate.
LEMMA GateRead ==
  ASSUME NEW offset \in Tables!Half \X Tables!Half, NEW count \in Nat, NEW type \in Tables!Byte
  PROVE  LET d == Tables!Gate(offset, count, type) IN
         /\ d \in Tables!Descriptor /\ d[4] = type
         /\ Tables!AsGate(d) = [offset |-> offset, selector |-> Tables!SEL_KERNEL_CODE,
                                count |-> count % 256, access |-> type]
<1>1. 8 \in Tables!Half /\ count % 256 \in Tables!Byte
  BY HalfFacts, Remainders, SMT
<1> QED BY <1>1, AddressBytes, SMT
        DEF Tables!Gate, Tables!AsGate, Tables!Descriptor, Tables!SEL_KERNEL_CODE

\* What is in the tables, by the step of main: the six segments of GDT::Init,
\* below the TSS's entry, which is the first free one when TSS::Init asks.
TssEntry == Tables!GDT_SYS_TSS
TssSegment(access) == Tables!Segment(Tables!ThisTss, 103, access)
DefaultGate == Tables!Gate(Tables!irq_default_entry, 0, Tables!IDT_INTR_GATE)
TrapGate(v) == Tables!Gate(Tables!trap_entry(v), 0, Tables!IDT_TRAP_GATE)

GdtInv ==
  /\ pc = "gdt_init" => \A i \in 1 .. MAX_GDT_NUM - 1 : m_gdt[i] = Tables!Zero
  /\ pc # "gdt_init" => \A i \in 1 .. 6 : m_gdt[i] = Tables!Fixed[i]
  /\ pc \in {"idt_init", "tss_init"} => m_gdt[TssEntry] = Tables!Zero
  /\ pc \in {"trap_init", "tss_active"} => m_gdt[TssEntry] = TssSegment(Tables!DA_386TSS)
  /\ pc = "running" => m_gdt[TssEntry] = TssSegment(Tables!DA_386TSS + 2)

IdtInv ==
  /\ pc \in {"tss_init", "trap_init"} =>
       \A v \in 0 .. MAX_IDT_NUM - 1 : m_idt[v] = DefaultGate
  /\ pc \in {"tss_active", "running"} =>
       \A v \in 0 .. MAX_IDT_NUM - 1 :
         m_idt[v] = IF v \in Tables!TrapEntries THEN TrapGate(v) ELSE DefaultGate

TssInv ==
  /\ pc \in {"gdt_init", "idt_init", "tss_init"} => issued = {} /\ ret = -1
  /\ pc \in {"trap_init", "tss_active", "running"} =>
       tss = [esp0 |-> Tables!KERNEL_STACK_TOP_VIRTUAL_ADDR, ss0 |-> Tables!SEL_KERNEL_DATA,
              m_tss_seg |-> 8 * TssEntry]
  /\ pc \in {"trap_init", "tss_active"} =>
       /\ ret = 8 * TssEntry
       /\ issued = {[sel |-> 8 * TssEntry,
                     asked |-> Tables!Asked("tss", Tables!ThisTss, 103, Tables!DA_386TSS, 0)]}
  /\ pc = "running" => tr = 8 * TssEntry

\* A selector was given with an entry that is not free, and reads as asked.
IssuedInv ==
  /\ \A e \in issued :
       \E i \in 1 .. MAX_GDT_NUM - 1 :
         e.sel = 8 * i /\ m_gdt[i] # Tables!Zero /\ Tables!Reads(e.asked, m_gdt[i]) = e.asked.as
  /\ \A e, f \in issued : e.sel = f.sel => e = f
  /\ ret = 0 => \A i \in 1 .. MAX_GDT_NUM - 1 : m_gdt[i] # Tables!Zero

TablesInv == Tables!TypeOK /\ GdtInv /\ IdtInv /\ TssInv /\ IssuedInv

\* Sizes of the tables, and the operands callers pass.
LEMMA TableFacts ==
  /\ MAX_GDT_NUM \in Nat /\ MAX_GDT_NUM > TssEntry /\ TssEntry = 7
  /\ MAX_IDT_NUM \in Nat /\ MAX_IDT_NUM >= 20
  /\ Bases \subseteq Tables!Half \X Tables!Half /\ Limits \subseteq Nat
  /\ Attributes \subseteq Nat /\ Argcs \subseteq Nat
  /\ \A a \in Attributes : a % 256 # 0
BY PartsAssumption, SMT
   DEF Tables!TablesAssumption, Tables!AttributesAssumption, TssEntry, Tables!GDT_SYS_TSS

\* The descriptors main writes.
LEMMA FixedDescriptors ==
  /\ Tables!Zero \in Tables!Descriptor /\ Tables!Zero[4] = 0
  /\ \A i \in 1 .. 6 : Tables!Fixed[i] \in Tables!Descriptor /\ Tables!Fixed[i] # Tables!Zero
  /\ Tables!AsSegment(Tables!Fixed[1]).access = Tables!DA_CR
<1>0. /\ Tables!Zero \in Tables!Descriptor /\ Tables!Zero[4] = 0
      /\ <<0, 0>> \in Tables!Half \X Tables!Half
      /\ <<65503, 61440>> \in Tables!Half \X Tables!Half
      /\ <<32509, 53248>> \in Tables!Half \X Tables!Half
  BY HalfFacts, ByteFacts, SMT DEF Tables!Zero, Tables!Descriptor
<1>1. ASSUME NEW base \in Tables!Half \X Tables!Half, NEW limit \in Nat, NEW a \in Nat,
             NEW d, d = Tables!Segment(base, limit, a), a % 256 # 0
      PROVE  /\ d \in Tables!Descriptor /\ d # Tables!Zero
             /\ Tables!AsSegment(d).access = a % 256
  <2>1. d \in Tables!Descriptor /\ d[4] = a % 256
    BY <1>1, SegmentWritten, SMT
  <2> QED BY <1>0, <1>1, <2>1, SMT DEF Tables!AsSegment
<1>2. /\ 49306 % 256 = 154 /\ 49298 % 256 # 0 /\ 49402 % 256 # 0 /\ 49394 % 256 # 0
      /\ 16626 % 256 # 0 /\ Tables!DA_CR = 154
  BY SMT DEF Tables!DA_CR
<1>3. /\ Tables!Fixed[1] \in Tables!Descriptor /\ Tables!Fixed[1] # Tables!Zero
      /\ Tables!AsSegment(Tables!Fixed[1]).access = 49306 % 256
  <2> DEFINE base == <<0, 0>>
             limit == 1048575
             a == 49306
             d == Tables!Fixed[1]
  <2>1. /\ base \in Tables!Half \X Tables!Half /\ limit \in Nat /\ a \in Nat /\ a % 256 # 0
    BY <1>0, <1>2, SMT
  <2>2. d = Tables!Segment(base, limit, a)
    BY SMT DEF Tables!Fixed, Tables!UserLimit, Tables!DA_CR, Tables!DA_32,
               Tables!DA_LIMIT_4K, Tables!DA_DRW, Tables!DA_DPL3
  <2> HIDE DEF base, limit, a, d
  <2>3. d \in Tables!Descriptor /\ d # Tables!Zero /\ Tables!AsSegment(d).access = a % 256
    BY <1>1, <2>1, <2>2, SMT
  <2> QED BY <2>3, SMT DEF d, a
<1>4. /\ Tables!Fixed[2] \in Tables!Descriptor /\ Tables!Fixed[2] # Tables!Zero
      /\ Tables!AsSegment(Tables!Fixed[2]).access = 49298 % 256
  <2> DEFINE base == <<0, 0>>
             limit == 1048575
             a == 49298
             d == Tables!Fixed[2]
  <2>1. /\ base \in Tables!Half \X Tables!Half /\ limit \in Nat /\ a \in Nat /\ a % 256 # 0
    BY <1>0, <1>2, SMT
  <2>2. d = Tables!Segment(base, limit, a)
    BY SMT DEF Tables!Fixed, Tables!UserLimit, Tables!DA_CR, Tables!DA_32,
               Tables!DA_LIMIT_4K, Tables!DA_DRW, Tables!DA_DPL3
  <2> HIDE DEF base, limit, a, d
  <2>3. d \in Tables!Descriptor /\ d # Tables!Zero /\ Tables!AsSegment(d).access = a % 256
    BY <1>1, <2>1, <2>2, SMT
  <2> QED BY <2>3, SMT DEF d, a
<1>5. /\ Tables!Fixed[3] \in Tables!Descriptor /\ Tables!Fixed[3] # Tables!Zero
      /\ Tables!AsSegment(Tables!Fixed[3]).access = 49402 % 256
  <2> DEFINE base == <<0, 0>>
             limit == 524287
             a == 49402
             d == Tables!Fixed[3]
  <2>1. /\ base \in Tables!Half \X Tables!Half /\ limit \in Nat /\ a \in Nat /\ a % 256 # 0
    BY <1>0, <1>2, SMT
  <2>2. d = Tables!Segment(base, limit, a)
    BY SMT DEF Tables!Fixed, Tables!UserLimit, Tables!DA_CR, Tables!DA_32,
               Tables!DA_LIMIT_4K, Tables!DA_DRW, Tables!DA_DPL3
  <2> HIDE DEF base, limit, a, d
  <2>3. d \in Tables!Descriptor /\ d # Tables!Zero /\ Tables!AsSegment(d).access = a % 256
    BY <1>1, <2>1, <2>2, SMT
  <2> QED BY <2>3, SMT DEF d, a
<1>6. /\ Tables!Fixed[4] \in Tables!Descriptor /\ Tables!Fixed[4] # Tables!Zero
      /\ Tables!AsSegment(Tables!Fixed[4]).access = 49394 % 256
  <2> DEFINE base == <<0, 0>>
             limit == 524287
             a == 49394
             d == Tables!Fixed[4]
  <2>1. /\ base \in Tables!Half \X Tables!Half /\ limit \in Nat /\ a \in Nat /\ a % 256 # 0
    BY <1>0, <1>2, SMT
  <2>2. d = Tables!Segment(base, limit, a)
    BY SMT DEF Tables!Fixed, Tables!UserLimit, Tables!DA_CR, Tables!DA_32,
               Tables!DA_LIMIT_4K, Tables!DA_DRW, Tables!DA_DPL3
  <2> HIDE DEF base, limit, a, d
  <2>3. d \in Tables!Descriptor /\ d # Tables!Zero /\ Tables!AsSegment(d).access = a % 256
    BY <1>1, <2>1, <2>2, SMT
  <2> QED BY <2>3, SMT DEF d, a
<1>7. /\ Tables!Fixed[5] \in Tables!Descriptor /\ Tables!Fixed[5] # Tables!Zero
      /\ Tables!AsSegment(Tables!Fixed[5]).access = 16626 % 256
  <2> DEFINE base == <<65503, 61440>>
             limit == 1023
             a == 16626
             d == Tables!Fixed[5]
  <2>1. /\ base \in Tables!Half \X Tables!Half /\ limit \in Nat /\ a \in Nat /\ a % 256 # 0
    BY <1>0, <1>2, SMT
  <2>2. d = Tables!Segment(base, limit, a)
    BY SMT DEF Tables!Fixed, Tables!UserLimit, Tables!DA_CR, Tables!DA_32,
               Tables!DA_LIMIT_4K, Tables!DA_DRW, Tables!DA_DPL3
  <2> HIDE DEF base, limit, a, d
  <2>3. d \in Tables!Descriptor /\ d # Tables!Zero /\ Tables!AsSegment(d).access = a % 256
    BY <1>1, <2>1, <2>2, SMT
  <2> QED BY <2>3, SMT DEF d, a
<1>8. /\ Tables!Fixed[6] \in Tables!Descriptor /\ Tables!Fixed[6] # Tables!Zero
      /\ Tables!AsSegment(Tables!Fixed[6]).access = 16626 % 256
  <2> DEFINE base == <<32509, 53248>>
             limit == 1023
             a == 16626
             d == Tables!Fixed[6]
  <2>1. /\ base \in Tables!Half \X Tables!Half /\ limit \in Nat /\ a \in Nat /\ a % 256 # 0
    BY <1>0, <1>2, SMT
  <2>2. d = Tables!Segment(base, limit, a)
    BY SMT DEF Tables!Fixed, Tables!UserLimit, Tables!DA_CR, Tables!DA_32,
               Tables!DA_LIMIT_4K, Tables!DA_DRW, Tables!DA_DPL3
  <2> HIDE DEF base, limit, a, d
  <2>3. d \in Tables!Descriptor /\ d # Tables!Zero /\ Tables!AsSegment(d).access = a % 256
    BY <1>1, <2>1, <2>2, SMT
  <2> QED BY <2>3, SMT DEF d, a
<1> QED BY <1>0, <1>2, <1>3, <1>4, <1>5, <1>6, <1>7, <1>8, SMT

\* The TSS descriptor, as TSS::Init writes it and as TSS::active makes it busy.
LEMMA TssDescriptors ==
  /\ TssSegment(Tables!DA_386TSS) \in Tables!Descriptor
  /\ TssSegment(Tables!DA_386TSS) # Tables!Zero
  /\ TssSegment(Tables!DA_386TSS)[4] = Tables!DA_386TSS
  /\ Tables!AsSegment(TssSegment(Tables!DA_386TSS)) =
       [base |-> Tables!ThisTss, limit |-> 103, access |-> Tables!DA_386TSS, flags |-> 0]
  /\ [TssSegment(Tables!DA_386TSS) EXCEPT ![4] = Tables!DA_386TSS + 2] =
       TssSegment(Tables!DA_386TSS + 2)
  /\ TssSegment(Tables!DA_386TSS + 2) \in Tables!Descriptor
  /\ TssSegment(Tables!DA_386TSS + 2) # Tables!Zero
  /\ Tables!AsSegment(TssSegment(Tables!DA_386TSS + 2)) =
       [base |-> Tables!ThisTss, limit |-> 103, access |-> Tables!DA_386TSS + 2, flags |-> 0]
<1>0. Tables!ThisTss \in Tables!Half \X Tables!Half /\ Tables!Zero[4] = 0
  BY HalfFacts, SMT DEF Tables!ThisTss, Tables!Zero
<1>1. ASSUME NEW a \in {137, 139}
      PROVE  /\ TssSegment(a) \in Tables!Descriptor /\ TssSegment(a)[4] = a
             /\ Tables!AsSegment(TssSegment(a)) =
                  [base |-> Tables!ThisTss, limit |-> 103, access |-> a, flags |-> 0]
  <2>1. a \in Nat /\ a % 256 = a /\ (a \div 4096) % 16 = 0 /\ 103 % 1048576 = 103
    BY SMT
  <2> QED BY <1>0, <2>1, SegmentRead, SegmentWritten, SMT DEF TssSegment, SegmentOf
<1>2. [TssSegment(137) EXCEPT ![4] = 139] = TssSegment(139)
  <2>1. /\ TssSegment(137) = <<103 % 65536, 4096, 32769 % 256, 137 % 256,
                               ((103 \div 65536) % 16) + 16 * ((137 \div 4096) % 16),
                               32769 \div 256>>
        /\ TssSegment(139) = <<103 % 65536, 4096, 32769 % 256, 139 % 256,
                               ((103 \div 65536) % 16) + 16 * ((139 \div 4096) % 16),
                               32769 \div 256>>
    BY SMT DEF TssSegment, Tables!Segment, Tables!ThisTss
  <2>2. 139 % 256 = 139 /\ (137 \div 4096) % 16 = (139 \div 4096) % 16
    BY SMT
  <2> QED BY <2>1, <2>2, SMT
<1> QED BY <1>0, <1>1, <1>2, SMT DEF Tables!DA_386TSS

\* The gate IDT::Init leaves in every vector, as the processor reads it.
LEMMA GateDescriptors ==
  /\ DefaultGate \in Tables!Descriptor
  /\ Tables!AsGate(DefaultGate) =
       [offset |-> Tables!irq_default_entry, selector |-> Tables!SEL_KERNEL_CODE, count |-> 0,
        access |-> Tables!IDT_INTR_GATE]
  /\ \A v \in Tables!TrapEntries :
       /\ TrapGate(v) \in Tables!Descriptor
       /\ Tables!AsGate(TrapGate(v)) =
            [offset |-> Tables!trap_entry(v), selector |-> Tables!SEL_KERNEL_CODE, count |-> 0,
             access |-> Tables!IDT_TRAP_GATE]
<1>1. /\ Tables!irq_default_entry \in Tables!Half \X Tables!Half
      /\ Tables!IDT_INTR_GATE \in Tables!Byte /\ Tables!IDT_TRAP_GATE \in Tables!Byte
  BY HalfFacts, ByteFacts, SMT
     DEF Tables!irq_default_entry, Tables!IDT_INTR_GATE, Tables!IDT_TRAP_GATE
<1>2. \A v \in Tables!TrapEntries : Tables!trap_entry(v) \in Tables!Half \X Tables!Half
  BY HalfFacts, SMT DEF Tables!trap_entry, Tables!TrapEntries
<1>3. 0 % 256 = 0 /\ 0 \in Nat
  BY SMT
<1> QED BY <1>1, <1>2, <1>3, GateRead, SMT DEF DefaultGate, TrapGate

\* The invariant of the tables holds before GDT::Init.
LEMMA TablesBegin ==
  ASSUME Tables!Init
  PROVE  TablesInv
<1>1. <<0, 0>> \in Tables!Half \X Tables!Half /\ 0 \in Tables!Half
  BY HalfFacts, SMT
<1>2. Tables!TypeOK
  BY <1>1, FixedDescriptors, SMT DEF Tables!Init, Tables!TypeOK, Tables!ZeroTss
<1>3. GdtInv /\ IdtInv
  BY TableFacts, SMT DEF Tables!Init, GdtInv, IdtInv
<1>4. TssInv /\ IssuedInv
  BY SMT DEF Tables!Init, TssInv, IssuedInv
<1> QED BY <1>2, <1>3, <1>4, SMT DEF TablesInv

\* GDT::Init writes the fixed descriptors and clears the rest.
LEMMA GdtInitStep ==
  ASSUME TablesInv, Tables!GDT_Init
  PROVE  TablesInv'
<1> USE DEF TablesInv
<1>0. /\ pc = "gdt_init" /\ pc' = "idt_init"
      /\ m_gdt' = [i \in DOMAIN m_gdt |-> IF i \in 1 .. 6 THEN Tables!Fixed[i] ELSE m_gdt[i]]
      /\ UNCHANGED <<m_idt, tss, tr, ret, issued>>
  BY SMT DEF Tables!GDT_Init
<1>1. m_gdt' = [i \in 0 .. MAX_GDT_NUM - 1 |-> IF i \in 1 .. 6 THEN Tables!Fixed[i] ELSE m_gdt[i]]
  BY <1>0, SMT DEF Tables!TypeOK
<1>2. Tables!TypeOK'
  BY <1>0, <1>1, FixedDescriptors, SMT DEF Tables!TypeOK
<1>3. GdtInv'
  BY <1>0, <1>1, TableFacts, SMT DEF GdtInv
<1>4. IdtInv' /\ TssInv' /\ IssuedInv'
  BY <1>0, SMT DEF IdtInv, TssInv, IssuedInv
<1> QED BY <1>2, <1>3, <1>4, SMT

\* IDT::Init gives every vector a gate; TRAP::Init replaces those of the processor.
LEMMA IdtInitStep ==
  ASSUME TablesInv, Tables!IDT_Init \/ Tables!TRAP_Init
  PROVE  TablesInv'
<1> USE DEF TablesInv
<1>0. DOMAIN m_idt = 0 .. MAX_IDT_NUM - 1 /\ UNCHANGED <<m_gdt, tss, tr, ret, issued>>
  BY SMT DEF Tables!TypeOK, Tables!IDT_Init, Tables!TRAP_Init
<1>1. CASE Tables!IDT_Init
  <2>1. pc = "idt_init" /\ pc' = "tss_init" /\ m_idt' = [v \in 0 .. MAX_IDT_NUM - 1 |-> DefaultGate]
    BY <1>0, <1>1, SMT DEF Tables!IDT_Init, DefaultGate
  <2>2. Tables!TypeOK'
    BY <1>0, <2>1, GateDescriptors, SMT DEF Tables!TypeOK
  <2>3. GdtInv' /\ IdtInv' /\ TssInv' /\ IssuedInv'
    BY <1>0, <2>1, SMT DEF GdtInv, IdtInv, TssInv, IssuedInv
  <2> QED BY <2>2, <2>3, SMT
<1>2. CASE Tables!TRAP_Init
  <2>1. /\ pc = "trap_init" /\ pc' = "tss_active"
        /\ m_idt' = [v \in 0 .. MAX_IDT_NUM - 1 |->
                       IF v \in Tables!TrapEntries THEN TrapGate(v) ELSE m_idt[v]]
    BY <1>0, <1>2, SMT DEF Tables!TRAP_Init, TrapGate
  <2>2. m_idt' \in [0 .. MAX_IDT_NUM - 1 -> Tables!Descriptor]
    BY <2>1, GateDescriptors, SMT DEF Tables!TypeOK
  <2>3. Tables!TypeOK'
    BY <1>0, <2>1, <2>2, SMT DEF Tables!TypeOK
  <2>4. IdtInv'
    BY <2>1, SMT DEF IdtInv
  <2>5. GdtInv' /\ TssInv' /\ IssuedInv'
    BY <1>0, <2>1, SMT DEF GdtInv, TssInv, IssuedInv
  <2> QED BY <2>3, <2>4, <2>5, SMT
<1> QED BY <1>1, <1>2, SMT

\* TSS::Init is given the entry the task register will designate.
LEMMA TssInitStep ==
  ASSUME TablesInv, NEW i \in 0 .. MAX_GDT_NUM - 1, Tables!TSS_Init(i)
  PROVE  TablesInv'
<1> USE DEF TablesInv
<1> DEFINE asked == Tables!Asked("tss", Tables!ThisTss, 103, Tables!DA_386TSS, 0)
<1>0. /\ pc = "tss_init" /\ pc' = "trap_init" /\ UNCHANGED <<m_idt, tr>>
      /\ Tables!Add(i, TssSegment(Tables!DA_386TSS), asked)
      /\ tss' = [esp0 |-> Tables!KERNEL_STACK_TOP_VIRTUAL_ADDR, ss0 |-> Tables!SEL_KERNEL_DATA,
                 m_tss_seg |-> ret']
  BY SMT DEF Tables!TSS_Init, TssSegment
<1>1. i = TssEntry
  <2>1. m_gdt[TssEntry] = Tables!Zero /\ \A j \in 1 .. 6 : m_gdt[j] # Tables!Zero
    BY <1>0, FixedDescriptors, SMT DEF GdtInv
  <2>2. Tables!find_free_gdt_entry(i)
    BY <1>0, SMT DEF Tables!Add
  <2> QED BY <2>1, <2>2, TableFacts, SMT DEF Tables!find_free_gdt_entry, Tables!IsFree
<1>2. /\ ret' = 8 * TssEntry /\ m_gdt' = [m_gdt EXCEPT ![TssEntry] = TssSegment(Tables!DA_386TSS)]
      /\ issued' = {[sel |-> 8 * TssEntry, asked |-> asked]}
  BY <1>0, <1>1, TableFacts, SMT DEF Tables!Add, TssInv
<1>3. /\ m_gdt' \in [0 .. MAX_GDT_NUM - 1 -> Tables!Descriptor]
      /\ m_gdt'[TssEntry] = TssSegment(Tables!DA_386TSS)
      /\ \A j \in 1 .. 6 : m_gdt'[j] = m_gdt[j]
  BY <1>2, TssDescriptors, TableFacts, SMT DEF Tables!TypeOK
<1>4. Tables!TypeOK'
  <2>1. /\ Tables!KERNEL_STACK_TOP_VIRTUAL_ADDR \in Tables!Half \X Tables!Half
        /\ Tables!SEL_KERNEL_DATA \in Tables!Half /\ ret' \in Tables!Half /\ ret' \in Int
    BY <1>2, TableFacts, HalfFacts, SMT
       DEF Tables!KERNEL_STACK_TOP_VIRTUAL_ADDR, Tables!SEL_KERNEL_DATA
  <2> QED BY <1>0, <1>3, <2>1, SMT DEF Tables!TypeOK
<1>5. GdtInv' /\ IdtInv' /\ TssInv'
  BY <1>0, <1>2, <1>3, SMT DEF GdtInv, IdtInv, TssInv
<1>6. IssuedInv'
  <2>1. Tables!Reads(asked, TssSegment(Tables!DA_386TSS)) = asked.as
    BY TssDescriptors, SMT DEF Tables!Reads, Tables!Asked, Tables!DA_386TSS
  <2>2. m_gdt'[TssEntry] # Tables!Zero /\ TssEntry \in 1 .. MAX_GDT_NUM - 1
    BY <1>3, TssDescriptors, TableFacts, SMT
  <2>3. ret' # 0
    BY <1>2, TableFacts, SMT
  <2> HIDE DEF asked
  <2> QED BY <1>2, <1>3, <2>1, <2>2, <2>3, SMT DEF IssuedInv
<1> QED BY <1>4, <1>5, <1>6, SMT

\* ltr finds an available TSS, and marks it busy.
LEMMA TssActiveStep ==
  ASSUME TablesInv, Tables!TSS_active
  PROVE  TablesInv'
<1> USE DEF TablesInv
<1>0. /\ pc = "tss_active" /\ pc' = "running" /\ UNCHANGED <<m_idt, tss, ret, issued>>
      /\ tr' = tss.m_tss_seg /\ tss.m_tss_seg = 8 * TssEntry /\ (8 * TssEntry) \div 8 = TssEntry
      /\ m_gdt[TssEntry] = TssSegment(Tables!DA_386TSS)
      /\ m_gdt' = [m_gdt EXCEPT ![TssEntry][4] = Tables!DA_386TSS + 2]
  <2>1. pc = "tss_active"
    BY SMT DEF Tables!TSS_active
  <2>2. tss.m_tss_seg = 8 * TssEntry /\ m_gdt[TssEntry] = TssSegment(Tables!DA_386TSS)
    BY <2>1, SMT DEF TssInv, GdtInv
  <2>3. (8 * TssEntry) \div 8 = TssEntry
    BY TableFacts, SMT
  <2> DEFINE i == tss.m_tss_seg \div 8
  <2>4. m_gdt' = [m_gdt EXCEPT ![i][4] = Tables!DA_386TSS + 2]
    BY SMT DEF Tables!TSS_active
  <2>5. i = TssEntry
    BY <2>2, <2>3, SMT
  <2> HIDE DEF i
  <2>6. m_gdt' = [m_gdt EXCEPT ![TssEntry][4] = Tables!DA_386TSS + 2]
    BY <2>4, <2>5, SMT
  <2>7. pc' = "running" /\ UNCHANGED <<m_idt, tss, ret, issued>> /\ tr' = tss.m_tss_seg
    BY SMT DEF Tables!TSS_active
  <2> QED BY <2>1, <2>2, <2>3, <2>6, <2>7, SMT
<1>1. /\ m_gdt' \in [0 .. MAX_GDT_NUM - 1 -> Tables!Descriptor]
      /\ m_gdt'[TssEntry] = TssSegment(Tables!DA_386TSS + 2)
      /\ \A j \in 0 .. MAX_GDT_NUM - 1 : j # TssEntry => m_gdt'[j] = m_gdt[j]
  <2>1. m_gdt' = [m_gdt EXCEPT ![TssEntry] = TssSegment(Tables!DA_386TSS + 2)]
    <3> DEFINE d == [m_gdt[TssEntry] EXCEPT ![4] = Tables!DA_386TSS + 2]
    <3>1. m_gdt' = [m_gdt EXCEPT ![TssEntry] = d]
      BY <1>0, SMT
    <3>2. d = TssSegment(Tables!DA_386TSS + 2)
      BY <1>0, TssDescriptors, SMT
    <3> HIDE DEF d
    <3> QED BY <3>1, <3>2, SMT
  <2> QED BY <2>1, TssDescriptors, TableFacts, SMT DEF Tables!TypeOK
<1>2. Tables!TypeOK' /\ GdtInv' /\ IdtInv' /\ TssInv'
  BY <1>0, <1>1, TableFacts, SMT DEF Tables!TypeOK, GdtInv, IdtInv, TssInv
<1>3. IssuedInv'
  <2> DEFINE asked == Tables!Asked("tss", Tables!ThisTss, 103, Tables!DA_386TSS, 0)
  <2>1. issued' = {[sel |-> 8 * TssEntry, asked |-> asked]} /\ ret' = 8 * TssEntry
    BY <1>0, SMT DEF TssInv
  <2>2. Tables!Reads(asked, TssSegment(Tables!DA_386TSS + 2)) = asked.as
    BY TssDescriptors, SMT DEF Tables!Reads, Tables!Asked, Tables!DA_386TSS
  <2>3. m_gdt'[TssEntry] # Tables!Zero /\ TssEntry \in 1 .. MAX_GDT_NUM - 1 /\ ret' # 0
    BY <1>1, <2>1, TssDescriptors, TableFacts, SMT
  <2> HIDE DEF asked
  <2> QED BY <1>1, <2>1, <2>2, <2>3, SMT DEF IssuedInv
<1> QED BY <1>2, <1>3, SMT

\* A later add_* writes an entry that was free, so one no selector names; with
\* no entry left it writes none and returns the null selector.
LEMMA AddedStep ==
  ASSUME TablesInv, pc = "running", NEW i \in 0 .. MAX_GDT_NUM - 1,
         NEW d \in Tables!Descriptor, d # Tables!Zero,
         NEW asked, Tables!Reads(asked, d) = asked.as, Tables!Add(i, d, asked),
         UNCHANGED <<pc, m_idt, tss, tr>>
  PROVE  TablesInv'
<1> USE DEF TablesInv
<1>0. /\ ret' = i * 8 /\ ret' \in Int /\ Tables!find_free_gdt_entry(i)
      /\ IF i = 0 THEN UNCHANGED <<m_gdt, issued>>
         ELSE /\ m_gdt' = [m_gdt EXCEPT ![i] = d]
              /\ issued' = issued \cup {[sel |-> i * 8, asked |-> asked]}
  BY TableFacts, SMT DEF Tables!Add
<1>1. CASE i = 0
  <2>1. \A j \in 1 .. MAX_GDT_NUM - 1 : m_gdt[j] # Tables!Zero
    BY <1>0, <1>1, SMT DEF Tables!find_free_gdt_entry, Tables!IsFree
  <2>2. Tables!TypeOK' /\ GdtInv' /\ IdtInv' /\ TssInv'
    BY <1>0, <1>1, SMT DEF Tables!TypeOK, GdtInv, IdtInv, TssInv
  <2>3. IssuedInv'
    BY <1>0, <1>1, <2>1, SMT DEF IssuedInv
  <2> QED BY <2>2, <2>3, SMT
<1>2. CASE i # 0
  <2>1. i \in 1 .. MAX_GDT_NUM - 1 /\ m_gdt[i] = Tables!Zero
    BY <1>0, <1>2, SMT DEF Tables!find_free_gdt_entry, Tables!IsFree
  <2>2. i \notin 1 .. 6 /\ i # TssEntry
    <3>1. /\ \A j \in 1 .. 6 : m_gdt[j] = Tables!Fixed[j]
          /\ m_gdt[TssEntry] = TssSegment(Tables!DA_386TSS + 2)
      BY SMT DEF GdtInv
    <3>2. i \notin 1 .. 6
      BY <2>1, <3>1, FixedDescriptors
    <3>3. i # TssEntry
      BY <2>1, <3>1, TssDescriptors
    <3> QED BY <3>2, <3>3
  <2>3. /\ m_gdt' = [m_gdt EXCEPT ![i] = d] /\ m_gdt' \in [0 .. MAX_GDT_NUM - 1 -> Tables!Descriptor]
        /\ m_gdt'[i] = d /\ \A j \in 0 .. MAX_GDT_NUM - 1 : j # i => m_gdt'[j] = m_gdt[j]
    <3>1. m_gdt' = [m_gdt EXCEPT ![i] = d]
      BY <1>0, <1>2
    <3>2. m_gdt \in [0 .. MAX_GDT_NUM - 1 -> Tables!Descriptor]
      BY DEF Tables!TypeOK
    <3> QED BY <3>1, <3>2
  <2>4. Tables!TypeOK' /\ IdtInv' /\ TssInv'
    BY <1>0, <2>3, SMT DEF Tables!TypeOK, IdtInv, TssInv
  <2>5. GdtInv'
    BY <2>2, <2>3, TableFacts, SMT DEF GdtInv
  <2>6. IssuedInv'
    <3> DEFINE new == [sel |-> i * 8, asked |-> asked]
    <3>0. issued' = issued \cup {new} /\ new.sel = 8 * i /\ new.asked = asked
      BY <1>0, <1>2, <2>1, SMT
    <3> HIDE DEF new
    <3>1. ASSUME NEW e \in issued'
          PROVE  \E j \in 1 .. MAX_GDT_NUM - 1 :
                   e.sel = 8 * j /\ m_gdt'[j] # Tables!Zero
                     /\ Tables!Reads(e.asked, m_gdt'[j]) = e.asked.as
      <4>1. CASE e = new
        BY <2>1, <2>3, <3>0, <4>1, SMT
      <4>2. CASE e \in issued
        <5>1. PICK j \in 1 .. MAX_GDT_NUM - 1 :
                e.sel = 8 * j /\ m_gdt[j] # Tables!Zero
                  /\ Tables!Reads(e.asked, m_gdt[j]) = e.asked.as
          BY <4>2, SMT DEF IssuedInv
        <5>2. m_gdt'[j] = m_gdt[j]
          BY <2>1, <2>3, <5>1, SMT
        <5> QED BY <5>1, <5>2, SMT
      <4> QED BY <3>0, <4>1, <4>2, SMT
    <3>2. \A e \in issued : e.sel # new.sel
      <4> TAKE e \in issued
      <4>1. PICK j \in 1 .. MAX_GDT_NUM - 1 : e.sel = 8 * j /\ m_gdt[j] # Tables!Zero
        BY SMT DEF IssuedInv
      <4>2. j # i
        BY <2>1, <4>1, SMT
      <4> QED BY <2>1, <3>0, <4>1, <4>2, SMT
    <3>3. \A e, f \in issued' : e.sel = f.sel => e = f
      BY <3>0, <3>2, SMT DEF IssuedInv
    <3>4. ret' # 0
      BY <1>0, <2>1, SMT
    <3> QED BY <3>1, <3>3, <3>4, SMT DEF IssuedInv
  <2> QED BY <2>4, <2>5, <2>6, SMT
<1> QED BY <1>1, <1>2, SMT

\* Each add_* asks for what its descriptor reads.
LEMMA CallStep ==
  ASSUME TablesInv, NEW i \in 0 .. MAX_GDT_NUM - 1, Tables!Call(i)
  PROVE  TablesInv'
<1>0. /\ pc = "running" /\ UNCHANGED <<pc, m_idt, tss, tr>>
      /\ \E base \in Bases :
           \/ \E limit \in Limits :
                \/ Tables!add_tss_entry(i, base, limit)
                \/ \E attribute \in Attributes :
                     \/ Tables!add_gdt_entry(i, base, limit, attribute)
                     \/ Tables!add_ldt_entry(i, base, limit, attribute)
           \/ \E argc \in Argcs : Tables!add_call_gate(i, base, argc)
  BY SMT DEF Tables!Call
<1>z. Tables!Zero[4] = 0
  BY FixedDescriptors
<1>1. PICK base \in Bases :
        \/ \E limit \in Limits :
             \/ Tables!add_tss_entry(i, base, limit)
             \/ \E attribute \in Attributes :
                  \/ Tables!add_gdt_entry(i, base, limit, attribute)
                  \/ Tables!add_ldt_entry(i, base, limit, attribute)
        \/ \E argc \in Argcs : Tables!add_call_gate(i, base, argc)
  BY <1>0, SMT
<1>2. base \in Tables!Half \X Tables!Half
  BY TableFacts, SMT
<1>3. ASSUME NEW limit \in Limits, Tables!add_tss_entry(i, base, limit)
      PROVE  TablesInv'
  <2> DEFINE d == Tables!Segment(base, limit, Tables!DA_386TSS)
             asked == Tables!Asked("tss", base, limit % 1048576, Tables!DA_386TSS, 0)
  <2>1. /\ limit \in Nat /\ Tables!DA_386TSS \in Nat /\ Tables!DA_386TSS % 256 = 137
        /\ (Tables!DA_386TSS \div 4096) % 16 = 0
    BY TableFacts, SMT DEF Tables!DA_386TSS
  <2>2. d \in Tables!Descriptor /\ d[4] = 137
    BY <1>2, <2>1, SegmentWritten, SMT
  <2>3. Tables!AsSegment(d) = SegmentOf(base, limit, Tables!DA_386TSS)
    BY <1>2, <2>1, SegmentRead, SMT
  <2>4. Tables!Add(i, d, asked)
    BY <1>3, SMT DEF Tables!add_tss_entry
  <2> HIDE DEF d
  <2>5. Tables!Reads(asked, d) = asked.as
    BY <2>1, <2>3, SMT DEF Tables!Reads, Tables!Asked, SegmentOf, Tables!DA_386TSS
  <2> HIDE DEF asked
  <2> QED BY <1>0, <1>z, <2>2, <2>4, <2>5, AddedStep, SMT
<1>4. ASSUME NEW limit \in Limits, NEW attribute \in Attributes, NEW table \in {"global", "local"},
             Tables!Add(i, Tables!Segment(base, limit, attribute),
                        Tables!Asked(table, base, limit % 1048576, attribute % 256,
                                     (attribute \div 4096) % 16))
      PROVE  TablesInv'
  <2> DEFINE d == Tables!Segment(base, limit, attribute)
             asked == Tables!Asked(table, base, limit % 1048576, attribute % 256,
                                   (attribute \div 4096) % 16)
  <2>1. limit \in Nat /\ attribute \in Nat /\ attribute % 256 # 0
    BY TableFacts, SMT
  <2>2. d \in Tables!Descriptor /\ d[4] = attribute % 256
    BY <1>2, <2>1, SegmentWritten, SMT
  <2>3. Tables!AsSegment(d) = SegmentOf(base, limit, attribute)
    BY <1>2, <2>1, SegmentRead, SMT
  <2>4. Tables!Add(i, d, asked)
    BY <1>4, SMT
  <2>5. asked.table # "gate" /\ asked.table # "tss" /\ asked.as = Tables!AsSegment(d)
    BY <2>3, SMT DEF Tables!Asked, SegmentOf
  <2> HIDE DEF d, asked
  <2>6. Tables!Reads(asked, d) = asked.as
    BY <2>5, SMT DEF Tables!Reads
  <2> QED BY <1>0, <1>z, <2>1, <2>2, <2>4, <2>6, AddedStep, SMT
<1>5. ASSUME NEW argc \in Argcs, Tables!add_call_gate(i, base, argc)
      PROVE  TablesInv'
  <2> DEFINE type == Tables!DA_386CGate + Tables!DA_DPL3
             d == Tables!Gate(base, argc, type)
             asked == [table |-> "gate",
                       as |-> [offset |-> base, selector |-> Tables!SEL_KERNEL_CODE,
                               count |-> argc % 256, access |-> type]]
  <2>1. argc \in Nat /\ type \in Tables!Byte /\ type # 0
    BY TableFacts, ByteFacts, SMT DEF Tables!DA_386CGate, Tables!DA_DPL3
  <2>2. Tables!Add(i, d, asked)
    BY <1>5, SMT DEF Tables!add_call_gate
  <2> HIDE DEF type
  <2>3. d \in Tables!Descriptor /\ d[4] = type
    BY <1>2, <2>1, GateRead, SMT
  <2>4. Tables!AsGate(d) = [offset |-> base, selector |-> Tables!SEL_KERNEL_CODE,
                            count |-> argc % 256, access |-> type]
    BY <1>2, <2>1, GateRead, SMT
  <2>5. asked.table = "gate" /\ asked.as = Tables!AsGate(d)
    BY <2>4, SMT
  <2> HIDE DEF d, asked
  <2>6. Tables!Reads(asked, d) = asked.as
    BY <2>5, SMT DEF Tables!Reads
  <2> QED BY <1>0, <1>z, <2>1, <2>2, <2>3, <2>6, AddedStep, SMT
<1>6. ASSUME NEW limit \in Limits, NEW attribute \in Attributes,
             Tables!add_gdt_entry(i, base, limit, attribute)
               \/ Tables!add_ldt_entry(i, base, limit, attribute)
      PROVE  TablesInv'
  BY <1>4, <1>6, SMT DEF Tables!add_gdt_entry, Tables!add_ldt_entry
<1> QED BY <1>1, <1>3, <1>5, <1>6, SMT

\* Every call on the tables keeps their invariant.
LEMMA TablesStep ==
  ASSUME TablesInv, Tables!Next
  PROVE  TablesInv'
BY GdtInitStep, IdtInitStep, TssInitStep, TssActiveStep, CallStep, SMT DEF Tables!Next

\* What the invariant says of the selectors, the task register and the gates.
LEMMA TablesUsable ==
  ASSUME TablesInv
  PROVE  Tables!IssuedKept /\ Tables!TaskRegisterUsable /\ Tables!VectorsHandled
<1> USE DEF TablesInv
<1>1. Tables!IssuedKept
  <2>1. ASSUME NEW e \in issued
        PROVE  Tables!Reads(e.asked, m_gdt[e.sel \div 8]) = e.asked.as
    <3>1. PICK j \in 1 .. MAX_GDT_NUM - 1 :
            e.sel = 8 * j /\ Tables!Reads(e.asked, m_gdt[j]) = e.asked.as
      BY SMT DEF IssuedInv
    <3>2. e.sel \div 8 = j
      BY <3>1, SMT
    <3> QED BY <3>1, <3>2, SMT
  <2> QED BY <2>1, SMT DEF Tables!IssuedKept, IssuedInv
<1>2. pc = "running" => tr \div 8 = TssEntry
  BY TableFacts, SMT DEF TssInv
<1>3. Tables!TaskRegisterUsable
  BY <1>2, TssDescriptors, TableFacts, SMT
     DEF Tables!TaskRegisterUsable, TssInv, GdtInv, TssEntry
<1>4. Tables!VectorsHandled
  <2> SUFFICES ASSUME pc \notin {"gdt_init", "idt_init"}, NEW v \in 0 .. MAX_IDT_NUM - 1
               PROVE  LET g == Tables!AsGate(m_idt[v]) IN
                      /\ Tables!Present(g.access) /\ Tables!DPL(g.access) = 0
                      /\ g.selector = Tables!SEL_KERNEL_CODE
                      /\ Tables!AsSegment(m_gdt[Tables!SEL_KERNEL_CODE \div 8]).access = Tables!DA_CR
                      /\ pc \notin {"tss_init", "trap_init"} /\ v < 20 =>
                           g.offset = Tables!trap_entry(v)
    BY SMT DEF Tables!VectorsHandled
  <2>1. Tables!SEL_KERNEL_CODE \div 8 = 1 /\ m_gdt[1] = Tables!Fixed[1]
    BY SMT DEF Tables!SEL_KERNEL_CODE, GdtInv
  <2>2. /\ Tables!Present(Tables!IDT_INTR_GATE) /\ Tables!Present(Tables!IDT_TRAP_GATE)
        /\ Tables!DPL(Tables!IDT_INTR_GATE) = 0 /\ Tables!DPL(Tables!IDT_TRAP_GATE) = 0
    BY SMT DEF Tables!Present, Tables!DPL, Tables!IDT_INTR_GATE, Tables!IDT_TRAP_GATE
  <2>3. v < 20 <=> v \in Tables!TrapEntries
    BY TableFacts, SMT DEF Tables!TrapEntries
  <2>4. \/ m_idt[v] = DefaultGate /\ (pc \in {"tss_init", "trap_init"} \/ v \notin Tables!TrapEntries)
        \/ m_idt[v] = TrapGate(v) /\ v \in Tables!TrapEntries
    BY SMT DEF IdtInv, Tables!TypeOK
  <2> QED BY <2>1, <2>2, <2>3, <2>4, GateDescriptors, FixedDescriptors, SMT
<1> QED BY <1>1, <1>3, <1>4, SMT

-----------------------------------------------------------------------------
(* Traps *)

\* A program between two instructions: on its own two words of the kernel
\* stack in ring 0, with an empty kernel stack in ring 3.
Program(r, s) ==
  /\ r \in [Register -> Int] /\ r["cs"] \in {SEL_KERNEL_CODE, SEL_USER_CODE}
  /\ r["cs"] = SEL_USER_CODE => s = <<>>
  /\ r["cs"] = SEL_KERNEL_CODE => s = <<1, 0>> /\ r["esp"] = 0 /\ r["ss"] = SEL_KERNEL_DATA

\* The two words above the frame: pushed by the processor, or the program's.
Above(r) ==
  IF r["cs"] = SEL_USER_CODE THEN <<r["esp"], r["ss"]>> ELSE <<1, 0>>

\* The stack s when the processor has delivered trap v, and when dispatch is
\* called: the stubs without an error code push one, so its size is one for
\* all traps.
Delivered(s, r, v, err) ==
  LET n == IF v \in PushesErrorCode THEN 1 ELSE 0 IN
  /\ s \in Seq(Int) /\ Len(s) = n + 5
  /\ v \in PushesErrorCode => s[1] = err
  /\ s[n + 1] = r["eip"] /\ s[n + 2] = r["cs"] /\ s[n + 3] = r["eflags"]
  /\ s[n + 4] = Above(r)[1] /\ s[n + 5] = Above(r)[2]
Saved(s, r, v, err) ==
  /\ s \in Seq(Int) /\ Len(s) = 20 /\ s[1] = 19
  /\ s[2] = r["gs"] /\ s[3] = r["fs"] /\ s[4] = r["es"] /\ s[5] = r["ds"]
  /\ s[6] = r["edi"] /\ s[7] = r["esi"] /\ s[8] = r["ebp"] /\ s[10] = r["ebx"]
  /\ s[11] = r["edx"] /\ s[12] = r["ecx"] /\ s[13] = r["eax"]
  /\ s[14] = v /\ s[15] = err
  /\ s[16] = r["eip"] /\ s[17] = r["cs"] /\ s[18] = r["eflags"]
  /\ s[19] = Above(r)[1] /\ s[20] = Above(r)[2]

Called == {"dispatch", "hlt", "handler", "dbg", "leave"}
TrapInv ==
  /\ at \in {"run", "entry"} \cup Called
  /\ regs \in [Register -> Int]
  /\ at = "run" => Program(regs, stack)
  /\ at # "run" =>
       /\ Program(before.regs, before.stack)
       /\ vector \in Exceptions \cup {13}
       /\ before.context.err_code \in Int
       /\ before.context = [irq_no |-> vector, err_code |-> before.context.err_code,
                            eip |-> before.regs["eip"], cs |-> before.regs["cs"]]
       /\ vector \notin PushesErrorCode => before.context.err_code = -1
       /\ regs["esp"] = 0 /\ regs["ss"] = SEL_KERNEL_DATA
  /\ at = "entry" =>
       /\ Delivered(stack, before.regs, vector, before.context.err_code)
       /\ \A r \in Register \ {"cs", "ss", "esp", "eip"} : regs[r] = before.regs[r]
  /\ at \in Called => Saved(stack, before.regs, vector, before.context.err_code)
  /\ at \in Called \ {"dispatch"} => seen = before.context
  /\ at = "hlt" => resume \in {"handler", "dbg"}

OsInv ==
  /\ part \in {"traps", "tables", "screen"}
  /\ part = "traps" => TrapInv
  /\ part = "tables" => TablesInv
  /\ part = "screen" => Video!TypeOK /\ Video!LinesTerminated
  /\ part # "traps" => at = "idle"

\* The registers, and the selectors the stubs load.
LEMMA RegisterFacts ==
  /\ {"eax", "ecx", "edx", "ebx", "ebp", "esi", "edi", "ds", "es", "fs", "gs", "eip", "cs",
      "eflags", "esp", "ss"} = Register
  /\ SEL_KERNEL_CODE = 8 /\ SEL_KERNEL_DATA = 16 /\ SEL_USER_CODE = 27
BY DEF Register, General, Segment, SEL_KERNEL_CODE, SEL_KERNEL_DATA, SEL_USER_CODE

\* What lies above the frame of a trap is two words.
LEMMA AboveFacts ==
  ASSUME NEW r, NEW s, Program(r, s)
  PROVE  Above(r) = <<Above(r)[1], Above(r)[2]>> /\ Above(r)[1] \in Int /\ Above(r)[2] \in Int
BY RegisterFacts DEF Program, Above

\* The words of a stack made of two parts, and of three.
LEMMA TwoParts ==
  ASSUME NEW s \in Seq(Int), NEW t \in Seq(Int)
  PROVE  /\ s \o t \in Seq(Int) /\ Len(s \o t) = Len(s) + Len(t)
         /\ \A i \in 1 .. Len(s) : (s \o t)[i] = s[i]
         /\ \A i \in 1 .. Len(t) : (s \o t)[Len(s) + i] = t[i]
<1> DEFINE q == s \o t
<1>1. /\ q \in Seq(Int) /\ Len(q) = Len(s) + Len(t)
      /\ \A i \in 1 .. Len(s) : q[i] = s[i]
      /\ \A i \in Len(s) + 1 .. Len(s) + Len(t) : q[i] = t[i - Len(s)]
  BY ConcatProperties
<1>2. Len(s) \in Nat /\ Len(t) \in Nat
  BY LenProperties
<1> HIDE DEF q
<1>3. ASSUME NEW i \in 1 .. Len(t)
      PROVE  q[Len(s) + i] = t[i]
  <2> DEFINE k == Len(s) + i
  <2>1. k \in Len(s) + 1 .. Len(s) + Len(t) /\ k - Len(s) = i
    BY <1>2
  <2> HIDE DEF k
  <2>2. q[k] = t[k - Len(s)]
    BY <1>1, <2>1
  <2> QED BY <2>1, <2>2 DEF k
<1> QED BY <1>1, <1>3 DEF q

\* A stack of three parts, word by word.
Consists(q, s, t, u) ==
  /\ q \in Seq(Int) /\ Len(q) = Len(s) + Len(t) + Len(u)
  /\ \A i \in 1 .. Len(s) : q[i] = s[i]
  /\ \A i \in 1 .. Len(t) : q[Len(s) + i] = t[i]
  /\ \A i \in 1 .. Len(u) : q[Len(s) + Len(t) + i] = u[i]

LEMMA ThreeParts ==
  ASSUME NEW s \in Seq(Int), NEW t \in Seq(Int), NEW u \in Seq(Int)
  PROVE  Consists(s \o t \o u, s, t, u)
<1> DEFINE p == s \o t
           q == p \o u
<1>1. /\ p \in Seq(Int) /\ Len(p) = Len(s) + Len(t)
      /\ \A i \in 1 .. Len(s) : p[i] = s[i]
      /\ \A i \in 1 .. Len(t) : p[Len(s) + i] = t[i]
  BY TwoParts
<1> HIDE DEF p
<1>3. /\ q \in Seq(Int) /\ Len(q) = Len(p) + Len(u)
      /\ \A i \in 1 .. Len(p) : q[i] = p[i]
      /\ \A i \in 1 .. Len(u) : q[Len(p) + i] = u[i]
  BY <1>1, TwoParts
<1>4. Len(s) \in Nat /\ Len(t) \in Nat /\ Len(u) \in Nat
  BY LenProperties
<1> HIDE DEF q
<1>5. ASSUME NEW i \in 1 .. Len(t)
      PROVE  q[Len(s) + i] = t[i]
  <2> DEFINE k == Len(s) + i
  <2>1. k \in 1 .. Len(p)
    BY <1>1, <1>4
  <2>2. p[k] = t[i]
    BY <1>1
  <2> HIDE DEF k
  <2>3. q[k] = t[i]
    BY <1>3, <2>1, <2>2
  <2> QED BY <2>3 DEF k
<1>6. \A i \in 1 .. Len(s) : i \in 1 .. Len(p)
  BY <1>1, <1>4
<1>7. /\ q \in Seq(Int) /\ Len(q) = Len(s) + Len(t) + Len(u)
      /\ \A i \in 1 .. Len(s) : q[i] = s[i]
      /\ \A i \in 1 .. Len(u) : q[Len(s) + Len(t) + i] = u[i]
  BY <1>1, <1>3, <1>6
<1>8. Consists(q, s, t, u)
  BY <1>5, <1>7 DEF Consists
<1> QED BY <1>8 DEF p, q

\* The invariant of the traps holds when the kernel enters its first program.
LEMMA TrapsBegin ==
  ASSUME Init
  PROVE  TrapInv
<1>1. PICK f \in [{"eax", "ebx", "edi"} -> {0, 1}] :
        regs = [r \in Register |->
                 CASE r \in DOMAIN f -> f[r]
                   [] r \in Segment \cup {"ss"} -> SEL_KERNEL_DATA
                   [] r = "cs" -> SEL_KERNEL_CODE
                   [] r = "eip" -> 1
                   [] OTHER -> 0]
  BY DEF Init
<1>2. /\ regs \in [Register -> Int] /\ regs["cs"] = SEL_KERNEL_CODE /\ regs["esp"] = 0
      /\ regs["ss"] = SEL_KERNEL_DATA
  BY <1>1, RegisterFacts DEF Segment
<1> QED BY <1>2, RegisterFacts DEF Init, TrapInv, Program, Called

\* The processor's part: the words depend on the vector and on the ring.
LEMMA DeliverStep ==
  ASSUME TrapInv, NEW v \in Exceptions \cup {13}, NEW err \in Nat, Deliver(v, err)
  PROVE  TrapInv'
<1> DEFINE e == IF v \in PushesErrorCode THEN err ELSE -1
<1>0. /\ at = "run" /\ at' = "entry" /\ vector' = v /\ Program(regs, stack)
      /\ before' = [regs |-> regs, stack |-> stack,
                    context |-> [irq_no |-> v, eip |-> regs["eip"], cs |-> regs["cs"],
                                 err_code |-> e]]
      /\ regs' = [regs EXCEPT !["cs"] = SEL_KERNEL_CODE, !["ss"] = SEL_KERNEL_DATA,
                              !["esp"] = 0, !["eip"] = 0]
      /\ regs \in [Register -> Int]
  BY DEF Deliver, TrapInv
<1>1. e \in Int /\ (v \notin PushesErrorCode => e = -1)
  OBVIOUS
<1>2. Delivered(stack', regs, v, e)
  <2> DEFINE base == IF Ring3 THEN <<regs["esp"], regs["ss"]>> ELSE stack
             top == IF v \in PushesErrorCode THEN <<err>> ELSE <<>>
  <2>1. stack' = top \o <<regs["eip"], regs["cs"], regs["eflags"]>> \o base
    BY DEF Deliver
  <2>2. base = <<Above(regs)[1], Above(regs)[2]>>
    BY <1>0, RegisterFacts DEF Program, Above, Ring3
  <2> DEFINE words == <<regs["eip"], regs["cs"], regs["eflags"]>>
  <2>3. /\ regs["eip"] \in Int /\ regs["cs"] \in Int /\ regs["eflags"] \in Int
        /\ Above(regs)[1] \in Int /\ Above(regs)[2] \in Int
    BY <1>0, RegisterFacts, AboveFacts
  <2> DEFINE b1 == Above(regs)[1]
             b2 == Above(regs)[2]
  <2>a. base = <<b1, b2>> /\ b1 \in Int /\ b2 \in Int
    BY <2>2, <2>3
  <2> HIDE DEF b1, b2, base
  <2>b. base \in Seq(Int) /\ Len(base) = 2 /\ base[1] = b1 /\ base[2] = b2
    BY ONLY <2>a
  <2>4. /\ base \in Seq(Int) /\ Len(base) = 2 /\ base[1] = Above(regs)[1]
        /\ base[2] = Above(regs)[2]
    BY <2>b DEF b1, b2
  <2>5. /\ words \in Seq(Int) /\ Len(words) = 3 /\ words[1] = regs["eip"]
        /\ words[2] = regs["cs"] /\ words[3] = regs["eflags"]
    BY <2>3
  <2>6. /\ top \in Seq(Int) /\ Len(top) = IF v \in PushesErrorCode THEN 1 ELSE 0
        /\ v \in PushesErrorCode => top[1] = e
    OBVIOUS
  <2> HIDE DEF words, top
  <2>7. stack' = top \o words \o base
    BY <2>1 DEF words, top, base
  <2> HIDE DEF e
  <2> DEFINE n == IF v \in PushesErrorCode THEN 1 ELSE 0
             q == top \o words \o base
  <2>8. /\ q \in Seq(Int) /\ Len(q) = Len(top) + Len(words) + Len(base)
        /\ \A i \in 1 .. Len(top) : q[i] = top[i]
        /\ \A i \in 1 .. Len(words) : q[Len(top) + i] = words[i]
        /\ \A i \in 1 .. Len(base) : q[Len(top) + Len(words) + i] = base[i]
    <3>1. top \in Seq(Int) /\ words \in Seq(Int) /\ base \in Seq(Int)
      BY <2>4, <2>5, <2>6
    <3>2. Consists(q, top, words, base)
      BY <3>1, ThreeParts
    <3> QED BY ONLY <3>2 DEF Consists
  <2>9. Len(top) = n /\ n \in Nat /\ (v \in PushesErrorCode => n = 1)
    BY <2>6
  <2>c. stack' = q
    BY <2>7
  <2> HIDE DEF n, q
  <2>10. /\ q \in Seq(Int) /\ Len(q) = n + 5
         /\ v \in PushesErrorCode => q[1] = e
    <3>1. q \in Seq(Int) /\ Len(q) = n + 5
      BY ONLY <2>4, <2>5, <2>8, <2>9
    <3>2. ASSUME v \in PushesErrorCode PROVE q[1] = top[1]
      BY ONLY <2>8, <2>9, <3>2
    <3> QED BY <2>6, <3>1, <3>2
  <2>11. q[n + 1] = regs["eip"] /\ q[n + 2] = regs["cs"] /\ q[n + 3] = regs["eflags"]
    <3>1. /\ q[Len(top) + 1] = words[1] /\ q[Len(top) + 2] = words[2]
          /\ q[Len(top) + 3] = words[3]
      <4>1. 1 \in 1 .. Len(words) /\ 2 \in 1 .. Len(words) /\ 3 \in 1 .. Len(words)
        BY <2>5
      <4>2. \A i \in 1 .. Len(words) : q[Len(top) + i] = words[i]
        BY <2>8
      <4> HIDE DEF words
      <4> QED BY ONLY <4>1, <4>2
    <3> QED BY <2>5, <2>9, <3>1
  <2>12. q[n + 3 + 1] = base[1] /\ q[n + 3 + 2] = base[2]
    <3>1. /\ 1 \in 1 .. Len(base) /\ 2 \in 1 .. Len(base)
          /\ Len(top) + Len(words) + 1 = n + 3 + 1 /\ Len(top) + Len(words) + 2 = n + 3 + 2
      BY ONLY <2>4, <2>5, <2>9
    <3>2. /\ q[Len(top) + Len(words) + 1] = base[1]
          /\ q[Len(top) + Len(words) + 2] = base[2]
      BY ONLY <2>8, <3>1, Zenon
    <3> QED BY ONLY <3>1, <3>2, Zenon
  <2>13. n + 3 + 1 = n + 4 /\ n + 3 + 2 = n + 5
    BY <2>9
  <2> QED BY <2>4, <2>9, <2>10, <2>11, <2>12, <2>13, <2>c DEF Delivered, n
<1> HIDE DEF e
<1>3. /\ before'.regs = regs /\ before'.stack = stack /\ before'.context.err_code = e
      /\ before'.context = [irq_no |-> v, err_code |-> e, eip |-> regs["eip"], cs |-> regs["cs"]]
  BY <1>0
<1>4. /\ regs' \in [Register -> Int] /\ regs'["esp"] = 0 /\ regs'["ss"] = SEL_KERNEL_DATA
      /\ \A r \in Register \ {"cs", "ss", "esp", "eip"} : regs'[r] = regs[r]
  BY <1>0, RegisterFacts
<1> QED BY <1>0, <1>1, <1>2, <1>3, <1>4 DEF TrapInv, Called

\* The stub's first half.
LEMMA EntryStep ==
  ASSUME TrapInv, Entry
  PROVE  TrapInv'
<1> DEFINE r == before.regs
           err == before.context.err_code
<1>0. /\ at = "entry" /\ at' = "dispatch" /\ UNCHANGED <<resume, vector, seen, before>>
      /\ stack' = <<Len(Frame(vector))>> \o Frame(vector)
      /\ regs' = [SetAll(regs, Segment, regs["ss"]) EXCEPT !["eax"] = regs["ss"]]
  BY DEF Entry
<1>1. /\ Program(r, before.stack) /\ vector \in Exceptions \cup {13} /\ err \in Int
      /\ vector \notin PushesErrorCode => err = -1
      /\ Delivered(stack, r, vector, err) /\ regs["ss"] = SEL_KERNEL_DATA
      /\ \A n \in Register \ {"cs", "ss", "esp", "eip"} : regs[n] = r[n]
      /\ regs \in [Register -> Int] /\ regs["esp"] = 0
  BY <1>0 DEF TrapInv
<1>2. vector \in WithErrorCode <=> vector \in PushesErrorCode
  BY <1>1, TrapAssumption DEF WithErrorCode, PushesErrorCode
<1>3. Saved(stack', r, vector, err)
  <2> DEFINE push == IF vector \in WithErrorCode THEN <<>> ELSE <<-1>>
             tmp == Len(stack) + Len(push) + 1
             words == <<regs["gs"], regs["fs"], regs["es"], regs["ds"],
                        regs["edi"], regs["esi"], regs["ebp"], tmp,
                        regs["ebx"], regs["edx"], regs["ecx"], regs["eax"], vector>>
             frame == Frame(vector)
  <2>1. frame = words \o push \o stack
    BY DEF Frame
  <2>2. /\ stack \in Seq(Int) /\ Len(stack) = IF vector \in PushesErrorCode THEN 6 ELSE 5
        /\ push \in Seq(Int) /\ Len(push) = IF vector \in PushesErrorCode THEN 0 ELSE 1
        /\ vector \notin PushesErrorCode => push[1] = err
    BY SMTT(20), <1>1, <1>2 DEF Delivered
  <2>3. tmp \in Int /\ vector \in Int /\ \A n \in Register : regs[n] \in Int
    BY <1>1, <2>2, TrapAssumption
  <2> HIDE DEF push, tmp, frame
  <2>4. /\ words \in Seq(Int) /\ Len(words) = 13
        /\ words[1] = r["gs"] /\ words[2] = r["fs"] /\ words[3] = r["es"] /\ words[4] = r["ds"]
        /\ words[5] = r["edi"] /\ words[6] = r["esi"] /\ words[7] = r["ebp"]
        /\ words[9] = r["ebx"] /\ words[10] = r["edx"] /\ words[11] = r["ecx"]
        /\ words[12] = r["eax"] /\ words[13] = vector
    BY <1>1, <2>3, RegisterFacts
  <2> HIDE DEF words
  <2>5. /\ frame \in Seq(Int) /\ Len(frame) = 19
        /\ \A i \in 1 .. 13 : frame[i] = words[i]
        /\ \A i \in 1 .. Len(push) : frame[13 + i] = push[i]
        /\ \A i \in 1 .. Len(stack) : frame[13 + Len(push) + i] = stack[i]
    <3> DEFINE q == words \o push \o stack
    <3>1. /\ q \in Seq(Int) /\ Len(q) = Len(words) + Len(push) + Len(stack)
          /\ \A i \in 1 .. Len(words) : q[i] = words[i]
          /\ \A i \in 1 .. Len(push) : q[Len(words) + i] = push[i]
          /\ \A i \in 1 .. Len(stack) : q[Len(words) + Len(push) + i] = stack[i]
      <4>1. words \in Seq(Int) /\ push \in Seq(Int) /\ stack \in Seq(Int)
        BY <2>2, <2>4
      <4> HIDE DEF words
      <4>2. Consists(q, words, push, stack)
        BY <4>1, ThreeParts
      <4> QED BY ONLY <4>2 DEF Consists
    <3>2. frame = q
      BY <2>1
    <3> HIDE DEF q
    <3> QED BY <2>2, <2>4, <3>1, <3>2
  <2>6. /\ frame[1] = r["gs"] /\ frame[2] = r["fs"] /\ frame[3] = r["es"] /\ frame[4] = r["ds"]
        /\ frame[5] = r["edi"] /\ frame[6] = r["esi"] /\ frame[7] = r["ebp"]
        /\ frame[9] = r["ebx"] /\ frame[10] = r["edx"] /\ frame[11] = r["ecx"]
        /\ frame[12] = r["eax"] /\ frame[13] = vector
    BY <2>4, <2>5
  <2>7. /\ frame[14] = err /\ frame[15] = r["eip"] /\ frame[16] = r["cs"]
        /\ frame[17] = r["eflags"] /\ frame[18] = Above(r)[1] /\ frame[19] = Above(r)[2]
    <3>1. CASE vector \in PushesErrorCode
      <4>1. Len(push) = 0 /\ Len(stack) = 6
        BY <2>2, <3>1
      <4>2. /\ frame[13 + 0 + 1] = stack[1] /\ frame[13 + 0 + 2] = stack[2]
            /\ frame[13 + 0 + 3] = stack[3] /\ frame[13 + 0 + 4] = stack[4]
            /\ frame[13 + 0 + 5] = stack[5] /\ frame[13 + 0 + 6] = stack[6]
        BY ONLY <2>5, <4>1
      <4>3. /\ stack[1] = err /\ stack[2] = r["eip"] /\ stack[3] = r["cs"]
            /\ stack[4] = r["eflags"] /\ stack[5] = Above(r)[1] /\ stack[6] = Above(r)[2]
        BY <1>1, <3>1 DEF Delivered
      <4> QED BY <4>2, <4>3
    <3>2. CASE vector \notin PushesErrorCode
      <4>1. Len(push) = 1 /\ Len(stack) = 5 /\ push[1] = err
        BY <2>2, <3>2
      <4>2. /\ frame[13 + 1] = push[1] /\ frame[13 + 1 + 1] = stack[1]
            /\ frame[13 + 1 + 2] = stack[2] /\ frame[13 + 1 + 3] = stack[3]
            /\ frame[13 + 1 + 4] = stack[4] /\ frame[13 + 1 + 5] = stack[5]
        BY ONLY <2>5, <4>1
      <4>3. /\ stack[1] = r["eip"] /\ stack[2] = r["cs"] /\ stack[3] = r["eflags"]
            /\ stack[4] = Above(r)[1] /\ stack[5] = Above(r)[2]
        BY <1>1, <3>2 DEF Delivered
      <4> QED BY <4>1, <4>2, <4>3
    <3> QED BY <3>1, <3>2
  <2>8. stack' = <<19>> \o frame
    BY <1>0, <2>5 DEF frame
  <2>9. /\ stack' \in Seq(Int) /\ Len(stack') = 20 /\ stack'[1] = 19
        /\ \A i \in 1 .. 19 : stack'[i + 1] = frame[i]
    <3> DEFINE one == <<19>>
               q == one \o frame
    <3>1. one \in Seq(Int) /\ Len(one) = 1 /\ one[1] = 19
      OBVIOUS
    <3>2. stack' = q
      BY <2>8
    <3> HIDE DEF one
    <3>3. /\ q \in Seq(Int) /\ Len(q) = Len(one) + Len(frame)
          /\ \A i \in 1 .. Len(one) : q[i] = one[i]
          /\ \A i \in 1 .. Len(frame) : q[Len(one) + i] = frame[i]
      BY ONLY <2>5, <3>1, TwoParts
    <3> HIDE DEF q
    <3>4. q \in Seq(Int) /\ Len(q) = 20 /\ q[1] = 19
      BY ONLY <2>5, <3>1, <3>3
    <3>5. ASSUME NEW i \in 1 .. 19
          PROVE  q[i + 1] = frame[i]
      <4>1. i \in 1 .. Len(frame)
        BY <2>5
      <4>2. q[Len(one) + i] = frame[i]
        BY ONLY <3>3, <4>1
      <4>3. Len(one) + i = i + 1
        BY <3>1
      <4> QED BY <4>2, <4>3
    <3> QED BY <3>2, <3>4, <3>5
  <2>10. /\ stack'[1 + 1] = frame[1] /\ stack'[2 + 1] = frame[2] /\ stack'[3 + 1] = frame[3]
         /\ stack'[4 + 1] = frame[4] /\ stack'[5 + 1] = frame[5] /\ stack'[6 + 1] = frame[6]
         /\ stack'[7 + 1] = frame[7] /\ stack'[9 + 1] = frame[9] /\ stack'[10 + 1] = frame[10]
         /\ stack'[11 + 1] = frame[11] /\ stack'[12 + 1] = frame[12]
         /\ stack'[13 + 1] = frame[13] /\ stack'[14 + 1] = frame[14]
         /\ stack'[15 + 1] = frame[15] /\ stack'[16 + 1] = frame[16]
         /\ stack'[17 + 1] = frame[17] /\ stack'[18 + 1] = frame[18]
         /\ stack'[19 + 1] = frame[19]
    BY ONLY <2>9
  <2> QED BY <2>6, <2>7, <2>9, <2>10 DEF Saved
<1>4. regs' \in [Register -> Int] /\ regs'["esp"] = 0 /\ regs'["ss"] = SEL_KERNEL_DATA
  BY <1>0, <1>1, RegisterFacts DEF SetAll, Segment
<1> QED BY <1>0, <1>1, <1>3, <1>4 DEF TrapInv, Called

\* dispatch finds the trap in the context, and then overwrites registers.
LEMMA DispatchStep ==
  ASSUME TrapInv, dispatch
  PROVE  TrapInv'
<1> DEFINE r == before.regs
           err == before.context.err_code
<1>0. /\ at = "dispatch" /\ at' = "hlt" /\ resume' = "handler"
      /\ UNCHANGED <<vector, stack, todo, reports, before>>
      /\ seen' = [field \in DOMAIN Offset |-> context(field)]
      /\ regs' = [regs EXCEPT !["eax"] = context("eip"), !["ebx"] = context("cs"),
                              !["ecx"] = context("irq_no"), !["edx"] = context("err_code")]
  BY DEF dispatch
<1>1. /\ Saved(stack, r, vector, err) /\ regs \in [Register -> Int]
      /\ regs["esp"] = 0 /\ regs["ss"] = SEL_KERNEL_DATA
      /\ Program(r, before.stack) /\ vector \in Exceptions \cup {13} /\ err \in Int
      /\ before.context = [irq_no |-> vector, err_code |-> err, eip |-> r["eip"], cs |-> r["cs"]]
  BY <1>0 DEF TrapInv, Called
<1>2. Head(stack) = 19 /\ Len(stack) = 20
  BY <1>1 DEF Saved
<1>3. /\ context("irq_no") = stack[14] /\ context("err_code") = stack[15]
      /\ context("eip") = stack[16] /\ context("cs") = stack[17]
  BY <1>2 DEF context, Offset
<1>4. /\ stack[14] = vector /\ stack[15] = err /\ stack[16] = r["eip"] /\ stack[17] = r["cs"]
  BY <1>1 DEF Saved
<1>5. seen' = [irq_no |-> context("irq_no"), err_code |-> context("err_code"),
               eip |-> context("eip"), cs |-> context("cs")]
  BY <1>0 DEF Offset
<1>6. seen' = before'.context
  BY <1>0, <1>1, <1>3, <1>4, <1>5
<1>7. vector \in Int /\ r["eip"] \in Int /\ r["cs"] \in Int
  BY <1>1, TrapAssumption, RegisterFacts DEF Program
<1>8. regs' \in [Register -> Int] /\ regs'["esp"] = 0 /\ regs'["ss"] = SEL_KERNEL_DATA
  BY <1>0, <1>1, <1>3, <1>4, <1>7, RegisterFacts
<1> QED BY <1>0, <1>6, <1>8 DEF TrapInv, Called

\* The handlers print, and the host runs the halted guest again: neither
\* touches the stack, and DBG only the registers the stub restores.
LEMMA HandlerStep ==
  ASSUME TrapInv, Handler \/ DBG \/ HandlerReturns \/ HostRuns
  PROVE  TrapInv'
<1>1. CASE Handler
  BY <1>1 DEF TrapInv, Handler, Called
<1>2. CASE DBG
  <2>1. /\ at = "dbg" /\ at' = "hlt" /\ resume' = "dbg"
        /\ regs' = [regs EXCEPT !["eax"] = 1, !["ebx"] = 2]
        /\ UNCHANGED <<vector, stack, seen, before>>
    BY <1>2 DEF DBG
  <2>2. regs \in [Register -> Int] /\ regs["esp"] = 0 /\ regs["ss"] = SEL_KERNEL_DATA
    BY <2>1 DEF TrapInv
  <2>3. regs' \in [Register -> Int] /\ regs'["esp"] = 0 /\ regs'["ss"] = SEL_KERNEL_DATA
    BY <2>1, <2>2, RegisterFacts
  <2> QED BY <2>1, <2>3 DEF TrapInv, Called
<1>3. CASE HandlerReturns
  BY <1>3 DEF TrapInv, HandlerReturns, Called
<1>4. CASE HostRuns
  BY <1>4 DEF TrapInv, HostRuns, Called
<1> QED BY <1>1, <1>2, <1>3, <1>4

\* The program's own steps.
LEMMA ProgramSteps ==
  ASSUME TrapInv,
         (\E r, s \in {"eax", "ebx", "edi"}, carry \in {0, 1} : Compute(r, s, carry))
           \/ return_to_user_mode
  PROVE  TrapInv'
<1>1. ASSUME NEW r \in {"eax", "ebx", "edi"}, NEW s \in {"eax", "ebx", "edi"},
             NEW carry \in {0, 1}, Compute(r, s, carry)
      PROVE  TrapInv'
  <2>1. /\ at = "run" /\ at' = "run" /\ UNCHANGED <<vector, stack, seen, before>>
        /\ regs' = [regs EXCEPT ![r] = regs[s], !["eflags"] = carry, !["eip"] = @ + 1]
        /\ regs \in [Register -> Int] /\ Program(regs, stack)
    BY <1>1 DEF Compute, TrapInv
  <2>2. /\ regs' \in [Register -> Int] /\ regs'["cs"] = regs["cs"]
        /\ regs'["esp"] = regs["esp"] /\ regs'["ss"] = regs["ss"]
    BY <2>1, RegisterFacts
  <2>3. Program(regs', stack')
    BY <2>1, <2>2 DEF Program
  <2> QED BY <2>1, <2>2, <2>3 DEF TrapInv, Called
<1>2. CASE return_to_user_mode
  <2>1. /\ at = "run" /\ at' = "run" /\ UNCHANGED <<vector, seen, before>>
        /\ stack' = <<>>
        /\ regs' = [SetAll(regs, Segment \cup {"ss"}, SEL_USER_DATA) EXCEPT
                      !["fs"] = SEL_USER_FS, !["eax"] = SEL_USER_FS,
                      !["esp"] = SHELLCODE_STACK_VIRTUAL_ADDR,
                      !["cs"] = SEL_USER_CODE, !["eip"] = 1]
        /\ regs \in [Register -> Int]
    BY <1>2 DEF return_to_user_mode, TrapInv
  <2> DEFINE f == SetAll(regs, Segment \cup {"ss"}, SEL_USER_DATA)
  <2>2. f \in [Register -> Int]
    BY <2>1 DEF SetAll, SEL_USER_DATA
  <2> HIDE DEF f
  <2>3. regs' = [f EXCEPT !["fs"] = 51, !["eax"] = 51, !["esp"] = 100, !["cs"] = 27,
                          !["eip"] = 1]
    BY <2>1 DEF f, SEL_USER_FS, SHELLCODE_STACK_VIRTUAL_ADDR, SEL_USER_CODE
  <2>4. regs' \in [Register -> Int] /\ regs'["cs"] = 27
    <3> DEFINE g == [f EXCEPT !["fs"] = 51, !["eax"] = 51, !["esp"] = 100]
    <3>1. g \in [Register -> Int]
      BY <2>2, RegisterFacts
    <3>2. regs' = [g EXCEPT !["cs"] = 27, !["eip"] = 1]
      BY <2>3
    <3> HIDE DEF g
    <3> QED BY <3>1, <3>2, RegisterFacts
  <2>5. Program(regs', stack')
    <3> DEFINE q == regs'
               t == stack'
    <3>1. q \in [Register -> Int] /\ q["cs"] = 27 /\ t = <<>>
      BY <2>1, <2>4
    <3> HIDE DEF q, t
    <3>2. Program(q, t)
      BY <3>1, RegisterFacts DEF Program
    <3> QED BY <3>2 DEF q, t
  <2> QED BY <2>1, <2>4, <2>5 DEF TrapInv, Called
<1> QED BY <1>1, <1>2

\* The stub's second half pops, over the registers as the handlers left them,
\* the words that the first half and the processor pushed.
LEMMA LeaveStep ==
  ASSUME TrapInv, Leave
  PROVE  /\ TrapInv'
         /\ regs' = before.regs
         /\ ~Ring3' => stack' = before.stack
<1> DEFINE r == before.regs
           err == before.context.err_code
           lastPop(n) == CHOOSE i \in 1 .. Taken :
                           Popped[i] = n /\ \A j \in i + 1 .. Taken : Popped[j] # n
           popped == {Popped[i] : i \in 1 .. Taken}
<1>0. /\ at = "leave" /\ at' = "run"
      /\ regs' = [n \in Register |-> IF n \in popped THEN stack[lastPop(n)] ELSE regs[n]]
      /\ stack' = SubSeq(stack, Taken + 1, Len(stack))
  BY DEF Leave
<1>1. /\ Program(r, before.stack) /\ Saved(stack, r, vector, err)
      /\ regs["esp"] = 0 /\ regs["ss"] = SEL_KERNEL_DATA
  BY <1>0 DEF TrapInv, Called
<1>2. Taken = IF r["cs"] = SEL_USER_CODE THEN 20 ELSE 18
  BY <1>1 DEF Taken, Saved
<1>3. \A n \in Register, i \in 1 .. Taken :
        (Popped[i] = n /\ \A j \in i + 1 .. Taken : Popped[j] # n) => lastPop(n) = i
  <2> SUFFICES ASSUME NEW n \in Register, NEW i \in 1 .. Taken,
                      Popped[i] = n, \A j \in i + 1 .. Taken : Popped[j] # n
               PROVE  lastPop(n) = i
    OBVIOUS
  <2>0. Taken \in Nat
    BY <1>2
  <2>1. \A k \in 1 .. Taken :
          (Popped[k] = n /\ \A j \in k + 1 .. Taken : Popped[j] # n) => k = i
    <3> SUFFICES ASSUME NEW k \in 1 .. Taken, Popped[k] = n,
                        \A j \in k + 1 .. Taken : Popped[j] # n
                 PROVE  k = i
      OBVIOUS
    <3>1. ~(k < i) /\ ~(i < k)
      BY <2>0
    <3> QED BY <2>0, <3>1
  <2> QED BY <2>1
<1>4. /\ Popped[1] = "eax" /\ Popped[2] = "gs" /\ Popped[3] = "fs" /\ Popped[4] = "es"
      /\ Popped[5] = "ds" /\ Popped[6] = "edi" /\ Popped[7] = "esi" /\ Popped[8] = "ebp"
      /\ Popped[10] = "ebx" /\ Popped[11] = "edx" /\ Popped[12] = "ecx" /\ Popped[13] = "eax"
      /\ Popped[16] = "eip" /\ Popped[17] = "cs" /\ Popped[18] = "eflags"
      /\ Popped[19] = "esp" /\ Popped[20] = "ss"
  BY DEF Popped
<1>5. Popped[9] \notin Register /\ Popped[14] \notin Register /\ Popped[15] \notin Register
  <2>1. Popped[9] = "" /\ Popped[14] = "" /\ Popped[15] = ""
    BY DEF Popped
  <2>2. "" \notin Register
    BY DEF Register, General, Segment
  <2> QED BY <2>1, <2>2, Zenon
<1> DEFINE place == [gs |-> 2, fs |-> 3, es |-> 4, ds |-> 5, edi |-> 6, esi |-> 7, ebp |-> 8,
                     ebx |-> 10, edx |-> 11, ecx |-> 12, eax |-> 13, eip |-> 16, cs |-> 17,
                     eflags |-> 18, esp |-> 19, ss |-> 20]
<1>c. /\ place["gs"] = 2 /\ place["fs"] = 3 /\ place["es"] = 4 /\ place["ds"] = 5
      /\ place["edi"] = 6 /\ place["esi"] = 7 /\ place["ebp"] = 8 /\ place["ebx"] = 10
      /\ place["edx"] = 11 /\ place["ecx"] = 12 /\ place["eax"] = 13 /\ place["eip"] = 16
      /\ place["cs"] = 17 /\ place["eflags"] = 18 /\ place["esp"] = 19 /\ place["ss"] = 20
  OBVIOUS
<1> HIDE DEF place, lastPop, popped
<1>d. \A j \in 2 .. 20 : Popped[j] \in Register => place[Popped[j]] = j
  BY ONLY <1>4, <1>5, <1>c
<1>b. ASSUME NEW n \in Register, NEW i \in Int, 2 <= i, i <= Taken, Popped[i] = n
      PROVE  regs'[n] = stack[i]
  <2>1. Taken \in Int /\ Taken <= 20
    BY <1>2
  <2>2. i \in 2 .. 20
    BY <1>b, <2>1
  <2>3. ASSUME NEW j \in i + 1 .. Taken, Popped[j] = n
        PROVE  FALSE
    <3>1. j \in 2 .. 20 /\ j # i
      BY <1>b, <2>1
    <3>2. place[n] = j /\ place[n] = i
      BY ONLY <1>b, <1>d, <2>2, <2>3, <3>1
    <3> QED BY <3>1, <3>2
  <2>4. i \in 1 .. Taken
    BY <1>b, <2>1
  <2>5. lastPop(n) = i
    BY <1>3, <1>b, <2>3, <2>4
  <2>6. n \in popped
    BY <1>b, <2>4 DEF popped
  <2> QED BY <1>0, <2>5, <2>6
<1>6. /\ regs'["gs"] = r["gs"] /\ regs'["fs"] = r["fs"] /\ regs'["es"] = r["es"]
      /\ regs'["ds"] = r["ds"] /\ regs'["edi"] = r["edi"] /\ regs'["esi"] = r["esi"]
      /\ regs'["ebp"] = r["ebp"] /\ regs'["ebx"] = r["ebx"] /\ regs'["edx"] = r["edx"]
      /\ regs'["ecx"] = r["ecx"] /\ regs'["eax"] = r["eax"] /\ regs'["eip"] = r["eip"]
      /\ regs'["cs"] = r["cs"] /\ regs'["eflags"] = r["eflags"]
  <2>0. 18 <= Taken /\ Taken \in Int
    BY <1>2
  <2>1. regs'["gs"] = stack[2]
    BY <1>4, <1>b, <2>0, RegisterFacts
  <2>2. regs'["fs"] = stack[3]
    BY <1>4, <1>b, <2>0, RegisterFacts
  <2>3. regs'["es"] = stack[4]
    BY <1>4, <1>b, <2>0, RegisterFacts
  <2>4. regs'["ds"] = stack[5]
    BY <1>4, <1>b, <2>0, RegisterFacts
  <2>5. regs'["edi"] = stack[6]
    BY <1>4, <1>b, <2>0, RegisterFacts
  <2>6. regs'["esi"] = stack[7]
    BY <1>4, <1>b, <2>0, RegisterFacts
  <2>7. regs'["ebp"] = stack[8]
    BY <1>4, <1>b, <2>0, RegisterFacts
  <2>8. regs'["ebx"] = stack[10]
    BY <1>4, <1>b, <2>0, RegisterFacts
  <2>9. regs'["edx"] = stack[11]
    BY <1>4, <1>b, <2>0, RegisterFacts
  <2>10. regs'["ecx"] = stack[12]
    BY <1>4, <1>b, <2>0, RegisterFacts
  <2>11. regs'["eax"] = stack[13]
    BY <1>4, <1>b, <2>0, RegisterFacts
  <2>12. regs'["eip"] = stack[16]
    BY <1>4, <1>b, <2>0, RegisterFacts
  <2>13. regs'["cs"] = stack[17]
    BY <1>4, <1>b, <2>0, RegisterFacts
  <2>14. regs'["eflags"] = stack[18]
    BY <1>4, <1>b, <2>0, RegisterFacts
  <2> QED BY <1>1, <2>1, <2>2, <2>3, <2>4, <2>5, <2>6, <2>7, <2>8, <2>9, <2>10, <2>11, <2>12, <2>13,
             <2>14 DEF Saved
<1>7. regs'["esp"] = r["esp"] /\ regs'["ss"] = r["ss"]
  <2>1. CASE r["cs"] = SEL_USER_CODE
    <3>1. regs'["esp"] = stack[19] /\ regs'["ss"] = stack[20]
      <4>1. Taken = 20
        BY <1>2, <2>1
      <4> QED BY <1>4, <1>b, <4>1, RegisterFacts
    <3>2. Above(r)[1] = r["esp"] /\ Above(r)[2] = r["ss"]
      BY <2>1 DEF Above
    <3> QED BY <1>1, <3>1, <3>2 DEF Saved
  <2>2. CASE r["cs"] # SEL_USER_CODE
    <3>0. Taken = 18
      BY <1>2, <2>2
    <3>1. "esp" \notin popped /\ "ss" \notin popped
      <4>1. ASSUME NEW i \in 1 .. Taken
            PROVE  Popped[i] # "esp" /\ Popped[i] # "ss"
        <5>1. i = 1 \/ i \in 2 .. 20
          BY <3>0
        <5>2. "esp" \in Register /\ "ss" \in Register
          BY RegisterFacts
        <5> QED BY ONLY <1>4, <1>c, <1>d, <3>0, <4>1, <5>1, <5>2
      <4> QED BY <4>1 DEF popped
    <3> QED BY <1>0, <1>1, <2>2, <3>1, RegisterFacts DEF Program
  <2> QED BY <2>1, <2>2
<1>8. regs' = r
  <2>1. \A n \in Register : regs'[n] = r[n]
    BY <1>6, <1>7, RegisterFacts
  <2>2. DOMAIN regs' = Register /\ r \in [Register -> Int]
    BY <1>0, <1>1 DEF Program
  <2>3. regs' = [n \in Register |-> regs'[n]]
    BY <1>0
  <2> QED BY <2>1, <2>2, <2>3
<1>9. stack' = before.stack
  <2>1. stack \in Seq(Int) /\ Len(stack) = 20
    BY <1>1 DEF Saved
  <2>2. CASE r["cs"] = SEL_USER_CODE
    <3>1. stack' = SubSeq(stack, 21, 20)
      BY <1>0, <1>2, <2>1, <2>2
    <3>2. stack' = <<>>
      BY <3>1, SubSeqEmpty
    <3> QED BY <1>1, <2>2, <3>2 DEF Program
  <2>3. CASE r["cs"] # SEL_USER_CODE
    <3>1. stack' = SubSeq(stack, 19, 20)
      BY <1>0, <1>2, <2>1, <2>3
    <3>2. stack[19] = 1 /\ stack[20] = 0 /\ before.stack = <<1, 0>>
      BY <1>1, <2>3 DEF Program, Saved, Above
    <3>3. stack' = <<stack[19], stack[20]>>
      <4> DEFINE q == SubSeq(stack, 19, 20)
      <4>1. \A i \in 19 .. 20 : stack[i] \in Int
        BY <2>1
      <4>2. /\ q \in Seq(Int) /\ Len(q) = 2
            /\ \A i \in 1 .. 20 - 19 + 1 : q[i] = stack[19 + i - 1]
        BY <4>1, SubSeqProperties
      <4> HIDE DEF q
      <4>3. q[1] = stack[19] /\ q[2] = stack[20]
        BY <4>2
      <4>4. q = <<q[1], q[2]>>
        BY <4>2
      <4> QED BY <3>1, <4>3, <4>4 DEF q
    <3> QED BY <3>2, <3>3
  <2> QED BY <2>2, <2>3
<1> QED BY <1>0, <1>1, <1>8, <1>9 DEF TrapInv, Called, Program

\* Every step of a trap keeps the invariant: the context names what was interrupted.
LEMMA TrapStep ==
  ASSUME TrapInv, Next
  PROVE  TrapInv'
<1>1. ASSUME NEW v \in Exceptions, NEW err \in ErrorCodes, Deliver(v, err)
      PROVE  TrapInv'
  BY <1>1, DeliverStep, TrapAssumption
<1>2. ASSUME NEW n \in {0, 3, 4}, Interrupt(n)
      PROVE  TrapInv'
  <2>1. Deliver(13, n * 8 + 2) /\ n * 8 + 2 \in Nat
    BY <1>2 DEF Interrupt
  <2> QED BY <2>1, DeliverStep
<1> QED BY <1>1, <1>2, ProgramSteps, EntryStep, DispatchStep, HandlerStep, LeaveStep
        DEF Next, Kernel

-----------------------------------------------------------------------------
(* The three parts together *)

\* The invariant of the whole holds at the start, whichever part is taken.
LEMMA OsBegins ==
  ASSUME OsInit
  PROVE  OsInv
<1>1. CASE part = "traps" /\ Init /\ NoTables /\ NoScreen
  BY <1>1, TrapsBegin DEF OsInv
<1>2. CASE part = "tables" /\ Tables!Init /\ NoTraps /\ NoScreen
  BY <1>2, TablesBegin DEF OsInv, NoTraps
<1>3. CASE part = "screen" /\ Video!Init /\ NoTraps /\ NoTables
  BY <1>3, ScreenBegins DEF OsInv, NoTraps
<1> QED BY <1>1, <1>2, <1>3 DEF OsInit

\* What each part's state consists of: a step that keeps it keeps its invariant.
LEMMA PartsRest ==
  /\ TrapInv /\ UNCHANGED vars => TrapInv'
  /\ TablesInv /\ UNCHANGED table_vars => TablesInv'
  /\ Video!TypeOK /\ Video!LinesTerminated /\ UNCHANGED screen_vars =>
       (Video!TypeOK /\ Video!LinesTerminated)'
<1>1. ASSUME TrapInv, UNCHANGED vars
      PROVE  TrapInv'
  BY <1>1 DEF TrapInv, vars
<1>2. ASSUME TablesInv, UNCHANGED table_vars
      PROVE  TablesInv'
  BY <1>2, SMT DEF TablesInv, GdtInv, IdtInv, TssInv, IssuedInv, Tables!TypeOK, table_vars
<1>3. ASSUME Video!TypeOK, Video!LinesTerminated, UNCHANGED screen_vars
      PROVE  (Video!TypeOK /\ Video!LinesTerminated)'
  BY <1>3 DEF Video!TypeOK, Video!LinesTerminated, screen_vars
<1> QED BY <1>1, <1>2, <1>3

\* Every step of a part keeps the invariant of the whole.
LEMMA OsStep ==
  ASSUME OsInv, [StepTrap \/ StepTables \/ StepScreen]_os_vars
  PROVE  OsInv'
<1>1. CASE StepTrap
  BY <1>1, TrapStep DEF OsInv, StepTrap
<1>2. CASE StepTables
  BY <1>2, TablesStep DEF OsInv, StepTables, vars
<1>3. CASE StepScreen
  BY <1>3, ScreenStep DEF OsInv, StepScreen, vars
<1>4. CASE UNCHANGED os_vars
  BY <1>4, PartsRest DEF OsInv, os_vars, vars
<1> QED BY <1>1, <1>2, <1>3, <1>4

\* The inductive invariant of the guest kernel's traps, tables and screen.
THEOREM OsInvariant == OsSpec => []OsInv
BY OsBegins, OsStep, PTL DEF OsSpec

\* A trap finds its way: whatever vector is raised, from either ring, dispatch
\* reads that trap in the context; and whatever GDT, IDT, TSS and TRAP calls
\* are made, selectors, task register and gates designate what was asked for
\* (TRAP::dispatch, the stubs, GDT::add_*_entry, IDT::add_*_entry, TSS::Init).
THEOREM TrapsArrive == OsSpec => []TrapsFindTheirWay
<1>1. OsInv => TrapsFindTheirWay
  <2>1. ASSUME TrapInv PROVE DispatchSeesTrap
    BY <2>1 DEF TrapInv, DispatchSeesTrap, Called
  <2>2. ASSUME TablesInv
        PROVE  Tables!TypeOK /\ Tables!IssuedKept /\ Tables!TaskRegisterUsable
                 /\ Tables!VectorsHandled
    BY <2>2, TablesUsable DEF TablesInv
  <2> QED BY <2>1, <2>2 DEF OsInv, TrapsFindTheirWay
<1> QED BY <1>1, OsInvariant, PTL

\* A trap leaves no trace: the stub of trap_entry_N gives the program back the
\* registers and the stack it had, whatever the processor pushed, dispatch
\* loaded and the handlers' DBG overwrote.
THEOREM TrapsAreInvisible == OsSpec => TrapIsInvisible
<1>1. ASSUME OsInv, [StepTrap \/ StepTables \/ StepScreen]_os_vars
      PROVE  [at = "leave" => regs' = before.regs /\ (~Ring3' => stack' = before.stack)]_vars
  <2>1. CASE StepTrap
    <3>1. ASSUME at = "leave" PROVE Leave
      BY <2>1, <3>1
         DEF StepTrap, Next, Kernel, Compute, return_to_user_mode, Deliver, Interrupt, Entry,
             dispatch, Handler, DBG, HandlerReturns, HostRuns
    <3> QED BY <1>1, <2>1, <3>1, LeaveStep DEF OsInv, StepTrap
  <2>2. CASE StepTables \/ StepScreen \/ UNCHANGED os_vars
    BY <2>2 DEF StepTables, StepScreen, os_vars
  <2> QED BY <1>1, <2>1, <2>2
<1> QED BY <1>1, OsInvariant, PTL DEF OsSpec, TrapIsInvisible

\* Printing changes no line but the cursor's, except by scrolling, and every
\* line keeps its terminator (Screen's putchar and new line).
THEOREM LinesStay == OsSpec => LinesKept
<1>1. ASSUME OsInv, OsInv', [StepTrap \/ StepTables \/ StepScreen]_os_vars
      PROVE  [part = "screen" =>
                Video!TextKept /\ Video!LinesTerminated' /\ Video!TypeOK']_os_vars
  BY <1>1, ScreenStep DEF OsInv, StepTrap, StepTables, StepScreen
<1> QED BY <1>1, OsInvariant, PTL DEF OsSpec, LinesKept
=============================================================================
