--------------------------- MODULE DescriptorTables ---------------------------
(***************************************************************************)
(* The classes GDT, IDT and TSS of the guest kernel and TRAP::Init         *)
(* (gdt.cpp, idt.cpp, tss.cpp, trap.cpp), in the order main calls them,    *)
(* and then GDT's public operations by any caller.                         *)
(*                                                                         *)
(* A descriptor is the eight bytes of a table entry, <<two words, four     *)
(* bytes>>: SEGMENT_DESC and GATE_DESC are two readings of them.  An       *)
(* address is the pair of its halves.  What the processor reads out of a   *)
(* descriptor, and ltr, are external.                                      *)
(***************************************************************************)
EXTENDS Integers

CONSTANTS
  MAX_GDT_NUM,  \* entries of the GDT
  MAX_IDT_NUM,  \* entries of the IDT
  Bases, Limits, Attributes,  \* what callers of add_* ask for
  Argcs                       \* argument counts of call gates

GDT_SYS_TSS == 7

Half == 0 .. 65535
Byte == 0 .. 255

TablesAssumption ==
  /\ MAX_GDT_NUM \in Nat /\ MAX_GDT_NUM > GDT_SYS_TSS
  /\ MAX_IDT_NUM \in Nat /\ MAX_IDT_NUM >= 20
  /\ Bases \subseteq Half \X Half /\ Limits \subseteq Nat
  /\ Attributes \subseteq Nat /\ Argcs \subseteq Nat
\* An entry whose bytes are all zero counts as free: callers set a type.
AttributesAssumption == \A a \in Attributes : a % 256 # 0

SEL_KERNEL_CODE == 8
SEL_KERNEL_DATA == 16
SEL_USER_CODE == 27
SEL_USER_DATA == 35
DA_CR == 154
DA_DRW == 146
DA_386TSS == 137
DA_386CGate == 140
DA_DPL3 == 96
DA_32 == 16384
DA_LIMIT_4K == 32768
IDT_INTR_GATE == 142
IDT_TRAP_GATE == 143

Zero == <<0, 0, 0, 0, 0, 0>>
Descriptor == Half \X Half \X Byte \X Byte \X Byte \X Byte

\* Addresses the linker and the loader choose.
ThisTss == <<32769, 4096>>
irq_default_entry == <<32768, 16>>
trap_entry(v) == <<32768, 256 + v>>
KERNEL_STACK_TOP_VIRTUAL_ADDR == <<49279, 61440>>

VARIABLES
  pc,      \* gdt_init, idt_init, tss_init, trap_init, tss_active, running
  m_gdt,   \* the GDT
  m_idt,   \* the IDT
  tss,     \* the fields of the TSS that are not zero: esp0, ss0, m_tss_seg
  tr,      \* the task register
  ret,     \* what the last add_* returned
  issued   \* (history) selectors returned, with what was asked for them

vars == <<pc, m_gdt, m_idt, tss, tr, ret, issued>>

ZeroTss == [esp0 |-> <<0, 0>>, ss0 |-> 0, m_tss_seg |-> 0]

\* After the constructors, which zero the objects.
Init ==
  /\ pc = "gdt_init"
  /\ m_gdt = [i \in 0 .. MAX_GDT_NUM - 1 |-> Zero]
  /\ m_idt = [v \in 0 .. MAX_IDT_NUM - 1 |-> Zero]
  /\ tss = ZeroTss /\ tr = 0 /\ ret = -1 /\ issued = {}

-----------------------------------------------------------------------------
(* The two layouts, written *)

Segment(base, limit, attribute) ==
  <<limit % 65536, base[2], base[1] % 256, attribute % 256,
    ((limit \div 65536) % 16) + 16 * ((attribute \div 4096) % 16), base[1] \div 256>>

Gate(offset, count, type) ==
  <<offset[2], SEL_KERNEL_CODE, count % 256, type, offset[1] % 256, offset[1] \div 256>>

\* and read by the processor.
AsSegment(d) ==
  [base |-> <<256 * d[6] + d[3], d[2]>>, limit |-> d[1] + 65536 * (d[5] % 16),
   access |-> d[4], flags |-> d[5] \div 16]
AsGate(d) ==
  [offset |-> <<256 * d[6] + d[5], d[1]>>, selector |-> d[2], count |-> d[3],
   access |-> d[4]]

DPL(access) == (access \div 32) % 4
Present(access) == access >= 128

-----------------------------------------------------------------------------
(* The start of main *)

\* set_gdt_entry for the six segments of GDT::Init.
UserLimit == 524287
Fixed ==
  [i \in 1 .. 6 |->
     CASE i = 1 -> Segment(<<0, 0>>, 1048575, DA_CR + DA_32 + DA_LIMIT_4K)
       [] i = 2 -> Segment(<<0, 0>>, 1048575, DA_DRW + DA_32 + DA_LIMIT_4K)
       [] i = 3 -> Segment(<<0, 0>>, UserLimit, DA_CR + DA_DPL3 + DA_32 + DA_LIMIT_4K)
       [] i = 4 -> Segment(<<0, 0>>, UserLimit, DA_DRW + DA_DPL3 + DA_32 + DA_LIMIT_4K)
       [] i = 5 -> Segment(<<65503, 61440>>, 1023, DA_DRW + DA_DPL3 + DA_32)
       [] i = 6 -> Segment(<<32509, 53248>>, 1023, DA_DRW + DA_DPL3 + DA_32)]

GDT_Init ==
  /\ pc = "gdt_init" /\ pc' = "idt_init"
  /\ m_gdt' = [i \in DOMAIN m_gdt |-> IF i \in 1 .. 6 THEN Fixed[i] ELSE m_gdt[i]]
  /\ UNCHANGED <<m_idt, tss, tr, ret, issued>>

IDT_Init ==
  /\ pc = "idt_init" /\ pc' = "tss_init"
  /\ m_idt' = [v \in DOMAIN m_idt |-> Gate(irq_default_entry, 0, IDT_INTR_GATE)]
  /\ UNCHANGED <<m_gdt, tss, tr, ret, issued>>

\* find_free_gdt_entry returns the first entry that is zero, 0 if none is.
IsFree(d) == d = Zero
find_free_gdt_entry(vector) ==
  \/ vector = 0 /\ \A i \in 1 .. MAX_GDT_NUM - 1 : ~IsFree(m_gdt[i])
  \/ /\ vector \in 1 .. MAX_GDT_NUM - 1 /\ IsFree(m_gdt[vector])
     /\ \A i \in 1 .. vector - 1 : ~IsFree(m_gdt[i])

\* The common part of add_*: d at the first free entry, whose selector is
\* returned; nothing is written when there is none.
Add(vector, d, asked) ==
  /\ find_free_gdt_entry(vector)
  /\ ret' = vector * 8
  /\ IF vector = 0 THEN UNCHANGED <<m_gdt, issued>>
     ELSE /\ m_gdt' = [m_gdt EXCEPT ![vector] = d]
          /\ issued' = issued \cup {[sel |-> vector * 8, asked |-> asked]}

Asked(table, base, limit, access, flags) ==
  [table |-> table, as |-> [base |-> base, limit |-> limit, access |-> access, flags |-> flags]]

TSS_Init(vector) ==
  /\ pc = "tss_init" /\ pc' = "trap_init"
  /\ Add(vector, Segment(ThisTss, 103, DA_386TSS),
         Asked("tss", ThisTss, 103, DA_386TSS, 0))
  /\ tss' = [esp0 |-> KERNEL_STACK_TOP_VIRTUAL_ADDR, ss0 |-> SEL_KERNEL_DATA,
             m_tss_seg |-> ret']
  /\ UNCHANGED <<m_idt, tr>>

TrapEntries == 0 .. 19
TRAP_Init ==
  /\ pc = "trap_init" /\ pc' = "tss_active"
  /\ m_idt' = [v \in DOMAIN m_idt |->
                 IF v \in TrapEntries THEN Gate(trap_entry(v), 0, IDT_TRAP_GATE) ELSE m_idt[v]]
  /\ UNCHANGED <<m_gdt, tss, tr, ret, issued>>

\* ltr marks the descriptor busy, and faults on any other than an available
\* TSS: then main stops here.
TSS_active ==
  /\ pc = "tss_active" /\ pc' = "running"
  /\ LET i == tss.m_tss_seg \div 8 IN
       /\ m_gdt[i][4] = DA_386TSS
       /\ m_gdt' = [m_gdt EXCEPT ![i][4] = DA_386TSS + 2]
  /\ tr' = tss.m_tss_seg
  /\ UNCHANGED <<m_idt, tss, ret, issued>>

-----------------------------------------------------------------------------
(* The operations of GDT, by later callers *)

add_gdt_entry(vector, base, limit, attribute) ==
  Add(vector, Segment(base, limit, attribute),
      Asked("global", base, limit % 1048576, attribute % 256, (attribute \div 4096) % 16))

add_ldt_entry(vector, base, limit, attribute) ==
  Add(vector, Segment(base, limit, attribute),
      Asked("local", base, limit % 1048576, attribute % 256, (attribute \div 4096) % 16))

add_tss_entry(vector, base, limit) ==
  Add(vector, Segment(base, limit, DA_386TSS),
      Asked("tss", base, limit % 1048576, DA_386TSS, 0))

add_call_gate(vector, handler, argc) ==
  Add(vector, Gate(handler, argc, DA_386CGate + DA_DPL3),
      [table |-> "gate", as |-> [offset |-> handler, selector |-> SEL_KERNEL_CODE,
                                 count |-> argc % 256, access |-> DA_386CGate + DA_DPL3]])

Call(vector) ==
  /\ pc = "running"
  /\ \E base \in Bases :
       \/ \E limit \in Limits :
            \/ add_tss_entry(vector, base, limit)
            \/ \E attribute \in Attributes :
                 \/ add_gdt_entry(vector, base, limit, attribute)
                 \/ add_ldt_entry(vector, base, limit, attribute)
       \/ \E argc \in Argcs : add_call_gate(vector, base, argc)
  /\ UNCHANGED <<pc, m_idt, tss, tr>>

Next ==
  \/ GDT_Init \/ IDT_Init \/ TRAP_Init \/ TSS_active
  \/ \E vector \in 0 .. MAX_GDT_NUM - 1 : TSS_Init(vector) \/ Call(vector)

Spec == Init /\ [][Next]_vars

-----------------------------------------------------------------------------
(* Properties *)

TypeOK ==
  /\ pc \in {"gdt_init", "idt_init", "tss_init", "trap_init", "tss_active", "running"}
  /\ m_gdt \in [0 .. MAX_GDT_NUM - 1 -> Descriptor]
  /\ m_idt \in [0 .. MAX_IDT_NUM - 1 -> Descriptor]
  /\ tss \in [esp0 : Half \X Half, ss0 : Half, m_tss_seg : Half]
  /\ tr \in Nat /\ ret \in Int

\* What the processor finds under a selector: a TSS in use is a TSS.
Reads(asked, d) ==
  CASE asked.table = "gate" -> AsGate(d)
    [] asked.table = "tss" -> [AsSegment(d) EXCEPT !.access = IF @ = DA_386TSS + 2 THEN DA_386TSS ELSE @]
    [] OTHER -> AsSegment(d)

\* A selector that an add_* returned designates what was asked for, for ever:
\* no later call is given the same entry or overwrites it, and splitting the
\* base, the limit and the attributes over the bytes loses nothing.  0, the
\* null selector, is returned only when no entry is left.
IssuedKept ==
  /\ \A e \in issued : Reads(e.asked, m_gdt[e.sel \div 8]) = e.asked.as
  /\ \A e, f \in issued : e.sel = f.sel => e = f
  /\ ret = 0 => \A i \in 1 .. MAX_GDT_NUM - 1 : m_gdt[i] # Zero

\* TSS::Init leaves a TSS entry that ltr accepts, and from then on the task
\* register designates this TSS, busy, whose ring-0 stack is the kernel's:
\* what every trap from ring 3 needs.
TaskRegisterUsable ==
  /\ pc \in {"tss_active", "running"} =>
       tss = [esp0 |-> KERNEL_STACK_TOP_VIRTUAL_ADDR, ss0 |-> SEL_KERNEL_DATA,
              m_tss_seg |-> 8 * GDT_SYS_TSS]
  /\ pc = "tss_active" => m_gdt[GDT_SYS_TSS][4] = DA_386TSS
  /\ pc = "running" =>
       /\ tr = tss.m_tss_seg
       /\ AsSegment(m_gdt[tr \div 8]) =
            [base |-> ThisTss, limit |-> 103, access |-> DA_386TSS + 2, flags |-> 0]

\* Every vector has a present gate into the kernel's code from IDT::Init on,
\* and from TRAP::Init on each of the processor's 20 exceptions has its own
\* entry; no gate can be called by an INT instruction of the shellcode.
VectorsHandled ==
  pc \notin {"gdt_init", "idt_init"} =>
    \A v \in 0 .. MAX_IDT_NUM - 1 :
      LET g == AsGate(m_idt[v]) IN
      /\ Present(g.access) /\ DPL(g.access) = 0 /\ g.selector = SEL_KERNEL_CODE
      /\ AsSegment(m_gdt[SEL_KERNEL_CODE \div 8]).access = DA_CR
      /\ pc \notin {"tss_init", "trap_init"} /\ v < 20 => g.offset = trap_entry(v)
===============================================================================
