------------------------------ MODULE DebugRegs ------------------------------
(***************************************************************************)
(* Breakpoints: those a guest sets in its debug registers, which become    *)
(* entries of the emulator's lists (target-i386/helper.c, misc_helper.c,   *)
(* seg_helper.c, machine.c), and those gdb sets in a guest that KVM runs,  *)
(* which become debug registers (kvm.c).                                   *)
(*                                                                         *)
(* DR7 is [local, global, field]: the registers enabled for this task and  *)
(* for all, and the two-bit fields from bit 16 on.  DR6 is a set of bits:  *)
(* those of the registers, and BS.  An address is a number, so that        *)
(* alignment is what it is.                                                *)
(***************************************************************************)
EXTENDS Integers, Sequences, FiniteSets

CONSTANTS
  DebugAddrs,
  Dr7s,       \* profile -> the values guests write to DR7
  GdbAsks     \* profile -> what gdb asks for

VARIABLES
  debug_profile,
  dr,         \* the registers: addr[0 .. 3], dr6, dr7
  armed,      \* the emulator's breakpoints and watchpoints: records with an id
  ref,        \* env->cpu_breakpoint[] and cpu_watchpoint[], a union: ids, 0 for NULL,
              \* Freed for what is no longer an entry
  freed,      \* (history) an entry was used that had been freed
  db,         \* the last debug exception and what it is for
  hw_breakpoint, \* gdb's: a sequence
  gdb_hit,    \* cpu_single_env->watchpoint_hit
  programmed, \* the debug registers KVM has been given
  asked,      \* (history) what gdb asked for and was not refused
  code, saved \* the byte at gdb's software breakpoint, and what it replaced

debug_vars == <<debug_profile, dr, armed, ref, freed, db, hw_breakpoint, gdb_hit, programmed,
                asked, code, saved>>
guest_debug_vars == <<dr, armed, ref, freed, db>>
gdb_vars == <<hw_breakpoint, gdb_hit, programmed, asked>>
code_vars == <<code, saved>>

Regs == 0 .. 3

Freed == -1
BS == 14  \* DR6_BS

\* What guests write is numbers and bits, and gdb asks for addresses.
Dr7Values == [local : SUBSET Regs, global : SUBSET Regs, field : [0 .. 7 -> 0 .. 3]]
ASSUME DebugAssumption ==
  /\ DebugAddrs \subseteq Nat /\ DOMAIN GdbAsks = DOMAIN Dr7s
  /\ \A p \in DOMAIN Dr7s :
       /\ Dr7s[p] \subseteq Dr7Values
       /\ GdbAsks[p] \subseteq [type : {"insn", "write", "access"}, addr : Nat, len : Nat]

-----------------------------------------------------------------------------
(* The guest's breakpoints *)

\* Which of the two ways a register is enabled by: hw_breakpoint_enabled.
Enabled(dr7, i) ==
  (IF i \in dr7.local THEN {"local"} ELSE {}) \cup (IF i \in dr7.global THEN {"global"} ELSE {})
\* The shift is two bits a register, so that one's length is the next one's type.
hw_breakpoint_type(dr7, i) == dr7.field[i]
hw_breakpoint_len(dr7, i) == <<1, 2, 8, 4>>[dr7.field[i + 1] + 1]

FreshId(list) == CHOOSE n \in 1 .. 5 : (\A b \in list : b.id # n) /\ \A k \in 1 .. n - 1 : \E b \in list : b.id = k

\* cpu_breakpoint_insert and cpu_watchpoint_insert: the latter wants an
\* aligned address.
Aligned(addr, len) == addr % len = 0
Item(d, i) ==
  LET type == hw_breakpoint_type(d.dr7, i) IN
  [type |-> type, addr |-> d.addr[i], len |-> IF type = 0 THEN 1 ELSE hw_breakpoint_len(d.dr7, i)]
Insertable(d, i) ==
  LET type == hw_breakpoint_type(d.dr7, i) IN
  \/ type = 0 /\ Enabled(d.dr7, i) # {}
  \/ type \in {1, 3} /\ Aligned(d.addr[i], hw_breakpoint_len(d.dr7, i))
Refused(d, i) == hw_breakpoint_type(d.dr7, i) \in {1, 3} /\ ~Insertable(d, i)

Lists == [armed |-> armed, ref |-> ref, freed |-> freed]

hw_breakpoint_insert(l, d, i) ==
  LET id == FreshId(l.armed)  item == Item(d, i) IN
  IF Insertable(d, i)
    THEN [l EXCEPT !.armed = @ \cup {[id |-> id, type |-> item.type, addr |-> item.addr, len |-> item.len]},
                   !.ref[i] = id]
  ELSE IF Refused(d, i) THEN [l EXCEPT !.ref[i] = 0]
  ELSE l

\* What is removed is what the register's type is now; the reference stays.
Removes(d, i) ==
  LET type == hw_breakpoint_type(d.dr7, i) IN
  type \in {1, 3} \/ (type = 0 /\ Enabled(d.dr7, i) # {})
TakeOut(l, i) == [l EXCEPT !.armed = {b \in @ : b.id # l.ref[i]}, !.ref[i] = Freed]

hw_breakpoint_remove_AnyEnabled(l, d, i) ==
  IF l.ref[i] > 0 /\ Enabled(d.dr7, i) # {} THEN TakeOut(l, i) ELSE l
hw_breakpoint_remove(l, d, i) ==
  IF l.ref[i] = 0 \/ ~Removes(d, i) THEN l
  ELSE IF l.ref[i] = Freed THEN [l EXCEPT !.freed = TRUE]
  ELSE TakeOut(l, i)

OverRegs(Op(_, _, _), l, d) == Op(Op(Op(Op(l, d, 0), d, 1), d, 2), d, 3)
SetLists(l) == armed' = l.armed /\ ref' = l.ref /\ freed' = l.freed

\* helper_movl_drN_T0
WriteAddr(i, a) ==
  LET d == [dr EXCEPT !.addr[i] = a] IN
  dr' = d /\ SetLists(hw_breakpoint_insert(hw_breakpoint_remove(Lists, dr, i), d, i))
WriteDr7(v) ==
  LET d == [dr EXCEPT !.dr7 = v] IN
  dr' = d /\ SetLists(OverRegs(hw_breakpoint_insert, OverRegs(hw_breakpoint_remove, Lists, dr), d))

\* And of DR6.
WriteDr6 == dr' = [dr EXCEPT !.dr6 = {}] /\ UNCHANGED <<armed, ref, freed>>

\* switch_tss: the breakpoints enabled only for the old task.
ResetLocal(l, d, i) == IF Enabled(d.dr7, i) = {"local"} THEN hw_breakpoint_remove(l, d, i) ELSE l
TaskSwitch ==
  IF dr.dr7.local = {} THEN UNCHANGED <<dr, armed, ref, freed>>
  ELSE /\ SetLists(OverRegs(ResetLocal, Lists, dr))
       /\ dr' = [dr EXCEPT !.dr7.local = {}]

\* cpu_load, of the same debug registers into whatever state there is.
LoadDebugRegs ==
  /\ SetLists(OverRegs(hw_breakpoint_insert, [Lists EXCEPT !.armed = {}], dr))
  /\ UNCHANGED dr

\* cpu_reset; its memset covers the references.
ResetDebugRegs ==
  /\ dr' = [addr |-> [i \in Regs |-> 0], dr6 |-> {},
            dr7 |-> [local |-> {}, global |-> {}, field |-> [f \in 0 .. 7 |-> 0]]]
  /\ armed' = {} /\ ref' = [i \in Regs |-> 0] /\ UNCHANGED freed

\* check_hw_breakpoints: the registers that match, enabled or not.  To see whether
\* a watchpoint was hit it looks at the entry, freed or not; DR6's other bits stay.
Matches(eip, hits) ==
  {i \in Regs : LET type == hw_breakpoint_type(dr.dr7, i) IN
     \/ type = 0 /\ dr.addr[i] = eip
     \/ type \in {1, 3} /\ ref[i] \in hits}
HitEnabled(match) == \E i \in match : Enabled(dr.dr7, i) # {}
Dangling == {i \in Regs : hw_breakpoint_type(dr.dr7, i) \in {1, 3} /\ ref[i] = Freed}
check_hw_breakpoints(match, force, more) ==
  /\ dr' = IF force \/ HitEnabled(match) THEN [dr EXCEPT !.dr6 = (@ \ Regs) \cup match \cup more] ELSE dr
  /\ freed' = (Dangling # {})
  /\ UNCHANGED <<armed, ref>>

\* #DB, for an instruction, for data or for a step.
Raised(cause, eip, hits) == [cause |-> cause, eip |-> eip, hits |-> hits]
NoDb == Raised("none", 0, {})

\* breakpoint_handler, for an instruction that is about to be executed ...
Executes(eip) ==
  /\ \E b \in armed : b.type = 0 /\ b.addr = eip
  /\ check_hw_breakpoints(Matches(eip, {}), TRUE, {}) /\ db' = Raised("insn", eip, {})
\* ... and for an access that met watchpoints: the guest goes on if none of
\* them is enabled.
Overlaps(b, addr) == addr \in b.addr .. b.addr + b.len - 1
Accesses(addr, write) ==
  LET hits == {b.id : b \in {c \in armed : Overlaps(c, addr) /\ (c.type = 3 \/ (c.type = 1 /\ write))}}
      match == Matches(-1, hits)
  IN  /\ hits # {}
      /\ check_hw_breakpoints(match, FALSE, {})
      /\ db' = IF HitEnabled(match) THEN Raised("data", -1, hits) ELSE NoDb
\* helper_single_step
SingleStep(eip) ==
  check_hw_breakpoints(Matches(eip, {}), TRUE, {BS}) /\ db' = Raised("step", eip, {})

-----------------------------------------------------------------------------
(* gdb's breakpoints under KVM *)

find_hw_breakpoint(b) ==
  {n \in 1 .. Len(hw_breakpoint) : hw_breakpoint[n] = b}
Normal(b) == IF b.type = "insn" THEN [b EXCEPT !.len = 1] ELSE b
Acceptable(b) ==
  /\ b.len \in {1, 2, 4, 8} /\ Aligned(b.addr, b.len)
  /\ Len(hw_breakpoint) < 4 /\ find_hw_breakpoint(b) = {}
insert_hw_breakpoint(ask) ==
  LET b == Normal(ask) IN
  /\ Acceptable(b)
  /\ hw_breakpoint' = Append(hw_breakpoint, b)
  /\ asked' = asked \cup {b}

\* The last one takes the place of the one that is removed.
Removed(s, n) == SubSeq([s EXCEPT ![n] = s[Len(s)]], 1, Len(s) - 1)
remove_hw_breakpoint(ask) ==
  LET b == Normal(ask) IN
  /\ \E n \in find_hw_breakpoint(b) : hw_breakpoint' = Removed(hw_breakpoint, n)
  /\ asked' = asked \ {b}
remove_all_hw_breakpoints == hw_breakpoint # <<>> /\ hw_breakpoint' = <<>> /\ asked' = {}

\* kvm_arch_update_guest_debug; gdb calls it before it lets the guest run.
type_code == [insn |-> 0, write |-> 1, access |-> 3]
len_code(len) == CASE len = 1 -> 0 [] len = 2 -> 1 [] len = 4 -> 3 [] len = 8 -> 2
update_guest_debug(table) ==
  [n \in 1 .. Len(table) |->
     [addr |-> table[n].addr, rw |-> type_code[table[n].type], len |-> len_code(table[n].len)]]

\* kvm_arch_debug: a debug exit for register n, or for none of gdb's.
arch_debug(n) ==
  gdb_hit' = IF programmed[n].rw = 0 THEN <<>>
             ELSE <<hw_breakpoint[n].addr, IF programmed[n].rw = 1 THEN "write" ELSE "access">>

\* Software breakpoints: the byte of an instruction, int3, or what the guest
\* has written over either.
insert_sw_breakpoint == saved = "none" /\ saved' = code /\ code' = "int3"
remove_sw_breakpoint ==
  saved # "none" /\ code = "int3" /\ code' = saved /\ saved' = "none"
CodeWritten == saved # "none" /\ code' = "other" /\ UNCHANGED saved

-----------------------------------------------------------------------------
DebugInit ==
  /\ debug_profile \in DOMAIN Dr7s
  /\ dr = [addr |-> [i \in Regs |-> 0], dr6 |-> {},
           dr7 |-> [local |-> {}, global |-> {}, field |-> [f \in 0 .. 7 |-> 0]]]
  /\ armed = {} /\ ref = [i \in Regs |-> 0] /\ freed = FALSE /\ db = NoDb
  /\ hw_breakpoint = <<>> /\ gdb_hit = <<>> /\ programmed = <<>> /\ asked = {}
  /\ code = "insn" /\ saved = "none"

\* What happens after a freed entry was used is not defined, and not modelled.
GuestDebugs ==
  /\ ~freed /\ Dr7s[debug_profile] # {} /\ UNCHANGED <<debug_profile, gdb_vars, code_vars>>
  /\ \/ \E i \in 0 .. 1, a \in DebugAddrs : WriteAddr(i, a) /\ db' = NoDb
     \/ \E v \in Dr7s[debug_profile] : WriteDr7(v) /\ db' = NoDb
     \/ WriteDr6 /\ db' = NoDb
     \/ TaskSwitch /\ db' = NoDb
     \/ LoadDebugRegs /\ db' = NoDb
     \/ ResetDebugRegs /\ db' = NoDb
     \/ \E a \in DebugAddrs : Executes(a) \/ SingleStep(a)
     \/ \E a \in DebugAddrs, w \in BOOLEAN : Accesses(a, w)

GdbDebugs ==
  /\ GdbAsks[debug_profile] # {} /\ UNCHANGED <<debug_profile, guest_debug_vars>>
  /\ \/ \E b \in GdbAsks[debug_profile] :
          (insert_hw_breakpoint(b) \/ remove_hw_breakpoint(b))
            /\ programmed' = update_guest_debug(hw_breakpoint') /\ gdb_hit' = <<>>
            /\ UNCHANGED code_vars
     \/ remove_all_hw_breakpoints /\ programmed' = <<>> /\ gdb_hit' = <<>> /\ UNCHANGED code_vars
     \/ \E n \in 1 .. Len(programmed) : arch_debug(n)
          /\ UNCHANGED <<hw_breakpoint, programmed, asked, code_vars>>
     \/ (insert_sw_breakpoint \/ remove_sw_breakpoint \/ CodeWritten) /\ UNCHANGED gdb_vars

DebugNext == GuestDebugs \/ GdbDebugs
-----------------------------------------------------------------------------
(* Properties *)

\* What the emulator stops at is what the debug registers say, as it decodes
\* DR7 itself (ArmedAsArchitected is about that), after any writes, task switches
\* and reloads, each of which takes entries out by the old registers and puts
\* them in by the new: every enabled register is armed, nothing is armed that no
\* register asks for, and nothing twice.  A watchpoint that is not enabled may
\* be armed or not.  Nothing is said once an entry that a task switch freed has
\* been used.
ArmedAsRegisters ==
  LET strip(b) == [type |-> b.type, addr |-> b.addr, len |-> b.len]
      Enableds == {i \in Regs : Insertable(dr, i) /\ Enabled(dr.dr7, i) # {}}
  IN  ~freed =>
        \E regs \in SUBSET {i \in Regs : Insertable(dr, i)} :
          /\ Enableds \subseteq regs
          /\ {strip(b) : b \in armed} = {Item(dr, i) : i \in regs}
          /\ Cardinality(armed) = Cardinality(regs)

\* A guest that gets #DB finds its cause in DR6: an enabled register that
\* matched, or the single step.
CauseInDr6 ==
  ~freed =>
    /\ db.cause \in {"insn", "data"} =>
         \E i \in dr.dr6 \cap Regs : /\ Enabled(dr.dr7, i) # {}
                                     /\ dr.addr[i] = db.eip \/ ref[i] \in db.hits
    /\ db.cause = "step" => BS \in dr.dr6

\* The processor's own reading of DR7 has the type of register i at bit 16 + 4i
\* and the length behind it, as update_guest_debug has: what it would stop at,
\* "break/watchpoints for dr[0..3]", is armed.
ArmedAsArchitected ==
  \A i \in Regs :
    LET type == dr.dr7.field[2 * i]
        len == IF type = 0 THEN 1 ELSE <<1, 2, 8, 4>>[dr.dr7.field[2 * i + 1] + 1]
    IN  ~freed /\ Enabled(dr.dr7, i) # {} /\ type # 2 /\ Aligned(dr.addr[i], len) =>
          \E b \in armed : b.type = type /\ b.addr = dr.addr[i] /\ b.len = len

\* KVM stops where gdb asked and nowhere else, by what the processor makes of
\* the registers it is given; and a watchpoint that is reported is one of them.
Decoded(r) ==
  [type |-> CASE r.rw = 0 -> "insn" [] r.rw = 1 -> "write" [] r.rw = 3 -> "access",
   addr |-> r.addr, len |-> <<1, 2, 8, 4>>[r.len + 1]]
GdbStops ==
  /\ {Decoded(programmed[n]) : n \in 1 .. Len(programmed)} = asked
  /\ Len(programmed) = Cardinality(asked)
  /\ gdb_hit # <<>> => \E b \in asked : b.addr = gdb_hit[1] /\ b.type = gdb_hit[2]
  /\ saved = "none" => code # "int3"
=============================================================================
