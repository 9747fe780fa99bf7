------------------------------ MODULE SegHelper ------------------------------
(***************************************************************************)
(* The helpers of target-i386/seg_helper.c: interrupts, calls, returns,    *)
(* task switches, system calls and segment loads.  A helper maps a machine *)
(* [env, mem, exc] to the machine it leaves; one that raises an exception  *)
(* leaves it in exc, with what it had already changed.                     *)
(*                                                                         *)
(* A stack is a sequence of frames, each what one transfer pushes; a TSS   *)
(* holds what was saved in it in the 32-bit or in the 16-bit layout.       *)
(* Error codes, accessed bits and the general registers other than ESP are *)
(* left out.                                                               *)
(* SVM is off: its intercepts are in SmmSvm and GuestModes.                *)
(***************************************************************************)
EXTENDS CpuState

CONSTANTS
  Gdt, Ldt,  \* index -> descriptor; what lies past the limit has no entry
  Idts,      \* name -> vector -> gate: the tables LIDT may have been given
  Tss        \* TSS descriptor index -> [ss0, esp0, ist] as the kernel wrote it

Limit == 1   \* the offset of a segment's last instruction

Rings == 0 .. 3
Selectors == [ti : BOOLEAN, idx : Nat, rpl : Rings]
Attrs == [kind : {"code", "data", "system", "none"}, dpl : Rings, conf : BOOLEAN,
          rw : BOOLEAN, p : BOOLEAN, b : BOOLEAN, l : BOOLEAN]

-----------------------------------------------------------------------------
(* Descriptors *)

NoDesc == [attr |-> NoAttr, base |-> 0, sys |-> "none"]
CodeOrData(attr) == [attr |-> attr, base |-> 0, sys |-> "none"]
\* A system descriptor: 386 if attr.b; target is what it refers to.
System(sys, attr, target) == [attr |-> attr, base |-> 0, sys |-> sys, target |-> target]

\* What the tables have at a selector.
Descriptor(sel) ==
  LET table == IF sel.ti THEN Ldt ELSE Gdt
  IN  IF sel.idx \in DOMAIN table THEN table[sel.idx] ELSE NoDesc

\* Handlers of interrupts run at level 0 and in no conforming segment; a TSS
\* that is described is there.
SoundDescriptor(d) == d.attr \in Attrs /\ (d.sys = "callgate" => d.target \in Selectors)
SoundGate(gate) ==
  /\ gate.target \in Selectors
  /\ gate.sys \in {"intgate", "trapgate"} =>
       LET a == Descriptor(gate.target).attr IN a.kind = "code" => ~a.conf /\ a.dpl = 0
ASSUME TablesAssumption ==
  /\ \A i \in DOMAIN Gdt :
       SoundDescriptor(Gdt[i]) /\ (Gdt[i].sys = "tss" => i \in DOMAIN Tss)
  /\ \A i \in DOMAIN Ldt : SoundDescriptor(Ldt[i])
  /\ \A name \in DOMAIN Idts : \A v \in DOMAIN Idts[name] : SoundGate(Idts[name][v])

\* load_segment; no descriptor past the limit.
load_segment(s, sel) ==
  LET table == IF ~sel.ti THEN Gdt ELSE IF IsNull(s.env.ldt) THEN <<>> ELSE Ldt
  IN  IF sel.idx \in DOMAIN table THEN table[sel.idx] ELSE NoDesc
Found(s, sel) == load_segment(s, sel) # NoDesc

Busy(s, idx) == idx \in s.mem.busy

\* The exception of the first test that fails.
Checked(s, tests, done) ==
  LET failed == {i \in DOMAIN tests : tests[i][1]} IN
  IF failed = {} THEN done
  ELSE LET vec == tests[CHOOSE i \in failed : \A j \in failed : i <= j][2]
       IN  [s EXCEPT !.exc = [NoExc EXCEPT !.intno = check_exception(s.env.old_exception, vec)],
                     !.env.old_exception = OldException(s.env.old_exception, vec)]
raise_exception_err(s, vec) == Checked(s, << <<TRUE, vec>> >>, s)

\* helper_raise_interrupt: the INT instruction.
helper_raise_interrupt(s, intno) ==
  [s EXCEPT !.exc = [intno |-> intno, is_int |-> TRUE, next_eip |-> 1 - s.env.eip]]

Load(s, reg, sel, d) == [s EXCEPT !.env = LoadSegCache(@, reg, sel, d.base, d.attr)]
WithRpl(sel, rpl) == [sel EXCEPT !.rpl = rpl]

\* What memory holds at a stack pointer: zeros where nothing was pushed.
Zeros == [shift |-> 0, eip |-> 0, cs |-> NullSel, eflags |-> {}, iopl |-> 0, outer |-> FALSE,
          esp |-> 0, ss |-> NullSel, data |-> NullSel]
Held(s, stack, depth) ==
  IF stack \in DOMAIN s.mem.stack /\ depth \in DOMAIN s.mem.stack[stack]
    THEN s.mem.stack[stack][depth] ELSE Zeros

\* A new stack is what follows the frames below the stack pointer.
Push(s, esp, frame) ==
  [s EXCEPT !.mem.stack[esp.stack] =
              [n \in 1 .. esp.depth + 1 |->
                 IF n <= esp.depth THEN Held(s, esp.stack, n) ELSE frame],
            !.env.esp = [esp EXCEPT !.depth = @ + 1]]
Top(s) == Held(s, s.env.esp.stack, s.env.esp.depth)
Pop(s) ==
  LET esp == s.env.esp IN
  [s EXCEPT !.mem.stack[esp.stack] = [n \in 1 .. esp.depth - 1 |-> Held(s, esp.stack, n)],
            !.env.esp.depth = @ - 1]

Frame(s, shift, eip, outer, vm) ==
  LET e == s.env IN
  [shift |-> shift, eip |-> eip, cs |-> e.segs["CS"].sel,
   eflags |-> e.eflags, iopl |-> e.iopl, outer |-> outer,
   esp |-> IF outer THEN e.esp ELSE 0,
   ss |-> IF outer THEN e.segs["SS"].sel ELSE NullSel,
   data |-> IF vm THEN e.segs["DS"].sel ELSE NullSel]

\* get_ss_esp_from_tss and the tests every inner stack has to pass.
InnerStackBad(s, dpl) ==
  LET ss == Tss[s.env.tr.idx].ss[dpl]  d == load_segment(s, ss) IN
  \/ IsNull(ss) \/ ss.rpl # dpl \/ d.attr.dpl # dpl
  \/ ~WritableData(d.attr) \/ ~d.attr.p

\* What a gate may lead to.
TargetBad(s, sel) ==
  LET d == load_segment(s, sel) IN
  IsNull(sel) \/ d.attr.kind # "code" \/ d.attr.dpl > s.env.cpl

-----------------------------------------------------------------------------
(* Task switch *)

tss_load_seg(s, reg, sel) ==
  LET d == load_segment(s, sel)  a == d.attr  cpl == s.env.cpl
      bad == CASE reg = "CS" -> a.kind # "code" \/ a.dpl # sel.rpl
               [] reg = "SS" -> ~WritableData(a) \/ a.dpl # cpl \/ a.dpl # sel.rpl
               [] OTHER -> \/ a.kind = "code" /\ ~a.rw
                           \/ ~(a.kind = "code" /\ a.conf) /\ (a.dpl < cpl \/ a.dpl < sel.rpl)
  IN  IF IsNull(sel) THEN Checked(s, << <<reg # "DS", TS>> >>, s)
      ELSE Checked(s, << <<~IsS(a) \/ bad, TS>>, <<~a.p, NP>> >>, Load(s, reg, sel, d))

\* The registers as they are saved in a TSS; its LDT stays as the kernel wrote it.
Context(s, eip, eflags) ==
  [s.mem.tss[s.env.tr.idx].ctx EXCEPT
     !.eip = eip, !.eflags = eflags, !.iopl = s.env.iopl, !.esp = s.env.esp,
     !.segs = [r \in SegRegs |-> s.env.segs[r].sel]]

SaveTask_AlwaysIdle(s, source, is386, next_eip) ==
  LET old == s.env.tr.idx IN
  [s EXCEPT !.mem.busy = @ \ {old},
            !.mem.tss[old] = [@ EXCEPT !.layout = is386,
                                       !.ctx = Context(s, next_eip, s.env.eflags)]]
\* The layout in which the old task is saved is that of the new one.
SaveTask(s, source, is386, next_eip) ==
  LET old == s.env.tr.idx
      flags == IF source = "iret" THEN s.env.eflags \ {"NT"} ELSE s.env.eflags
  IN  [s EXCEPT !.mem.busy = IF source = "call" THEN @ ELSE @ \ {old},
                !.mem.tss[old] = [@ EXCEPT !.layout = is386, !.ctx = Context(s, next_eip, flags)]]

\* The new one is busy, and linked to the old one that it is nested in.
LinkTask(s, source, new) ==
  LET link == IF source = "call" THEN s.env.tr.idx ELSE s.mem.tss[new].link IN
  [s EXCEPT !.mem.busy = IF source = "iret" THEN @ ELSE @ \cup {new},
            !.mem.tss[new] = [@ EXCEPT !.link = link]]

TaskFlags == {"TF", "IF", "IOPL", "VM", "RF", "NT"}

\* First the registers and the selectors, ...
load_selector(e, vm, reg, sel) ==
  IF vm THEN LoadSegVm(e, reg, sel) ELSE LoadSegCache(e, reg, sel, 0, NoAttr)
load_registers(e, new, d, saved, eflags) ==
  LET vm == "VM" \in eflags
      e0 == [e EXCEPT !.cr0 = @ \cup {"TS"}, !.hflags = @ \cup {"TS"}, !.ldt = NullSel,
                      !.tr = Sel(new, 0), !.eip = saved.eip, !.esp = saved.esp]
      mask == IF d.attr.b THEN TaskFlags ELSE TaskFlags \ {"VM", "RF"}
      e1 == LoadEflags(e0, [eflags |-> eflags, iopl |-> saved.iopl], mask)
      load(e2, reg) == load_selector(e2, vm, reg, saved.segs[reg])
  IN  SetCpl(load(load(load(e1, "DS"), "CS"), "SS"), IF vm THEN 3 ELSE saved.segs["CS"].rpl)

\* ... what they refer to last, with faults.
load_field(s, saved, field) ==
  LET ldt == load_segment(s, saved.ldt) IN
  IF s.exc # NoExc THEN s
  ELSE IF field = "EIP" THEN Checked(s, << <<saved.eip > Limit, GP>> >>, s)
  ELSE IF field # "LDT" THEN tss_load_seg(s, field, saved.segs[field])
  ELSE IF IsNull(saved.ldt) THEN s
  ELSE Checked(s, << <<saved.ldt.ti \/ ldt.sys # "ldt" \/ ~ldt.attr.p, TS>> >>,
               [s EXCEPT !.env.ldt = saved.ldt])
load_fields(s, saved, fields) ==
  LET loaded[n \in 0 .. Len(fields)] ==
        IF n = 0 THEN s ELSE load_field(loaded[n - 1], saved, fields[n])
  IN  loaded[Len(fields)]

LoadTask(s, new, d, saved, eflags) ==
  load_fields([s EXCEPT !.env = load_registers(@, new, d, saved, eflags)], saved,
              IF "VM" \in eflags THEN <<"LDT", "EIP">> ELSE <<"LDT", "CS", "SS", "DS", "EIP">>)

\* What a TSS gives back to its own layout: not an offset in its segment,
\* when it was saved in the other one.
SavedIn(s, idx, is386) ==
  LET tss == s.mem.tss[idx] IN
  IF tss.layout = is386 THEN tss.ctx ELSE [tss.ctx EXCEPT !.eip = Limit + 1]

\* switch_tss, to a TSS or through a task gate.
switch_tss(s, sel, desc, source, next_eip) ==
  LET gate == desc.sys = "taskgate"
      new == IF gate THEN desc.target ELSE sel
      d == load_segment(s, new)
      saved == SavedIn(s, new.idx, d.attr.b)
      s1 == LinkTask(SaveTask(s, source, d.attr.b, next_eip), source, new.idx)
      eflags == saved.eflags \cup (IF source = "call" THEN {"NT"} ELSE {})
  IN  Checked(s, << <<gate /\ ~desc.attr.p, NP>>, <<new.ti, TS>>,
                    <<gate /\ (d.sys # "tss" \/ Busy(s, new.idx)), GP>>,
                    <<~d.attr.p, NP>> >>,
              LoadTask(s1, new.idx, d, saved, eflags))

-----------------------------------------------------------------------------
(* Interrupts *)

\* The first instruction behind a gate, without some flags.
StartAt(e, cpl, cleared) == [SetCpl(e, cpl) EXCEPT !.eip = 0, !.eflags = @ \ cleared]

\* What a gate takes out of EFLAGS.
GateClears(gate) ==
  {"TF", "VM", "RF", "NT"} \cup (IF gate.sys = "intgate" THEN {"IF"} ELSE {})

\* To the handler, on stack esp; ss is loaded when the stack changes.
EnterHandler(s, gate, d, dpl, esp, frame, ss) ==
  LET s1 == Push(s, esp, frame)
      s2 == IF frame.data = NullSel THEN s1 ELSE Load(s1, "DS", NullSel, NoDesc)
      s3 == IF ss.new THEN Load(s2, "SS", WithRpl(ss.sel, dpl), ss.desc) ELSE s2
      s4 == Load(s3, "CS", WithRpl(gate.target, dpl), d)
  IN  [s4 EXCEPT !.env = StartAt(@, dpl, GateClears(gate))]

do_interrupt_protected(s, intno, is_int, old_eip) ==
  LET e == s.env
      known == intno \in DOMAIN Idts[e.idt]
      gate == Idts[e.idt][intno]
      d == load_segment(s, gate.target)
      vm == "VM" \in e.eflags
      inner == ~d.attr.conf /\ d.attr.dpl < e.cpl
      dpl == IF inner THEN d.attr.dpl ELSE e.cpl
      tss == Tss[e.tr.idx]
  IN  IF ~known THEN raise_exception_err(s, GP)
      ELSE IF gate.sys = "taskgate"
        THEN switch_tss(s, NullSel, gate, "call", old_eip)
      ELSE Checked(s, << <<gate.sys \notin {"intgate", "trapgate"}, GP>>,
                         <<is_int /\ gate.attr.dpl < e.cpl, GP>>,
                         <<~gate.attr.p, NP>>,
                         <<TargetBad(s, gate.target), GP>>,
                         <<~d.attr.p, NP>>,
                         <<inner /\ InnerStackBad(s, dpl), TS>>,
                         <<~inner /\ vm, GP>> >>,
             EnterHandler(s, gate, d, dpl, IF inner THEN tss.esp[dpl] ELSE e.esp,
               Frame(s, IF gate.attr.b THEN 1 ELSE 0, old_eip, inner, inner /\ vm),
               [new |-> inner, sel |-> tss.ss[dpl], desc |-> load_segment(s, tss.ss[dpl])]))

\* The stack is always pushed; an IST entry is a stack of its own.
do_interrupt64(s, intno, is_int, old_eip) ==
  LET e == s.env
      known == intno \in DOMAIN Idts[e.idt]
      gate == Idts[e.idt][intno]
      d == load_segment(s, gate.target)
      lower == ~d.attr.conf /\ d.attr.dpl < e.cpl
      inner == lower \/ gate.ist # 0
      dpl == IF inner THEN d.attr.dpl ELSE e.cpl
      tss == Tss[e.tr.idx]
      esp == IF gate.ist # 0 THEN tss.ist[gate.ist] ELSE IF inner THEN tss.esp[dpl] ELSE e.esp
  IN  IF ~known THEN raise_exception_err(s, GP)
      ELSE Checked(s, << <<gate.sys \notin {"intgate", "trapgate"}, GP>>,
                         <<is_int /\ gate.attr.dpl < e.cpl, GP>>,
                         <<~gate.attr.p, NP>>,
                         <<TargetBad(s, gate.target), GP>>,
                         <<~d.attr.p, NP>>,
                         <<~d.attr.l \/ d.attr.b, GP>>,
                         <<~inner /\ "VM" \in e.eflags, GP>> >>,
             EnterHandler(s, gate, d, dpl, esp, Frame(s, 2, old_eip, TRUE, FALSE),
               [new |-> inner, sel |-> NullSel, desc |-> NoDesc]))

\* Real mode: CS keeps its attributes.
RealCs(s, sel) ==
  [s EXCEPT !.env.segs["CS"] = Segment(sel, IF IsNull(sel) THEN 0 ELSE 1, @.attr)]
do_interrupt_real(s, intno, old_eip) ==
  IF intno \notin DOMAIN Idts[s.env.idt] THEN raise_exception_err(s, GP)
  ELSE LET s1 == RealCs(Push(s, s.env.esp, Frame(s, 0, old_eip, FALSE, FALSE)),
                        Idts[s.env.idt][intno].target)
       IN  [s1 EXCEPT !.env.eip = 0, !.env.eflags = @ \ {"IF", "TF", "AC", "RF"}]

do_interrupt_all(s, intno, is_int, next_eip) ==
  LET old_eip == IF is_int THEN next_eip ELSE s.env.eip IN
  IF "PE" \notin s.env.cr0 THEN do_interrupt_real(s, intno, old_eip)
  ELSE IF "LMA" \in s.env.hflags THEN do_interrupt64(s, intno, is_int, old_eip)
  ELSE do_interrupt_protected(s, intno, is_int, old_eip)

Delivered(s) == IF s.exc = NoExc THEN [s EXCEPT !.env.old_exception = -1] ELSE s
\* do_interrupt: a delivered exception is forgotten.
do_interrupt(s) ==
  LET x == s.exc IN
  Delivered(do_interrupt_all([s EXCEPT !.exc = NoExc], x.intno, x.is_int, x.next_eip))

do_interrupt_x86_hardirq(s, intno) == do_interrupt_all(s, intno, FALSE, 0)

-----------------------------------------------------------------------------
(* Far jumps and calls *)

Next_eip(s) == 1 - s.env.eip

\* A code segment reached without a gate.
DirectBad(s, sel, d) ==
  LET cpl == s.env.cpl IN
  \/ d.attr.kind # "code"
  \/ d.attr.conf /\ d.attr.dpl > cpl
  \/ ~d.attr.conf /\ (sel.rpl > cpl \/ d.attr.dpl # cpl)

GateBad(s, sel, d) == d.attr.dpl < s.env.cpl \/ d.attr.dpl < sel.rpl

\* What a selector that is no code segment may lead to.
IsTask(s, sel, d) == d.sys = "taskgate" \/ (d.sys = "tss" /\ ~Busy(s, sel.idx))
NotFound(s, sel) == IsNull(sel) \/ ~Found(s, sel)

ToCode_RplKept(s, sel, d, eip) ==
  LET s1 == Load(s, "CS", sel, d) IN [s1 EXCEPT !.env.eip = eip]
ToCode(s, sel, d, eip) ==
  LET s1 == Load(s, "CS", WithRpl(sel, s.env.cpl), d) IN [s1 EXCEPT !.env.eip = eip]

helper_ljmp_protected(s, sel, eip) ==
  LET d == load_segment(s, sel)
      cs == load_segment(s, d.target)
      wide == "LMA" \in s.env.hflags \/ d.attr.l
  IN  IF NotFound(s, sel) THEN raise_exception_err(s, GP)
      ELSE IF IsS(d.attr)
        THEN Checked(s, << <<DirectBad(s, sel, d), GP>>, <<~d.attr.p, NP>>,
                           <<eip > Limit /\ ~wide, GP>> >>,
                     ToCode(s, sel, d, eip))
      ELSE IF IsTask(s, sel, d)
        THEN Checked(s, << <<GateBad(s, sel, d), GP>> >>,
                     switch_tss(s, sel, d, "jmp", Next_eip(s)))
      ELSE Checked(s, << <<d.sys # "callgate" \/ GateBad(s, sel, d), GP>>, <<~d.attr.p, NP>>,
                         <<DirectBad(s, WithRpl(d.target, 0), cs) \/ ~cs.attr.p, GP>> >>,
                   ToCode(s, d.target, cs, 0))

helper_lcall_real(s, sel, eip, shift) ==
  LET s1 == RealCs(Push(s, s.env.esp, Frame(s, shift, Next_eip(s), FALSE, FALSE)), sel)
  IN  [s1 EXCEPT !.env.eip = eip]

\* A call gate: to a conforming segment, too, CPL becomes the segment's DPL,
\* and the stack stays the one of the caller's level.
CallThroughGate(s, gate) ==
  LET e == s.env
      d == load_segment(s, gate.target)
      dpl == d.attr.dpl
      inner == ~d.attr.conf /\ dpl < e.cpl
      ss == Tss[e.tr.idx].ss[dpl]
      s1 == Push(s, IF inner THEN Tss[e.tr.idx].esp[dpl] ELSE e.esp,
                 Frame(s, IF gate.attr.b THEN 1 ELSE 0, Next_eip(s), inner, FALSE))
      s2 == IF inner THEN Load(s1, "SS", WithRpl(ss, dpl), load_segment(s, ss)) ELSE s1
      s3 == Load(s2, "CS", WithRpl(gate.target, dpl), d)
  IN  Checked(s, << <<TargetBad(s, gate.target), GP>>, <<~d.attr.p, NP>>,
                    <<inner /\ InnerStackBad(s, dpl), TS>> >>,
              [s3 EXCEPT !.env = StartAt(@, dpl, {})])

\* In long mode the return address is pushed as 64 bits.
helper_lcall_protected(s, sel, eip, shift) ==
  LET d == load_segment(s, sel)
      frame == Frame(s, shift, Next_eip(s), FALSE, FALSE)
  IN  IF NotFound(s, sel) THEN raise_exception_err(s, GP)
      ELSE IF IsS(d.attr)
        THEN Checked(s, << <<DirectBad(s, sel, d), GP>>, <<~d.attr.p, NP>>,
                           <<eip > Limit /\ shift # 2, GP>> >>,
                     ToCode(Push(s, s.env.esp, frame), sel, d, eip))
      ELSE IF IsTask(s, sel, d)
        THEN Checked(s, << <<GateBad(s, sel, d), GP>> >>,
                     switch_tss(s, sel, d, "call", Next_eip(s)))
      ELSE Checked(s, << <<d.sys # "callgate" \/ GateBad(s, sel, d), GP>>,
                         <<~d.attr.p, NP>> >>,
                   CallThroughGate(s, d))

-----------------------------------------------------------------------------
(* Returns *)

\* The flags an iret at a privilege level may load.
IretMask(e, shift) ==
  {"TF", "AC", "ID", "NT"} \cup (IF shift = 0 THEN {} ELSE {"RF"})
    \cup (IF e.cpl = 0 THEN {"IOPL"} ELSE {})
    \cup (IF e.cpl <= e.iopl THEN {"IF"} ELSE {})

\* The last step: the offset and the flags.
Continue(s, f, mask) == [s EXCEPT !.env = LoadEflags([@ EXCEPT !.eip = f.eip], f, mask)]

helper_iret_real(s, shift) ==
  LET f == Top(s)
      vm == "VM" \in s.env.eflags
      mask == {"TF", "AC", "ID", "IF", "NT"} \cup (IF shift = 0 THEN {} ELSE {"RF"})
                \cup (IF vm THEN {} ELSE {"IOPL"})
  IN  Continue(RealCs(Pop(s), f.cs), f, mask)

validate_seg_NotCalled(s, reg, cpl) == s
\* A data segment of an inner privilege is taken away.
validate_seg(s, reg, cpl) ==
  LET a == s.env.segs[reg].attr IN
  IF ~(a.kind = "code" /\ a.conf) /\ a.dpl < cpl THEN Load(s, reg, NullSel, NoDesc) ELSE s

return_to_vm86(s, f) ==
  LET e1 == LoadEflags(s.env, f, {"TF", "AC", "ID", "IF", "IOPL", "VM", "NT"})
      e2 == LoadSegVm(SetCpl(LoadSegVm(e1, "CS", f.cs), 3), "SS", f.ss)
  IN  [Pop(s) EXCEPT !.env = [LoadSegVm(e2, "DS", f.data) EXCEPT !.eip = f.eip, !.esp = f.esp]]

\* To an outer level, and its stack.
return_outer(s, f, d) ==
  LET rpl == f.cs.rpl
      ss == IF IsNull(f.ss) THEN [attr |-> Attr("data", rpl), base |-> 0]
            ELSE load_segment(s, f.ss)
      s1 == Load(Load(Pop(s), "SS", f.ss, ss), "CS", f.cs, d)
      s2 == validate_seg([s1 EXCEPT !.env = SetCpl(@, rpl)], "DS", rpl)
  IN  [s2 EXCEPT !.env.esp = f.esp]

\* iret and lret: the tests of what they return to, then the registers.
helper_ret_protected(s, shift, is_iret) ==
  LET e == s.env
      f == Top(s)
      d == load_segment(s, f.cs)
      rpl == f.cs.rpl
      cs64 == "CS64" \in e.hflags
      same == rpl = e.cpl /\ (~cs64 \/ ~is_iret)
      ss == load_segment(s, f.ss)
      nullss == IsNull(f.ss)
      back == IF same THEN Load(Pop(s), "CS", f.cs, d) ELSE return_outer(s, f, d)
      mask == IF is_iret THEN IretMask(e, shift) ELSE {}
  IN  IF is_iret /\ shift = 1 /\ "VM" \in f.eflags THEN return_to_vm86(s, f)
      ELSE Checked(s, << <<NotFound(s, f.cs) \/ d.attr.kind # "code" \/ rpl < e.cpl, GP>>,
                         <<IF d.attr.conf THEN d.attr.dpl > rpl ELSE d.attr.dpl # rpl, GP>>,
                         <<~d.attr.p, NP>>,
                         <<~same /\ nullss /\ ("LMA" \notin e.hflags \/ rpl = 3), GP>>,
                         <<~same /\ ~nullss /\ (f.ss.rpl # rpl \/ ~WritableData(ss.attr)), GP>>,
                         <<~same /\ ~nullss /\ ss.attr.dpl # rpl, GP>>,
                         <<~same /\ ~nullss /\ ~ss.attr.p, NP>> >>,
                   Continue(back, f, mask))

\* A nested task returns to the one its TSS links to.
helper_iret_protected(s, shift) ==
  LET link == Sel(s.mem.tss[s.env.tr.idx].link, 0)
      d == load_segment(s, link)
  IN  IF "NT" \notin s.env.eflags THEN helper_ret_protected(s, shift, TRUE)
      ELSE Checked(s, << <<"LMA" \in s.env.hflags, GP>>,
                         <<d.sys # "tss" \/ ~Busy(s, link.idx), TS>> >>,
                   switch_tss(s, link, d, "iret", Next_eip(s)))

helper_lret_protected(s, shift) == helper_ret_protected(s, shift, FALSE)

-----------------------------------------------------------------------------
(* System calls: segments that are set without a look at the tables *)

\* msr: the kernel's CS as written to STAR or IA32_SYSENTER_CS.
FlatCode(dpl, l) == [Attr("code", dpl) EXCEPT !.l = l, !.b = ~l]
Flat(s, reg, sel, attr) == [s EXCEPT !.env = LoadSegCache(@, reg, sel, 0, attr)]
After(sel, n) == [sel EXCEPT !.idx = @ + n]

\* regs: what SYSCALL leaves in ECX and R11.
helper_syscall(s, star) ==
  LET e == s.env
      long == "LMA" \in e.hflags
      s1 == Flat(s, "CS", WithRpl(star, 0), FlatCode(0, long))
      s2 == Flat(s1, "SS", WithRpl(After(star, 1), 0), Attr("data", 0))
  IN  Checked(s, << <<"SCE" \notin e.efer, UD>> >>,
        [s2 EXCEPT !.env = StartAt(@, 0, {"IF", "RF", "VM"}),
                   !.mem.regs = [eip |-> Next_eip(s), eflags |-> e.eflags, iopl |-> e.iopl]])

helper_sysret(s, user, dflag) ==
  LET e == s.env
      long == "LMA" \in e.hflags
      cs == IF long /\ dflag = 2 THEN After(user, 2) ELSE user
      s1 == Flat(s, "CS", WithRpl(cs, 3), FlatCode(3, long /\ dflag = 2))
      s2 == Flat(s1, "SS", After(user, 1), Attr("data", 3))
      e3 == IF long THEN LoadEflags(s2.env, s.mem.regs, TaskFlags)
                    ELSE [s2.env EXCEPT !.eflags = @ \cup {"IF"}]
  IN  Checked(s, << <<"SCE" \notin e.efer, UD>>,
                    <<"PE" \notin e.cr0 \/ e.cpl # 0, GP>> >>,
        [s2 EXCEPT !.env = [SetCpl(e3, 3) EXCEPT !.eip = s.mem.regs.eip]])

helper_sysenter(s, cs, esp) ==
  LET long == "LMA" \in s.env.hflags
      s1 == [s EXCEPT !.env = StartAt(@, 0, {"VM", "IF", "RF"})]
      s2 == Flat(s1, "CS", WithRpl(cs, 0), [Attr("code", 0) EXCEPT !.l = long])
      s3 == Flat(s2, "SS", WithRpl(After(cs, 1), 0), Attr("data", 0))
  IN  Checked(s, << <<IsNull(cs), GP>> >>, [s3 EXCEPT !.env.esp = esp])

\* To the stack and the offset that are in ECX and EDX.
helper_sysexit(s, cs, dflag, esp, eip) ==
  LET n == IF dflag = 2 THEN 4 ELSE 2
      s1 == [s EXCEPT !.env = SetCpl(@, 3)]
      s2 == Flat(s1, "CS", WithRpl(After(cs, n), 3), [Attr("code", 3) EXCEPT !.l = dflag = 2])
      s3 == Flat(s2, "SS", WithRpl(After(cs, n + 1), 3), Attr("data", 3))
  IN  Checked(s, << <<IsNull(cs) \/ s.env.cpl # 0, GP>> >>,
              [s3 EXCEPT !.env.esp = esp, !.env.eip = eip])

-----------------------------------------------------------------------------
(* Loading and examining segments *)

helper_load_seg(s, reg, sel) ==
  LET d == load_segment(s, sel)  a == d.attr  cpl == s.env.cpl
      bad == IF reg = "SS" THEN ~WritableData(a) \/ sel.rpl # cpl \/ a.dpl # cpl
             ELSE \/ a.kind = "code" /\ ~a.rw
                  \/ ~(a.kind = "code" /\ a.conf) /\ (a.dpl < cpl \/ a.dpl < sel.rpl)
      nullss == reg = "SS" /\ ("CS64" \notin s.env.hflags \/ cpl = 3)
  IN  IF IsNull(sel) THEN Checked(s, << <<nullss, GP>> >>, Load(s, reg, sel, NoDesc))
      ELSE Checked(s, << <<~IsS(a) \/ bad, GP>>,
                         <<~a.p, IF reg = "SS" THEN SSF ELSE NP>> >>,
                   Load(s, reg, sel, d))

helper_lldt(s, sel) ==
  LET d == load_segment(s, sel) IN
  IF IsNull(sel) THEN [s EXCEPT !.env.ldt = NullSel]
  ELSE Checked(s, << <<sel.ti \/ d.sys # "ldt", GP>>, <<~d.attr.p, NP>> >>,
               [s EXCEPT !.env.ldt = sel])

helper_ltr(s, sel) ==
  LET d == load_segment(s, sel) IN
  IF IsNull(sel) THEN [s EXCEPT !.env.tr = NullSel]
  ELSE Checked(s, << <<sel.ti \/ d.sys # "tss" \/ Busy(s, sel.idx), GP>>, <<~d.attr.p, NP>> >>,
               [s EXCEPT !.env.tr = sel, !.mem.busy = @ \cup {sel.idx}])

\* The rights LAR, LSL, VERR and VERW ask for.
Visible(s, sel, d) ==
  \/ d.attr.kind = "code" /\ d.attr.conf
  \/ d.attr.dpl >= s.env.cpl /\ d.attr.dpl >= sel.rpl

helper_lsl(s, sel) ==
  LET d == load_segment(s, sel) IN
  ~IsNull(sel) /\ (IsS(d.attr) \/ d.sys \in {"tss", "ldt"}) /\ Visible(s, sel, d)
helper_lar(s, sel) ==
  LET d == load_segment(s, sel) IN
  ~IsNull(sel) /\ (IsS(d.attr) \/ d.sys \in {"tss", "ldt", "callgate", "taskgate"})
               /\ Visible(s, sel, d)
helper_verr_AnyCode(s, sel) ==
  LET d == load_segment(s, sel) IN
  ~IsNull(sel) /\ IsS(d.attr) /\ Visible(s, sel, d)
helper_verr(s, sel) ==
  LET d == load_segment(s, sel) IN
  ~IsNull(sel) /\ IsS(d.attr) /\ (d.attr.kind = "code" => d.attr.rw) /\ Visible(s, sel, d)
helper_verw(s, sel) ==
  LET d == load_segment(s, sel) IN
  ~IsNull(sel) /\ WritableData(d.attr) /\ Visible(s, sel, d)
=============================================================================
