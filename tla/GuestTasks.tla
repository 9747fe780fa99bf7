----------------------------- MODULE GuestTasks -----------------------------
(***************************************************************************)
(* A guest whose system software uses what seg_helper.c emulates: tasks,   *)
(* gates, interrupts, exceptions, system calls.  It returns from what it   *)
(* entered in order, with the instruction that fits, and is otherwise free *)
(* to do anything at any point, faults included.                           *)
(***************************************************************************)
EXTENDS SegHelper
LOCAL INSTANCE FiniteSetsExt

CONSTANTS
  Layout,    \* profile -> what its programs use: selectors, vectors, system calls
  Boot,      \* profile -> the machine its system software has set up
  MaxNest    \* transfers that may be open

VARIABLES
  mem,      \* stacks, TSS contents, busy bits, and what SYSCALL keeps
  exc,      \* the exception that is to be delivered
  profile,  \* what the system software is written for
  left,     \* (history) task -> where it was left
  frames,   \* (history) task -> where its open transfers came from
  lowered   \* (history) a far call to conforming code has lowered the level

history == <<left, frames, lowered>>

Machine == [env |-> env, mem |-> mem, exc |-> exc]
Become(s) == env' = s.env /\ mem' = s.mem /\ exc' = s.exc

Flags(eflags) == eflags \cap {"IF", "NT", "VM"}
\* Where a program is: what a return has to bring back.
Place(e, eip) ==
  [cs |-> e.segs["CS"].sel, ss |-> e.segs["SS"].sel, esp |-> e.esp, cpl |-> e.cpl,
   eip |-> eip, eflags |-> Flags(e.eflags), iopl |-> e.iopl,
   ds |-> IF "VM" \in e.eflags THEN e.segs["DS"].sel ELSE NullSel]

SavedPlace(ctx) ==
  [cs |-> ctx.segs["CS"], ss |-> ctx.segs["SS"], esp |-> ctx.esp, cpl |-> ctx.segs["CS"].rpl,
   eip |-> ctx.eip, eflags |-> Flags(ctx.eflags), iopl |-> ctx.iopl, ds |-> NullSel]

Task == env.tr.idx
Open == frames[Task]
Nothing == [how |-> "none", shift |-> 0, place |-> Place(env, 0)]
Last == IF Open = <<>> THEN Nothing ELSE Open[Len(Open)]

TasksInit ==
  /\ \E p \in DOMAIN Boot :
       profile = p /\ env = Boot[p].env /\ mem = Boot[p].mem
  /\ exc = NoExc
  /\ left = [t \in DOMAIN Tss |-> SavedPlace(mem.tss[t].ctx)]
  /\ frames = [t \in DOMAIN Tss |-> <<>>] /\ lowered = FALSE

\* What is only to happen with a change of stack: conforming code runs at a lower
\* level than its caller.
Lowers(s) ==
  /\ s.exc = NoExc /\ s.env.segs["CS"].attr.conf /\ s.env.cpl < env.cpl
  /\ s.env.segs["SS"] = env.segs["SS"]

\* A transfer out of this place: nothing opens if it faults; a task is left.
Transfer(s, how, shift, eip) ==
  /\ Become(s)
  /\ LET to == s.env.tr.idx  here == Place(env, eip) IN
     IF to # Task
       THEN left' = [left EXCEPT ![Task] = here] /\ UNCHANGED frames
     ELSE IF s.exc # NoExc \/ how = "jmp" THEN UNCHANGED <<left, frames>>
     ELSE /\ frames' = [frames EXCEPT ![Task] =
                          Append(@, [how |-> how, shift |-> shift, place |-> here])]
          /\ UNCHANGED left
  /\ lowered' = (lowered \/ (how = "lret" /\ Lowers(s)))
  /\ UNCHANGED profile

\* An instruction that goes on to the next one, if it does not fault.
Advance(s) ==
  /\ Become(IF s.exc = NoExc THEN [s EXCEPT !.env.eip = 1 - @] ELSE s)
  /\ UNCHANGED <<profile, history>>

Use == Layout[profile]
Running == exc = NoExc
Room == MapThenSumSet(LAMBDA t : Len(frames[t]), DOMAIN Tss) < MaxNest
Fatal == Last.how = "fatal"
\* A task that a transfer was left open in is only jumped to.
Callable(d) ==
  d.sys \in {"tss", "taskgate"} => \A t \in DOMAIN Tss \ {Task} : frames[t] = <<>>
InProtected(e) == "PE" \in e.cr0 /\ "VM" \notin e.eflags
Protected == InProtected(env)
Long == "LMA" \in env.hflags
GateShift == IF Long THEN 2 ELSE IF "PE" \in env.cr0 THEN 1 ELSE 0

\* Virtual 8086 mode leaves INT and IRET to the monitor, but at IOPL 3.
Restricted == "VM" \in env.eflags /\ env.iopl # 3

\* INT n
SoftInt ==
  /\ Running /\ ~Fatal /\ Room
  /\ Become(IF Restricted THEN raise_exception_err(Machine, GP)
            ELSE helper_raise_interrupt(Machine, Use.soft))
  /\ UNCHANGED <<profile, history>>

HardIrq(v) ==
  /\ Running /\ ~Fatal /\ Room /\ "IF" \in env.eflags /\ Callable(Idts[env.idt][v])
  /\ Transfer(do_interrupt_x86_hardirq(Machine, v), "iret", GateShift, env.eip)

\* The CPU loop delivers what was raised; a double fault is not returned from.
Deliver ==
  /\ ~Running /\ exc.intno # HLT
  /\ Transfer(do_interrupt(Machine), IF exc.intno = DF THEN "fatal" ELSE "iret", GateShift,
              IF exc.is_int THEN exc.next_eip ELSE env.eip)

\* qemu_system_reset_request, and the system software starts again.
Reset ==
  /\ exc.intno = HLT \/ Fatal
  /\ env' = Boot[profile].env /\ mem' = Boot[profile].mem /\ exc' = NoExc
  /\ left' = [t \in DOMAIN Tss |-> SavedPlace(mem'.tss[t].ctx)]
  /\ frames' = [t \in DOMAIN Tss |-> <<>>] /\ lowered' = FALSE
  /\ UNCHANGED profile

FarJump(sel, eip) ==
  /\ Running /\ ~Fatal /\ Room /\ Protected /\ (eip > Limit => ~Long)
  /\ Transfer(helper_ljmp_protected(Machine, sel, eip), "jmp", 0, Next_eip(Machine))

FarCall(sel, eip) ==
  /\ Running /\ ~Fatal /\ Room /\ Callable(load_segment(Machine, sel)) /\ (Protected \/ "PE" \notin env.cr0)
  /\ LET shift == IF load_segment(Machine, sel).sys = "callgate" THEN 1 ELSE GateShift IN
     Transfer(IF Protected THEN helper_lcall_protected(Machine, sel, eip, shift)
              ELSE helper_lcall_real(Machine, sel, eip, shift),
              "lret", shift, Next_eip(Machine))

\* The last transfer is returned from.
Return(s) ==
  /\ Become(s)
  /\ frames' = IF s.exc # NoExc THEN frames
               ELSE [frames EXCEPT ![Task] = SubSeq(@, 1, Len(@) - 1)]
  /\ UNCHANGED <<profile, left, lowered>>

\* A nested task that has nothing open ends.
TaskEnds == Open = <<>> /\ "NT" \in env.eflags
Back(s) == IF TaskEnds THEN Transfer(s, "jmp", 0, Next_eip(Machine)) ELSE Return(s)
Iret ==
  /\ Running /\ (Last.how = "iret" \/ TaskEnds)
  /\ Back(IF Restricted THEN raise_exception_err(Machine, GP)
          ELSE IF Protected
            THEN helper_iret_protected(Machine, IF TaskEnds THEN 1 ELSE Last.shift)
          ELSE helper_iret_real(Machine, Last.shift))

Lret ==
  /\ Running /\ Protected /\ Last.how = "lret"
  /\ Return(helper_lret_protected(Machine, Last.shift))

\* The far return of real mode is translated inline.
do_lret_real ==
  /\ Running /\ ~Protected /\ Last.how = "lret"
  /\ LET s == Machine  f == Top(s) IN
     Return([RealCs(Pop(s), f.cs) EXCEPT !.env.eip = f.eip])

\* System calls return to the user's flat segments: it makes them from there.
UserCode(call) ==
  call \in Use.syscalls /\ Running /\ Room /\ env.segs["CS"].sel = Use.user

Syscall ==
  /\ UserCode("syscall")
  /\ Transfer(helper_syscall(Machine, Use.star), "sysret", 0, Next_eip(Machine))
Sysret ==
  /\ Running /\ Last.how = "sysret"
  /\ Return(helper_sysret(Machine, Use.star_user, IF Long THEN 2 ELSE 1))

Sysenter ==
  /\ UserCode("sysenter")
  /\ Transfer(helper_sysenter(Machine, Use.sysenter, Tss[Task].esp[0]),
              "sysexit", 0, Next_eip(Machine))
Sysexit ==
  /\ Running /\ Last.how = "sysexit"
  /\ LET p == Last.place IN
     Return(helper_sysexit(Machine, Use.sysenter, IF Long THEN 2 ELSE 1, p.esp, p.eip))

LoadDs(sel) ==
  /\ Running /\ ~Fatal /\ Room /\ Protected
  /\ Advance(helper_load_seg(Machine, "DS", sel))

\* Privileged: the local descriptor table, and the task register once more.
Lldt(sel) == Running /\ Room /\ Protected /\ env.cpl = 0 /\ Advance(helper_lldt(Machine, sel))
Ltr(sel) ==
  /\ Running /\ Room /\ Protected /\ env.cpl = 0 /\ sel.idx = Task
  /\ Advance(helper_ltr(Machine, sel))

\* Any other instruction.
Plain == Running /\ ~Fatal /\ env.eip = 0 /\ Advance(Machine)

TasksNext ==
  \/ SoftInt \/ Deliver \/ Reset \/ Iret \/ Lret \/ do_lret_real \/ Plain
  \/ Syscall \/ Sysret \/ Sysenter \/ Sysexit
  \/ \E v \in Use.irqs : HardIrq(v)
  \/ \E sel \in Use.far : FarCall(sel, 0)
  \/ \E sel \in Use.far, eip \in {0, Limit + 1} : FarJump(sel, eip)
  \/ \E sel \in Use.data : LoadDs(sel)
  \/ \E sel \in Use.ldts : Lldt(sel)
  \/ \E sel \in Use.tasks : Ltr(sel)

-----------------------------------------------------------------------------
(* The constants *)

\* Every TSS has the 32-bit layout.
AllWide == \A i \in DOMAIN Gdt : Gdt[i].sys = "tss" => Gdt[i].attr.b

\* Virtual 8086 mode is level 3, and needs a TSS that keeps the flag.
SoundFlags(eflags) == "VM" \in eflags => AllWide

\* The CPU fields that seg_helper.c works on.
TaskFields == {"segs", "cpl", "eflags", "iopl", "cr0", "cr4", "efer", "hflags", "eip", "esp", "tr",
               "ldt", "idt", "old_exception"}
LevelsAgree(e) ==
  LET cs == e.segs["CS"]  ss == e.segs["SS"] IN
  /\ cs.sel.rpl = e.cpl /\ cs.attr.kind = "code"
  /\ IF cs.attr.conf THEN cs.attr.dpl <= e.cpl ELSE cs.attr.dpl = e.cpl
  /\ IsNull(WithRpl(ss.sel, 0)) \/ ss.attr.dpl = e.cpl

SoundSegs(segs) ==
  /\ segs = [r \in SegRegs |-> Segment(segs[r].sel, segs[r].base, segs[r].attr)]
  /\ segs["CS"].sel.rpl \in Rings
SoundEnv(e) ==
  /\ e = [f \in TaskFields |-> e[f]] /\ SoundSegs(e.segs) /\ e.idt \in DOMAIN Idts
  /\ e.cpl \in Rings /\ SoundFlags(e.eflags) /\ ("VM" \in e.eflags => e.cpl = 3)

\* What a return may find: on a stack, in a TSS, in the registers of SYSCALL.
SoundContext(ctx) ==
  {"segs", "eflags"} \subseteq DOMAIN ctx /\ ctx.segs["CS"].rpl \in Rings /\ SoundFlags(ctx.eflags)
SoundMem(m) ==
  /\ m = [stack |-> m.stack, busy |-> m.busy, regs |-> m.regs, tss |-> m.tss]
  /\ \A name \in DOMAIN m.stack : \A n \in DOMAIN m.stack[name] :
       LET f == m.stack[name][n] IN f.cs.rpl \in Rings /\ SoundFlags(f.eflags)
  /\ m.tss = [t \in DOMAIN Tss |->
                [layout |-> m.tss[t].layout, link |-> m.tss[t].link, ctx |-> m.tss[t].ctx]]
  /\ \A t \in DOMAIN Tss : SoundContext(m.tss[t].ctx)
  /\ SoundFlags(m.regs.eflags)

\* A guest that starts at one level, with tables that are what they should be.
SoundProfile(p) ==
  /\ Layout[p].far \cup Layout[p].data \subseteq Selectors
  /\ {Layout[p].star, Layout[p].star_user, Layout[p].sysenter} \subseteq Selectors
  /\ SoundEnv(Boot[p].env) /\ SoundMem(Boot[p].mem) /\ Boot[p].env.old_exception = -1
  /\ InProtected(Boot[p].env) => LevelsAgree(Boot[p].env)

-----------------------------------------------------------------------------
(* Properties *)

\* The privilege level is kept four times: in hflags, in the selector of CS,
\* and in the attributes of CS and of SS.  Whatever the guest did last, they
\* agree in protected mode (not so for the null SS of long mode, nor for the
\* attributes of a conforming CS); in virtual 8086 mode it is 3.  Nothing is
\* said of the segments once a far call has lowered the level without a change
\* of stack: a call gate to conforming code makes its DPL the level.
SegmentsAtPrivilege ==
  /\ "VM" \in env.eflags => env.cpl = 3
  /\ Running /\ Protected /\ ~lowered => LevelsAgree(env)

\* The running task is busy, so that no gate leads back into it, and so is
\* every task that an iret with NT set would go back to, transitively.
Nested(t) == "NT" \in (IF t = Task THEN env.eflags ELSE mem.tss[t].ctx.eflags)
TasksLinked ==
  Protected => /\ Task \in mem.busy
               /\ \A t \in mem.busy : Nested(t) => mem.tss[t].link \in mem.busy

\* VERR and VERW promise what a later load of a data segment does, LSL and LAR
\* do not refuse what VERR grants: four helpers with tests of their own.
QueriesAgree ==
  Running /\ Protected =>
    \A sel \in Use.data \cup Use.far :
      LET s == Machine
          loads(reg) == helper_load_seg(s, reg, sel).exc = NoExc
          present == load_segment(s, sel).attr.p
      IN  ~IsNull(sel) =>
            /\ helper_verr(s, sel) /\ present <=> loads("DS")
            /\ loads("SS") => helper_verw(s, sel)
            /\ helper_verw(s, sel) => helper_verr(s, sel)
            /\ helper_verr(s, sel) => helper_lsl(s, sel)
            /\ helper_lsl(s, sel) => helper_lar(s, sel)

\* A return brings back the place it was left from, whatever was entered and
\* left in between: frames of every gate size, with and without a change of
\* stack, in virtual 8086 mode with the data segments.  A return to an outer
\* level leaves no data segment of an inner one.
SameFlags(how) == how = "iret" \/ (how = "sysret" /\ Long)
BroughtBack(how, place, now) ==
  IF SameFlags(how) THEN now = place
  ELSE [now EXCEPT !.eflags = {}, !.iopl = 0] = [place EXCEPT !.eflags = {}, !.iopl = 0]
ReturnsWhereLeft ==
  LET now == Place(env, env.eip)' IN
  ~Fatal /\ exc.intno # HLT =>
  /\ Len(frames'[Task]) < Len(Open) /\ exc' = NoExc =>
       BroughtBack(Last.how, Last.place, now)
  /\ Last.how = "iret" /\ env'.cpl > env.cpl /\ "VM" \notin env'.eflags =>
       \/ IsNull(WithRpl(env'.segs["DS"].sel, 0))
       \/ env'.segs["DS"].attr.dpl >= env'.cpl
\* A task goes on where it was left, however it is switched to, and the switch
\* raises nothing there.
ResumesWhereLeft ==
  Task' # Task /\ ~Fatal /\ exc.intno # HLT =>
    LET now == Place(env, env.eip)'  then == left[Task'] IN
    exc' = NoExc /\ [now EXCEPT !.eflags = @ \ {"NT"}] = [then EXCEPT !.eflags = @ \ {"NT"}]

\* Delivery ends: an exception that its delivery raises is graver than the one
\* that was to be delivered, so that after a benign one, a contributory one and
\* the double fault nothing is left but the reset.
Gravity(n) == CASE n = HLT -> 4 [] n = DF -> 3 [] Contributory(n) -> 2 [] OTHER -> 1
Escalates ==
  ~Running /\ exc' # NoExc =>
    Gravity(exc'.intno) > (IF exc.is_int THEN 0 ELSE Gravity(exc.intno))
=============================================================================
