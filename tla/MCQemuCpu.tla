------------------------------ MODULE MCQemuCpu ------------------------------
(***************************************************************************)
(* The parts of the emulated processor, side by side, for TLC.  They are   *)
(* different views of one program that share no step: a behaviour is of    *)
(* one part, chosen at the start, and what belongs to the others is "idle" *)
(* throughout.  tasks: GuestTasks; modes: GuestModes; mmu: MmuHelper;      *)
(* debug: DebugRegs; msr: MsrHelper; loop: KvmLoop; int: IntHelper;        *)
(* flags: LazyFlags; strings: StringOps.                                   *)
(***************************************************************************)
EXTENDS MCGuestTasks, MCGuestModes, MCMmu, MCDebug, MsrHelper, KvmLoop, LazyFlags, StringOps

CONSTANTS Parts, TaskProfiles, ModeProfiles

ASSUME TasksAssumption ==
  /\ TaskProfiles \subseteq DOMAIN Boot
  /\ \A p \in TaskProfiles : SoundProfile(p)

VARIABLE part

own_tasks == <<mem, exc, profile, left, frames, lowered>>
own_modes == <<mode_profile, smram, hsave, vmcb, event, kvm, synced, left_at>>
own_mmu == <<mmu_profile, tables, tlb, fault, stale>>
cpu_vars == <<part, env, own_tasks, own_modes, own_mmu, debug_vars, msr_vars, loop_vars, calc, cc, rep>>

NoTasks ==
  /\ mem = "idle" /\ exc = "idle" /\ profile = "idle" /\ left = "idle" /\ frames = "idle"
  /\ lowered = "idle"
NoModes ==
  /\ mode_profile = "idle" /\ smram = "idle" /\ hsave = "idle" /\ vmcb = "idle"
  /\ event = "idle" /\ kvm = "idle" /\ synced = "idle" /\ left_at = "idle"
NoMmu == mmu_profile = "idle" /\ tables = "idle" /\ tlb = "idle" /\ fault = "idle" /\ stale = "idle"
NoDebug ==
  /\ debug_profile = "idle" /\ dr = "idle" /\ armed = "idle" /\ ref = "idle" /\ freed = "idle" /\ db = "idle"
  /\ hw_breakpoint = "idle" /\ gdb_hit = "idle" /\ programmed = "idle" /\ asked = "idle"
  /\ code = "idle" /\ saved = "idle"
NoMsr ==
  /\ msr_means = "idle" /\ slots = "idle" /\ in_kvm = "idle" /\ differ = "idle"
  /\ writes = "idle" /\ banks = "idle" /\ mcg = "idle" /\ reset_asked = "idle"
NoLoop ==
  /\ at = "idle" /\ pic = "idle" /\ request = "idle" /\ eflags = "idle" /\ run = "idle"
  /\ guest = "idle"

\* Nobody but the given part has anything.
NoKvm == NoDebug /\ NoMsr /\ NoLoop
NoCalc == calc = "idle" /\ cc = "idle" /\ rep = "idle"
NoCpu == env = "idle" /\ NoTasks /\ NoModes /\ NoMmu

CpuInit ==
  /\ part \in Parts
  /\ \/ part = "tasks" /\ TasksInit /\ profile \in TaskProfiles /\ NoModes /\ NoMmu /\ NoKvm /\ NoCalc
     \/ part = "modes" /\ ModesInit /\ mode_profile \in ModeProfiles /\ NoTasks /\ NoMmu /\ NoKvm /\ NoCalc
     \/ part = "mmu" /\ MmuInit /\ NoTasks /\ NoModes /\ NoKvm /\ NoCalc
     \/ part = "debug" /\ DebugInit /\ NoCpu /\ NoMsr /\ NoLoop /\ NoCalc
     \/ part = "msr" /\ MsrInit /\ NoCpu /\ NoDebug /\ NoLoop /\ NoCalc
     \/ part = "loop" /\ LoopInit /\ NoCpu /\ NoDebug /\ NoMsr /\ NoCalc
     \/ part = "int" /\ CalcInit /\ NoCpu /\ NoKvm /\ cc = "idle" /\ rep = "idle"
     \/ part = "flags" /\ FlagsInit /\ NoCpu /\ NoKvm /\ calc = "idle" /\ rep = "idle"
     \/ part = "strings" /\ RepInit /\ NoCpu /\ NoKvm /\ calc = "idle" /\ cc = "idle"

-----------------------------------------------------------------------------
\* Each part's step leaves the others' variables alone.
CpuSame == UNCHANGED <<env, own_tasks, own_modes, own_mmu>>
KvmSame == UNCHANGED <<debug_vars, msr_vars, loop_vars>>
CalcSame == UNCHANGED <<part, calc, cc, rep>>
StepTasks == part = "tasks" /\ TasksNext /\ UNCHANGED <<own_modes, own_mmu>> /\ KvmSame /\ CalcSame
StepModes == part = "modes" /\ ModesNext /\ UNCHANGED <<own_tasks, own_mmu>> /\ KvmSame /\ CalcSame
StepMmu == part = "mmu" /\ MmuNext /\ UNCHANGED <<own_tasks, own_modes>> /\ KvmSame /\ CalcSame
StepDebug == part = "debug" /\ DebugNext /\ CpuSame /\ UNCHANGED <<msr_vars, loop_vars>> /\ CalcSame
StepMsr == part = "msr" /\ MsrNext /\ CpuSame /\ UNCHANGED <<debug_vars, loop_vars>> /\ CalcSame
StepLoop == part = "loop" /\ LoopNext /\ CpuSame /\ UNCHANGED <<debug_vars, msr_vars>> /\ CalcSame
StepInt == part = "int" /\ CalcNext /\ CpuSame /\ KvmSame /\ UNCHANGED <<part, cc, rep>>
StepFlags == part = "flags" /\ FlagsNext /\ CpuSame /\ KvmSame /\ UNCHANGED <<part, calc, rep>>
StepStrings == part = "strings" /\ RepNext /\ CpuSame /\ KvmSame /\ UNCHANGED <<part, calc, cc>>

CpuNext ==
  \/ StepTasks \/ StepModes \/ StepMmu \/ StepDebug \/ StepMsr \/ StepLoop
  \/ StepInt \/ StepFlags \/ StepStrings
CpuSpec == CpuInit /\ [][CpuNext]_cpu_vars

\* The flags, when blocks are chained.
StepChained == part = "flags" /\ Chained /\ CpuSame /\ KvmSame /\ UNCHANGED <<part, calc, rep>>
ChainedSpec == CpuInit /\ [][StepFlags \/ StepChained]_cpu_vars

-----------------------------------------------------------------------------
(* Constants *)

\* The same kernel with a 16-bit TSS for its second task.
MCGdt16 == [MCGdt EXCEPT ![14].attr.b = FALSE]
MCBytes == {0, 5, 6, 9, 16, 25, 80, 85, 117, 133, 144, 153}
MCOperands == {<<0, 1>>, <<255, 1>>, <<128, 253>>, <<32639, 2>>, <<400, 15>>, <<16, 264>>,
               <<127, 129>>, <<5, 9>>}
MCFlagWords == {0, 1, 2261}

-----------------------------------------------------------------------------
(* Properties: each part's, of the behaviours of that part *)

\* The four copies of the privilege level agree (seg_helper.c), until a call gate
\* leads to conforming code of another level.
SegmentsAtLevel == part = "tasks" => SegmentsAtPrivilege
\* No task that may still be returned to can be entered by a gate.
TasksBusyWhileLinked == part = "tasks" => TasksLinked
\* VERR, VERW, LAR and LSL agree with what the loads of segments do.
QueriesPredictLoads == part = "tasks" => QueriesAgree
\* IRET, far RET, SYSRET and SYSEXIT go back to where the entry was made from,
\* and a switch of tasks to where the task was left.
TransfersReturn == [][part = "tasks" => ReturnsWhereLeft /\ ResumesWhereLeft]_cpu_vars
\* A task that is switched to goes on where it was left, as switch_tss's
\* "save the current state in the old TSS" says.
TasksResume == [][part = "tasks" => ResumesWhereLeft]_cpu_vars
\* Delivering an exception ends, if need be by the triple fault's reset.
FaultsEscalate == [][part = "tasks" => Escalates]_cpu_vars
\* hflags, hflags2 and the interception follow the registers and the mode,
\* through resets, SMM, nested machines, migration and KVM, as long as
\* update_cr0 has not got in the way of a mode that was left: it returns early
\* when paging comes back with LME and without PAE, and hflags stay as they were.
ModeFlagsCoherent == part = "modes" /\ ~left_at.lost => HflagsCoherent /\ NestedStateGone
\* RSM, #VMEXIT and VMRUN bring back all of the CPU they resume, unless update_cr0
\* refuses the paging they restore, or enters long mode with it.
ModesReturn == [][part = "modes" /\ ~left_at'.lost => BroughtBackFromModes]_cpu_vars
\* The TLB holds what the guest's tables say.
TlbAsTables == part = "mmu" => TlbFaithful /\ FillsResolve
\* Breakpoints of the guest are armed as the emulator reads its debug registers,
\* and those of gdb as asked for.
BreakpointsArmed == part = "debug" => ArmedAsRegisters /\ CauseInDr6 /\ GdbStops
\* What the guest enabled in DR7 is armed: "break/watchpoints for dr[0..3]".
GuestStops == part = "debug" => ArmedAsArchitected
\* Model-specific registers do not overlap, and machine checks are not lost.
MsrsKept == [][part = "msr" => RegistersApart /\ ErrorsKept]_cpu_vars
\* An interrupt line that is up reaches the guest that can take it.
IrqsRemembered == part = "loop" => NoIrqForgotten
\* And is given to a guest only then.
GivenWhenOpen == [][part = "loop" => WhenOpen]_cpu_vars
\* The helpers' arithmetic is the processor's.
ArithmeticRight == part = "int" => DivisionsAgree /\ DecimalsRight /\ RotationsCompose
\* The flags are what a processor that computes them at once has, until a fault or a
\* LOOPZ leaves CC_OP and CC_SRC apart.
FlagsOnDemand == part = "flags" => FlagsAsEager
\* An interrupted repeated string instruction does everything once.
ElementsOnce == part = "strings" => StringsOnce
=============================================================================
