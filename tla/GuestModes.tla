------------------------------ MODULE GuestModes ------------------------------
(***************************************************************************)
(* A guest that changes what mode its CPU is in, by every way there is:    *)
(* writing control registers and EFER (misc_helper.c), loading segments,   *)
(* system management interrupts, running a nested machine, a reset         *)
(* (helper.c); and a host that saves and loads it (machine.c) or keeps its *)
(* registers in KVM (kvm.c).                                               *)
(***************************************************************************)
EXTENDS SmmSvm

CONSTANTS
  ModeBoot,  \* profile -> the CPU as its system software has set it up
  ModeUse,   \* profile -> what its software does: sets of values and of means
  Vmcbs      \* the machines hypervisors may start: a sequence

VARIABLES
  mode_profile,
  smram,     \* the SMM state save map
  hsave,     \* the hypervisor's save area
  vmcb,      \* the VMCB of the last nested machine
  event,     \* the exception or interrupt VMRUN starts with
  kvm,       \* the vCPU's registers in KVM
  synced,    \* (history) kvm has what env has
  left_at    \* (history) the CPU where SMM, and where the nested machine, was entered;
             \* lost: update_cr0 has done something else on the way back

InSmm == "SMM" \in env.hflags
Uses == IF InSmm THEN [ModeUse.handler EXCEPT !.target64 = ModeUse[mode_profile].target64]
        ELSE ModeUse[mode_profile]
InGuest == "SVMI" \in env.hflags
\* A save area that has been loaded is forgotten.
Forgotten == Saved(ModeBoot[mode_profile])

-----------------------------------------------------------------------------
(* KVM *)

KeptByKvm(e) ==
  [segs |-> e.segs, efer |-> e.efer, cr0 |-> e.cr0, cr4 |-> e.cr4,
   eip |-> e.eip, eflags |-> e.eflags, iopl |-> e.iopl]

\* set_seg, set_v8086_seg: the DPL is the selector's RPL, SS gets CS's.
set_seg(seg, vm) ==
  IF vm THEN [seg EXCEPT !.attr = [Attr("data", 3) EXCEPT !.b = FALSE]]
  ELSE [seg EXCEPT !.attr.dpl = seg.sel.rpl]
kvm_put_sregs(e) ==
  LET vm == "VM" \in e.eflags
      segs == [r \in SegRegs |-> set_seg(e.segs[r], vm)]
      rpl == segs.CS.sel.rpl
  IN  IF vm \/ "PE" \notin e.cr0 THEN segs
      ELSE [segs EXCEPT !.SS.sel.rpl = rpl, !.SS.attr.dpl = rpl]

\* The hidden flags kvm_get_sregs computes, and leaves alone.
Computed == {"PE", "MP", "EM", "TS", "OSFXSR", "LMA", "CS32", "SS32", "CS64", "ADDSEG"}
Hflags(e) ==
  LET long == "LMA" \in e.efer /\ e.segs.CS.attr.l
      cs32 == IF e.segs.CS.attr.b THEN {"CS32"} ELSE {}
      ss32 == IF e.segs.SS.attr.b THEN {"SS32"} ELSE {}
      addseg == AddsSegment([e EXCEPT !.hflags = cs32])
  IN  (e.cr0 \cap ({"PE"} \cup FpuBits)) \cup (e.cr4 \cap {"OSFXSR"}) \cup (e.efer \cap {"LMA"})
        \cup IF long THEN {"CS32", "SS32", "CS64"}
             ELSE cs32 \cup ss32 \cup (IF addseg THEN {"ADDSEG"} ELSE {})

kvm_get_sregs_EferLast(e, k) ==
  LET e1 == [e EXCEPT !.segs = k.segs, !.cr0 = k.cr0, !.cr4 = k.cr4]
      cpl == k.segs.CS.attr.dpl
  IN  [e1 EXCEPT !.cpl = cpl, !.hflags = (@ \ Computed) \cup Hflags(e1), !.efer = k.efer]
kvm_get_sregs(e, k) ==
  LET e1 == [e EXCEPT !.segs = k.segs, !.cr0 = k.cr0, !.cr4 = k.cr4, !.efer = k.efer]
      cpl == k.segs.CS.attr.dpl
  IN  [e1 EXCEPT !.cpl = cpl, !.hflags = (@ \ Computed) \cup Hflags(e1)]

kvm_getput_regs(e, k) == [e EXCEPT !.eip = k.eip, !.eflags = k.eflags, !.iopl = k.iopl]

\* kvm_arch_get_registers; request n is refused (0: none).
kvm_arch_get_registers(e, k, n) ==
  IF n = 1 THEN e
  ELSE IF n = 2 THEN kvm_getput_regs(e, k)
  ELSE kvm_get_sregs(kvm_getput_regs(e, k), k)

kvm_arch_put_registers(e, k, n) ==
  LET regs == [k EXCEPT !.eip = e.eip, !.eflags = e.eflags, !.iopl = e.iopl] IN
  IF n = 1 THEN k
  ELSE IF n = 2 THEN regs
  ELSE [regs EXCEPT !.segs = kvm_put_sregs(e), !.cr0 = e.cr0, !.cr4 = e.cr4, !.efer = e.efer]

-----------------------------------------------------------------------------
(* Reset and snapshots *)

\* cpu_reset
ResetCpu(e) ==
  LET zero == [e EXCEPT !.hflags = {}, !.hflags2 = {"GIF"}, !.cr0 = {}, !.cr4 = {}, !.efer = {},
                        !.eflags = {}, !.iopl = 0, !.cpl = 0, !.eip = 0, !.dr7 = {},
                        !.intercept = {}, !.smbase = 30]
      real(kind) == [Attr(kind, 0) EXCEPT !.b = FALSE]
      data == Segment(NullSel, 0, real("data"))
  IN  LoadAll(UpdateCr0(zero, {}),
              [CS |-> Segment(Sel(15, 0), 1, real("code")), SS |-> data, DS |-> data])

\* do_cpu_init keeps no request but a SIPI.
do_cpu_init(e) == [ResetCpu(e) EXCEPT !.virq = FALSE]

\* cpu_save and cpu_load.  Before version 4 SMBASE was not in the stream, and
\* before version 5 nothing of SVM was.  (The requests are saved elsewhere.)
CPU_SAVE_VERSION == 10
cpu_save(e, version) == [version |-> version, cpu |-> e]
cpu_load(e, stream) ==
  LET c == stream.cpu  v == stream.version
      svm == IF v >= 5 THEN c ELSE e
  IN  IF v \notin 3 .. CPU_SAVE_VERSION THEN e
      ELSE [c EXCEPT !.smbase = IF v >= 4 THEN c.smbase ELSE e.smbase,
                     !.hflags2 = svm.hflags2, !.intercept = svm.intercept]

-----------------------------------------------------------------------------
(* The constants *)

EnvFields == {"segs", "efer", "cr0", "cr4", "eip", "eflags", "iopl", "dr7", "cpl", "hflags",
              "hflags2", "smbase", "intercept", "virq"}
SavedFields == {"segs", "efer", "cr0", "cr4", "eip", "eflags", "iopl", "dr7"}

SoundSegment(s) ==
  /\ s = Segment(s.sel, s.base, s.attr)
  /\ DOMAIN s.attr = DOMAIN NoAttr /\ {s.attr.b, s.attr.l} \subseteq BOOLEAN

\* No 32-bit code in virtual 8086 mode, and no long mode without paging.
SoundCpu(c) ==
  /\ c.segs = [r \in SegRegs |-> c.segs[r]] /\ \A r \in SegRegs : SoundSegment(c.segs[r])
  /\ c.eflags \subseteq AllFlags
  /\ "VM" \in c.eflags => ~c.segs.CS.attr.b
  /\ "LMA" \in c.efer => "PG" \in c.cr0
UserInVm86(c, cpl) == "VM" \in c.eflags => cpl # 0

\* A CPU as it may start, and a nested machine as VMRUN may find it.
SoundBoot(e) ==
  /\ e = [f \in EnvFields |-> e[f]] /\ SoundCpu(e) /\ UserInVm86(e, e.cpl)
  /\ e.hflags = Hflags(e) \cup (e.efer \cap {"SVME"}) /\ e.hflags2 = {"GIF"}
  /\ e.intercept = {} /\ e.virq = FALSE
SoundVmcb(v) ==
  /\ v = [save |-> [cpu |-> v.save.cpu, cpl |-> v.save.cpl], control |-> v.control]
  /\ v.control = [f \in {"intercept", "msrpm", "masking", "virq", "event", "exit"} |-> v.control[f]]
  /\ v.save.cpu = [f \in SavedFields |-> v.save.cpu[f]]
  /\ SoundCpu(v.save.cpu) /\ UserInVm86(v.save.cpu, v.save.cpl)
  /\ v.control.exit = <<>>

\* What the software of a profile does is given by these.  A 32-bit build has
\* no EFER; what KVM runs does not use QEMU's SMM and SVM.
UseFields == {"cr0", "cr4", "efer", "low", "code", "data", "means", "kvm_runs", "vms", "target64"}
SoundUse(u) ==
  /\ u = [f \in UseFields |-> u[f]] /\ u.target64 \in BOOLEAN
  /\ \A val \in u.efer : "LMA" \notin val
  /\ \A seg \in u.code \cup u.data : SoundSegment(seg)
  /\ u.kvm_runs \subseteq DOMAIN ModeBoot /\ u.vms \subseteq DOMAIN Vmcbs
  /\ ~u.target64 => u.efer \subseteq {{}} /\ "kvm" \notin u.means
  /\ "kvm" \in u.means => "smi" \notin u.means /\ u.vms = {}

ASSUME ModeAssumption ==
  /\ DOMAIN ModeUse = DOMAIN ModeBoot \cup {"handler"}
  /\ \A p \in DOMAIN ModeBoot : SoundBoot(ModeBoot[p])
  /\ \A p \in DOMAIN ModeUse : SoundUse(ModeUse[p])
  /\ {"kvm", "smi"} \cap ModeUse.handler.means = {}
  /\ \A p \in DOMAIN ModeBoot : ~ModeUse[p].target64 =>
       ModeBoot[p].efer = {} /\ ModeUse.handler.efer \subseteq {{}}
  /\ 1 \in DOMAIN Vmcbs /\ \A i \in DOMAIN Vmcbs : SoundVmcb(Vmcbs[i])

-----------------------------------------------------------------------------
(* What the software does *)

ModesInit ==
  /\ \E p \in DOMAIN ModeBoot : mode_profile = p /\ env = ModeBoot[p]
  /\ smram = SaveStateMap(env) /\ hsave = Forgotten /\ event = NoExc
  /\ vmcb = Vmcbs[1]
  /\ kvm = KeptByKvm(env) /\ synced = FALSE
  /\ left_at = [smm |-> Forgotten, host |-> Forgotten, guest |-> Forgotten, lost |-> FALSE]

Unchanged_but_env == UNCHANGED <<mode_profile, smram, hsave, vmcb, event, kvm, synced, left_at>>

\* helper_vmexit
Vmexit(code) ==
  /\ vmcb' = VmcbAfter(env, vmcb, code)
  /\ env' = HostAfter(env, hsave)
  /\ event' = NoExc /\ hsave' = Forgotten
  /\ left_at' = [left_at EXCEPT !.guest = Saved(env), !.host = Forgotten,
                                !.lost = @ \/ Cr0Refused(env, hsave.cr0)]
  /\ UNCHANGED <<mode_profile, smram, kvm, synced>>

Next_instruction(e) == [e EXCEPT !.eip = 1 - @]

\* A privileged instruction a hypervisor may want to see.
Privileged(ev, e) ==
  /\ env.cpl = 0 /\ event = NoExc /\ ~synced
  /\ IF Intercepted(env, vmcb, ev) THEN Vmexit(ev)
     ELSE env' = Next_instruction(e) /\ Unchanged_but_env

\* What software does not ask for: paging without protection, and long mode
\* entered or left in a 64-bit segment.
SoundCr0(e, new) ==
  /\ "PG" \in new => "PE" \in new
  /\ ("PG" \in e.cr0) # ("PG" \in new) /\ {"LME", "LMA"} \cap e.efer # {} => ~e.segs.CS.attr.l
  /\ "VM" \notin e.eflags

\* helper_write_crN
WriteCr0(new) == SoundCr0(env, new) /\ Privileged(<<"CR0">>, UpdateCr0(env, new))
WriteCr4(new) == Privileged(<<"CR4">>, UpdateCr4(env, new))

\* helper_lmsw: only TS, EM and MP change, and PE is not cleared.
helper_lmsw(low) ==
  LET new == (env.cr0 \ FpuBits) \cup low IN
  SoundCr0(env, new) /\ Privileged(<<"CR0">>, UpdateCr0(env, new))

\* helper_wrmsr(MSR_EFER): LMA is not among the bits that can be written.
WriteEfer(val) ==
  Privileged(<<"MSR", "EFER">>, LoadEfer(env, val \cup (env.efer \cap {"LMA"})))

\* Loads of a segment, by an instruction that has been let through.
LoadSegment(reg, seg) ==
  /\ event = NoExc /\ ~synced
  /\ env' = IF "PE" \in env.cr0 /\ "VM" \notin env.eflags
              THEN Next_instruction(LoadSaved(env, reg, seg))
            ELSE [Next_instruction(env) EXCEPT !.segs[reg].sel = seg.sel, !.segs[reg].base = seg.base]
  /\ Unchanged_but_env
FarLoad(seg) ==
  /\ env.cpl = 0 /\ seg.attr.dpl = env.cpl
  /\ seg.attr.l => "LMA" \in env.efer
  /\ LoadSegment("CS", seg)

\* A hardware interrupt, NMI or the like: to the hypervisor.
Preempt == InGuest /\ event = NoExc /\ Vmexit(<<"INTR">>)

\* The CPU loop delivers what VMRUN injected, and takes a virtual interrupt.
InjectedIsDelivered == event # NoExc /\ event' = NoExc
  /\ UNCHANGED <<env, mode_profile, smram, hsave, vmcb, kvm, synced, left_at>>
VirtualInterrupt ==
  /\ InGuest /\ env.virq /\ "IF" \in env.eflags /\ event = NoExc
  /\ env' = [env EXCEPT !.virq = FALSE] /\ Unchanged_but_env

\* VMRUN, of a new machine or to go on with the last one.
Vmrun(v, fresh) ==
  /\ env.cpl = 0 /\ "PE" \in env.cr0 /\ "SVME" \in env.efer /\ ~InGuest /\ ~InSmm /\ ~synced
  /\ hsave' = Hsave(env, Next_instruction(env).eip)
  /\ vmcb' = v /\ env' = helper_vmrun(env, v)
  /\ event' = IF fresh THEN InjectEvent(v.control.event, v.save.cpu.eip) ELSE NoExc
  /\ left_at' = [left_at EXCEPT !.host = Hsave(env, Next_instruction(env).eip),
                                !.guest = v.save.cpu, !.lost = @ \/ Cr0Refused(env, v.save.cpu.cr0)]
  /\ UNCHANGED <<mode_profile, smram, kvm, synced>>
Resume == vmcb.control.exit # <<>> /\ Vmrun(vmcb, FALSE)

\* do_smm_enter; the CPU loop takes an SMI between two instructions.
Smi ==
  /\ "smi" \in Uses.means /\ ~InSmm /\ ~InGuest
  /\ smram' = SaveStateMap(env) /\ env' = SmmStart(env, Uses.target64)
  /\ left_at' = [left_at EXCEPT !.smm = Saved(env)]
  /\ UNCHANGED <<mode_profile, hsave, vmcb, event, kvm, synced>>
\* The handler may have moved SMRAM; the bits below 32k are dropped.  A 64-bit
\* build sets CR0 when EFER and CR4 are back, so that it may not be set, or set LMA.
LostByRsm ==
  /\ Uses.target64 /\ Enters([env EXCEPT !.efer = smram.cpu.efer], smram.cpu.cr0)
  /\ "PAE" \notin smram.cpu.cr4 \/ "LMA" \notin smram.cpu.efer
Rsm(smbase) ==
  /\ InSmm
  /\ LET m == [smram EXCEPT !.smbase = smbase] IN
     env' = IF Uses.target64 THEN helper_rsm64(env, m) ELSE helper_rsm32(env, m)
  /\ smram' = SaveStateMap(ModeBoot[mode_profile])
  /\ left_at' = [left_at EXCEPT !.smm = Forgotten, !.lost = @ \/ LostByRsm]
  /\ UNCHANGED <<mode_profile, hsave, vmcb, event, kvm, synced>>

ResetMachine == env' = do_cpu_init(env) /\ event' = NoExc
  /\ "reset" \in Uses.means /\ ~synced
  /\ UNCHANGED <<mode_profile, smram, hsave, vmcb, kvm, synced, left_at>>

\* The machine goes on in a new process, whose CPU has just been reset.  A
\* stream of an old version is from a QEMU that could not do what it lacks.
Migrate(version) ==
  /\ "migrate" \in Uses.means /\ event = NoExc
  /\ version < 5 => env.hflags2 = {"GIF"} /\ ~InGuest /\ env.smbase = 30
  /\ env' = cpu_load(ResetCpu(env), cpu_save(env, version))
  /\ Unchanged_but_env

\* KVM runs the guest on its own registers; QEMU fetches them, or puts them
\* back; a request may be refused.
PutRegisters(n) ==
  /\ "kvm" \in Uses.means /\ ~synced
  /\ kvm' = kvm_arch_put_registers(env, kvm, n) /\ synced' = (n = 0)
  /\ UNCHANGED <<env, mode_profile, smram, hsave, vmcb, event, left_at>>
KvmRuns(k) ==
  /\ synced /\ kvm' = KeptByKvm(k)
  /\ UNCHANGED <<env, mode_profile, smram, hsave, vmcb, event, synced, left_at>>
GetRegisters(n) ==
  /\ synced
  /\ env' = kvm_arch_get_registers(env, kvm, n) /\ synced' = (n # 0)
  /\ UNCHANGED <<mode_profile, smram, hsave, vmcb, event, kvm, left_at>>

ModesNext ==
  \/ \E v \in Uses.cr0 : WriteCr0(v)
  \/ \E v \in Uses.cr4 : WriteCr4(v)
  \/ \E v \in Uses.efer : WriteEfer(v)
  \/ \E v \in Uses.low : helper_lmsw(v)
  \/ \E seg \in Uses.code : FarLoad(seg)
  \/ \E seg \in Uses.data : LoadSegment("DS", seg) \/ LoadSegment("SS", seg)
  \/ \E i \in Uses.vms : Vmrun(Vmcbs[i], TRUE)
  \/ Resume \/ Preempt \/ InjectedIsDelivered \/ VirtualInterrupt
  \/ Smi \/ \E base \in {30, 40} : Rsm(base)
  \/ ResetMachine \/ \E v \in {3, CPU_SAVE_VERSION} : Migrate(v)
  \/ \E n \in 0 .. 2 : PutRegisters(n) \/ GetRegisters(n)
  \/ \E p \in Uses.kvm_runs : KvmRuns(ModeBoot[p])
-----------------------------------------------------------------------------
(* Properties *)

\* hflags is what the other registers say it is, by the computation that
\* kvm.c does from them, however the mode was come to: with ADDSEG set where
\* it need not be, and SS32 and ADDSEG of no account in 64-bit code.
HflagsCoherent ==
  ~synced =>
    LET h == Hflags(env)
        free == IF "CS64" \in h THEN {"ADDSEG", "SS32"} ELSE {"ADDSEG"}
    IN  /\ (env.hflags \cap Computed) \ free = h \ free
        /\ "ADDSEG" \in h => "ADDSEG" \in env.hflags
        /\ "kvm" \notin Uses.means => ("SVME" \in env.hflags <=> "SVME" \in env.efer)

\* Nothing of a nested machine's controls outlives it, and while it runs they
\* are its VMCB's: what is intercepted, and whose IF masks interrupts.
NestedStateGone ==
  IF InGuest
    THEN /\ env.intercept = vmcb.control.intercept
         /\ "VINTR" \in env.hflags2 => ("HIF" \in env.hflags2 <=> "IF" \in hsave.eflags)
    ELSE env.intercept = {} /\ ~env.virq /\ {"HIF", "VINTR"} \cap env.hflags2 = {}

\* RSM brings back the CPU that was interrupted, #VMEXIT the hypervisor after
\* its VMRUN, and VMRUN the machine as #VMEXIT left it: registers that are
\* loaded one by one, each into a CPU that is still half in the other mode.
WasReset == env' = do_cpu_init(env)
BroughtBackFrom(mode, was) == mode /\ ~mode' /\ ~WasReset => Saved(env)' = was
BroughtBackFromModes ==
  /\ BroughtBackFrom(InSmm, left_at.smm)
  /\ BroughtBackFrom(InGuest, left_at.host)
  /\ ~InGuest /\ InGuest' => Saved(env)' = left_at'.guest /\ Saved(env)' = vmcb'.save.cpu
=============================================================================
