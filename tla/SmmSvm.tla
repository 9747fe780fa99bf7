------------------------------- MODULE SmmSvm -------------------------------
(***************************************************************************)
(* System management mode (target-i386/smm_helper.c) and the nested        *)
(* virtual machine of AMD's SVM (target-i386/svm_helper.c): each leaves    *)
(* the CPU in a state of its own and has to bring back the other.  Both    *)
(* save the registers, not hflags, which is put together again by loading  *)
(* them in a certain order.                                                *)
(*                                                                         *)
(* Here env has, besides what CpuState uses: hflags2, smbase, dr7,         *)
(* intercept (the set of events that leave the nested machine) and virq    *)
(* (CPU_INTERRUPT_VIRQ is pending).  GDTR, IDTR, CR2, CR3, the general     *)
(* registers and the interrupt shadow are left out.                        *)
(***************************************************************************)
EXTENDS CpuState

AllFlags == {"IF", "TF", "NT", "VM", "RF", "AC", "ID", "IOPL"}
NoFlags == [eflags |-> {}, iopl |-> 0]

LoadSaved(e, reg, seg) == LoadSegCache(e, reg, seg.sel, seg.base, seg.attr)
\* The order of the segment registers: ES, CS, SS and the rest.
LoadAll(e, segs) ==
  LoadSaved(LoadSaved(LoadSaved(e, "CS", segs.CS), "SS", segs.SS), "DS", segs.DS)

\* What both keep of the CPU.
Saved(e) ==
  [segs |-> e.segs, efer |-> e.efer, cr0 |-> e.cr0, cr4 |-> e.cr4, eip |-> e.eip,
   eflags |-> e.eflags, iopl |-> e.iopl, dr7 |-> e.dr7]

-----------------------------------------------------------------------------
(* System management mode *)

SaveStateMap(e) == [cpu |-> Saved(e), smbase |-> e.smbase]

\* do_smm_enter: what the handler starts with.  CPL stays what it was.
SmmStart(e, target64) ==
  LET e1 == [e EXCEPT !.hflags = @ \cup {"SMM"}]
      e2 == IF target64 THEN LoadEfer(e1, {}) ELSE e1
      e3 == [LoadEflags(e2, NoFlags, AllFlags) EXCEPT !.eip = 0]
      flat == Segment(NullSel, 0, NoAttr)
      e4 == LoadAll(e3, [CS |-> Segment(Sel(e.smbase, 0), 1, NoAttr), SS |-> flat, DS |-> flat])
      e5 == UpdateCr0(e4, e4.cr0 \ {"PE", "EM", "TS", "PG"})
  IN  [UpdateCr4(e5, {}) EXCEPT !.dr7 = {}]

\* helper_rsm of a 64-bit build: EFER comes first, CR0 last.
helper_rsm64_Cr0BeforeCr4(e, m) ==
  LET e1 == LoadAll(LoadEfer(e, m.cpu.efer), m.cpu.segs)
      e2 == LoadEflags([e1 EXCEPT !.eip = m.cpu.eip, !.dr7 = m.cpu.dr7], m.cpu, AllFlags)
      e3 == UpdateCr4(UpdateCr0(e2, m.cpu.cr0), m.cpu.cr4)
  IN  [e3 EXCEPT !.smbase = m.smbase, !.hflags = @ \ {"SMM"}]
helper_rsm64(e, m) ==
  LET e1 == LoadAll(LoadEfer(e, m.cpu.efer), m.cpu.segs)
      e2 == LoadEflags([e1 EXCEPT !.eip = m.cpu.eip, !.dr7 = m.cpu.dr7], m.cpu, AllFlags)
      e3 == UpdateCr0(UpdateCr4(e2, m.cpu.cr4), m.cpu.cr0)
  IN  [e3 EXCEPT !.smbase = m.smbase, !.hflags = @ \ {"SMM"}]

\* Of a 32-bit build: CR0 and EFLAGS come before the segments.
helper_rsm32(e, m) ==
  LET e1 == LoadEflags(UpdateCr0(e, m.cpu.cr0), m.cpu, AllFlags)
      e2 == LoadAll([e1 EXCEPT !.eip = m.cpu.eip, !.dr7 = m.cpu.dr7], m.cpu.segs)
  IN  [UpdateCr4(e2, m.cpu.cr4) EXCEPT !.smbase = m.smbase, !.hflags = @ \ {"SMM"}]

-----------------------------------------------------------------------------
(* The nested machine.  vmcb.save is its state, vmcb.control what it is    *)
(* run with: intercepts, msrpm, masking (V_INTR_MASKING), virq (V_IRQ) and *)
(* the event to be injected.                                               *)

VmcbSave(e) == [cpu |-> Saved(e), cpl |-> e.cpl]
\* The host's CPL is not kept: VMRUN is privileged.
Hsave(e, next_eip) == [Saved(e) EXCEPT !.eip = next_eip]

\* svm_load_seg_cache: ES comes first, then CS and SS, and DS.
LoadVmcbSegs(e, segs) == LoadAll(LoadSaved(e, "DS", segs.DS), segs)

\* The end both ways have in common: EFER is loaded after the control
\* registers, EFLAGS from nothing, the segments last.
LoadMachine(e, m) ==
  LET e1 == LoadEfer(UpdateCr4(UpdateCr0(e, m.cr0), m.cr4), m.efer)
      e2 == LoadEflags([e1 EXCEPT !.eflags = {}, !.iopl = 0], m, AllFlags)
  IN  [LoadVmcbSegs(e2, m.segs) EXCEPT !.eip = m.eip, !.dr7 = m.dr7]

helper_vmrun(e, vmcb) ==
  LET c == vmcb.control
      masked == IF ~c.masking THEN {} ELSE {"VINTR"} \cup (IF "IF" \in e.eflags THEN {"HIF"} ELSE {})
      e1 == [e EXCEPT !.intercept = c.intercept, !.hflags = @ \cup {"SVMI"},
                      !.hflags2 = (@ \ {"HIF", "VINTR"}) \cup masked]
      e2 == SetCpl(LoadMachine(e1, vmcb.save.cpu), vmcb.save.cpl)
  IN  [e2 EXCEPT !.hflags2 = @ \cup {"GIF"}, !.virq = e.virq \/ c.virq]

\* The event the machine starts with: delivered at once if it is an
\* interrupt, else by the CPU loop, after the helper.
InjectEvent(event, eip) ==
  IF event.type = "NONE" THEN NoExc
  ELSE [intno |-> IF event.type = "NMI" THEN 2 ELSE event.vector,
        is_int |-> event.type = "SOFT",
        next_eip |-> IF event.type \in {"NMI", "SOFT"} THEN eip ELSE -1]

\* helper_svm_check_intercept_param: is the event to be taken to the host?
Intercepted(e, vmcb, event) ==
  /\ "SVMI" \in e.hflags
  /\ event[1] \in e.intercept
  /\ event[1] = "MSR" => event[2] \in vmcb.control.msrpm

\* helper_vmexit: the nested machine is saved in its VMCB...
VmcbAfter(e, vmcb, code) ==
  [vmcb EXCEPT !.save = VmcbSave(e), !.control.virq = e.virq, !.control.exit = code]
\* ... and the host comes back, with CR0.PE set and VM clear.
HostAfter(e, hsave) ==
  LET e1 == [e EXCEPT !.hflags2 = @ \ {"HIF", "VINTR"}, !.hflags = @ \ {"SVMI"},
                      !.intercept = {}, !.virq = FALSE]
      e2 == SetCpl(LoadMachine(e1, [hsave EXCEPT !.cr0 = @ \cup {"PE"}]), 0)
  IN  [e2 EXCEPT !.hflags2 = @ \ {"GIF"}, !.cr0 = @ \cup {"PE"}, !.eflags = @ \ {"VM"}]
=============================================================================
