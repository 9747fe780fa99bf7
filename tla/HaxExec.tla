------------------------------- MODULE HaxExec -------------------------------
(***************************************************************************)
(* The vCPU loop of QEMU's HAX accelerator (target-i386/hax-all.c): the    *)
(* guest runs in the driver while it pages, and in QEMU's emulator when    *)
(* the driver wants an instruction emulated or paging is off.  Its state   *)
(* lives in two places, CPUX86State and the driver, and is carried over by *)
(* hax_vcpu_sync_state.  Another thread kicks the vCPU and raises its      *)
(* interrupt line at any point of the loop.                                *)
(*                                                                         *)
(* The guest, the driver, the emulator and that other thread (cpus.c) are  *)
(* external.  A guest does something that shows in every register group:   *)
(* its state is one of four, of which the third is in virtual 8086 mode    *)
(* and the fourth is user code in a conforming segment of the kernel; it   *)
(* writes EFER at will.  QEMU is that of the 64-bit target, as only its    *)
(* hax_set_msrs writes EFER.  Requests about a vCPU that is set up are taken to succeed, but for      *)
(* HAX_VCPU_IOCTL_RUN.                                                     *)
(***************************************************************************)
EXTENDS HaxDevice

CONSTANTS
  MaxIrqs,  \* interrupts the PIC may have pending
  Efers     \* values of EFER, of which 0 is that of a reset
ASSUME MaxIrqsAssumption == MaxIrqs \in Nat
ASSUME EfersAssumption == 0 \in Efers

VARIABLES
  at,      \* idle, loop, irq, enter, driver, exit, emul, tb_end, aborted
  emulation_state,
  guest,   \* (history) the guest's state, wherever it runs
  efer,    \* (history) the EFER it wrote last
  env,     \* CPUX86State
  drv,     \* the driver's registers
  tunnel,  \* struct hax_tunnel
  cpu,     \* interrupt_request, exit_request, halted of CPUState
  pic,     \* interrupts pending in the PIC
  kicker,  \* the other thread has still to call hax_raise_event
  entry    \* (history) interrupts injected since the last entry

exec_vars == <<at, emulation_state, guest, efer, env, drv, tunnel, cpu, pic, kicker, entry>>
vars == <<device_vars, exec_vars>>

-----------------------------------------------------------------------------
(* The two copies of the guest's registers *)

Guests == 0 .. 3
VM(g) == g = 2
Conforming == 3
Cpl(g) == IF g = 0 THEN 0 ELSE 3

\* What the driver holds for a guest: segments in order for VM entry.  The code
\* segment's own privilege is the guest's, unless it is conforming.
Driver(g, pg, x) ==
  [gpr |-> g, msr |-> g, efer |-> x, fsw_top |-> g, pg |-> pg,
   cs |-> [rpl |-> IF VM(g) THEN 1 ELSE Cpl(g), dpl |-> IF g = Conforming THEN 0 ELSE Cpl(g)],
   ss |-> [rpl |-> IF VM(g) THEN 1 ELSE Cpl(g), dpl |-> Cpl(g)]]

\* What the emulator has after running it: 8086 segments have no attributes,
\* SS may still be from real mode, and the stack top is not kept in fpus.  A
\* guest that stays in conforming code loads no CS: that and the level are what
\* they were.
Emulated(g, pg, x, e) ==
  LET stays == g = Conforming /\ e.gpr = Conforming IN
  [gpr |-> g, msr |-> g, efer |-> x, fpstt |-> g, fpus_top |-> e.fpus_top, pg |-> pg,
   cs |-> IF stays THEN e.cs
          ELSE [rpl |-> IF VM(g) THEN 1 ELSE Cpl(g),
                dpl |-> IF g \in {2, Conforming} THEN 0 ELSE Cpl(g)],
   ss |-> [rpl |-> IF Cpl(g) = 3 /\ ~VM(g) THEN 3 ELSE 1, dpl |-> IF VM(g) THEN 0 ELSE Cpl(g)],
   hflags |-> IF stays THEN e.hflags ELSE [cpl |-> Cpl(g), vm |-> VM(g)]]

ExecInit ==
  /\ at = "idle" /\ emulation_state = "INITIAL" /\ guest = 0 /\ efer = 0
  /\ env = Emulated(0, FALSE, 0, [gpr |-> 0, fpus_top |-> 0])
  /\ drv = Driver(0, FALSE, 0)
  /\ tunnel = [ready |-> FALSE, window |-> FALSE, pending |-> FALSE, status |-> "PAUSED"]
  /\ cpu = [hard |-> FALSE, exit_request |-> FALSE, halted |-> FALSE]
  /\ pic = 0 /\ kicker = FALSE /\ entry = 0

set_v8086_seg(s) == [rpl |-> s.rpl, dpl |-> 3]
set_seg(s) == [rpl |-> s.rpl, dpl |-> s.rpl]
get_seg(s) == s

\* With SS forced to the privilege of CS.
hax_set_segments(e) ==
  IF VM(e.gpr) THEN [cs |-> set_v8086_seg(e.cs), ss |-> set_v8086_seg(e.ss)]
  ELSE [cs |-> set_seg(e.cs), ss |-> [rpl |-> e.cs.rpl, dpl |-> e.cs.rpl]]

hax_get_segments(d) == [cs |-> get_seg(d.cs), ss |-> get_seg(d.ss)]

\* hflags, from what was just read.
hax_setup_qemu_emulator(gpr, cs) == [cpl |-> cs.dpl, vm |-> VM(gpr)]

\* fpus holds the top of the last read: it is masked out and fpstt put in.
hax_set_fpu(e) == e.fpstt
hax_get_fpu(d) == [fpstt |-> d.fsw_top, fpus_top |-> d.fsw_top]
\* Of the MSRs, EFER is among those written and not among those read.
hax_set_msrs(e) == [msr |-> e.msr, efer |-> e.efer]
hax_get_msrs(d) == [msr |-> d.msr]

\* hax_sync_vcpu_register, in the two directions.
RegistersToDriver(e) == [gpr |-> e.gpr, pg |-> e.pg, segs |-> hax_set_segments(e)]
RegistersFromDriver(d) ==
  LET segs == hax_get_segments(d) IN
  [gpr |-> d.gpr, pg |-> d.pg, segs |-> segs,
   hflags |-> hax_setup_qemu_emulator(d.gpr, segs.cs)]

hax_arch_set_registers(e) ==
  LET regs == RegistersToDriver(e) IN
  [gpr |-> regs.gpr, pg |-> regs.pg, cs |-> regs.segs.cs, ss |-> regs.segs.ss,
   fsw_top |-> hax_set_fpu(e), msr |-> hax_set_msrs(e).msr, efer |-> hax_set_msrs(e).efer]

hax_arch_get_registers(e, d) ==
  LET regs == RegistersFromDriver(d)  fpu == hax_get_fpu(d) IN
  [gpr |-> regs.gpr, pg |-> regs.pg, cs |-> regs.segs.cs, ss |-> regs.segs.ss,
   hflags |-> regs.hflags, fpstt |-> fpu.fpstt, fpus_top |-> fpu.fpus_top,
   msr |-> hax_get_msrs(d).msr, efer |-> e.efer]

\* hax_vcpu_sync_state
SyncToDriver == drv' = hax_arch_set_registers(env) /\ UNCHANGED env
SyncFromDriver == env' = hax_arch_get_registers(env, drv) /\ UNCHANGED drv

-----------------------------------------------------------------------------
(* hax_vcpu_exec and its loop *)

hax_vcpu_emulation_mode == ~env.pg

\* Called by the CPU loop, unless the vCPU is halted with nothing to do.
hax_vcpu_exec ==
  /\ at = "idle" /\ step = "running" /\ vcpus = Cpus
  /\ cpu.halted => cpu.hard
  /\ cpu' = [cpu EXCEPT !.halted = FALSE]
  /\ at' = IF emulation_state # "NONE" THEN "emul"
           ELSE IF hax_vcpu_emulation_mode THEN "idle" ELSE "loop"
  /\ UNCHANGED <<device_vars, emulation_state, guest, efer, env, drv, tunnel, pic, kicker, entry>>

\* What follows the loop in hax_vcpu_hax_exec: a kick has been answered.
AfterLoop(halted) ==
  cpu' = [cpu EXCEPT !.exit_request = FALSE, !.halted = halted]

CheckExitRequest_Ignored ==
  /\ at = "loop" /\ at' = "irq"
  /\ UNCHANGED <<device_vars, emulation_state, guest, efer, env, drv, tunnel, cpu, pic, kicker, entry>>
CheckExitRequest ==
  /\ at = "loop"
  /\ IF cpu.exit_request THEN at' = "idle" /\ AfterLoop(FALSE)
                         ELSE at' = "irq" /\ UNCHANGED cpu
  /\ UNCHANGED <<device_vars, emulation_state, guest, efer, env, drv, tunnel, pic, kicker, entry>>

\* The PIC drives the line for as long as it has an interrupt.
hax_vcpu_interrupt_BeforeCheck ==
  LET inject == tunnel.ready /\ cpu.hard
      left == IF inject /\ pic > 0 THEN pic - 1 ELSE pic
  IN
  /\ at = "irq" /\ at' = IF cpu.exit_request THEN "idle" ELSE "enter"
  /\ pic' = left
  /\ entry' = IF inject /\ pic > 0 THEN entry + 1 ELSE entry
  /\ cpu' = [cpu EXCEPT !.hard = IF inject THEN left > 0 ELSE @]
  /\ tunnel' = [tunnel EXCEPT !.window = cpu'.hard]
  /\ UNCHANGED <<device_vars, emulation_state, guest, efer, env, drv, kicker>>
hax_vcpu_interrupt ==
  LET inject == tunnel.ready /\ cpu.hard
      left == IF inject /\ pic > 0 THEN pic - 1 ELSE pic
  IN
  /\ at = "irq" /\ at' = "enter"
  /\ pic' = left
  /\ entry' = IF inject /\ pic > 0 THEN entry + 1 ELSE entry
  /\ cpu' = [cpu EXCEPT !.hard = IF inject THEN left > 0 ELSE @]
  /\ tunnel' = [tunnel EXCEPT !.window = cpu'.hard]
  /\ UNCHANGED <<device_vars, emulation_state, guest, efer, env, drv, kicker>>

\* hax_vcpu_run: what it returns when the driver refuses or is interrupted.
WinRunError == -EFAULT
DarwinRunError == -1
EINTR == 4
EAGAIN == 35
RunError == IF Host = "windows" THEN WinRunError ELSE DarwinRunError

Enter ==
  /\ at = "enter"
  /\ \/ at' = "driver" /\ entry' = 0
     \/ /\ at' = IF RunError \in {-EINTR, -EAGAIN} THEN "loop" ELSE "aborted"
        /\ UNCHANGED entry
  /\ UNCHANGED <<device_vars, emulation_state, guest, efer, env, drv, tunnel, cpu, pic, kicker>>

\* The driver refuses to run a vCPU for which an event is pending.  The guest
\* runs with paging on; the driver asks for emulation when it turns it off.
GuestStep ==
  /\ at = "driver" /\ ~tunnel.pending
  /\ \E g \in Guests, x \in Efers :
       LET stays == g = Conforming /\ guest = Conforming IN
       /\ (UNCHANGED efer /\ x = drv.efer) \/ efer' = x   \* EFER is written or not
       /\ guest' = g
       /\ drv' = [Driver(g, drv.pg, x) EXCEPT !.cs = IF stays THEN drv.cs ELSE @]
  /\ UNCHANGED <<device_vars, at, emulation_state, env, tunnel, cpu, pic, kicker, entry>>

Statuses == {"IO", "MMIO", "FAST_MMIO", "REAL", "STATECHANGE", "UNKNOWN", "HLT", "PAUSED"}
DriverExit ==
  /\ at = "driver" /\ at' = "exit"
  /\ \E ready \in BOOLEAN :
       \/ /\ tunnel.pending \/ (tunnel.window /\ ready)
          /\ tunnel' = [tunnel EXCEPT !.ready = ready, !.pending = FALSE, !.status = "INTERRUPT"]
          /\ UNCHANGED drv
       \/ \E status \in Statuses, pg \in BOOLEAN :
            /\ ~tunnel.pending
            /\ status # "REAL" => pg = drv.pg
            /\ tunnel' = [tunnel EXCEPT !.ready = ready, !.status = status]
            /\ drv' = [drv EXCEPT !.pg = pg]
  /\ UNCHANGED <<device_vars, emulation_state, guest, efer, env, cpu, pic, kicker, entry>>

\* hax_prepare_emulation flushes the emulator's caches and reads the registers.
hax_prepare_emulation == SyncFromDriver

\* The switch over the exit status that goes on with the loop.
\* hax_handle_fastmmio copies the control registers only.
ContinueLoop ==
  /\ at = "exit"
  /\ \/ tunnel.status \in {"IO", "FAST_MMIO", "INTERRUPT", "PAUSED"}
     \/ tunnel.status = "HLT" /\ cpu.hard
  /\ at' = "loop"
  /\ env' = IF tunnel.status = "FAST_MMIO" THEN [env EXCEPT !.pg = drv.pg] ELSE env
  /\ UNCHANGED <<device_vars, emulation_state, guest, efer, drv, tunnel, cpu, pic, kicker, entry>>

\* Statuses that leave it for the emulator (with hax_vcpu_exec's switch).
LeaveToEmulate_NoSync ==
  /\ at = "exit" /\ tunnel.status \in {"MMIO", "REAL"}
  /\ at' = "emul" /\ emulation_state' = tunnel.status
  /\ AfterLoop(cpu.halted) /\ UNCHANGED <<env, drv>>
  /\ UNCHANGED <<device_vars, guest, efer, tunnel, pic, kicker, entry>>
LeaveToEmulate ==
  /\ at = "exit" /\ tunnel.status \in {"MMIO", "REAL"}
  /\ at' = "emul" /\ emulation_state' = tunnel.status
  /\ AfterLoop(cpu.halted) /\ hax_prepare_emulation
  /\ UNCHANGED <<device_vars, guest, efer, tunnel, pic, kicker, entry>>

\* Halted: eflags of the stale copy get IF, which nothing reads before the
\* next synchronisation.
LeaveHalted ==
  /\ at = "exit" /\ tunnel.status = "HLT" /\ ~cpu.hard
  /\ at' = "idle" /\ AfterLoop(TRUE)
  /\ UNCHANGED <<device_vars, emulation_state, guest, efer, env, drv, tunnel, pic, kicker, entry>>

\* A shutdown or an exit nobody knows: the machine is reset before the vCPU
\* runs again, with hax_reset_vcpu_state among the reset handlers (the
\* emulator's registers are reset by QEMU's own).
LeaveAndReset ==
  /\ at = "exit" /\ tunnel.status \in {"STATECHANGE", "UNKNOWN"}
  /\ at' = "idle" /\ AfterLoop(FALSE)
  /\ emulation_state' = "INITIAL"
  /\ tunnel' = [tunnel EXCEPT !.pending = FALSE, !.ready = FALSE]
  /\ guest' = 0 /\ efer' = 0
  /\ env' = Emulated(0, FALSE, 0, hax_arch_get_registers(env, drv))
  /\ UNCHANGED <<device_vars, drv, pic, kicker, entry>>

-----------------------------------------------------------------------------
(* The emulator: one translation block, then hax_stop_emulation *)

EmulateBlock ==
  /\ at = "emul" /\ at' = "tb_end"
  /\ \E g \in Guests, pg \in BOOLEAN, x \in Efers :
       \* one instruction that touches memory writes no control register
       /\ emulation_state = "MMIO" => pg = env.pg
       /\ \/ UNCHANGED efer /\ x = env.efer
          \/ emulation_state # "MMIO" /\ efer' = x
       /\ guest' = g /\ env' = Emulated(g, pg, x, env)
  /\ UNCHANGED <<device_vars, emulation_state, drv, tunnel, cpu, pic, kicker, entry>>

hax_stop_tbloop ==
  \/ emulation_state = "MMIO"
  \/ emulation_state \in {"INITIAL", "REAL"} /\ ~hax_vcpu_emulation_mode

hax_stop_emulation ==
  /\ at = "tb_end"
  /\ IF hax_stop_tbloop
     THEN at' = "idle" /\ emulation_state' = "NONE" /\ SyncToDriver
     ELSE at' = "emul" /\ UNCHANGED <<emulation_state, env, drv>>
  /\ UNCHANGED <<device_vars, guest, efer, tunnel, cpu, pic, kicker, entry>>

\* The emulator's loop sees a kick between two blocks.
LeaveEmulator ==
  /\ at = "emul" /\ cpu.exit_request
  /\ at' = "idle" /\ AfterLoop(cpu.halted)
  /\ UNCHANGED <<device_vars, emulation_state, guest, efer, env, drv, tunnel, pic, kicker, entry>>

-----------------------------------------------------------------------------
(* The other thread: the request first, then hax_raise_event *)

Kick ==
  /\ ~kicker /\ kicker' = TRUE /\ vcpus = Cpus
  /\ cpu' = [cpu EXCEPT !.exit_request = TRUE]
  /\ UNCHANGED <<device_vars, at, emulation_state, guest, efer, env, drv, tunnel, pic, entry>>

RaiseIrq ==
  /\ ~kicker /\ kicker' = TRUE /\ vcpus = Cpus /\ pic < MaxIrqs
  /\ pic' = pic + 1 /\ cpu' = [cpu EXCEPT !.hard = TRUE]
  /\ UNCHANGED <<device_vars, at, emulation_state, guest, efer, env, drv, tunnel, entry>>

hax_raise_event ==
  /\ kicker /\ kicker' = FALSE
  /\ tunnel' = [tunnel EXCEPT !.pending = TRUE]
  /\ UNCHANGED <<device_vars, at, emulation_state, guest, efer, env, drv, cpu, pic, entry>>

-----------------------------------------------------------------------------

Init == DeviceInit /\ ExecInit

\* The vCPUs are made before any of them runs and go when it has stopped.
Device == at = "idle" /\ DeviceNext /\ UNCHANGED exec_vars

VcpuThread ==
  \/ hax_vcpu_exec \/ CheckExitRequest \/ hax_vcpu_interrupt \/ Enter
  \/ ContinueLoop \/ LeaveToEmulate \/ LeaveHalted \/ LeaveAndReset
  \/ EmulateBlock \/ hax_stop_emulation \/ LeaveEmulator

Next == Device \/ VcpuThread \/ GuestStep \/ DriverExit \/ Kick \/ RaiseIrq \/ hax_raise_event

\* The vCPU thread and the other thread run, and the driver returns when an
\* event is pending; nothing makes it return otherwise.  The emulator leaves
\* its loop when it is kicked.
Spec ==
  /\ Init /\ [][Next]_vars
  /\ WF_vars(VcpuThread) /\ WF_vars(hax_raise_event)
  /\ SF_vars(LeaveEmulator) /\ WF_vars(DriverExit /\ tunnel.pending)

-----------------------------------------------------------------------------
(* Properties *)

TypeOK ==
  /\ DeviceTypeOK
  /\ at \in {"idle", "loop", "irq", "enter", "driver", "exit", "emul", "tb_end", "aborted"}
  /\ emulation_state \in {"INITIAL", "NONE", "MMIO", "REAL"}
  /\ guest \in Guests /\ efer \in Efers /\ env.fpstt \in Guests /\ drv.fsw_top \in Guests
  /\ cpu \in [hard : BOOLEAN, exit_request : BOOLEAN, halted : BOOLEAN]
  /\ pic \in 0 .. MaxIrqs /\ entry \in Nat

\* Whoever runs the guest runs it from the state the other one left it in
\* (hax-interface.h:306-312): nothing of it but EFER is lost or stale, its
\* privilege level and the top of its FPU stack included, on either side of an
\* exit; and the driver only ever runs it with paging on and SS at the level of
\* CS.  In conforming code neither the level nor the privilege of the code
\* segment is claimed: hax_setup_qemu_emulator takes the level from the DPL of CS.
\* EferCarried is about EFER.
DriverHas ==
  LET d == Driver(guest, TRUE, drv.efer) IN
  /\ drv = [d EXCEPT !.cs = drv.cs] /\ drv.cs.rpl = d.cs.rpl
  /\ guest # Conforming => drv.cs.dpl = d.cs.dpl
GuestStateCarried ==
  /\ TypeOK
  /\ at \in {"emul", "tb_end"} =>
       /\ env.gpr = guest /\ env.msr = guest /\ env.fpstt = guest /\ env.hflags.vm = VM(guest)
       /\ guest # Conforming => env.hflags.cpl = Cpl(guest)
  /\ at \in {"enter", "driver"} => DriverHas

\* hax-interface.h:309-311 has QEMU sync the vCPU's state with the driver, emulate
\* an instruction, and sync the state to the driver: the driver goes on with the
\* EFER the guest wrote.
EferCarried == at \in {"enter", "driver"} => drv.efer = efer

\* An interrupt is never left behind: while the guest runs in the driver with
\* one pending, the driver has been asked to come back, by the interrupt
\* window or by an event that is set or about to be.
InterruptNoticed ==
  at = "driver" /\ cpu.hard => tunnel.window \/ tunnel.pending \/ kicker

\* The readiness the guest reported is used once: at most one interrupt is
\* injected between two entries, whatever kicks the vCPU in between.
OneInjectionPerEntry == entry <= 1

\* No interrupt is left behind, and none is pressed on a guest that has not
\* said it is ready.
InterruptsInOrder == InterruptNoticed /\ OneInjectionPerEntry

\* A kick is answered: the vCPU thread comes back to its caller, or the
\* process is gone, even if the guest never exits by itself.
KickAnswered ==
  cpu.exit_request ~> ~cpu.exit_request \/ at \in {"idle", "aborted"}
=============================================================================
