---------------------------- MODULE HaxExecProofs ----------------------------
(***************************************************************************)
(* Proofs about the HAX accelerator: the devices it holds, for any number  *)
(* of vCPUs and either host, and the two copies of the guest's state.      *)
(***************************************************************************)
EXTENDS HaxExec, TLAPS

-----------------------------------------------------------------------------
(* The devices (HaxDevice) *)

VcpuHandles(S) == {vcpu(id) : id \in S}

\* What is open, by the step of the main thread.  After a failure between the
\* open and the channel of a vCPU the process is gone, its devices with it.
OpenInv ==
  /\ step \in {"set_ramsize", "mod_open"} => support = -1
  /\ step \in {"capability", "vm_create", "error", "off"} => support = 0
  /\ step \in {"running", "closing", "channel", "exited"} => support = 1
  /\ step \in {"set_ramsize", "mod_open", "off"} => handles = {}
  /\ step \in {"capability", "vm_create", "error"} => handles = {mod}
  /\ support # 1 => ~vm /\ vcpus = {} /\ slots = [i \in Cpus |-> NoVcpu]
  /\ support = 1 => mod \in handles /\ (vm <=> machine \in handles)
  /\ step \in {"running", "closing"} => handles \ {mod, machine} = VcpuHandles(vcpus)
  /\ step = "channel" =>
       vm /\ \E id \in Cpus \ vcpus : handles \ {mod, machine} = VcpuHandles(vcpus \cup {id})
  /\ vcpus # {} => vm \/ step = "exited"

\* hax_vcpu_destroy empties slot 0 whatever vCPU it destroys, so slot 0 may be
\* empty while its vCPU is there: then that of a vCPU destroyed before is not.
SlotsInv ==
  /\ \A i \in vcpus \ {0} : slots[i] # NoVcpu
  /\ 0 \in vcpus /\ slots[0] = NoVcpu => \E i \in Cpus : slots[i] # NoVcpu

Steps == {"set_ramsize", "mod_open", "capability", "vm_create", "error", "off", "running",
          "closing", "channel", "exited"}
DeviceInv == DeviceTypeOK /\ step \in Steps /\ OpenInv /\ SlotsInv

\* The devices are different.
LEMMA HandleFacts ==
  /\ 0 \in Cpus /\ NoVcpu \notin Cpus /\ mod # machine
  /\ \A id \in Cpus : vcpu(id) # mod /\ vcpu(id) # machine /\ vcpu(id) \in Handles
  /\ \A i, j \in Cpus : vcpu(i) = vcpu(j) => i = j
  /\ mod \in Handles /\ machine \in Handles
<1>1. 0 \in Cpus /\ NoVcpu \notin Cpus
  BY HaxDeviceAssumption DEF Cpus, NoVcpu
<1>2. mod # machine
  BY DEF mod, machine
<1>3. \A id \in Cpus : vcpu(id) # mod /\ vcpu(id) # machine
  BY DEF mod, machine, vcpu
<1>4. \A i, j \in Cpus : vcpu(i) = vcpu(j) => i = j
  BY DEF vcpu
<1> QED BY <1>1, <1>2, <1>3, <1>4 DEF Handles

\* No handle is open before hax_init.
LEMMA DeviceBegins ==
  ASSUME DeviceInit
  PROVE  DeviceInv
<1> USE HandleFacts DEF DeviceInit
<1>1. DeviceTypeOK
  BY DEF DeviceTypeOK
<1>2. OpenInv /\ step \in Steps
  BY DEF OpenInv, Steps
<1>3. SlotsInv
  BY DEF SlotsInv
<1> QED BY <1>1, <1>2, <1>3 DEF DeviceInv

\* The steps of hax_init, and of guest memory.
LEMMA HaxInitStep ==
  ASSUME DeviceInv,
         \/ hax_set_ramsize \/ hax_mod_open \/ CheckDriver \/ hax_vm_create \/ InitError
         \/ \E page \in GuestPages : hax_set_phys_mem(page)
  PROVE  DeviceInv' /\ [Tree!Next]_handles
<1> USE HandleFacts DEF DeviceInv, DeviceTypeOK, OpenInv, SlotsInv, Steps
<1>1. CASE hax_set_ramsize
  BY <1>1 DEF hax_set_ramsize
<1>2. CASE hax_mod_open
  BY <1>2 DEF hax_mod_open, Tree!Next, Tree!Open
<1>3. CASE CheckDriver
  BY <1>3 DEF CheckDriver
<1>4. CASE hax_vm_create
  <2>1. CASE handles' = handles \cup {machine} /\ vm' = TRUE /\ support' = 1 /\ step' = "running"
    <3>1. handles = {mod} /\ vcpus = {} /\ UNCHANGED <<slots, vcpus, backed>>
      BY <1>4 DEF hax_vm_create
    <3>2. handles' = {mod, machine} /\ handles' \ {mod, machine} = {} /\ VcpuHandles(vcpus') = {}
      BY <2>1, <3>1 DEF VcpuHandles
    <3>3. DeviceInv'
      BY <2>1, <3>1, <3>2
    <3>4. Tree!Open(machine)
      BY <2>1, <3>1 DEF Tree!Open
    <3> QED BY <3>3, <3>4 DEF Tree!Next
  <2>2. CASE step' = "error" /\ UNCHANGED <<handles, vm, support>>
    BY <1>4, <2>2 DEF hax_vm_create
  <2> QED BY <1>4, <2>1, <2>2 DEF hax_vm_create
<1>5. CASE InitError
  BY <1>5 DEF InitError, Tree!Next, Tree!GiveUp
<1>6. ASSUME NEW page \in GuestPages, hax_set_phys_mem(page)
      PROVE  DeviceInv' /\ [Tree!Next]_handles
  BY <1>6 DEF hax_set_phys_mem, WinSetPhysMem, DarwinSetPhysMem
<1> QED BY <1>1, <1>2, <1>3, <1>4, <1>5, <1>6

\* hax_vcpu_create opens the device of a vCPU under the machine, and closes it
\* again when its channel cannot be set up.
LEMMA CreateVcpuStep ==
  ASSUME DeviceInv, NEW id \in Cpus, hax_vcpu_create(id)
  PROVE  DeviceInv' /\ [Tree!Next]_handles
<1> DEFINE h == vcpu(id)
<1>0. h \in Handles \ {mod, machine} /\ handles \subseteq Handles
      /\ vcpus \subseteq Cpus /\ id \notin vcpus
  BY HandleFacts DEF DeviceInv, DeviceTypeOK, hax_vcpu_create, OpenVcpu, SetupVcpu
<1>1. h \notin VcpuHandles(vcpus) /\ VcpuHandles(vcpus \cup {id}) = VcpuHandles(vcpus) \cup {h}
  BY <1>0, HandleFacts DEF VcpuHandles
<1>2. CASE OpenVcpu(id)
  <2>0. handles \ {mod, machine} = VcpuHandles(vcpus) /\ vm /\ mod \in handles /\ machine \in handles
        /\ support = 1 /\ UNCHANGED <<support, vm, slots, vcpus, backed>> /\ vcpus' = vcpus
    BY <1>2 DEF OpenVcpu, DeviceInv, OpenInv
  <2>1. CASE handles' = handles \cup {h} /\ step' = "channel"
    <3>1. h \notin handles
      BY <2>0, <1>0, <1>1
    <3>2. handles' \ {mod, machine} = VcpuHandles(vcpus \cup {id})
      BY <2>0, <2>1, <1>0, <1>1
    <3>3. OpenInv'
      BY <2>0, <2>1, <3>2, <1>0 DEF OpenInv
    <3>4. SlotsInv' /\ DeviceTypeOK' /\ step' \in Steps
      BY <2>0, <2>1, <1>0 DEF DeviceInv, SlotsInv, DeviceTypeOK, Steps
    <3>5. Tree!Open(h)
      BY <2>0, <2>1, <3>1, <1>0 DEF Tree!Open
    <3> QED BY <3>3, <3>4, <3>5, <1>0 DEF Tree!Next, DeviceInv
  <2>2. CASE handles' = handles /\ step' = "exited"
    BY <2>0, <2>2 DEF DeviceInv, OpenInv, SlotsInv, DeviceTypeOK, Steps
  <2> QED BY <1>2, <2>1, <2>2 DEF OpenVcpu
<1>3. CASE SetupVcpu(id)
  <2>0. /\ step = "channel" /\ h \in handles /\ support = 1 /\ vm /\ mod \in handles
        /\ machine \in handles /\ UNCHANGED <<support, vm, backed>>
    BY <1>3 DEF SetupVcpu, DeviceInv, OpenInv
  <2>1. handles \ {mod, machine} = VcpuHandles(vcpus \cup {id})
    <3>1. PICK j \in Cpus \ vcpus : handles \ {mod, machine} = VcpuHandles(vcpus \cup {j})
      BY <2>0 DEF DeviceInv, OpenInv
    <3>2. h \in VcpuHandles(vcpus \cup {j})
      BY <2>0, <3>1, <1>0
    <3>3. j = id
      BY <3>2, <1>0, HandleFacts DEF VcpuHandles
    <3> QED BY <3>1, <3>3
  <2>2. CASE /\ slots' = [slots EXCEPT ![id] = id] /\ vcpus' = vcpus \cup {id}
             /\ step' = "running" /\ handles' = handles
    <3>1. slots' \in [Cpus -> Cpus \cup {NoVcpu}] /\ slots'[id] = id
          /\ \A i \in Cpus \ {id} : slots'[i] = slots[i]
      BY <2>2 DEF DeviceInv, DeviceTypeOK
    <3>2. SlotsInv'
      BY <2>2, <3>1, <1>0, HandleFacts DEF DeviceInv, SlotsInv
    <3>3. OpenInv' /\ DeviceTypeOK' /\ step' \in Steps
      BY <2>0, <2>1, <2>2, <3>1, <1>0 DEF DeviceInv, OpenInv, DeviceTypeOK, Steps
    <3> QED BY <2>2, <3>2, <3>3 DEF DeviceInv
  <2>3. CASE handles' = handles \ {h} /\ step' = "exited" /\ UNCHANGED <<slots, vcpus>>
    <3>1. DeviceInv'
      BY <2>0, <2>3, <1>0 DEF DeviceInv, OpenInv, SlotsInv, DeviceTypeOK, Steps
    <3>2. \A c \in handles \ {h} : (IF c \in {mod, machine} THEN mod ELSE machine) # h
      BY <1>0
    <3>3. Tree!GiveUp(h)
      BY <2>0, <2>3, <3>2, <1>0 DEF Tree!GiveUp
    <3> QED BY <3>1, <3>3, <1>0 DEF Tree!Next
  <2> QED BY <1>3, <2>2, <2>3 DEF SetupVcpu
<1> QED BY <1>2, <1>3 DEF hax_vcpu_create

\* hax_vcpu_destroy closes one vCPU's device, and empties slot 0.
LEMMA DestroyVcpuStep ==
  ASSUME DeviceInv, NEW id \in Cpus, hax_vcpu_destroy(id)
  PROVE  DeviceInv' /\ [Tree!Next]_handles
<1> DEFINE h == vcpu(id)
<1>0. /\ h \in Handles \ {mod, machine} /\ handles \subseteq Handles /\ vcpus \subseteq Cpus
      /\ id \in vcpus /\ vm /\ step' = "closing" /\ handles' = handles \ {h}
      /\ vcpus' = vcpus \ {id} /\ slots' = [slots EXCEPT ![0] = NoVcpu]
      /\ UNCHANGED <<support, vm, backed>>
  BY HandleFacts DEF DeviceInv, DeviceTypeOK, hax_vcpu_destroy, vcpu_id
<1>1. /\ handles \ {mod, machine} = VcpuHandles(vcpus) /\ support = 1
      /\ mod \in handles /\ machine \in handles
  BY <1>0 DEF hax_vcpu_destroy, DeviceInv, OpenInv
<1>2. h \in VcpuHandles(vcpus) /\ VcpuHandles(vcpus') = VcpuHandles(vcpus) \ {h}
  BY <1>0, HandleFacts DEF VcpuHandles
<1>3. handles' \ {mod, machine} = VcpuHandles(vcpus')
  BY <1>0, <1>1, <1>2
<1>4. /\ slots' \in [Cpus -> Cpus \cup {NoVcpu}] /\ slots'[0] = NoVcpu
      /\ \A i \in Cpus \ {0} : slots'[i] = slots[i]
  BY <1>0, HandleFacts DEF DeviceInv, DeviceTypeOK
<1>5. SlotsInv'
  BY <1>0, <1>4, HandleFacts DEF DeviceInv, SlotsInv
<1>6. OpenInv' /\ DeviceTypeOK' /\ step' \in Steps
  BY <1>0, <1>1, <1>3, <1>4 DEF DeviceInv, OpenInv, DeviceTypeOK, Steps
<1>7. \A c \in handles \ {h} : (IF c \in {mod, machine} THEN mod ELSE machine) # h
  BY <1>0
<1>8. Tree!GiveUp(h)
  BY <1>0, <1>1, <1>2, <1>7 DEF Tree!GiveUp
<1> QED BY <1>0, <1>5, <1>6, <1>8 DEF DeviceInv, Tree!Next

\* hax_vm_destroy finds every slot empty only when no vCPU is left.
LEMMA DestroyVmStep ==
  ASSUME DeviceInv, hax_vm_destroy
  PROVE  DeviceInv' /\ [Tree!Next]_handles
<1>0. /\ vm /\ step \in {"running", "closing"} /\ \A i \in Cpus : slots[i] = NoVcpu
      /\ handles' = handles \ {machine} /\ vm' = FALSE
      /\ UNCHANGED <<step, support, slots, vcpus, backed>>
  BY DEF hax_vm_destroy
<1>1. vcpus = {}
  BY <1>0, HandleFacts DEF DeviceInv, SlotsInv, DeviceTypeOK
<1>2. /\ handles \ {mod, machine} = {} /\ VcpuHandles(vcpus) = {} /\ support = 1
      /\ mod \in handles /\ machine \in handles
  BY <1>0, <1>1 DEF DeviceInv, OpenInv, VcpuHandles
<1>3. DeviceInv'
  BY <1>0, <1>1, <1>2, HandleFacts DEF DeviceInv, OpenInv, SlotsInv, DeviceTypeOK
<1>4. Tree!GiveUp(machine)
  BY <1>0, <1>2, HandleFacts DEF Tree!GiveUp, DeviceInv, DeviceTypeOK
<1> QED BY <1>3, <1>4, HandleFacts DEF Tree!Next

\* Every request and every way out of one keeps the handles as the slots have them.
LEMMA DeviceStep ==
  ASSUME DeviceInv, [DeviceNext]_device_vars
  PROVE  DeviceInv' /\ [Tree!Next]_handles
<1>1. CASE UNCHANGED device_vars
  BY <1>1 DEF device_vars, DeviceInv, DeviceTypeOK, OpenInv, SlotsInv
<1> QED BY <1>1, HaxInitStep, CreateVcpuStep, DestroyVcpuStep, DestroyVmStep DEF DeviceNext

-----------------------------------------------------------------------------
(* The two copies of the guest's state, and the interrupts (HaxExec) *)

\* The records are of the shape the functions that read and write them give.
Segments == [rpl : {0, 1, 3}, dpl : {0, 3}]
Flags == [cpl : {0, 3}, vm : BOOLEAN]
EmulatorShape ==
  [gpr : Guests, msr : Guests, efer : Efers, fpstt : Guests, fpus_top : Guests, pg : BOOLEAN,
   cs : Segments, ss : Segments, hflags : Flags]
DriverShape ==
  [gpr : Guests, msr : Guests, efer : Efers, fsw_top : Guests, pg : BOOLEAN,
   cs : Segments, ss : Segments]
ShapeInv ==
  /\ at \in {"idle", "loop", "irq", "enter", "driver", "exit", "emul", "tb_end", "aborted"}
  /\ emulation_state \in {"INITIAL", "NONE", "MMIO", "REAL"}
  /\ guest \in Guests /\ efer \in Efers
  /\ env \in EmulatorShape
  /\ drv \in DriverShape
  /\ tunnel \in [ready : BOOLEAN, window : BOOLEAN, pending : BOOLEAN,
                 status : Statuses \cup {"INTERRUPT"}]
  /\ cpu \in [hard : BOOLEAN, exit_request : BOOLEAN, halted : BOOLEAN]
  /\ pic \in 0 .. MaxIrqs /\ kicker \in BOOLEAN /\ entry \in Nat

\* The emulator's copy is the guest's while emulation_state says so, also while
\* the vCPU is not running; the segments are in its form after a block.  In
\* conforming code the level may not be, nor the privilege of the code segment.
EmulatorHas ==
  /\ env.gpr = guest /\ env.msr = guest /\ env.fpstt = guest /\ env.hflags.vm = VM(guest)
  /\ guest # Conforming => env.hflags.cpl = Cpl(guest)
EmulatorForm ==
  /\ env.cs.rpl = IF VM(guest) THEN 1 ELSE Cpl(guest)
  /\ VM(guest) => env.ss.rpl = 1

\* Otherwise the driver's is, in the form for VM entry.
DriverForm(d, g, pg) ==
  LET e == Driver(g, pg, d.efer) IN
  /\ d = [e EXCEPT !.cs = d.cs] /\ d.cs.rpl = e.cs.rpl
  /\ g # Conforming => d.cs.dpl = e.cs.dpl

\* It pages but after an exit for real mode; the stale copy says so whenever it
\* has the vCPU go back to the driver.
CarriedInv ==
  /\ at \in {"loop", "irq", "enter", "driver", "exit", "aborted"} => emulation_state = "NONE"
  /\ at \in {"emul", "tb_end"} => emulation_state # "NONE"
  /\ emulation_state # "NONE" => EmulatorHas
  /\ emulation_state # "NONE" /\ guest = Conforming => env.cs.rpl = 3
  /\ at = "tb_end" => EmulatorForm
  /\ emulation_state = "NONE" => DriverForm(drv, guest, drv.pg)
  /\ at \in {"loop", "irq", "enter", "driver"} => drv.pg
  /\ at = "exit" /\ tunnel.status # "REAL" => drv.pg
  /\ at = "idle" /\ emulation_state = "NONE" /\ env.pg => drv.pg

IrqInv ==
  /\ at \in {"enter", "driver"} /\ cpu.hard => tunnel.window \/ tunnel.pending \/ kicker
  /\ at \notin {"enter", "aborted"} => entry = 0
  /\ entry <= 1

ExecInv == ShapeInv /\ CarriedInv /\ IrqInv

\* The host's errors are none that has the loop run the vCPU again.
LEMMA RunErrors == RunError \notin {-EINTR, -EAGAIN}
BY HaxDeviceAssumption DEF RunError, WinRunError, DarwinRunError, EINTR, EAGAIN, EFAULT

\* What the copies look like.
LEMMA CopyShapes ==
  ASSUME NEW g \in Guests, NEW pg \in BOOLEAN, NEW x \in Efers
  PROVE  /\ Driver(g, pg, x) \in DriverShape
         /\ \A e \in EmulatorShape : Emulated(g, pg, x, e) \in EmulatorShape
         /\ \A e : e.fpus_top \in Guests /\ g = 0 => Emulated(g, pg, x, e) \in EmulatorShape
<1>1. Driver(g, pg, x) \in DriverShape
  BY DEF Driver, DriverShape, Segments, Cpl, VM, Guests, Conforming
<1>2. ASSUME NEW e, e.fpus_top \in Guests,
             g = Conforming /\ e.gpr = Conforming => e.cs \in Segments /\ e.hflags \in Flags
      PROVE  Emulated(g, pg, x, e) \in EmulatorShape
  <2>1. CASE g = Conforming /\ e.gpr = Conforming
    BY <1>2, <2>1 DEF Emulated, EmulatorShape, Segments, Flags, Cpl, VM, Guests, Conforming
  <2>2. CASE ~(g = Conforming /\ e.gpr = Conforming)
    BY <1>2, <2>2 DEF Emulated, EmulatorShape, Segments, Flags, Cpl, VM, Guests, Conforming
  <2> QED BY <2>1, <2>2
<1>3. \A e \in EmulatorShape : e.fpus_top \in Guests /\ e.cs \in Segments /\ e.hflags \in Flags
  BY DEF EmulatorShape
<1> QED BY <1>1, <1>2, <1>3 DEF Conforming

\* hax_sync_vcpu_register towards QEMU: privilege and stack top come from what
\* the driver holds.
LEMMA SyncedFromDriver ==
  ASSUME NEW d \in DriverShape, NEW e \in EmulatorShape, NEW g \in Guests, DriverForm(d, g, d.pg)
  PROVE  LET got == hax_arch_get_registers(e, d) IN
         /\ got \in EmulatorShape
         /\ got.gpr = g /\ got.msr = g /\ got.fpstt = g /\ got.pg = d.pg /\ got.cs = d.cs
         /\ got.hflags.vm = VM(g) /\ (g # Conforming => got.hflags.cpl = Cpl(g))
<1>1. /\ d.gpr = g /\ d.msr = g /\ d.fsw_top = g /\ d.cs \in Segments /\ d.ss \in Segments
      /\ d.pg \in BOOLEAN /\ e.efer \in Efers /\ VM(g) \in BOOLEAN
      /\ g # Conforming => d.cs.dpl = Cpl(g)
  BY DEF DriverForm, Driver, DriverShape, EmulatorShape, VM
<1>2. d.cs.dpl \in {0, 3}
  BY <1>1 DEF DriverShape, DriverForm, Driver, Segments, Cpl
<1> DEFINE got == hax_arch_get_registers(e, d)
<1>3. got = [gpr |-> d.gpr, pg |-> d.pg, cs |-> d.cs, ss |-> d.ss,
             hflags |-> [cpl |-> d.cs.dpl, vm |-> VM(d.gpr)], fpstt |-> d.fsw_top,
             fpus_top |-> d.fsw_top, msr |-> d.msr, efer |-> e.efer]
  BY DEF hax_arch_get_registers, RegistersFromDriver, hax_get_fpu, hax_get_msrs,
         hax_get_segments, get_seg, hax_setup_qemu_emulator
<1> HIDE DEF got
<1>4. got \in EmulatorShape
  BY <1>1, <1>2, <1>3 DEF EmulatorShape, Flags
<1> QED BY <1>1, <1>3, <1>4 DEF got

\* hax_sync_vcpu_register towards the driver: whatever the emulator left in the
\* segments' attributes, the driver gets segments in order for VM entry.
LEMMA SyncedToDriver ==
  ASSUME ShapeInv, EmulatorHas, EmulatorForm
  PROVE  LET d == hax_arch_set_registers(env) IN
         d \in DriverShape /\ d.pg = env.pg /\ DriverForm(d, guest, d.pg)
<1> DEFINE seg == [rpl |-> env.cs.rpl, dpl |-> env.cs.rpl]
           d == hax_arch_set_registers(env)
<1>1. /\ env.gpr = guest /\ env.msr = guest /\ env.fpstt = guest /\ env.efer \in Efers
      /\ env.pg \in BOOLEAN /\ guest \in Guests
      /\ env.cs.rpl = IF VM(guest) THEN 1 ELSE Cpl(guest)
      /\ VM(guest) => env.ss.rpl = 1
  BY DEF ShapeInv, EmulatorShape, EmulatorHas, EmulatorForm
<1>2. d = [gpr |-> guest, pg |-> env.pg, fsw_top |-> guest, msr |-> guest, efer |-> env.efer,
           cs |-> IF VM(guest) THEN [rpl |-> 1, dpl |-> 3]
                  ELSE [rpl |-> Cpl(guest), dpl |-> Cpl(guest)],
           ss |-> IF VM(guest) THEN [rpl |-> 1, dpl |-> 3]
                  ELSE [rpl |-> Cpl(guest), dpl |-> Cpl(guest)]]
  <2>1. CASE VM(guest)
    BY <1>1, <2>1 DEF hax_arch_set_registers, RegistersToDriver, hax_set_segments, set_v8086_seg,
                      set_seg, hax_set_fpu, hax_set_msrs
  <2>2. CASE ~VM(guest)
    BY <1>1, <2>2 DEF hax_arch_set_registers, RegistersToDriver, hax_set_segments, set_v8086_seg,
                      set_seg, hax_set_fpu, hax_set_msrs
  <2> QED BY <2>1, <2>2
<1> HIDE DEF d
<1>3. d \in DriverShape
  BY <1>1, <1>2 DEF DriverShape, Segments, Cpl, VM, Guests
<1>4. DriverForm(d, guest, d.pg)
  BY <1>1, <1>2 DEF DriverForm, Driver, Cpl, VM, Guests, Conforming
<1> QED BY <1>2, <1>3, <1>4 DEF d

\* The invariant of the loop holds before the first entry.
LEMMA ExecBegins ==
  ASSUME ExecInit
  PROVE  ExecInv
<1>0. 0 \in Guests /\ FALSE \in BOOLEAN
  BY DEF Guests
<1>1. ShapeInv
  <2> USE <1>0 DEF ExecInit
  <2>1. env \in EmulatorShape
    <3> DEFINE e == [gpr |-> 0, fpus_top |-> 0]
    <3>1. e.fpus_top \in Guests
      OBVIOUS
    <3> HIDE DEF e
    <3> QED BY <3>1, CopyShapes, EfersAssumption DEF e
  <2>2. drv \in DriverShape
    BY CopyShapes, EfersAssumption
  <2>3. pic \in 0 .. MaxIrqs /\ entry \in Nat
    BY MaxIrqsAssumption
  <2>4. tunnel \in [ready : BOOLEAN, window : BOOLEAN, pending : BOOLEAN,
                    status : Statuses \cup {"INTERRUPT"}]
    BY DEF Statuses
  <2> QED BY <2>1, <2>2, <2>3, <2>4, EfersAssumption DEF ShapeInv
<1>2. CarriedInv
  BY <1>0 DEF ExecInit, CarriedInv, EmulatorHas, Emulated, Cpl, VM, Conforming
<1>3. IrqInv
  BY DEF ExecInit, IrqInv
<1> QED BY <1>1, <1>2, <1>3 DEF ExecInv

-----------------------------------------------------------------------------
(* The steps of the loop *)

\* The flags of the vCPU are kept in their fields.
LEMMA CpuFlags ==
  ASSUME ShapeInv, NEW a \in BOOLEAN, NEW b \in BOOLEAN
  PROVE  /\ [cpu EXCEPT !.exit_request = a, !.halted = b] =
              [hard |-> cpu.hard, exit_request |-> a, halted |-> b]
         /\ [cpu EXCEPT !.halted = b] =
              [hard |-> cpu.hard, exit_request |-> cpu.exit_request, halted |-> b]
         /\ [cpu EXCEPT !.exit_request = a] =
              [hard |-> cpu.hard, exit_request |-> a, halted |-> cpu.halted]
         /\ cpu.hard \in BOOLEAN /\ cpu.exit_request \in BOOLEAN /\ cpu.halted \in BOOLEAN
         /\ cpu = [hard |-> cpu.hard, exit_request |-> cpu.exit_request, halted |-> cpu.halted]
<1>1. cpu \in [hard : BOOLEAN, exit_request : BOOLEAN, halted : BOOLEAN]
  BY DEF ShapeInv
<1>2. /\ cpu.hard \in BOOLEAN /\ cpu.exit_request \in BOOLEAN /\ cpu.halted \in BOOLEAN
      /\ cpu = [hard |-> cpu.hard, exit_request |-> cpu.exit_request, halted |-> cpu.halted]
  BY ONLY <1>1
<1>3. [cpu EXCEPT !.halted = b] =
        [hard |-> cpu.hard, exit_request |-> cpu.exit_request, halted |-> b]
  BY ONLY <1>2
<1>4. [cpu EXCEPT !.exit_request = a] =
        [hard |-> cpu.hard, exit_request |-> a, halted |-> cpu.halted]
  BY ONLY <1>2
<1>5. [cpu EXCEPT !.exit_request = a, !.halted = b] =
        [hard |-> cpu.hard, exit_request |-> a, halted |-> b]
  <2> DEFINE d == [cpu EXCEPT !.exit_request = a]
  <2>1. [cpu EXCEPT !.exit_request = a, !.halted = b] = [d EXCEPT !.halted = b]
    OBVIOUS
  <2>2. d = [hard |-> cpu.hard, exit_request |-> a, halted |-> cpu.halted]
    BY <1>4
  <2> HIDE DEF d
  <2> QED BY ONLY <2>1, <2>2
<1> QED BY <1>2, <1>3, <1>4, <1>5

\* A step that moves the thread and the vCPU's flags only keeps the shapes.
LEMMA ShapeStays ==
  ASSUME ShapeInv,
         at' \in {"idle", "loop", "irq", "enter", "driver", "exit", "emul", "tb_end", "aborted"},
         UNCHANGED <<emulation_state, guest, efer, env, drv, tunnel, pic, entry>>, kicker' \in BOOLEAN,
         cpu' \in [hard : BOOLEAN, exit_request : BOOLEAN, halted : BOOLEAN]
  PROVE  ShapeInv'
<1>1. /\ emulation_state' \in {"INITIAL", "NONE", "MMIO", "REAL"} /\ guest' \in Guests
      /\ pic' \in 0 .. MaxIrqs /\ entry' \in Nat
  BY DEF ShapeInv
<1>2. env' \in EmulatorShape
  BY DEF ShapeInv
<1>3. /\ drv' \in DriverShape
      /\ tunnel' \in [ready : BOOLEAN, window : BOOLEAN, pending : BOOLEAN,
                      status : Statuses \cup {"INTERRUPT"}]
  BY DEF ShapeInv
<1> QED BY <1>1, <1>2, <1>3 DEF ShapeInv

\* hax_vcpu_exec, CheckExitRequest, hax_vcpu_interrupt, Enter and ContinueLoop:
\* the driver's copy stays the guest's, and the window or an event covers an
\* interrupt that could not be injected.
LEMMA LoopStep ==
  ASSUME ExecInv,
         hax_vcpu_exec \/ CheckExitRequest \/ hax_vcpu_interrupt \/ Enter \/ ContinueLoop
  PROVE  ExecInv'
<1> USE DEF ExecInv
<1>1. CASE hax_vcpu_exec
  <2>1. ShapeInv'
    <3>1. cpu' \in [hard : BOOLEAN, exit_request : BOOLEAN, halted : BOOLEAN]
      BY <1>1, CpuFlags DEF hax_vcpu_exec
    <3>2. at' \in {"emul", "idle", "loop"}
      BY <1>1 DEF hax_vcpu_exec
    <3>3. kicker' \in BOOLEAN /\ UNCHANGED <<emulation_state, guest, efer, env, drv, tunnel, pic, entry>>
      BY <1>1 DEF hax_vcpu_exec, ShapeInv
    <3> QED BY <3>1, <3>2, <3>3, ShapeStays
  <2>2. CarriedInv'
    BY <1>1 DEF hax_vcpu_exec, CarriedInv, EmulatorHas, hax_vcpu_emulation_mode
  <2>3. IrqInv'
    BY <1>1 DEF hax_vcpu_exec, IrqInv
  <2> QED BY <2>1, <2>2, <2>3
<1>2. CASE CheckExitRequest
  <2>1. /\ at = "loop" /\ at' \in {"idle", "irq"}
        /\ cpu' = cpu \/ (at' = "idle" /\ cpu' = [cpu EXCEPT !.exit_request = FALSE, !.halted = FALSE])
        /\ UNCHANGED <<emulation_state, guest, efer, env, drv, tunnel, pic, kicker, entry>>
    BY <1>2 DEF CheckExitRequest, AfterLoop
  <2>2. cpu' \in [hard : BOOLEAN, exit_request : BOOLEAN, halted : BOOLEAN] /\ cpu'.hard = cpu.hard
    <3>1. cpu' = cpu \/ cpu' = [hard |-> cpu.hard, exit_request |-> FALSE, halted |-> FALSE]
      BY <2>1, CpuFlags
    <3>2. cpu.hard \in BOOLEAN /\ cpu \in [hard : BOOLEAN, exit_request : BOOLEAN, halted : BOOLEAN]
      BY DEF ShapeInv
    <3>3. CASE cpu' = cpu
      BY ONLY <3>2, <3>3
    <3>4. CASE cpu' = [hard |-> cpu.hard, exit_request |-> FALSE, halted |-> FALSE]
      BY ONLY <3>2, <3>4
    <3> QED BY <3>1, <3>3, <3>4
  <2>3. ShapeInv'
    <3>1. kicker' \in BOOLEAN
      BY <2>1 DEF ShapeInv
    <3> QED BY <2>1, <2>2, <3>1, ShapeStays
  <2>4. CarriedInv'
    BY <2>1 DEF CarriedInv, EmulatorHas
  <2>5. IrqInv'
    BY <2>1, <2>2 DEF IrqInv
  <2> QED BY <2>3, <2>4, <2>5
<1>3. CASE hax_vcpu_interrupt
  <2>1. ShapeInv'
    <3>1. pic' \in 0 .. MaxIrqs /\ entry' \in Nat
      BY <1>3, MaxIrqsAssumption DEF hax_vcpu_interrupt, ShapeInv
    <3>2. cpu' \in [hard : BOOLEAN, exit_request : BOOLEAN, halted : BOOLEAN]
      <4>1. cpu' = [cpu EXCEPT !.hard = cpu'.hard] /\ cpu'.hard \in BOOLEAN
        <5> DEFINE inject == tunnel.ready /\ cpu.hard
                   left == IF inject /\ pic > 0 THEN pic - 1 ELSE pic
        <5>1. cpu' = [cpu EXCEPT !.hard = IF inject THEN left > 0 ELSE @]
          BY <1>3 DEF hax_vcpu_interrupt
        <5>2. (left > 0) \in BOOLEAN /\ cpu.hard \in BOOLEAN
          BY DEF ShapeInv
        <5> HIDE DEF inject, left
        <5> QED BY <5>1, <5>2 DEF ShapeInv
      <4> QED BY <4>1 DEF ShapeInv
    <3>3. tunnel' \in [ready : BOOLEAN, window : BOOLEAN, pending : BOOLEAN,
                       status : Statuses \cup {"INTERRUPT"}]
      BY <1>3, <3>2 DEF hax_vcpu_interrupt, ShapeInv
    <3> QED BY <1>3, <3>1, <3>2, <3>3 DEF hax_vcpu_interrupt, ShapeInv
  <2>2. CarriedInv'
    BY <1>3 DEF hax_vcpu_interrupt, CarriedInv, EmulatorHas
  <2>3. IrqInv'
    BY <1>3 DEF hax_vcpu_interrupt, ShapeInv, IrqInv
  <2> QED BY <2>1, <2>2, <2>3
<1>4. CASE Enter
  BY <1>4, RunErrors DEF Enter, ShapeInv, CarriedInv, IrqInv, EmulatorHas
<1>5. CASE ContinueLoop
  <2>1. ShapeInv'
    BY <1>5 DEF ContinueLoop, ShapeInv, EmulatorShape, DriverShape
  <2>2. CarriedInv'
    BY <1>5 DEF ContinueLoop, CarriedInv, ShapeInv, DriverShape
  <2>3. IrqInv'
    BY <1>5 DEF ContinueLoop, IrqInv
  <2> QED BY <2>1, <2>2, <2>3
<1> QED BY <1>1, <1>2, <1>3, <1>4, <1>5

\* The steps that leave the loop.
LEMMA LeaveStep ==
  ASSUME ExecInv, LeaveToEmulate \/ LeaveHalted \/ LeaveAndReset
  PROVE  ExecInv'
<1> USE DEF ExecInv
<1>1. CASE LeaveToEmulate
  <2>1. /\ at = "exit" /\ at' = "emul" /\ emulation_state' \in {"MMIO", "REAL"}
        /\ env' = hax_arch_get_registers(env, drv) /\ guest \in Guests
        /\ env \in EmulatorShape /\ drv \in DriverShape
        /\ UNCHANGED <<guest, efer, drv, tunnel, pic, kicker, entry>>
    BY <1>1 DEF LeaveToEmulate, hax_prepare_emulation, SyncFromDriver, ShapeInv
  <2>2. DriverForm(drv, guest, drv.pg)
    BY <2>1 DEF CarriedInv
  <2>3. /\ env' \in EmulatorShape /\ env'.cs = drv.cs
        /\ EmulatorHas'
    BY <2>1, <2>2, SyncedFromDriver DEF EmulatorHas
  <2>6. guest = Conforming => drv.cs.rpl = 3
    BY <2>2 DEF DriverForm, Driver, Cpl, VM, Conforming
  <2>4. ShapeInv'
    BY <1>1, <2>1, <2>3 DEF LeaveToEmulate, AfterLoop, ShapeInv
  <2>5. CarriedInv' /\ IrqInv'
    BY <2>1, <2>3, <2>6 DEF CarriedInv, IrqInv
  <2> QED BY <2>4, <2>5
<1>2. CASE LeaveHalted
  BY <1>2 DEF LeaveHalted, AfterLoop, ShapeInv, CarriedInv, IrqInv, EmulatorHas
<1>3. CASE LeaveAndReset
  <2> DEFINE e == hax_arch_get_registers(env, drv)
  <2>1. /\ at = "exit" /\ at' = "idle" /\ emulation_state' = "INITIAL" /\ guest' = 0
        /\ efer' = 0 /\ env' = Emulated(0, FALSE, 0, e) /\ UNCHANGED <<drv, pic, kicker, entry>>
    BY <1>3 DEF LeaveAndReset
  <2>2. e.fpus_top \in Guests /\ 0 \in Guests /\ FALSE \in BOOLEAN
    BY DEF ShapeInv, DriverShape, Guests, hax_arch_get_registers, hax_get_fpu
  <2> HIDE DEF e
  <2>3. env' \in EmulatorShape
    BY <2>1, <2>2, CopyShapes, EfersAssumption
  <2>4. ShapeInv'
    <3>1. cpu' \in [hard : BOOLEAN, exit_request : BOOLEAN, halted : BOOLEAN]
      BY <1>3, CpuFlags DEF LeaveAndReset, AfterLoop
    <3>2. tunnel' \in [ready : BOOLEAN, window : BOOLEAN, pending : BOOLEAN,
                       status : Statuses \cup {"INTERRUPT"}]
      BY <1>3 DEF LeaveAndReset, ShapeInv
    <3>3. /\ drv' \in DriverShape
          /\ guest' \in Guests /\ efer' \in Efers /\ pic' \in 0 .. MaxIrqs /\ kicker' \in BOOLEAN /\ entry' \in Nat
      BY <2>1, <2>2, EfersAssumption DEF ShapeInv
    <3> QED BY <2>1, <2>3, <3>1, <3>2, <3>3 DEF ShapeInv
  <2>5. EmulatorHas'
    BY <2>1 DEF EmulatorHas, Emulated, Conforming
  <2>6. CarriedInv' /\ IrqInv'
    BY <2>1, <2>5 DEF CarriedInv, IrqInv, Conforming
  <2> QED BY <2>4, <2>6
<1> QED BY <1>1, <1>2, <1>3

\* The emulator, and the driver's copy at its end.
LEMMA EmulatorStep ==
  ASSUME ExecInv, EmulateBlock \/ hax_stop_emulation \/ LeaveEmulator
  PROVE  ExecInv'
<1> USE DEF ExecInv
<1>1. CASE EmulateBlock
  <2>1. PICK g \in Guests, pg \in BOOLEAN, x \in Efers :
          guest' = g /\ efer' \in {efer, x} /\ env' = Emulated(g, pg, x, env)
    BY <1>1 DEF EmulateBlock
  <2>2. /\ at = "emul" /\ at' = "tb_end"
        /\ UNCHANGED <<emulation_state, drv, tunnel, cpu, pic, kicker, entry>>
    BY <1>1 DEF EmulateBlock
  <2>3. env' \in EmulatorShape
    BY <2>1, CopyShapes DEF ShapeInv
  <2>4. ShapeInv'
    BY <2>1, <2>2, <2>3 DEF ShapeInv
  <2>5. EmulatorHas' /\ EmulatorForm'
    <3>1. CASE g = Conforming /\ env.gpr = Conforming
      <4>1. env.cs.rpl = 3 /\ env.hflags.vm = VM(guest) /\ guest = Conforming
        BY <2>2, <3>1 DEF CarriedInv, EmulatorHas
      <4> QED BY <2>1, <3>1, <4>1 DEF EmulatorHas, EmulatorForm, Emulated, Cpl, VM, Conforming
    <3>2. CASE ~(g = Conforming /\ env.gpr = Conforming)
      BY <2>1, <3>2 DEF EmulatorHas, EmulatorForm, Emulated, Cpl, VM, Conforming, Guests
    <3> QED BY <3>1, <3>2
  <2>6. CarriedInv' /\ IrqInv'
    <3>1. guest' = Conforming => env'.cs.rpl = 3
      BY <2>5 DEF EmulatorForm, Cpl, VM, Conforming
    <3> QED BY <2>2, <2>5, <3>1 DEF CarriedInv, IrqInv
  <2> QED BY <2>4, <2>6
<1>2. CASE hax_stop_emulation
  <2>0. /\ at = "tb_end" /\ EmulatorHas /\ EmulatorForm
        /\ UNCHANGED <<guest, efer, tunnel, cpu, pic, kicker, entry>>
    BY <1>2 DEF hax_stop_emulation, CarriedInv
  <2>1. CASE hax_stop_tbloop
    <3>1. /\ at' = "idle" /\ emulation_state' = "NONE" /\ env' = env
          /\ drv' = hax_arch_set_registers(env)
      BY <1>2, <2>1 DEF hax_stop_emulation, SyncToDriver
    <3>2. DriverForm(drv', guest', drv'.pg)
      BY <2>0, <3>1, SyncedToDriver
    <3>3. drv' \in DriverShape /\ drv'.pg = env.pg
      BY <2>0, <3>1, SyncedToDriver
    <3>4. ShapeInv'
      BY <2>0, <3>1, <3>3 DEF ShapeInv
    <3>5. CarriedInv' /\ IrqInv'
      BY <2>0, <3>1, <3>2, <3>3 DEF CarriedInv, IrqInv
    <3> QED BY <3>4, <3>5
  <2>2. CASE ~hax_stop_tbloop
    BY <1>2, <2>0, <2>2 DEF hax_stop_emulation, ShapeInv, CarriedInv, IrqInv, EmulatorHas
  <2> QED BY <2>1, <2>2
<1>3. CASE LeaveEmulator
  <2>1. ShapeInv'
    <3>1. cpu' \in [hard : BOOLEAN, exit_request : BOOLEAN, halted : BOOLEAN]
      BY <1>3, CpuFlags DEF LeaveEmulator, AfterLoop
    <3>2. at' = "idle" /\ kicker' \in BOOLEAN
          /\ UNCHANGED <<emulation_state, guest, efer, env, drv, tunnel, pic, entry>>
      BY <1>3 DEF LeaveEmulator, ShapeInv
    <3> QED BY <3>1, <3>2, ShapeStays
  <2>2. CarriedInv' /\ IrqInv'
    BY <1>3 DEF LeaveEmulator, CarriedInv, EmulatorHas, IrqInv
  <2> QED BY <2>1, <2>2
<1> QED BY <1>1, <1>2, <1>3

\* The driver and the other thread.
LEMMA OutsideStep ==
  ASSUME ExecInv, GuestStep \/ DriverExit \/ Kick \/ RaiseIrq \/ hax_raise_event
  PROVE  ExecInv'
<1> USE DEF ExecInv
<1>1. CASE GuestStep
  <2>1. PICK g \in Guests, x \in Efers :
          /\ guest' = g /\ efer' \in {efer, x}
          /\ drv' = [Driver(g, drv.pg, x) EXCEPT
                       !.cs = IF g = Conforming /\ guest = Conforming THEN drv.cs ELSE @]
    BY <1>1 DEF GuestStep
  <2>2. at = "driver" /\ UNCHANGED <<at, emulation_state, env, tunnel, cpu, pic, kicker, entry>>
    BY <1>1 DEF GuestStep
  <2>3. drv' \in DriverShape /\ drv'.pg = drv.pg
    <3> DEFINE d == Driver(g, drv.pg, x)
    <3>1. d \in DriverShape /\ d.pg = drv.pg /\ drv.cs \in Segments
      BY CopyShapes DEF ShapeInv, DriverShape, Driver
    <3>2. drv' = d \/ drv' = [d EXCEPT !.cs = drv.cs]
      BY <2>1, <3>1 DEF DriverShape
    <3> HIDE DEF d
    <3> QED BY <3>1, <3>2 DEF DriverShape
  <2>6. DriverForm(drv', guest', drv'.pg)
    <3>1. CASE g = Conforming /\ guest = Conforming
      <4>1. drv.cs.rpl = 3
        BY <2>2, <3>1 DEF CarriedInv, DriverForm, Driver, Cpl, VM, Conforming
      <4>2. drv' = [Driver(g, drv.pg, x) EXCEPT !.cs = drv.cs]
        BY <2>1, <3>1
      <4> QED BY <2>1, <3>1, <4>1, <4>2 DEF DriverForm, Driver, Cpl, VM, Conforming
    <3>2. CASE ~(g = Conforming /\ guest = Conforming)
      <4>1. drv' = Driver(g, drv.pg, x)
        BY <2>1, <3>2 DEF Driver
      <4> QED BY <2>1, <4>1 DEF DriverForm, Driver
    <3> QED BY <3>1, <3>2
  <2>4. ShapeInv'
    BY <2>1, <2>2, <2>3 DEF ShapeInv
  <2>5. CarriedInv' /\ IrqInv'
    BY <2>1, <2>2, <2>3, <2>6 DEF CarriedInv, IrqInv
  <2> QED BY <2>4, <2>5
<1>2. CASE DriverExit
  <2>0. /\ at = "driver" /\ at' = "exit" /\ emulation_state = "NONE" /\ drv.pg
        /\ UNCHANGED <<emulation_state, guest, efer, env, cpu, pic, kicker, entry>>
    BY <1>2 DEF DriverExit, CarriedInv
  <2>1. PICK ready \in BOOLEAN :
          \/ /\ tunnel' = [tunnel EXCEPT !.ready = ready, !.pending = FALSE, !.status = "INTERRUPT"]
             /\ UNCHANGED drv
          \/ \E status \in Statuses, pg \in BOOLEAN :
               /\ status # "REAL" => pg = drv.pg
               /\ tunnel' = [tunnel EXCEPT !.ready = ready, !.status = status]
               /\ drv' = [drv EXCEPT !.pg = pg]
    BY <1>2 DEF DriverExit
  <2>2. /\ tunnel' \in [ready : BOOLEAN, window : BOOLEAN, pending : BOOLEAN,
                        status : Statuses \cup {"INTERRUPT"}]
        /\ drv' \in DriverShape
    <3>1. /\ tunnel = [ready |-> tunnel.ready, window |-> tunnel.window,
                       pending |-> tunnel.pending, status |-> tunnel.status]
          /\ tunnel.window \in BOOLEAN /\ tunnel.pending \in BOOLEAN
      BY DEF ShapeInv
    <3>2. \/ tunnel' = [ready |-> ready, window |-> tunnel.window, pending |-> FALSE,
                        status |-> "INTERRUPT"]
          \/ \E status \in Statuses :
               tunnel' = [ready |-> ready, window |-> tunnel.window, pending |-> tunnel.pending,
                          status |-> status]
      BY <2>1, <3>1
    <3>3. drv' = drv \/ \E pg \in BOOLEAN : drv' = [drv EXCEPT !.pg = pg]
      BY <2>1
    <3>4. drv' \in DriverShape
      BY <3>3 DEF ShapeInv, DriverShape
    <3>5. tunnel' \in [ready : BOOLEAN, window : BOOLEAN, pending : BOOLEAN,
                       status : Statuses \cup {"INTERRUPT"}]
      <4>1. ASSUME NEW p \in BOOLEAN, NEW s \in Statuses \cup {"INTERRUPT"},
                   tunnel' = [ready |-> ready, window |-> tunnel.window, pending |-> p, status |-> s]
            PROVE  tunnel' \in [ready : BOOLEAN, window : BOOLEAN, pending : BOOLEAN,
                                status : Statuses \cup {"INTERRUPT"}]
        BY ONLY <3>1, <4>1, ready \in BOOLEAN
      <4> QED BY <3>1, <3>2, <4>1
    <3> QED BY <3>4, <3>5
  <2>3. tunnel'.status # "REAL" => drv'.pg
    BY <2>0, <2>1 DEF ShapeInv, DriverShape
  <2>6. DriverForm(drv', guest, drv'.pg)
    <3>1. DriverForm(drv, guest, drv.pg)
      BY <2>0 DEF CarriedInv
    <3>2. drv' = drv \/ \E pg \in BOOLEAN : drv' = [drv EXCEPT !.pg = pg]
      BY <2>1
    <3>3. ASSUME NEW pg \in BOOLEAN, drv' = [drv EXCEPT !.pg = pg]
          PROVE  DriverForm(drv', guest, drv'.pg)
      BY <3>1, <3>3 DEF DriverForm, Driver, ShapeInv, DriverShape
    <3> QED BY <3>1, <3>2, <3>3
  <2>4. ShapeInv'
    BY <2>0, <2>2 DEF ShapeInv
  <2>5. CarriedInv' /\ IrqInv'
    BY <2>0, <2>3, <2>6 DEF CarriedInv, IrqInv
  <2> QED BY <2>4, <2>5
<1>3. CASE Kick
  <2>1. ShapeInv'
    <3>1. cpu' \in [hard : BOOLEAN, exit_request : BOOLEAN, halted : BOOLEAN]
      BY <1>3, CpuFlags DEF Kick
    <3>2. /\ kicker' \in BOOLEAN /\ UNCHANGED <<emulation_state, guest, efer, env, drv, tunnel, pic, entry>>
          /\ at' \in {"idle", "loop", "irq", "enter", "driver", "exit", "emul", "tb_end", "aborted"}
      BY <1>3 DEF Kick, ShapeInv
    <3> QED BY <3>1, <3>2, ShapeStays
  <2>2. CarriedInv'
    BY <1>3 DEF Kick, CarriedInv, EmulatorHas, EmulatorForm
  <2>3. IrqInv'
    BY <1>3 DEF Kick, IrqInv, ShapeInv
  <2> QED BY <2>1, <2>2, <2>3
<1>4. CASE RaiseIrq
  <2>1. ShapeInv'
    <3>1. pic' \in 0 .. MaxIrqs
      BY <1>4, MaxIrqsAssumption DEF RaiseIrq, ShapeInv
    <3>2. cpu' \in [hard : BOOLEAN, exit_request : BOOLEAN, halted : BOOLEAN]
      BY <1>4 DEF RaiseIrq, ShapeInv
    <3> QED BY <1>4, <3>1, <3>2 DEF RaiseIrq, ShapeInv
  <2>2. CarriedInv'
    BY <1>4 DEF RaiseIrq, CarriedInv, EmulatorHas, EmulatorForm
  <2>3. IrqInv'
    BY <1>4 DEF RaiseIrq, IrqInv, ShapeInv
  <2> QED BY <2>1, <2>2, <2>3
<1>5. CASE hax_raise_event
  <2>1. ShapeInv'
    BY ZenonT(30), <1>5 DEF hax_raise_event, ShapeInv
  <2>2. CarriedInv'
    BY <1>5 DEF hax_raise_event, CarriedInv, EmulatorHas, EmulatorForm
  <2>3. IrqInv'
    BY <1>5 DEF hax_raise_event, IrqInv, ShapeInv
  <2> QED BY <2>1, <2>2, <2>3
<1> QED BY <1>1, <1>2, <1>3, <1>4, <1>5

-----------------------------------------------------------------------------
(* The theorems *)

\* A step of the accelerator is a step of its devices, or leaves them alone.
LEMMA DevicesStep ==
  ASSUME [Next]_vars
  PROVE  [DeviceNext]_device_vars
BY DEF vars, Next, Device, VcpuThread, hax_vcpu_exec, CheckExitRequest, hax_vcpu_interrupt,
       Enter, ContinueLoop, LeaveToEmulate, LeaveHalted, LeaveAndReset, EmulateBlock,
       hax_stop_emulation, LeaveEmulator, GuestStep, DriverExit, Kick, RaiseIrq, hax_raise_event

\* Every reachable state of the accelerator satisfies the inductive invariants
\* of its devices and of its vCPU loop.
THEOREM Invariant == Spec => [](DeviceInv /\ ExecInv)
<1>1. Init => DeviceInv /\ ExecInv
  BY DeviceBegins, ExecBegins DEF Init
<1>2. DeviceInv /\ ExecInv /\ [Next]_vars => DeviceInv' /\ ExecInv'
  <2> SUFFICES ASSUME DeviceInv, ExecInv, [Next]_vars
               PROVE  DeviceInv' /\ ExecInv'
    OBVIOUS
  <2>1. DeviceInv'
    BY DevicesStep, DeviceStep
  <2>2. ASSUME UNCHANGED exec_vars
        PROVE  ExecInv'
    <3>1. ShapeInv'
      BY <2>2 DEF exec_vars, ExecInv, ShapeInv
    <3>2. CarriedInv' /\ IrqInv'
      BY <2>2 DEF exec_vars, ExecInv, CarriedInv, EmulatorHas, EmulatorForm, IrqInv
    <3> QED BY <3>1, <3>2 DEF ExecInv
  <2>3. ExecInv'
    BY <2>2, LoopStep, LeaveStep, EmulatorStep, OutsideStep DEF Next, VcpuThread, Device, vars
  <2> QED BY <2>1, <2>3
<1> QED BY <1>1, <1>2, PTL DEF Spec

\* hax_init leaves the accelerator on with its devices open or off with nothing
\* open, and the vCPUs that are set up are those whose device is open, for any
\* number of vCPUs and whatever the driver of either host refuses.
THEOREM DevicesHeld == Spec => []DeviceHeld
<1>1. DeviceInv => DeviceHeld
  BY HandleFacts DEF DeviceInv, OpenInv, DeviceHeld, VcpuHandles
<1> QED BY <1>1, Invariant, PTL

\* Devices are opened below open ones and closed when nothing is open below
\* them (HandleTree), whatever the order of the destructions.
THEOREM DevicesAreATree == Spec => DevicesFollowTree
<1>1. Init => Tree!Init
  BY DEF Init, DeviceInit, Tree!Init
<1>2. DeviceInv /\ [Next]_vars => [Tree!Next]_handles
  BY DevicesStep, DeviceStep
<1> QED BY <1>1, <1>2, Invariant, PTL DEF Spec, DevicesFollowTree

\* Whoever runs the guest, the driver or the emulator, runs it from the state
\* the other one left it in, but for EFER, and for the level in conforming code.
THEOREM StateCarried == Spec => []GuestStateCarried
<1>1. DeviceInv /\ ExecInv => GuestStateCarried
  <2> SUFFICES ASSUME DeviceInv, ExecInv
               PROVE  GuestStateCarried
    OBVIOUS
  <2>1. TypeOK
    BY DEF DeviceInv, ExecInv, ShapeInv, EmulatorShape, DriverShape, TypeOK
  <2>2. at \in {"emul", "tb_end"} => EmulatorHas
    BY DEF ExecInv, CarriedInv
  <2>3. at \in {"enter", "driver"} => DriverHas
    <3> SUFFICES ASSUME at \in {"enter", "driver"}
                 PROVE  DriverHas
      OBVIOUS
    <3>1. DriverForm(drv, guest, drv.pg) /\ drv.pg /\ drv.pg \in BOOLEAN
      BY DEF ExecInv, CarriedInv, ShapeInv, DriverShape
    <3>2. drv.pg = TRUE
      BY <3>1
    <3> QED BY <3>1, <3>2 DEF DriverForm, DriverHas
  <2> QED BY <2>1, <2>2, <2>3 DEF GuestStateCarried, EmulatorHas
<1> QED BY <1>1, Invariant, PTL

\* No interrupt is left behind while the guest runs in the driver, and at most
\* one is injected between two entries, however the other thread's requests
\* fall between the steps of the loop.
THEOREM InterruptsKept == Spec => []InterruptsInOrder
<1>1. ExecInv => InterruptsInOrder
  BY DEF ExecInv, IrqInv, InterruptsInOrder, InterruptNoticed, OneInjectionPerEntry
<1> QED BY <1>1, Invariant, PTL
=============================================================================
