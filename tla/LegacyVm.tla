------------------------------- MODULE LegacyVm -------------------------------
(***************************************************************************)
(* The C-style interface of the project HaxmTest: an instance with its     *)
(* device and virtual machine (VM.cpp, HaxVM.cpp), the slots of its        *)
(* virtual processors (VirtualCPU.cpp), the execution loop of one of them  *)
(* (VirtualContext.cpp) and the calls to the driver below them             *)
(* (hax-windows.c), each of which may fail.                                *)
(*                                                                         *)
(* One caller, one instance at a time, as main1 and TestDOS of             *)
(* HaxmTest.cpp use it: VM_HaxEnabled before the first instance, registers *)
(* written before a vCPU runs.  The caller passes pointers that            *)
(* VM_CreateInstance and VCpu_Create have returned and that have not been  *)
(* destroyed.  The values of registers are left out.                       *)
(***************************************************************************)
EXTENDS Integers

CONSTANTS
  HAX_MAX_VCPU,  \* slots for virtual processors
  MAX_VM_ID,     \* the largest id of a VM whose device has a name
  MAX_VCPU_ID,   \* the same for a vCPU
  VmIds,         \* ids the driver may give a VM
  Modules,       \* drivers: records [cur_version, compat_version]
  Sizes,         \* RAM sizes the caller asks for
  NoLimit        \* the driver reports no HAX_CAP_MEMQUOTA

LegacyAssumption ==
  /\ HAX_MAX_VCPU \in Nat \ {0} /\ Sizes \subseteq Nat /\ NoLimit \notin Nat
  /\ MAX_VM_ID \in Nat /\ MAX_VCPU_ID \in Nat /\ HAX_MAX_VCPU <= MAX_VCPU_ID
  /\ VmIds \subseteq Nat /\ Modules \subseteq [cur_version : Nat, compat_version : Nat]

HaxCurrentVersion == 2
HaxMinVersion == 1

Slots == 0 .. HAX_MAX_VCPU - 1

\* The tree of handles: slot i stands for the handle of vCPU i.
Device == HAX_MAX_VCPU
Vm == HAX_MAX_VCPU + 1
Handles == Slots \cup {Device, Vm}
Parent == [h \in Handles |-> IF h \in Slots THEN Vm ELSE Device]

\* Exit statuses, those that VCpu_Exec treats alike taken together: "resume"
\* for IO, FAST_MMIO, INTERRUPT and PAUSED, "other" for unlisted ones.
Statuses == {"resume", "hlt", "mmio", "real", "statechange", "unknown_vmexit", "other"}

VARIABLES
  inst,     \* the instance: none, probing, opening, live, freeing, aborted
  enabled,  \* VM_HaxEnabled has returned true
  fd,       \* instance->fd: none, open, or the garbage of a failed open
  owned,    \* the open handles that an object still refers to
  vm,       \* instance->vm: its id (-1: none), and its RAM in the driver
  vcpus,    \* slots whose pointer is not null
  tunnel,   \* slots whose vCPU has its tunnel mapped
  written,  \* slots whose vCPU has had registers written
  quota,    \* instance->mem_quota
  limit,    \* the driver's memory quota
  module,   \* the driver's versions
  exec,     \* slot of the vCPU being run, or -1
  status    \* exit status of the last run of the vCPU

cpu_vars == <<vcpus, tunnel, written>>
run_vars == <<exec, status>>
driver_vars == <<limit, module>>
vars == <<inst, enabled, fd, owned, vm, cpu_vars, quota, driver_vars, run_vars>>

NoVm == [id |-> -1, ram |-> "none"]

Init ==
  /\ inst = "none" /\ enabled = FALSE /\ fd = "none" /\ owned = {} /\ vm = NoVm
  /\ vcpus = {} /\ tunnel = {} /\ written = {}
  /\ quota = 0 /\ limit \in Sizes \cup {NoLimit} /\ module \in Modules
  /\ exec = -1 /\ status = "none"

-----------------------------------------------------------------------------
(* The requests to the driver, as the sets of their answers (TRUE: success) *)

\* DeviceIoControl: may fail, and does on anything but an open handle.
DeviceIoControl(open) == IF open THEN BOOLEAN ELSE {FALSE}

hax_mod_version == DeviceIoControl(fd = "open")
hax_host_create_vm == DeviceIoControl(fd = "open")
hax_host_create_vcpu == DeviceIoControl(Vm \in owned)
hax_populate_ram == DeviceIoControl(Vm \in owned)
hax_vcpu_run(i) == DeviceIoControl(i \in owned)
hax_sync_vcpu_state(i) == DeviceIoControl(i \in owned)

\* A device has a name only up to the largest id; opening it may fail as well.
hax_vm_devfs_string(id) == id <= MAX_VM_ID
hax_host_open_vm(id) == IF hax_vm_devfs_string(id) THEN BOOLEAN ELSE {FALSE}

hax_vcpu_devfs_string(id, i) == id <= MAX_VM_ID /\ i <= MAX_VCPU_ID
hax_host_open_vcpu(id, i) == IF hax_vcpu_devfs_string(id, i) THEN BOOLEAN ELSE {FALSE}

\* The driver sets RAM that it has been asked to allocate.
hax_set_phys_mem == DeviceIoControl(Vm \in owned /\ vm.ram # "none")

\* hax_host_setup_vcpu_channel fails when the driver refuses, and when the
\* tunnel it offers is smaller than the structure.
hax_host_setup_vcpu_channel ==
  {answered /\ large : answered \in BOOLEAN, large \in BOOLEAN}

-----------------------------------------------------------------------------
\* hax_mod_open.  When the device cannot be opened it returns an uninitialised
\* variable: a value hax_invalid_fd recognises, or garbage that it does not.
hax_mod_open ==
  /\ fd' \in {"open", "invalid", "garbage"}
  /\ owned' = IF fd' = "open" THEN owned \cup {Device} ELSE owned

\* VM_HaxEnabled: open the device for a moment.
Probe ==
  /\ inst = "none" /\ inst' = "probing"
  /\ hax_mod_open
  /\ UNCHANGED <<enabled, vm, cpu_vars, quota, driver_vars, run_vars>>

Accepted(size, working) == working /\ (limit = NoLimit \/ ~(limit < size))
HaxIsSupported ==
  ~(HaxMinVersion > module.cur_version \/ HaxCurrentVersion < module.compat_version)

\* The rest of it: availability for a quota of 0, the versions, and the close.
VM_HaxEnabled ==
  /\ inst = "probing" /\ inst' = "none"
  /\ \E working \in DeviceIoControl(fd = "open"), answered \in hax_mod_version :
       enabled' = (Accepted(0, working) /\ answered /\ HaxIsSupported)
  /\ fd' = "none" /\ owned' = owned \ {Device}
  /\ UNCHANGED <<vm, cpu_vars, quota, driver_vars, run_vars>>

\* VM_CreateInstance up to hax_mod_open.
OpenInstance(size) ==
  /\ inst = "none" /\ enabled
  /\ inst' = "opening"
  /\ quota' = size
  /\ hax_mod_open
  /\ UNCHANGED <<enabled, vm, cpu_vars, driver_vars, run_vars>>

\* The rest of it: HaxVmCreate.
CreateVm ==
  /\ inst = "opening"
  /\ \E created \in hax_host_create_vm, id \in VmIds :
       \E opened \in hax_host_open_vm(id) :
         IF created /\ opened
         THEN inst' = "live" /\ owned' = owned \cup {Vm} /\ vm' = [NoVm EXCEPT !.id = id]
         ELSE inst' = "freeing" /\ UNCHANGED <<owned, vm>>
  /\ UNCHANGED <<enabled, fd, cpu_vars, quota, driver_vars, run_vars>>

\* free(instance), after a failure and at the end of VM_DestroyInstance:
\* nothing closes the device.
FreeInstance ==
  /\ inst = "freeing"
  /\ inst' = "none" /\ fd' = "none" /\ quota' = 0
  /\ owned' = owned \ {Device}
  /\ UNCHANGED <<enabled, vm, cpu_vars, driver_vars, run_vars>>

\* The caller's turn: an instance is live and no vCPU is running.
Calling == inst = "live" /\ exec = -1

\* TestDOS gives the VM its RAM, and ignores whether that worked.
PopulateRam ==
  /\ Calling /\ vm.ram = "none"
  /\ TRUE \in hax_populate_ram
  /\ vm' = [vm EXCEPT !.ram = "populated"]
  /\ UNCHANGED <<inst, enabled, fd, owned, cpu_vars, quota, driver_vars, run_vars>>

SetPhysMem ==
  /\ Calling /\ vm.ram = "populated"
  /\ TRUE \in hax_set_phys_mem
  /\ vm' = [vm EXCEPT !.ram = "set"]
  /\ UNCHANGED <<inst, enabled, fd, owned, cpu_vars, quota, driver_vars, run_vars>>

\* VM_SetRAMSize: the new size is stored, then checked by HaxIsAvailable,
\* which may also fail for other reasons, and undone if it is not accepted.
VM_SetRAMSize_NoRollback(size) ==
  /\ Calling
  /\ \E working \in BOOLEAN :
       quota' = IF Accepted(size, working) \/ ~working THEN size ELSE quota
  /\ UNCHANGED <<inst, enabled, fd, owned, vm, cpu_vars, driver_vars, run_vars>>

VM_SetRAMSize(size) ==
  /\ Calling
  /\ \E working \in BOOLEAN :
       quota' = IF Accepted(size, working) THEN size ELSE quota
  /\ UNCHANGED <<inst, enabled, fd, owned, vm, cpu_vars, driver_vars, run_vars>>

\* VM_DestroyInstance: HaxVmDestroy refuses while a slot is in use.  Closing
\* the handle ends the VM in the driver, its RAM with it.
VM_DestroyInstance ==
  /\ Calling
  /\ vcpus = {}
  /\ inst' = "freeing" /\ vm' = NoVm
  /\ owned' = owned \ {Vm}
  /\ UNCHANGED <<enabled, fd, cpu_vars, quota, driver_vars, run_vars>>

\* VCpu_Create: the first free slot; create, open, store, set up the channel.
\* On an error the handle is closed and the slot is null again.
FreeSlot == CHOOSE i \in Slots \ vcpus : \A j \in Slots \ vcpus : i <= j
SlotAfterError_KeptPointer(i) == vcpus \cup {i}
SlotAfterError(i) == vcpus \ {i}
VCpu_Create ==
  /\ Calling
  /\ Slots \ vcpus # {}
  /\ \E created \in hax_host_create_vcpu, opened \in hax_host_open_vcpu(vm.id, FreeSlot),
        channel \in hax_host_setup_vcpu_channel :
       IF created /\ opened /\ channel
       THEN /\ vcpus' = vcpus \cup {FreeSlot} /\ owned' = owned \cup {FreeSlot}
            /\ tunnel' = tunnel \cup {FreeSlot}
       ELSE vcpus' = SlotAfterError(FreeSlot) /\ UNCHANGED <<owned, tunnel>>
  /\ UNCHANGED <<inst, enabled, fd, vm, written, quota, driver_vars, run_vars>>

VCpu_Destroy(i) ==
  /\ Calling
  /\ i \in vcpus
  /\ vcpus' = vcpus \ {i} /\ owned' = owned \ {i}
  /\ tunnel' = tunnel \ {i} /\ written' = written \ {i}
  /\ UNCHANGED <<inst, enabled, fd, vm, quota, driver_vars, run_vars>>

\* VCpu_WriteVMCS: read the registers, edit one field, write them back.  The
\* process stops in __debugbreak when the driver refuses either.
VCpu_WriteVMCS(i) ==
  /\ Calling
  /\ i \in vcpus
  /\ \E got, put \in hax_sync_vcpu_state(i) :
       IF got /\ put THEN written' = written \cup {i} /\ UNCHANGED inst
       ELSE inst' = "aborted" /\ UNCHANGED written
  /\ UNCHANGED <<enabled, fd, owned, vm, vcpus, tunnel, quota, driver_vars, run_vars>>

\* VCpu_Run / VCpu_Exec.
VCpu_Exec(i) ==
  /\ Calling
  /\ i \in written
  /\ exec' = i /\ status' = "none"
  /\ UNCHANGED <<inst, enabled, fd, owned, vm, cpu_vars, quota, driver_vars>>

\* One turn of its loop; ret is zero for the statuses in Continues.
Continues == {"resume", "hlt"}
ExecTurn ==
  /\ exec # -1
  /\ TRUE \in hax_vcpu_run(exec)
  /\ \E s \in Statuses :
       /\ status' = s
       /\ exec' = IF s \in Continues THEN exec ELSE -1
  /\ UNCHANGED <<inst, enabled, fd, owned, vm, cpu_vars, quota, driver_vars>>

\* A failed run aborts the process (hax_vcpu_run returns 0 or -EFAULT, so the
\* branch for -EINTR and -EAGAIN is never taken), and so does a failed read of
\* the registers for dump_vcpu_state.
ExecAbort ==
  /\ exec # -1
  /\ FALSE \in hax_vcpu_run(exec) \cup hax_sync_vcpu_state(exec)
  /\ inst' = "aborted" /\ exec' = -1
  /\ UNCHANGED <<enabled, fd, owned, vm, cpu_vars, quota, driver_vars, status>>

Next ==
  \/ Probe \/ VM_HaxEnabled
  \/ \E size \in Sizes : OpenInstance(size) \/ VM_SetRAMSize(size)
  \/ CreateVm \/ PopulateRam \/ SetPhysMem \/ FreeInstance \/ VM_DestroyInstance
  \/ VCpu_Create
  \/ \E i \in Slots : VCpu_Destroy(i) \/ VCpu_WriteVMCS(i) \/ VCpu_Exec(i)
  \/ ExecTurn \/ ExecAbort

Spec == Init /\ [][Next]_vars

-----------------------------------------------------------------------------
(* Properties *)

TypeOK ==
  /\ inst \in {"none", "probing", "opening", "live", "freeing", "aborted"}
  /\ enabled \in BOOLEAN
  /\ fd \in {"none", "open", "invalid", "garbage"}
  /\ owned \subseteq Handles
  /\ vm \in [id : VmIds \cup {-1}, ram : {"none", "populated", "set"}]
  /\ vcpus \subseteq Slots /\ tunnel \subseteq Slots /\ written \subseteq Slots
  /\ quota \in Sizes \cup {0} /\ limit \in Sizes \cup {NoLimit} /\ module \in Modules
  /\ exec \in Slots \cup {-1} /\ status \in Statuses \cup {"none"}

\* The slot table, the open handles and the tunnels agree: a slot is in use
\* exactly when the handle of that vCPU is open and its tunnel mapped (VCpu_Init
\* and VCpu_Exec use it without a test), whatever step of VCpu_Create failed.  A
\* new vCPU does not inherit the registers written for the one before it in its
\* slot, and slots and RAM end with the virtual machine.
SlotsMatchHandles ==
  /\ owned \cap Slots = vcpus /\ tunnel = vcpus
  /\ written \subseteq vcpus
  /\ vcpus # {} \/ vm # NoVm => inst \in {"live", "aborted"} /\ Vm \in owned
  /\ inst = "live" => {Device, Vm} \subseteq owned /\ vm.id <= MAX_VM_ID
  /\ inst = "none" => owned = {}

\* What the driver reports binds the instance: a virtual machine comes to life
\* only on a driver that HaxIsSupported accepts, although the device was closed
\* and opened again in between; and VM_SetRAMSize is atomic: the recorded size
\* changes only to one within the driver's limit, and a refused call leaves the
\* size that was there.
WithinTerms ==
  /\ inst' = "live" => module.cur_version >= HaxMinVersion
                       /\ module.compat_version <= HaxCurrentVersion
  /\ inst = "live" /\ inst' = "live" /\ quota' # quota =>
       limit = NoLimit \/ quota' <= limit

\* Handles are given up children first: the virtual machine is closed only
\* when every vCPU of it has been destroyed, the device after it.
Tree == INSTANCE HandleTree
ImplementsHandleTree == Tree!Spec
=============================================================================
