------------------------------ MODULE HaxDevice ------------------------------
(***************************************************************************)
(* How QEMU's accelerator gets hold of the HAX driver and lets it go:      *)
(* hax_init and the creation and destruction of the virtual machine and of *)
(* its vCPUs (target-i386/hax-all.c), over the requests of either host     *)
(* (hax-windows.c, hax-darwin.c).                                          *)
(*                                                                         *)
(* One thread makes the calls.  The driver and the callers (vl.c, cpus.c)  *)
(* are external: a request succeeds or not as the driver likes, and what   *)
(* its wrapper then returns is the host's.                                 *)
(***************************************************************************)
EXTENDS Integers, FiniteSets

CONSTANTS
  Host,        \* "windows" or "darwin"
  NCpus,       \* vCPUs: 0 .. NCpus - 1
  GuestPages   \* page-aligned blocks of guest memory

ASSUME HaxDeviceAssumption ==
  /\ Host \in {"windows", "darwin"}
  /\ NCpus \in 1 .. 16   \* HAX_MAX_VCPU

Cpus == 0 .. NCpus - 1
NoVcpu == -1
vcpu(id) == <<"vcpu", id>>
mod == <<"mod">>
machine == <<"vm">>
Handles == {mod, machine} \cup {vcpu(id) : id \in Cpus}

VARIABLES
  step,      \* the next step of the main thread
  support,   \* hax_support
  handles,   \* devices the process holds open
  vm,        \* hax_global.vm is set
  slots,     \* hax_global.vm->vcpus
  vcpus,     \* vCPUs whose struct hax_vcpu_state is allocated and set up
  backed     \* guest pages the driver maps

device_vars == <<step, support, handles, vm, slots, vcpus, backed>>

DeviceInit ==
  /\ step = "set_ramsize" /\ support = -1
  /\ handles = {} /\ vm = FALSE
  /\ slots = [i \in Cpus |-> NoVcpu] /\ vcpus = {} /\ backed = {}

-----------------------------------------------------------------------------
(* The requests.  ok says whether the driver granted it; DeviceIoControl
   answers 0 and ioctl -1 when not, and each wrapper makes its own error of it.
   A descriptor is 1 when it is valid; hax_invalid_fd is what tells. *)

EFAULT == 14
errno == 5
EINVAL == 22

Win_hax_invalid_fd(fd) == fd = -1      \* INVALID_HANDLE_VALUE
Darwin_hax_invalid_fd(fd) == fd <= 0
hax_invalid_fd(fd) ==
  IF Host = "windows" THEN Win_hax_invalid_fd(fd) ELSE Darwin_hax_invalid_fd(fd)

Win_mod_open(ok) == IF ok THEN 1 ELSE -1
Darwin_mod_open(ok) == IF ok THEN 1 ELSE -errno
ModOpen(ok) == IF Host = "windows" THEN Win_mod_open(ok) ELSE Darwin_mod_open(ok)

\* hax_capability and hax_mod_version
WinQuery(ok) == IF ok THEN 0 ELSE -EFAULT
DarwinQuery(ok) == IF ok THEN 0 ELSE -errno
Query(ok) == IF Host = "windows" THEN WinQuery(ok) ELSE DarwinQuery(ok)

\* hax_host_create_vm and hax_host_open_vm: the numbers of the machines are
\* below MAX_VM_ID, so their names are never refused.
WinMakeVm(created, opened) ==
  [ret |-> IF created THEN 0 ELSE -1, fd |-> IF opened THEN 1 ELSE -1]
DarwinMakeVm(created, opened) ==
  [ret |-> IF created THEN 0 ELSE -1, fd |-> IF opened THEN 1 ELSE -1]
MakeVm(created, opened) ==
  IF Host = "windows" THEN WinMakeVm(created, opened) ELSE DarwinMakeVm(created, opened)

\* hax_host_create_vcpu, hax_host_open_vcpu and hax_host_setup_vcpu_channel
WinMakeVcpu(created, opened, channel, size) ==
  [ret |-> IF created THEN 0 ELSE -1, fd |-> IF opened THEN 1 ELSE -1,
   channel |-> IF ~channel THEN -1 ELSE IF size THEN 0 ELSE -EINVAL]
DarwinMakeVcpu(created, opened, channel, size) ==
  [ret |-> IF created THEN 0 ELSE -1, fd |-> IF opened THEN 1 ELSE -1,
   channel |-> IF ~channel THEN -1 ELSE IF size THEN 0 ELSE -EINVAL]
MakeVcpu(created, opened, channel, size) ==
  IF Host = "windows" THEN WinMakeVcpu(created, opened, channel, size)
                      ELSE DarwinMakeVcpu(created, opened, channel, size)

-----------------------------------------------------------------------------
(* hax_init *)

\* main, before it: the global state is cleared.
hax_set_ramsize ==
  /\ step = "set_ramsize"
  /\ step' = "mod_open"
  /\ UNCHANGED <<support, handles, vm, slots, vcpus, backed>>

\* The open fails: fd is set to 0, for which the error path closes nothing.
hax_mod_open ==
  /\ step = "mod_open"
  /\ support' = 0
  /\ \E ok \in BOOLEAN :
       IF hax_invalid_fd(ModOpen(ok)) THEN step' = "off" /\ UNCHANGED handles
       ELSE handles' = handles \cup {mod} /\ step' = "capability"
  /\ UNCHANGED <<vm, slots, vcpus, backed>>

\* A refused request counts as "no such capability support" and goes on.
hax_get_capability(ret, working, quota_holds) ==
  IF ret # 0 THEN "ENOSYS"
  ELSE IF ~working THEN "ENXIO"
  ELSE IF ~quota_holds THEN "ENOSPC" ELSE "0"

hax_version_support(ret, lest_ok, compat_ok) == ret >= 0 /\ lest_ok /\ compat_ok

CheckDriver ==
  /\ step = "capability"
  /\ \E c, v, working, quota, lest, compat \in BOOLEAN :
       step' = IF /\ hax_get_capability(Query(c), working, quota) \in {"0", "ENOSYS"}
                  /\ hax_version_support(Query(v), lest, compat)
               THEN "vm_create" ELSE "error"
  /\ UNCHANGED <<support, handles, vm, slots, vcpus, backed>>

\* With the end of hax_init.
hax_vm_create ==
  /\ step = "vm_create"
  /\ \E created, opened \in BOOLEAN :
       LET made == MakeVm(created, opened) IN
       IF made.ret = 0 /\ ~hax_invalid_fd(made.fd)
       THEN /\ handles' = handles \cup {machine} /\ vm' = TRUE
            /\ support' = 1 /\ step' = "running"
       ELSE /\ step' = "error" /\ UNCHANGED <<handles, vm, support>>
  /\ UNCHANGED <<slots, vcpus, backed>>

InitError_KeepsModule ==
  /\ step = "error"
  /\ handles' = handles /\ step' = "off"
  /\ UNCHANGED <<support, vm, slots, vcpus, backed>>
InitError ==
  /\ step = "error"
  /\ handles' = handles \ {mod} /\ step' = "off"
  /\ UNCHANGED <<support, vm, slots, vcpus, backed>>

-----------------------------------------------------------------------------
(* Guest memory *)

\* hax_populate_ram, then hax_set_phys_mem for an aligned block of RAM or ROM.
\* A block the driver refuses is an error code on Windows, which nobody looks
\* at, and the end of the process on Darwin.
WinSetPhysMem(page, ok) ==
  /\ backed' = IF ok THEN backed \cup {page} ELSE backed
  /\ UNCHANGED step
DarwinSetPhysMem(page, ok) ==
  /\ backed' = IF ok THEN backed \cup {page} ELSE backed
  /\ step' = IF ok THEN step ELSE "exited"

hax_set_phys_mem(page) ==
  /\ step = "running" /\ vm /\ page \notin backed /\ vcpus = {}
  /\ \E ok \in BOOLEAN :
       IF Host = "windows" THEN WinSetPhysMem(page, ok) ELSE DarwinSetPhysMem(page, ok)
  /\ UNCHANGED <<support, handles, vm, slots, vcpus>>

-----------------------------------------------------------------------------
(* vCPUs *)

\* hax_vcpu_create up to the open of its device; hax_init_vcpu exits the
\* process when it fails.
OpenVcpu(id) ==
  /\ step = "running" /\ vm /\ slots[id] = NoVcpu /\ id \notin vcpus
  /\ \E created, opened \in BOOLEAN :
       LET made == MakeVcpu(created, opened, TRUE, TRUE) IN
       IF made.ret = 0 /\ ~hax_invalid_fd(made.fd)
       THEN handles' = handles \cup {vcpu(id)} /\ step' = "channel"
       ELSE step' = "exited" /\ UNCHANGED handles
  /\ UNCHANGED <<support, vm, slots, vcpus, backed>>

\* The rest of it: the slot is filled first and emptied again on failure.
SetupVcpu(id) ==
  /\ step = "channel" /\ vcpu(id) \in handles /\ id \notin vcpus
  /\ \E channel, size \in BOOLEAN :
       IF MakeVcpu(TRUE, TRUE, channel, size).channel = 0
       THEN /\ slots' = [slots EXCEPT ![id] = id] /\ vcpus' = vcpus \cup {id}
            /\ step' = "running" /\ UNCHANGED handles
       ELSE /\ handles' = handles \ {vcpu(id)} /\ step' = "exited"
            /\ UNCHANGED <<slots, vcpus>>
  /\ UNCHANGED <<support, vm, backed>>

hax_vcpu_create(id) == OpenVcpu(id) \/ SetupVcpu(id)

\* vcpu_id is read here and written nowhere: memset left it 0.
vcpu_id(id) == 0
hax_vcpu_destroy(id) ==
  /\ step \in {"running", "closing"} /\ vm /\ id \in vcpus
  /\ step' = "closing"
  /\ handles' = handles \ {vcpu(id)} /\ vcpus' = vcpus \ {id}
  /\ slots' = [slots EXCEPT ![vcpu_id(id)] = NoVcpu]
  /\ UNCHANGED <<support, vm, backed>>

\* Callers create no vCPU once they have begun to destroy.  Refused while a slot is in use.
hax_vm_destroy_Unchecked ==
  /\ step \in {"running", "closing"} /\ vm
  /\ handles' = handles \ {machine} /\ vm' = FALSE
  /\ UNCHANGED <<step, support, slots, vcpus, backed>>
hax_vm_destroy ==
  /\ step \in {"running", "closing"} /\ vm
  /\ \A i \in Cpus : slots[i] = NoVcpu
  /\ handles' = handles \ {machine} /\ vm' = FALSE
  /\ UNCHANGED <<step, support, slots, vcpus, backed>>

DeviceNext ==
  \/ hax_set_ramsize \/ hax_mod_open \/ CheckDriver \/ hax_vm_create \/ InitError
  \/ \E page \in GuestPages : hax_set_phys_mem(page)
  \/ \E id \in Cpus : hax_vcpu_create(id) \/ hax_vcpu_destroy(id)
  \/ hax_vm_destroy

-----------------------------------------------------------------------------
(* Properties *)

DeviceTypeOK ==
  /\ support \in {-1, 0, 1}
  /\ handles \subseteq Handles /\ vm \in BOOLEAN
  /\ slots \in [Cpus -> Cpus \cup {NoVcpu}] /\ vcpus \subseteq Cpus
  /\ backed \subseteq GuestPages

\* hax_init either leaves the accelerator on, with the module and the machine
\* open, or off with nothing open; and while it is on, the vCPUs that are set
\* up are the ones whose device is open (but for one in the making).
DeviceHeld ==
  /\ step = "off" => handles = {} /\ support = 0
  /\ support = 1 => mod \in handles /\ (vm <=> machine \in handles)
  /\ step \in {"running", "closing"} => {vcpu(id) : id \in vcpus} = handles \ {mod, machine}

\* The devices are opened and closed as HandleTree says: the machine never
\* goes while a vCPU of it is open, whatever the order of the destructions.
Tree == INSTANCE HandleTree WITH
          owned <- handles,
          Parent <- [h \in Handles |-> IF h \in {mod, machine} THEN mod ELSE machine]
DevicesFollowTree == Tree!Init /\ [][Tree!Next]_handles
=============================================================================
