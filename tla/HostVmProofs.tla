----------------------------- MODULE HostVmProofs -----------------------------
(***************************************************************************)
(* Proofs about the host's side of the virtual machine: what HostFrames    *)
(* keeps (HostFramesProofs), what main and its classes hold and give up,   *)
(* the slots and handles of the C-style interface, and the memory blocks.  *)
(*                                                                         *)
(* One inductive invariant per part; the parts share no step.              *)
(***************************************************************************)
EXTENDS MCHostVm, HostFramesProofs

-----------------------------------------------------------------------------
(* main and its classes (HaxHost) *)

BeforeDevice == {"prepare", "load_boot", "load_os", "copy", "open"}
WithDevice == {"available", "supported", "create_vm"}
WithVm == {"populate", "set_ram", "create_cpu"}
BeforeReset == {"get_state", "msrs", "reset", "write"}
Running == {"run", "refresh", "switch"}

\* What has been loaded into the guest's memory, by the step main is at.
ImagesInv ==
  /\ pc \in {"prepare", "load_boot"} => loaded = {}
  /\ pc = "load_os" => loaded = {"boot"}
  /\ pc = "copy" => loaded = {"boot", "os"}
  /\ pc \in {"load_boot", "load_os", "copy"} => ram = "allocated"
  /\ "context" \in loaded => ram # "none" /\ loaded = {"boot", "os", "context"}

\* The handles main holds, by the step it is at, and what the driver has.
HandlesInv ==
  /\ pc \in BeforeDevice => owned = {}
  /\ pc \in WithDevice => owned = {"device"}
  /\ pc \in WithVm => owned = {"device", "vm"}
  /\ pc \in BeforeReset \cup Running \cup {"delete_cpu"} => owned = Program!Handles
  /\ pc \in BeforeReset \cup Running => tunnel
  /\ pc = "done" => owned = {}
  /\ "cpu" \in owned => "vm" \in owned
  /\ "vm" \in owned => "device" \in owned
  /\ tunnel => "cpu" \in owned

DriverInv ==
  /\ pc \in {"create_vm"} \cup WithVm \cup BeforeReset \cup Running => Program!Supported
  /\ pc \in WithVm \cup BeforeReset \cup Running => drv.vm
  /\ pc \in BeforeDevice \cup WithDevice \cup {"populate"} => drv.ram = "none"
  /\ pc \in {"create_cpu"} \cup BeforeReset \cup Running => drv.ram = "set"
  /\ pc \in BeforeDevice \cup WithDevice \cup WithVm => drv.cpu = "none"
  /\ pc \in Running => drv.cpu = "reset"
  /\ drv.ram # "none" \/ drv.cpu # "none" => "vm" \in owned \cup leaked

\* What the driver's registers hold until the guest has run once.
Untouched(r) == IF r \in Msrs THEN {"power_on", "pattern"} ELSE {"power_on"}
RegistersInv ==
  /\ pc \in BeforeDevice \cup WithDevice \cup WithVm \cup BeforeReset => exit = "none"
  /\ pc \in {"refresh", "switch"} => exit # "none"
  /\ pc \in BeforeDevice \cup WithDevice \cup WithVm \cup BeforeReset =>
       \A r \in Program!Registers : hw[r] \in Untouched(r)
  /\ pc = "write" => m_state = hw
  /\ Program!FirstRunFromReset

ProgramInv ==
  Program!TypeOK /\ ImagesInv /\ HandlesInv /\ DriverInv /\ RegistersInv

\* The invariant of the program holds when main starts.
LEMMA ProgramInit ==
  ASSUME Program!Init
  PROVE  ProgramInv
<1> USE DEF Program!Init, Program!CpuInit, Program!All
<1>1. Program!TypeOK
  BY DEF Program!TypeOK, Program!CpuTypeOK
<1>2. ImagesInv /\ HandlesInv
  BY DEF ImagesInv, HandlesInv, BeforeDevice, WithDevice, WithVm, BeforeReset, Running
<1>3. DriverInv
  BY DEF DriverInv, BeforeDevice, WithDevice, WithVm, BeforeReset, Running
<1>4. RegistersInv
  BY DEF RegistersInv, BeforeDevice, WithDevice, WithVm, BeforeReset, Running, Untouched,
         Program!FirstRunFromReset
<1> QED BY <1>1, <1>2, <1>3, <1>4 DEF ProgramInv

\* CloseHandle, successful or not: the handle is nobody's any more.
LEMMA ClosedFacts ==
  ASSUME NEW h \in Program!Handles, owned \subseteq Program!Handles, leaked \subseteq Program!Handles,
         Program!CloseOwned(h)
  PROVE  /\ owned' = owned \ {h} /\ owned' \subseteq Program!Handles
         /\ leaked' \subseteq Program!Handles /\ leaked' \in {leaked, leaked \cup {h}}
BY DEF Program!CloseOwned

\* A close leaves everything but the handles and the tunnel to the rest of main.
LEMMA TypesStay ==
  ASSUME Program!TypeOK, pc' \in {pc, "free"}, tunnel' \in BOOLEAN,
         owned' \subseteq Program!Handles, leaked' \subseteq Program!Handles,
         drv' \in {drv, [drv EXCEPT !.vm = FALSE, !.ram = "none", !.cpu = "none"]},
         UNCHANGED <<ram, loaded, exit, Program!cpu_vars>>
  PROVE  Program!TypeOK'
<1>1. Program!CpuTypeOK'
  BY DEF Program!TypeOK, Program!CpuTypeOK, Program!cpu_vars
<1>2. drv' \in [cur_version : Versions, compat_version : Versions, vm : BOOLEAN,
               ram : {"none", "populated", "set"}, cpu : {"none", "created", "reset"}]
  <2>1. drv \in [cur_version : Versions, compat_version : Versions, vm : BOOLEAN,
                ram : {"none", "populated", "set"}, cpu : {"none", "created", "reset"}]
    BY DEF Program!TypeOK
  <2>2. [drv EXCEPT !.vm = FALSE, !.ram = "none", !.cpu = "none"]
          \in [cur_version : Versions, compat_version : Versions, vm : BOOLEAN,
              ram : {"none", "populated", "set"}, cpu : {"none", "created", "reset"}]
    BY ONLY <2>1
  <2> QED BY <2>1, <2>2
<1> HIDE DEF Program!CpuTypeOK
<1> QED BY <1>1, <1>2 DEF Program!TypeOK

\* Every call main makes keeps it, whichever of the requests fail.
LEMMA ProgramStep ==
  ASSUME ProgramInv, Program!Next
  PROVE  ProgramInv'
<1> USE DEF ProgramInv, ImagesInv, HandlesInv, DriverInv, RegistersInv, Program!TypeOK,
            Program!CpuTypeOK, Program!FirstRunFromReset, Program!Supported, Program!Handles,
            Program!Registers, Program!cpu_vars, Program!Exits, Untouched,
            BeforeDevice, WithDevice, WithVm, BeforeReset, Running
<1>1. CASE Program!PrepareVmContext
  BY <1>1 DEF Program!PrepareVmContext
<1>2. CASE Program!LoadBootCode
  <2>1. Program!TypeOK'
    BY <1>2 DEF Program!LoadBootCode, Program!Load
  <2>2. ImagesInv'
    <3>1. loaded' \in {{}, {"boot"}}
      BY <1>2 DEF Program!LoadBootCode, Program!Load
    <3> QED BY <1>2, <3>1 DEF Program!LoadBootCode, Program!Load
  <2>5. HandlesInv'
    BY <1>2 DEF Program!LoadBootCode, Program!Load
  <2>3. DriverInv'
    BY <1>2 DEF Program!LoadBootCode, Program!Load
  <2>4. RegistersInv'
    BY <1>2 DEF Program!LoadBootCode, Program!Load
  <2> QED BY <2>1, <2>2, <2>3, <2>4, <2>5
<1>3. CASE Program!LoadGuestOs
  BY <1>3 DEF Program!LoadGuestOs, Program!Load
<1>4. CASE Program!CopyContext
  BY <1>4 DEF Program!CopyContext
<1>5. CASE Program!OpenDevice
  <2>1. Program!TypeOK'
    BY <1>5 DEF Program!OpenDevice, Program!Goto
  <2>2. ImagesInv'
    BY <1>5 DEF Program!OpenDevice, Program!Goto
  <2>5. HandlesInv'
    <3>1. owned' \in {{}, {"device"}}
      BY <1>5 DEF Program!OpenDevice
    <3> QED BY <1>5, <3>1 DEF Program!OpenDevice, Program!Goto
  <2>3. DriverInv'
    BY <1>5 DEF Program!OpenDevice, Program!Goto
  <2>4. RegistersInv'
    BY <1>5 DEF Program!OpenDevice, Program!Goto
  <2> QED BY <2>1, <2>2, <2>3, <2>4, <2>5
<1>6. CASE Program!IsAvailable
  BY <1>6 DEF Program!IsAvailable, Program!Goto
<1>7. CASE Program!IsSupported
  BY <1>7 DEF Program!IsSupported, Program!Goto
<1>8. CASE Program!CreateVm
  BY <1>8 DEF Program!CreateVm, Program!Goto
<1>9. CASE Program!PopulateRam
  BY <1>9 DEF Program!PopulateRam, Program!Goto
<1>10. CASE Program!SetPhysMem
  BY <1>10 DEF Program!SetPhysMem, Program!Goto
<1>11. CASE Program!CreateCpu
  BY <1>11 DEF Program!CreateCpu, Program!setup_channel, Program!HAXM_CPU_open,
     Program!get_cpu_state
<1>12. CASE Program!DeleteHalfOpenCpu
  <2>0. /\ owned' = owned \ {"cpu"} /\ owned' \subseteq Program!Handles
        /\ leaked' \subseteq Program!Handles /\ leaked' \in {leaked, leaked \cup {"cpu"}}
    BY <1>12, ClosedFacts DEF Program!DeleteHalfOpenCpu
  <2>1. Program!TypeOK'
    BY ONLY <1>12, <2>0, ProgramInv, TypesStay DEF Program!DeleteHalfOpenCpu, ProgramInv
  <2>2. ImagesInv'
    BY <1>12, <2>0 DEF Program!DeleteHalfOpenCpu
  <2>5. HandlesInv'
    BY <1>12, <2>0 DEF Program!DeleteHalfOpenCpu
  <2>3. DriverInv'
    BY <1>12, <2>0 DEF Program!DeleteHalfOpenCpu
  <2>4. RegistersInv'
    BY <1>12, <2>0 DEF Program!DeleteHalfOpenCpu
  <2> QED BY <2>1, <2>2, <2>3, <2>4, <2>5
<1>13. CASE Program!GetCpuState
  BY <1>13 DEF Program!GetCpuState, Program!get_cpu_state, Program!Goto
<1>14. CASE Program!GetMsrs
  BY <1>14 DEF Program!GetMsrs, Program!WriteMsrsBack, Program!get_msrs
<1>15. CASE Program!ResetReads
  BY <1>15 DEF Program!ResetReads, Program!get_cpu_state
<1>16. CASE Program!ResetWrites
  BY <1>16 DEF Program!ResetWrites, Program!EditAndSet, Program!Edited
<1>17. CASE Program!Run
  BY <1>17 DEF Program!Run, Program!GuestRuns
<1>18. CASE Program!Refresh
  BY <1>18 DEF Program!Refresh, Program!get_cpu_state
<1>19. CASE Program!Switch
  BY <1>19 DEF Program!Switch, Program!Status
<1>20. CASE Program!VirtualFree
  BY <1>20 DEF Program!VirtualFree
<1>21. CASE Program!CloseCpu
  <2>0. /\ owned' = owned \ {"cpu"} /\ owned' \subseteq Program!Handles
        /\ leaked' \subseteq Program!Handles /\ leaked' \in {leaked, leaked \cup {"cpu"}}
    BY <1>21, ClosedFacts DEF Program!CloseCpu
  <2>1. Program!TypeOK'
    BY ONLY <1>21, <2>0, ProgramInv, TypesStay DEF Program!CloseCpu, ProgramInv
  <2>2. ImagesInv'
    BY <1>21, <2>0 DEF Program!CloseCpu
  <2>5. HandlesInv'
    BY <1>21, <2>0 DEF Program!CloseCpu
  <2>3. DriverInv'
    BY <1>21, <2>0 DEF Program!CloseCpu
  <2>4. RegistersInv'
    BY <1>21, <2>0 DEF Program!CloseCpu
  <2> QED BY <2>1, <2>2, <2>3, <2>4, <2>5
<1>22. CASE Program!CloseVm
  <2>0. /\ owned' = owned \ {"vm"} /\ owned' \subseteq Program!Handles
        /\ leaked' \subseteq Program!Handles /\ leaked' \in {leaked, leaked \cup {"vm"}}
    BY <1>22, ClosedFacts DEF Program!CloseVm
  <2>1. Program!TypeOK'
    <3>1. /\ tunnel' \in BOOLEAN /\ pc' \in {pc, "free"}
          /\ drv' \in {drv, [drv EXCEPT !.vm = FALSE, !.ram = "none", !.cpu = "none"]}
          /\ UNCHANGED <<ram, loaded, exit, Program!cpu_vars>>
      BY ONLY <1>22, ProgramInv DEF Program!CloseVm, ProgramInv, Program!TypeOK
    <3> QED BY ONLY <3>1, <2>0, ProgramInv, TypesStay DEF ProgramInv
  <2>2. ImagesInv'
    BY <1>22, <2>0 DEF Program!CloseVm
  <2>5. HandlesInv'
    BY <1>22, <2>0 DEF Program!CloseVm
  <2>3. DriverInv'
    BY <1>22, <2>0 DEF Program!CloseVm
  <2>4. RegistersInv'
    BY <1>22, <2>0 DEF Program!CloseVm
  <2> QED BY <2>1, <2>2, <2>3, <2>4, <2>5
<1>23. CASE Program!CloseDevice
  <2>0. /\ owned' = owned \ {"device"} /\ owned' \subseteq Program!Handles
        /\ leaked' \subseteq Program!Handles /\ leaked' \in {leaked, leaked \cup {"device"}}
    <3>1. CASE "device" \in owned
      BY <1>23, <3>1, ClosedFacts DEF Program!CloseDevice
    <3>2. CASE "device" \notin owned
      <4>1. owned' = owned /\ leaked' = leaked /\ owned \subseteq Program!Handles
            /\ leaked \subseteq Program!Handles
        BY <1>23, <3>2 DEF Program!CloseDevice
      <4>2. owned = owned \ {"device"}
        BY ONLY <3>2
      <4> QED BY ONLY <4>1, <4>2
    <3> QED BY <3>1, <3>2
  <2>1. Program!TypeOK'
    BY <1>23, <2>0 DEF Program!CloseDevice
  <2>2. ImagesInv'
    BY <1>23, <2>0 DEF Program!CloseDevice
  <2>5. HandlesInv'
    BY <1>23, <2>0 DEF Program!CloseDevice
  <2>3. DriverInv'
    BY <1>23, <2>0 DEF Program!CloseDevice
  <2>4. RegistersInv'
    BY <1>23, <2>0 DEF Program!CloseDevice
  <2> QED BY <2>1, <2>2, <2>3, <2>4, <2>5
<1> QED BY <1>1, <1>2, <1>3, <1>4, <1>5, <1>6, <1>7, <1>8, <1>9, <1>10, <1>11, <1>12, <1>13, <1>14,
           <1>15, <1>16, <1>17, <1>18, <1>19, <1>20, <1>21, <1>22, <1>23 DEF Program!Next


-----------------------------------------------------------------------------
(* The C-style interface (LegacyVm) *)

\* Slots are numbers, and are neither the device nor the VM.
LEMMA SlotFacts ==
  /\ HAX_MAX_VCPU \in Nat \ {0} /\ Legacy!Slots \subseteq Nat
  /\ Legacy!Device \notin Legacy!Slots /\ Legacy!Vm \notin Legacy!Slots
  /\ Legacy!Device # Legacy!Vm /\ -1 \notin Legacy!Slots
BY PartsAssumption DEF Legacy!LegacyAssumption, Legacy!Slots, Legacy!Device, Legacy!Vm

\* What a step of the C-style interface finds besides what its properties say:
\* an instance is opened only after VM_HaxEnabled, a failed open leaves no
\* handle, and the vCPU that runs is one of the table.
Supports(driver_module) ==
  /\ driver_module.cur_version >= Legacy!HaxMinVersion
  /\ driver_module.compat_version <= Legacy!HaxCurrentVersion
InstanceInv ==
  /\ enabled => Supports(module)
  /\ inst \in {"opening", "live"} => enabled
  /\ inst \in {"probing", "opening"} => (fd = "open" <=> Legacy!Device \in vm_owned)
  /\ inst \in {"probing", "opening", "freeing"} => vm_owned \subseteq {Legacy!Device}
  /\ exec # -1 => inst = "live" /\ exec \in vcpus

LegacyInv == Legacy!TypeOK /\ Legacy!SlotsMatchHandles /\ InstanceInv

\* The invariant of the C-style interface holds before VM_Create.
LEMMA LegacyInit ==
  ASSUME Legacy!Init
  PROVE  LegacyInv
BY PartsAssumption
   DEF Legacy!Init, Legacy!LegacyAssumption, LegacyInv, InstanceInv, Legacy!TypeOK,
       Legacy!SlotsMatchHandles, Legacy!NoVm

\* What HaxIsSupported accepts.
LEMMA SupportedModule ==
  ASSUME module \in Modules, Legacy!HaxIsSupported
  PROVE  Supports(module)
BY PartsAssumption
   DEF Legacy!LegacyAssumption, Legacy!HaxIsSupported, Supports, Legacy!HaxMinVersion,
       Legacy!HaxCurrentVersion

\* The first free slot is free.
LEMMA FirstFreeSlot ==
  ASSUME Legacy!Slots \ vcpus # {}
  PROVE  Legacy!FreeSlot \in Legacy!Slots \ vcpus
<1>1. \E i \in Legacy!Slots \ vcpus : \A j \in Legacy!Slots \ vcpus : i <= j
  <2>1. Legacy!Slots \ vcpus \in SUBSET Nat
    BY SlotFacts
  <2> QED BY <2>1, LeastOf
<1> QED BY <1>1 DEF Legacy!FreeSlot

\* hax_mod_open gives a handle exactly when it returns one.
LEMMA ModOpened ==
  ASSUME Legacy!hax_mod_open, vm_owned = {}
  PROVE  /\ fd' \in {"open", "invalid", "garbage"}
         /\ vm_owned' \subseteq {Legacy!Device}
         /\ fd' = "open" <=> Legacy!Device \in vm_owned'
BY DEF Legacy!hax_mod_open

\* Every call of VM.cpp and VirtualCPU.cpp keeps it, whatever the driver answers.
LEMMA LegacyStep ==
  ASSUME LegacyInv, Legacy!Next
  PROVE  LegacyInv'
<1> USE SlotFacts DEF LegacyInv, InstanceInv, Legacy!TypeOK, Legacy!SlotsMatchHandles, Legacy!NoVm,
    Legacy!Handles, Legacy!Statuses, Legacy!cpu_vars, Legacy!run_vars, Legacy!driver_vars
<1>1. CASE Legacy!Probe
  <2>1. /\ fd' \in {"open", "invalid", "garbage"} /\ vm_owned' \subseteq {Legacy!Device}
        /\ fd' = "open" <=> Legacy!Device \in vm_owned'
    BY <1>1, ModOpened DEF Legacy!Probe
  <2> QED BY <1>1, <2>1 DEF Legacy!Probe
<1>2. CASE Legacy!VM_HaxEnabled
  BY ZenonT(30), <1>2, SupportedModule DEF Legacy!VM_HaxEnabled
<1>3. ASSUME NEW size \in Sizes, Legacy!OpenInstance(size) PROVE LegacyInv'
  <2>1. /\ fd' \in {"open", "invalid", "garbage"} /\ vm_owned' \subseteq {Legacy!Device}
        /\ fd' = "open" <=> Legacy!Device \in vm_owned'
    BY <1>3, ModOpened DEF Legacy!OpenInstance
  <2> QED BY <1>3, <2>1 DEF Legacy!OpenInstance
<1>4. ASSUME NEW size \in Sizes, Legacy!VM_SetRAMSize(size) PROVE LegacyInv'
  BY <1>4 DEF Legacy!VM_SetRAMSize, Legacy!Calling
<1>5. CASE Legacy!CreateVm
  <2>1. CASE inst' = "freeing" /\ UNCHANGED <<vm_owned, vm>>
    BY <1>5, <2>1 DEF Legacy!CreateVm
  <2>2. ASSUME NEW id \in VmIds, inst' = "live", vm' = [Legacy!NoVm EXCEPT !.id = id],
               vm_owned' = vm_owned \cup {Legacy!Vm}, fd = "open", id <= MAX_VM_ID
        PROVE  LegacyInv'
    <3>1. vm' = [id |-> id, ram |-> "none"] /\ vcpus = {} /\ vm_owned = {Legacy!Device}
      BY <1>5, <2>2 DEF Legacy!CreateVm
    <3>2. vm_owned' = {Legacy!Device, Legacy!Vm}
      BY <2>2, <3>1
    <3> QED BY <1>5, <2>2, <3>1, <3>2 DEF Legacy!CreateVm
  <2>3. \/ inst' = "freeing" /\ UNCHANGED <<vm_owned, vm>>
        \/ \E id \in VmIds :
             /\ inst' = "live" /\ vm' = [Legacy!NoVm EXCEPT !.id = id]
             /\ vm_owned' = vm_owned \cup {Legacy!Vm} /\ fd = "open" /\ id <= MAX_VM_ID
    BY <1>5 DEF Legacy!CreateVm, Legacy!hax_host_create_vm, Legacy!hax_host_open_vm,
                Legacy!hax_vm_devfs_string, Legacy!DeviceIoControl
  <2> QED BY <2>1, <2>2, <2>3
<1>6. CASE Legacy!PopulateRam
  BY <1>6 DEF Legacy!PopulateRam, Legacy!Calling
<1>7. CASE Legacy!SetPhysMem
  BY <1>7 DEF Legacy!SetPhysMem, Legacy!Calling
<1>8. CASE Legacy!FreeInstance
  <2>1. /\ inst = "freeing" /\ inst' = "none" /\ fd' = "none" /\ quota' = 0
        /\ vm_owned' = vm_owned \ {Legacy!Device}
        /\ UNCHANGED <<enabled, vm, vcpus, tunnels, written, exec>>
        /\ UNCHANGED <<module, limit, status>>
    BY <1>8 DEF Legacy!FreeInstance
  <2>2. vm_owned' = {} /\ exec = -1 /\ vcpus = {} /\ vm = Legacy!NoVm
    BY <2>1
  <2>3. Legacy!TypeOK'
    BY <2>1, <2>2
  <2>4. Legacy!SlotsMatchHandles' /\ InstanceInv'
    BY <2>1, <2>2
  <2> QED BY <2>3, <2>4
<1>9. CASE Legacy!VM_DestroyInstance
  BY <1>9 DEF Legacy!VM_DestroyInstance, Legacy!Calling
<1>10. CASE Legacy!VCpu_Create
  <2> DEFINE free == Legacy!FreeSlot
  <2>1. free \in Legacy!Slots \ vcpus
    BY <1>10, FirstFreeSlot DEF Legacy!VCpu_Create
  <2>2. \/ /\ vcpus' = vcpus \cup {free} /\ vm_owned' = vm_owned \cup {free}
           /\ tunnels' = tunnels \cup {free}
        \/ vcpus' = vcpus \ {free} /\ UNCHANGED <<vm_owned, tunnels>>
    BY <1>10 DEF Legacy!VCpu_Create, Legacy!SlotAfterError
  <2> HIDE DEF free
  <2>3. UNCHANGED <<inst, enabled, fd, vm, written, quota, limit, module, exec, status>> /\ inst = "live"
    BY <1>10 DEF Legacy!VCpu_Create, Legacy!Calling
  <2>4. CASE /\ vcpus' = vcpus \cup {free} /\ vm_owned' = vm_owned \cup {free}
             /\ tunnels' = tunnels \cup {free}
    BY <2>1, <2>3, <2>4
  <2>5. CASE vcpus' = vcpus \ {free} /\ UNCHANGED <<vm_owned, tunnels>>
    BY <2>1, <2>3, <2>5
  <2> QED BY <2>2, <2>4, <2>5
<1>11. ASSUME NEW i \in Legacy!Slots, Legacy!VCpu_Destroy(i) PROVE LegacyInv'
  BY <1>11 DEF Legacy!VCpu_Destroy, Legacy!Calling
<1>12. ASSUME NEW i \in Legacy!Slots, Legacy!VCpu_WriteVMCS(i) PROVE LegacyInv'
  <2>1. CASE written' = written \cup {i} /\ inst' = inst
    BY <1>12, <2>1 DEF Legacy!VCpu_WriteVMCS, Legacy!Calling
  <2>2. CASE inst' = "aborted" /\ written' = written
    BY <1>12, <2>2 DEF Legacy!VCpu_WriteVMCS, Legacy!Calling
  <2> QED BY <1>12, <2>1, <2>2 DEF Legacy!VCpu_WriteVMCS
<1>13. ASSUME NEW i \in Legacy!Slots, Legacy!VCpu_Exec(i) PROVE LegacyInv'
  BY <1>13 DEF Legacy!VCpu_Exec, Legacy!Calling
<1>14. CASE Legacy!ExecTurn
  BY <1>14 DEF Legacy!ExecTurn
<1>15. CASE Legacy!ExecAbort
  BY <1>15 DEF Legacy!ExecAbort
<1> QED BY <1>1, <1>2, <1>3, <1>4, <1>5, <1>6, <1>7, <1>8, <1>9, <1>10, <1>11, <1>12, <1>13, <1>14,
           <1>15 DEF Legacy!Next

\* The device is opened for an instance only on a driver that was accepted, and
\* the size of the RAM changes only to one the driver allows.
LEMMA LegacyTerms ==
  ASSUME LegacyInv, Legacy!Next
  PROVE  Legacy!WithinTerms
<1>1. inst' = "live" => Supports(module') /\ module' = module
  <2>1. inst' = "live" => inst \in {"opening", "live"} /\ module' = module
    BY DEF Legacy!Next, Legacy!Probe, Legacy!VM_HaxEnabled, Legacy!OpenInstance,
           Legacy!VM_SetRAMSize, Legacy!CreateVm, Legacy!PopulateRam, Legacy!SetPhysMem,
           Legacy!FreeInstance, Legacy!VM_DestroyInstance, Legacy!VCpu_Create,
           Legacy!VCpu_Destroy, Legacy!VCpu_WriteVMCS, Legacy!VCpu_Exec, Legacy!ExecTurn,
           Legacy!ExecAbort, Legacy!Calling, Legacy!driver_vars
  <2> QED BY <2>1 DEF LegacyInv, InstanceInv
<1>2. inst = "live" /\ inst' = "live" /\ quota' # quota => limit = NoLimit \/ quota' <= limit
  <2>1. inst = "live" /\ inst' = "live" /\ quota' # quota
          => \E size \in Sizes : Legacy!VM_SetRAMSize(size)
    BY DEF Legacy!Next, Legacy!Probe, Legacy!VM_HaxEnabled, Legacy!OpenInstance,
           Legacy!CreateVm, Legacy!PopulateRam, Legacy!SetPhysMem,
           Legacy!FreeInstance, Legacy!VM_DestroyInstance, Legacy!VCpu_Create,
           Legacy!VCpu_Destroy, Legacy!VCpu_WriteVMCS, Legacy!VCpu_Exec, Legacy!ExecTurn,
           Legacy!ExecAbort
  <2>2. ASSUME NEW size \in Sizes, Legacy!VM_SetRAMSize(size), quota' # quota
        PROVE  limit = NoLimit \/ quota' <= limit
    <3>1. quota' = size /\ (limit = NoLimit \/ ~(limit < size))
      BY <2>2 DEF Legacy!VM_SetRAMSize, Legacy!Accepted
    <3>2. size \in Nat /\ (limit \in Nat \/ limit = NoLimit)
      BY PartsAssumption DEF Legacy!LegacyAssumption, LegacyInv, Legacy!TypeOK
    <3> QED BY <3>1, <3>2
  <2> QED BY <2>1, <2>2
<1> QED BY <1>1, <1>2 DEF Legacy!WithinTerms, Supports

-----------------------------------------------------------------------------
(* Handles are given up children first *)

\* main opens a handle under the one it belongs to, and close_device, close_vm
\* and the destructor of HAXM_CPU give up the leaves first.
LEMMA ProgramTree ==
  ASSUME ProgramInv, Program!Next
  PROVE  [Program!Tree!Next]_owned
<1> USE DEF ProgramInv, HandlesInv, BeforeDevice, WithDevice, WithVm, BeforeReset, Running,
            Program!Handles, Program!Parent
<1>1. ASSUME NEW h \in Program!Handles, h \notin owned, owned' = owned \cup {h},
             Program!Parent[h] \in owned \cup {h}
      PROVE  Program!Tree!Next
  BY <1>1 DEF Program!Tree!Next, Program!Tree!Open
<1>2. ASSUME NEW h \in Program!Handles, h \in owned, owned' = owned \ {h},
             \A c \in owned \ {h} : Program!Parent[c] # h
      PROVE  Program!Tree!Next
  BY <1>2 DEF Program!Tree!Next, Program!Tree!GiveUp
<1>3. CASE Program!OpenDevice
  BY <1>1, <1>3 DEF Program!OpenDevice
<1>4. CASE Program!CreateVm
  BY <1>1, <1>4 DEF Program!CreateVm
<1>5. CASE Program!CreateCpu
  BY <1>1, <1>5 DEF Program!CreateCpu
<1>6. CASE Program!DeleteHalfOpenCpu \/ Program!CloseCpu
  <2>1. "cpu" \in owned /\ owned' = owned \ {"cpu"} /\ owned \subseteq Program!Handles
    BY <1>6 DEF Program!DeleteHalfOpenCpu, Program!CloseCpu, Program!CloseOwned, Program!TypeOK
  <2>2. \A c \in owned : Program!Parent[c] # "cpu"
    BY <2>1
  <2> QED BY <1>2, <2>1, <2>2
<1>7. CASE Program!CloseVm
  BY <1>2, <1>7 DEF Program!CloseVm, Program!CloseOwned, Program!TypeOK
<1>8. CASE Program!CloseDevice
  BY <1>2, <1>8 DEF Program!CloseDevice, Program!CloseOwned, Program!TypeOK
<1> QED BY <1>3, <1>4, <1>5, <1>6, <1>7, <1>8
  DEF Program!Next, Program!PrepareVmContext, Program!LoadBootCode, Program!LoadGuestOs,
      Program!Load, Program!CopyContext, Program!IsAvailable, Program!IsSupported,
      Program!PopulateRam, Program!SetPhysMem, Program!GetCpuState, Program!GetMsrs,
      Program!ResetReads, Program!ResetWrites, Program!Run, Program!Refresh, Program!Switch,
      Program!VirtualFree

\* So do HaxVmDestroy, which refuses while a slot is in use, and
\* VM_DestroyInstance, after which the instance is freed with its device.
LEMMA LegacyTree ==
  ASSUME LegacyInv, Legacy!Next
  PROVE  [Legacy!Tree!Next]_vm_owned
<1> USE SlotFacts DEF LegacyInv, InstanceInv, Legacy!SlotsMatchHandles, Legacy!Handles, Legacy!Parent
<1>1. ASSUME NEW h \in Legacy!Handles, h \notin vm_owned, vm_owned' = vm_owned \cup {h},
             Legacy!Parent[h] \in vm_owned \cup {h}
      PROVE  Legacy!Tree!Next
  BY <1>1 DEF Legacy!Tree!Next, Legacy!Tree!Open
<1>2. ASSUME NEW h \in Legacy!Handles, h \in vm_owned, vm_owned' = vm_owned \ {h},
             \A c \in vm_owned \ {h} : Legacy!Parent[c] # h
      PROVE  Legacy!Tree!Next
  BY <1>2 DEF Legacy!Tree!Next, Legacy!Tree!GiveUp
<1>3. CASE Legacy!Probe \/ \E size \in Sizes : Legacy!OpenInstance(size)
  BY <1>1, <1>3 DEF Legacy!Probe, Legacy!OpenInstance, Legacy!hax_mod_open
<1>4. CASE Legacy!VM_HaxEnabled \/ Legacy!FreeInstance
  BY <1>2, <1>4 DEF Legacy!VM_HaxEnabled, Legacy!FreeInstance
<1>5. CASE Legacy!CreateVm
  <2>1. CASE UNCHANGED vm_owned
    BY <2>1
  <2>2. CASE vm_owned' = vm_owned \cup {Legacy!Vm} /\ fd = "open"
    <3>1. inst = "opening" /\ Legacy!Device \in vm_owned /\ vm_owned \subseteq {Legacy!Device}
      BY <1>5, <2>2 DEF Legacy!CreateVm
    <3>2. Legacy!Vm \notin vm_owned /\ Legacy!Vm \in Legacy!Handles
          /\ Legacy!Parent[Legacy!Vm] = Legacy!Device
      BY <3>1
    <3> QED BY <1>1, <2>2, <3>1, <3>2
  <2> QED BY <1>5, <2>1, <2>2 DEF Legacy!CreateVm, Legacy!hax_host_create_vm, Legacy!DeviceIoControl
<1>6. CASE Legacy!VM_DestroyInstance
  <2>1. vcpus = {} /\ Legacy!Vm \in vm_owned /\ vm_owned' = vm_owned \ {Legacy!Vm}
        /\ vm_owned \subseteq Legacy!Handles
    BY <1>6 DEF Legacy!VM_DestroyInstance, Legacy!Calling, Legacy!TypeOK
  <2>2. \A c \in vm_owned \ {Legacy!Vm} : c = Legacy!Device /\ Legacy!Parent[c] = Legacy!Device
    BY <2>1
  <2>3. Legacy!Vm \in Legacy!Handles
    BY <2>1
  <2> QED BY <1>2, <2>1, <2>2, <2>3
<1>7. CASE Legacy!VCpu_Create
  BY <1>1, <1>7, FirstFreeSlot DEF Legacy!VCpu_Create, Legacy!Calling
<1>8. CASE \E i \in Legacy!Slots : Legacy!VCpu_Destroy(i)
  BY <1>2, <1>8 DEF Legacy!VCpu_Destroy, Legacy!Calling, Legacy!TypeOK
<1> QED BY <1>3, <1>4, <1>5, <1>6, <1>7, <1>8
  DEF Legacy!Next, Legacy!VM_SetRAMSize, Legacy!PopulateRam, Legacy!SetPhysMem,
      Legacy!VCpu_WriteVMCS, Legacy!VCpu_Exec, Legacy!ExecTurn, Legacy!ExecAbort

-----------------------------------------------------------------------------
(* The memory blocks (MemBlocks) *)

\* The blocks of the table: one for each populated buffer, at guest address 0
\* until it is set.  The driver has those that are set, in disjoint ranges.
BlocksInv ==
  /\ Blocks!TypeOK
  /\ \A b \in m_mem_blocks : \E buf \in Buffers :
       /\ b.hva = buf.hva /\ b.size = buf.size
       /\ buf \in set => b \in driver
       /\ buf \notin set => b.gpa = 0
  /\ driver \subseteq m_mem_blocks
  /\ \A b \in driver : \E buf \in set : b.hva = buf.hva
  /\ \A buf \in set : \E b \in driver : b.hva = buf.hva
  /\ \A b, c \in driver : b # c => b.gpa + b.size <= c.gpa \/ c.gpa + c.size <= b.gpa

\* The buffers the process populates do not overlap.
LEMMA BufferFacts ==
  /\ GuestPages \in Nat
  /\ \A a \in Buffers : a.hva \in Nat \ {0} /\ a.size \in Nat \ {0}
  /\ \A a, b \in Buffers : a.hva = b.hva => a = b
  /\ \A a, b \in Buffers : a # b => a.hva + a.size <= b.hva \/ b.hva + b.size <= a.hva
BY PartsAssumption DEF Blocks!BuffersAssumption

\* No block is populated or set at the start.
LEMMA BlocksInit ==
  ASSUME Blocks!Init
  PROVE  BlocksInv
BY DEF Blocks!Init, BlocksInv, Blocks!TypeOK

\* hax_populate_ram adds one block, for a buffer that had none.
LEMMA PopulateStep ==
  ASSUME BlocksInv, NEW buf \in Buffers, buf \notin set, Blocks!hax_populate_ram(buf)
  PROVE  BlocksInv'
<1> DEFINE new == [hva |-> buf.hva, gpa |-> 0, size |-> buf.size]
<1>1. CASE UNCHANGED m_mem_blocks
  BY <1>1 DEF BlocksInv, Blocks!hax_populate_ram, Blocks!TypeOK
<1>2. CASE ~Blocks!Populated(buf.hva) /\ m_mem_blocks' = m_mem_blocks \cup {new}
           /\ UNCHANGED failed
  <2>1. UNCHANGED <<driver, set>>
    BY DEF Blocks!hax_populate_ram
  <2>2. new \in [hva : Nat, gpa : Nat, size : Nat] /\ new.hva = buf.hva /\ new.gpa = 0
        /\ new.size = buf.size
    BY BufferFacts
  <2>3. \A b \in m_mem_blocks : b.hva # new.hva
    BY <1>2, <2>2 DEF Blocks!Populated
  <2> HIDE DEF new
  <2> QED BY <1>2, <2>1, <2>2, <2>3 DEF BlocksInv, Blocks!TypeOK
<1> QED BY <1>1, <1>2 DEF Blocks!hax_populate_ram

\* hax_set_phys_mem moves the buffer's block to its guest address, which it
\* gives the driver too.
LEMMA SetStep ==
  ASSUME BlocksInv, NEW buf \in Blocks!Pending, NEW gpa \in Blocks!Gpa,
         Blocks!FreeRange(gpa, buf.size), Blocks!hax_set_phys_mem(gpa, buf)
  PROVE  BlocksInv'
<1> DEFINE new == [hva |-> buf.hva, gpa |-> gpa, size |-> buf.size]
<1>1. CASE UNCHANGED <<driver, m_mem_blocks, set>>
  BY <1>1 DEF BlocksInv, Blocks!hax_set_phys_mem, Blocks!TypeOK
<1>2. CASE ~ UNCHANGED <<driver, m_mem_blocks, set>>
  <2>1. /\ driver' = driver \cup {new} /\ set' = set \cup {buf} /\ failed' = failed
        /\ m_mem_blocks' =
             {IF b.hva = buf.hva THEN [b EXCEPT !.gpa = gpa] ELSE b : b \in m_mem_blocks}
    BY <1>2 DEF Blocks!hax_set_phys_mem
  <2>2. buf \in Buffers /\ buf \notin set /\ gpa \in Nat
    BY BufferFacts DEF Blocks!Pending, Blocks!Gpa
  <2>3. new \in [hva : Nat, gpa : Nat, size : Nat] /\ new.hva = buf.hva /\ new.gpa = gpa
        /\ new.size = buf.size
    BY <2>2, BufferFacts
  <2>4. PICK old \in m_mem_blocks : old.hva = buf.hva
    BY <1>2 DEF Blocks!hax_set_phys_mem
  <2>5. \A b \in m_mem_blocks : b.hva = buf.hva => b = old
    BY <2>4 DEF BlocksInv, Blocks!TypeOK
  <2>6. old.size = buf.size /\ old \in [hva : Nat, gpa : Nat, size : Nat]
    BY <2>2, <2>4, BufferFacts DEF BlocksInv, Blocks!TypeOK
  <2>7. [old EXCEPT !.gpa = gpa] = new
    BY <2>4, <2>6
  <2> HIDE DEF new
  <2>8. m_mem_blocks' = (m_mem_blocks \ {old}) \cup {new}
    <3>1. m_mem_blocks' = {IF b = old THEN new ELSE b : b \in m_mem_blocks}
      BY <2>1, <2>4, <2>5, <2>7
    <3> QED BY <3>1, <2>4
  <2>9. \A b \in driver : b.hva # buf.hva /\ b # old
    BY <2>2, <2>4, BufferFacts DEF BlocksInv, Blocks!TypeOK
  <2>10. Blocks!TypeOK'
    BY <2>1, <2>2, <2>3, <2>4, <2>5, <2>8 DEF BlocksInv, Blocks!TypeOK
  <2>11. driver' \subseteq m_mem_blocks'
    BY <2>1, <2>8, <2>9 DEF BlocksInv
  <2>12. /\ \A b \in driver' : \E c \in set' : b.hva = c.hva
         /\ \A c \in set' : \E b \in driver' : b.hva = c.hva
    BY <2>1, <2>3 DEF BlocksInv
  <2>13. \A b, c \in driver' : b # c => b.gpa + b.size <= c.gpa \/ c.gpa + c.size <= b.gpa
    BY <2>1, <2>3 DEF BlocksInv, Blocks!FreeRange
  <2>14. ASSUME NEW b \in m_mem_blocks'
         PROVE  \E c \in Buffers : /\ b.hva = c.hva /\ b.size = c.size
                                   /\ c \in set' => b \in driver'
                                   /\ c \notin set' => b.gpa = 0
    <3>1. CASE b = new
      BY <3>1, <2>1, <2>2, <2>3
    <3>2. CASE b \in m_mem_blocks \ {old}
      <4>1. b.hva # buf.hva
        BY <3>2, <2>5
      <4> QED BY <4>1, <3>2, <2>1 DEF BlocksInv
    <3> QED BY <3>1, <3>2, <2>8
  <2> QED BY <2>10, <2>11, <2>12, <2>13, <2>14 DEF BlocksInv
<1> QED BY <1>1, <1>2

\* hax_populate_ram and hax_set_phys_mem keep the blocks as the driver has them.
LEMMA BlocksStep ==
  ASSUME BlocksInv, Blocks!Next
  PROVE  BlocksInv'
<1>1. ASSUME NEW buf \in Buffers, Blocks!Pending = {}, Blocks!hax_populate_ram(buf)
      PROVE  BlocksInv'
  <2>1. CASE Blocks!Populated(buf.hva)
    BY <1>1, <2>1 DEF Blocks!hax_populate_ram, BlocksInv, Blocks!TypeOK
  <2>2. CASE ~Blocks!Populated(buf.hva)
    <3>1. buf \notin set
      BY <2>2 DEF BlocksInv, Blocks!Populated
    <3> QED BY <1>1, <3>1, PopulateStep
  <2> QED BY <2>1, <2>2
<1> QED BY <1>1, SetStep DEF Blocks!Next

\* Between two pairs of calls the table is the driver's, and a translation finds
\* the one block that covers the address.
LEMMA TranslationRight ==
  ASSUME BlocksInv
  PROVE  Blocks!TranslationIsTheDrivers
<1> SUFFICES ASSUME Blocks!Pending = {}, NEW gpa \in 0 .. GuestPages + 1
             PROVE  /\ Blocks!gpa_to_hva(gpa) # 0
                         => Blocks!hva_to_gpa(Blocks!gpa_to_hva(gpa)) = gpa
                    /\ Blocks!gpa_to_hva(gpa) =
                         IF \E b \in driver : Blocks!Covers(b, "gpa", gpa)
                         THEN LET b == CHOOSE b \in driver : Blocks!Covers(b, "gpa", gpa)
                              IN  b.hva + (gpa - b.gpa)
                         ELSE 0
  BY DEF Blocks!TranslationIsTheDrivers
<1>0. gpa \in Nat /\ \A b \in m_mem_blocks : /\ b.hva \in Nat \ {0} /\ b.gpa \in Nat
                                             /\ b.size \in Nat \ {0}
  BY BufferFacts DEF BlocksInv, Blocks!TypeOK
<1>1. m_mem_blocks = driver
  BY DEF BlocksInv, Blocks!Pending, Blocks!Populated
<1>2. \A b, c \in driver : Blocks!Covers(b, "gpa", gpa) /\ Blocks!Covers(c, "gpa", gpa) => b = c
  BY <1>0, <1>1 DEF BlocksInv, Blocks!Covers
<1>3. ASSUME NEW b \in driver, Blocks!Covers(b, "gpa", gpa)
      PROVE  Blocks!FirstCovering("gpa", gpa) = {b}
  BY <1>0, <1>1, <1>2, <1>3 DEF Blocks!FirstCovering
<1>4. CASE \A b \in driver : ~Blocks!Covers(b, "gpa", gpa)
  <2>1. Blocks!FirstCovering("gpa", gpa) = {}
    BY <1>1, <1>4 DEF Blocks!FirstCovering
  <2> QED BY <2>1, <1>4 DEF Blocks!gpa_to_hva
<1>5. ASSUME NEW b \in driver, Blocks!Covers(b, "gpa", gpa)
      PROVE  /\ Blocks!gpa_to_hva(gpa) = b.hva + (gpa - b.gpa)
             /\ (CHOOSE c \in driver : Blocks!Covers(c, "gpa", gpa)) = b
             /\ Blocks!hva_to_gpa(Blocks!gpa_to_hva(gpa)) = gpa
  <2> DEFINE hva == b.hva + (gpa - b.gpa)
  <2>1. Blocks!gpa_to_hva(gpa) = hva
    BY <1>3, <1>5 DEF Blocks!gpa_to_hva
  <2>2. (CHOOSE c \in driver : Blocks!Covers(c, "gpa", gpa)) = b
    BY <1>2, <1>5
  <2>3. hva \in Nat /\ b.hva <= hva /\ hva < b.hva + b.size
    BY <1>0, <1>1, <1>5 DEF Blocks!Covers
  <2>4. \A c \in driver : Blocks!Covers(c, "hva", hva) => c = b
    <3>1. ASSUME NEW c \in driver, c # b, c.hva <= hva, hva < c.hva + c.size PROVE FALSE
      <4>1. PICK x, y \in Buffers : b.hva = x.hva /\ b.size = x.size /\ c.hva = y.hva /\ c.size = y.size
        BY <1>1 DEF BlocksInv
      <4>2. x # y
        BY <3>1, <4>1, <1>1 DEF BlocksInv, Blocks!TypeOK
      <4>3. x.hva + x.size <= y.hva \/ y.hva + y.size <= x.hva
        BY <4>1, <4>2, BufferFacts
      <4> QED BY <2>3, <3>1, <4>1, <4>3, <1>0, <1>1
    <3> QED BY <3>1, <2>3, <1>0, <1>1 DEF Blocks!Covers
  <2>5. Blocks!Covers(b, "hva", hva)
    BY <2>3 DEF Blocks!Covers
  <2> HIDE DEF hva
  <2>6. Blocks!FirstCovering("hva", hva) = {b}
    BY <2>4, <2>5, <1>0, <1>1 DEF Blocks!FirstCovering
  <2>7. Blocks!hva_to_gpa(hva) = b.gpa + (hva - b.hva)
    BY <2>6 DEF Blocks!hva_to_gpa
  <2>8. b.gpa + (hva - b.hva) = gpa
    BY <1>0, <1>1 DEF hva
  <2> QED BY <2>1, <2>2, <2>7, <2>8 DEF hva
<1> QED BY <1>4, <1>5

-----------------------------------------------------------------------------
(* The parts together *)

FramesInv == part = "frames" => IInv
PartsInv ==
  /\ part = "program" => ProgramInv
  /\ part = "legacy" => LegacyInv
  /\ part = "blocks" => BlocksInv

\* What the invariants say is of the variables of their part only.
LEMMA OthersIdle ==
  /\ ProgramInv /\ UNCHANGED program_vars => ProgramInv'
  /\ LegacyInv /\ UNCHANGED legacy_vars => LegacyInv'
  /\ BlocksInv /\ UNCHANGED block_vars => BlocksInv'
<1>1. ASSUME ProgramInv, UNCHANGED program_vars PROVE ProgramInv'
  BY <1>1 DEF program_vars, ProgramInv, ImagesInv, HandlesInv, DriverInv, RegistersInv,
       Program!TypeOK, Program!CpuTypeOK, Program!FirstRunFromReset, Program!Supported
<1>2. ASSUME LegacyInv, UNCHANGED legacy_vars PROVE LegacyInv'
  BY <1>2 DEF legacy_vars, LegacyInv, InstanceInv, Legacy!TypeOK, Legacy!SlotsMatchHandles
<1>3. ASSUME BlocksInv, UNCHANGED block_vars PROVE BlocksInv'
  BY <1>3 DEF block_vars, BlocksInv, Blocks!TypeOK
<1> QED BY <1>1, <1>2, <1>3

\* A step of any part keeps the invariant of the frame allocator.
LEMMA FramesStep ==
  ASSUME CallerReserves, FramesInv, [HostNext]_host_vars
  PROVE  FramesInv'
<1>1. part = "frames" => part' = part /\ [Next]_vars
  BY DEF HostNext, StepProgress, StepCaller, StepProgram, StepLegacy, StepBlocks, host_vars, Next
<1>2. part' = part
  BY DEF HostNext, StepProgress, StepCaller, StepProgram, StepLegacy, StepBlocks, host_vars
<1> QED BY <1>1, <1>2, StepInv DEF FramesInv

\* A step of any part keeps the invariants of the other three.
LEMMA PartsStep ==
  ASSUME PartsInv, [HostNext]_host_vars
  PROVE  PartsInv'
<1>1. CASE StepProgress \/ StepCaller
  BY <1>1, OthersIdle DEF StepProgress, StepCaller, PartsInv
<1>2. CASE StepProgram
  BY <1>2, ProgramStep DEF StepProgram, PartsInv
<1>3. CASE StepLegacy
  BY <1>3, LegacyStep DEF StepLegacy, PartsInv
<1>4. CASE StepBlocks
  BY <1>4, BlocksStep DEF StepBlocks, PartsInv
<1>5. CASE UNCHANGED host_vars
  BY <1>5, OthersIdle DEF host_vars, PartsInv
<1> QED BY <1>1, <1>2, <1>3, <1>4, <1>5 DEF HostNext

\* The three parts keep their invariants whatever the caller of the frame
\* database does.
THEOREM PartsInvariant == HostSpec => []PartsInv
<1>1. HostInit => PartsInv
  BY ProgramInit, LegacyInit, BlocksInit DEF HostInit, PartsInv
<1>2. PartsInv /\ [HostNext]_host_vars => PartsInv'
  BY PartsStep
<1> QED BY <1>1, <1>2, PTL DEF HostSpec

\* So does the frame database, once its own frames and the last one are reserved.
THEOREM FramesInvariant ==
  ASSUME CallerReserves
  PROVE  HostSpec => []FramesInv
<1>1. HostInit => FramesInv
  BY InitInv DEF HostInit, FramesInv
<1>2. FramesInv /\ [HostNext]_host_vars => FramesInv'
  BY FramesStep
<1> QED BY <1>1, <1>2, PTL DEF HostSpec

-----------------------------------------------------------------------------
(* What is promised *)

\* The frame database, the owners of frames and the mappings of pages agree
\* after any sequence of allocations, mappings and unmappings, and the scan of
\* alloc_physical_pages skips no run, whatever the sizes.
THEOREM FramesAreAccounted ==
  ASSUME CallerReserves
  PROVE  HostSpec => []FramesAccounted
<1>1. FramesInv => FramesAccounted
  BY DEF FramesInv, FramesAccounted, IInv, MemoryInv, CallInv, MemoryTypes, CallType, TypeOK
<1> QED BY <1>1, FramesInvariant, PTL

\* main runs the guest only with everything it needs and first from the state
\* reset writes, and its end finds nothing held, whatever calls failed.
THEOREM MainRunsAndCleansUp == HostSpec => []RunsAndCleansUp
<1>1. ProgramInv => Program!ReadyToRun
  BY DEF ProgramInv, ImagesInv, HandlesInv, DriverInv, Program!ReadyToRun, BeforeReset, Running
<1>2. ProgramInv => Program!NothingHeldAtExit
  BY DEF ProgramInv, HandlesInv, DriverInv, Program!NothingHeldAtExit
<1>3. PartsInv => RunsAndCleansUp
  BY <1>1, <1>2 DEF PartsInv, RunsAndCleansUp, ProgramInv, RegistersInv
<1> QED BY <1>3, PartsInvariant, PTL

\* The slots of the vCPUs and the memory blocks are the driver's.
THEOREM TablesAreTheDrivers == HostSpec => []TablesMatchDriver
<1>1. PartsInv => TablesMatchDriver
  BY TranslationRight DEF PartsInv, TablesMatchDriver, LegacyInv, BlocksInv
<1> QED BY <1>1, PartsInvariant, PTL

\* VM_CreateInstance and VM_SetRAMSize keep to what the driver reported.
THEOREM TermsAreKept == HostSpec => DriverTermsKept
<1>1. PartsInv /\ [HostNext]_host_vars => [part = "legacy" => Legacy!WithinTerms]_host_vars
  BY LegacyTerms DEF PartsInv, HostNext, StepProgress, StepCaller, StepProgram, StepLegacy,
     StepBlocks
<1> QED BY <1>1, PartsInvariant, PTL DEF HostSpec, DriverTermsKept

\* Both programs open handles under their parents and give the children up
\* first: they implement the tree of handles.
THEOREM HandleTreesKept == HostSpec => ImplementHandleTree
<1>1. HostInit => owned = {} /\ vm_owned = {}
  BY DEF HostInit, Program!Init, Legacy!Init, NoProgram, NoLegacy
<1>2. PartsInv /\ [HostNext]_host_vars => [Program!Tree!Next]_owned
  BY ProgramTree DEF PartsInv, HostNext, StepProgress, StepCaller, StepProgram, StepLegacy,
     StepBlocks,
                     program_vars, host_vars
<1>3. PartsInv /\ [HostNext]_host_vars => [Legacy!Tree!Next]_vm_owned
  BY LegacyTree DEF PartsInv, HostNext, StepProgress, StepCaller, StepProgram, StepLegacy,
     StepBlocks,
                     legacy_vars, host_vars
<1> QED BY <1>1, <1>2, <1>3, PartsInvariant, PTL
  DEF HostSpec, ImplementHandleTree, Program!ImplementsHandleTree, Legacy!ImplementsHandleTree,
      Program!Tree!Spec, Legacy!Tree!Spec, Program!Tree!Init, Legacy!Tree!Init

\* No step disturbs a mapping but that of the page a loop is at.
THEOREM MappingsStay ==
  ASSUME CallerReserves
  PROVE  HostSpec => OnlyCurrentPageRemapped
<1>1. FramesInv /\ [HostNext]_host_vars
        => [\A v \in UserPages : v # call.gva => Translation(v)' = Translation(v)]_vars
  BY RemapsOne DEF FramesInv, HostNext, StepProgress, StepCaller, StepProgram, StepLegacy,
     StepBlocks,
                   host_vars, Next, OthersKept
<1> QED BY <1>1, FramesInvariant, PTL DEF HostSpec, OnlyCurrentPageRemapped

\* The allocator and the page-table editor together are a frame pool.
THEOREM HostFramesArePool ==
  ASSUME CallerReserves
  PROVE  HostSpec => ImplementsFramePool
<1>1. HostInit => Owned = {}
  BY DEF HostInit, Init, NoFrames, Owned, Structure, Tables, TableOf
<1>2. FramesInv /\ [HostNext]_host_vars => [Pool!Next]_Owned
  <2>1. ASSUME FramesInv, UNCHANGED vars PROVE Owned' = Owned
    BY <2>1 DEF vars, Owned, Structure, Tables, TableOf
  <2>2. ASSUME FramesInv, StepProgress \/ StepCaller PROVE [Pool!Next]_Owned
    BY <2>2, PoolStep DEF FramesInv, StepProgress, StepCaller, Next
  <2> QED BY <2>1, <2>2 DEF HostNext, StepProgram, StepLegacy, StepBlocks, host_vars
<1> QED BY <1>1, <1>2, FramesInvariant, PTL DEF HostSpec, ImplementsFramePool, Pool!Spec, Pool!Init
=============================================================================
