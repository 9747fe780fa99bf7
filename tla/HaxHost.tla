------------------------------- MODULE HaxHost -------------------------------
(***************************************************************************)
(* The host program ShellcodeVM: main (main.cpp) with the classes HAXM,    *)
(* HAXM_VM and HAXM_CPU it drives (HAXM.h, HAXM_VM.h, HAXM_CPU.h).  One    *)
(* step per call that main makes; every call that reaches the operating    *)
(* system or the HAX driver may fail.                                      *)
(*                                                                         *)
(* The driver is external: a virtual machine exists in it from             *)
(* HAX_IOCTL_CREATE_VM until its handle is closed, and HAX_VCPU_IOCTL_RUN  *)
(* returns any exit status.  The registers of the vCPU are in VcpuState.   *)
(***************************************************************************)
EXTENDS Integers, VcpuState

CONSTANTS
  Versions    \* the version numbers a driver may report

VersionsAssumption == Versions \subseteq Nat

HaxCurrentVersion == 2
HaxMinVersion == 1

\* enum exit_status, with the statuses main treats alike taken together:
\* "resume" stands for IO, MMIO, FAST_MMIO, REAL, HLT, INTERRUPT and PAUSED,
\* "other" for any status the switch does not list.
Exits == {"resume", "statechange", "unknown_vmexit", "other"}

VARIABLES
  pc,       \* where main is
  ram,      \* the memory of the guest in this process
  loaded,   \* what is in that memory: boot code, guest OS, the VM_CONTEXT
  owned,    \* the handles held by the objects haxm, vm and cpu
  drv,      \* the driver: its VM, the RAM it was given, the vCPU's state
  tunnel,   \* m_tunnel is mapped
  exit,     \* exit_status at the end of the switch statement
  leaked    \* handles nobody holds any more and that are still open

host_vars == <<pc, ram, loaded, owned, drv, tunnel, exit, leaked>>
vars == <<host_vars, cpu_vars>>

Handles == {"device", "vm", "cpu"}
Parent == [h \in Handles |-> IF h = "cpu" THEN "vm" ELSE "device"]

Init ==
  /\ pc = "prepare"
  /\ ram = "none" /\ loaded = {}
  /\ owned = {} /\ leaked = {} /\ tunnel = FALSE /\ exit = "none"
  /\ drv \in [cur_version : Versions, compat_version : Versions,
              vm : {FALSE}, ram : {"none"}, cpu : {"none"}]
  /\ CpuInit

\* Where a failed call leads: "break", or a while condition that is false.
Goto(ok, next) == pc' = IF ok THEN next ELSE "free"

-----------------------------------------------------------------------------
\* PrepareVmContext: the memory, the two images, and then the VM_CONTEXT that
\* tells the guest about them.  Its failure is noticed and ignored ("//return
\* -1"): main goes on with what is there.
PrepareVmContext ==
  /\ pc = "prepare"
  /\ \E allocated \in BOOLEAN :
       /\ ram' = IF allocated THEN "allocated" ELSE "none"
       /\ pc' = IF allocated THEN "load_boot" ELSE "open"
  /\ UNCHANGED <<loaded, owned, drv, tunnel, exit, leaked, cpu_vars>>

Load(part, next) ==
  /\ \E read \in BOOLEAN :
       /\ loaded' = IF read THEN loaded \cup {part} ELSE loaded
       /\ pc' = IF read THEN next ELSE "open"
  /\ UNCHANGED <<ram, owned, drv, tunnel, exit, leaked, cpu_vars>>

LoadBootCode == pc = "load_boot" /\ Load("boot", "load_os")
LoadGuestOs == pc = "load_os" /\ Load("os", "copy")

CopyContext ==
  /\ pc = "copy" /\ pc' = "open"
  /\ loaded' = loaded \cup {"context"}
  /\ UNCHANGED <<ram, owned, drv, tunnel, exit, leaked, cpu_vars>>

\* HAXM::open_device
OpenDevice ==
  /\ pc = "open"
  /\ \E ok \in BOOLEAN :
       /\ owned' = IF ok THEN owned \cup {"device"} ELSE owned
       /\ Goto(ok, "available")
  /\ UNCHANGED <<ram, loaded, drv, tunnel, exit, leaked, cpu_vars>>

\* HAXM::is_available: true whenever the driver answers, working or not.
IsAvailable ==
  /\ pc = "available"
  /\ \E answered \in BOOLEAN : Goto(answered, "supported")
  /\ UNCHANGED <<ram, loaded, owned, drv, tunnel, exit, leaked, cpu_vars>>

\* HAXM::is_supported
Supported ==
  ~(HaxMinVersion > drv.cur_version \/ HaxCurrentVersion < drv.compat_version)
IsSupported ==
  /\ pc = "supported"
  /\ \E answered \in BOOLEAN : Goto(answered /\ Supported, "create_vm")
  /\ UNCHANGED <<ram, loaded, owned, drv, tunnel, exit, leaked, cpu_vars>>

\* HAXM::create_vm with HAXM_VM::open_vm: a virtual machine the driver has
\* created and whose device cannot be opened stays in the driver.
CreateVm ==
  /\ pc = "create_vm"
  /\ \E created, opened \in BOOLEAN :
       /\ drv' = [drv EXCEPT !.vm = created]
       /\ owned' = IF created /\ opened THEN owned \cup {"vm"} ELSE owned
       /\ Goto(created /\ opened, "populate")
  /\ UNCHANGED <<ram, loaded, tunnel, exit, leaked, cpu_vars>>

\* HAXM_VM::hax_populate_ram and hax_set_phys_mem, called once each.
PopulateRam ==
  /\ pc = "populate"
  /\ \E ok \in BOOLEAN :
       /\ drv' = IF ok THEN [drv EXCEPT !.ram = "populated"] ELSE drv
       /\ Goto(ok, "set_ram")
  /\ UNCHANGED <<ram, loaded, owned, tunnel, exit, leaked, cpu_vars>>

SetPhysMem ==
  /\ pc = "set_ram"
  /\ \E ok \in BOOLEAN :
       /\ drv' = IF ok THEN [drv EXCEPT !.ram = "set"] ELSE drv
       /\ Goto(ok, "create_cpu")
  /\ UNCHANGED <<ram, loaded, owned, tunnel, exit, leaked, cpu_vars>>

\* HAXM_CPU::setup_channel fails when the driver refuses, and when the tunnel
\* it offers is smaller than the structure.  HAXM_CPU::open needs it as well as
\* the device and the registers.
setup_channel == {answered /\ large : answered \in BOOLEAN, large \in BOOLEAN}
HAXM_CPU_open(opened, channel, state) == opened /\ channel /\ state

\* HAXM_VM::create_cpu: create the vCPU and open it.  A vCPU that is opened and
\* not set up is deleted, and its destructor closes the handle (see
\* DeleteHalfOpenCpu).
CreateCpu ==
  /\ pc = "create_cpu"
  /\ \E created, opened, state \in BOOLEAN, channel \in setup_channel :
       LET open == created /\ opened
           ok == created /\ HAXM_CPU_open(opened, channel, state)
       IN  /\ drv' = IF created THEN [drv EXCEPT !.cpu = "created"] ELSE drv
           /\ owned' = IF open THEN owned \cup {"cpu"} ELSE owned
           /\ tunnel' = (open /\ channel)
           /\ pc' = IF ok THEN "get_state"
                    ELSE IF open THEN "delete_cpu" ELSE "free"
           /\ IF open /\ channel THEN get_cpu_state(state) ELSE UNCHANGED cpu_vars
  /\ UNCHANGED <<ram, loaded, exit, leaked>>

\* CloseHandle on a handle of an object being deleted: if it fails, the object
\* goes and the handle stays open.
CloseOwned(h) ==
  /\ owned' = owned \ {h}
  /\ \E closed \in BOOLEAN :
       leaked' = IF closed THEN leaked ELSE leaked \cup {h}

DeleteHalfOpenCpu ==
  /\ pc = "delete_cpu"
  /\ CloseOwned("cpu")
  /\ tunnel' = FALSE
  /\ pc' = "free"
  /\ UNCHANGED <<ram, loaded, drv, exit, cpu_vars>>

\* cpu->get_cpu_state() in main, and show_state, which only prints the copy.
GetCpuState ==
  /\ pc = "get_state"
  /\ \E ok \in BOOLEAN : get_cpu_state(ok) /\ Goto(ok, "msrs")
  /\ UNCHANGED <<ram, loaded, owned, drv, tunnel, exit, leaked>>

\* get_msrs(cpu): turns on branch recording, a register the guest does not see.
GetMsrs ==
  /\ pc = "msrs" /\ pc' = "reset"
  /\ \E read, written \in BOOLEAN : WriteMsrsBack(read, written)
  /\ UNCHANGED <<ram, loaded, owned, drv, tunnel, exit, leaked>>

\* HAXM_CPU::reset to real mode at boot_start: read the registers, edit the
\* copy and write it back, with __debugbreak when the driver refuses either.
ResetReads ==
  /\ pc = "reset"
  /\ \E ok \in BOOLEAN :
       get_cpu_state(ok) /\ pc' = IF ok THEN "write" ELSE "debugbreak"
  /\ UNCHANGED <<ram, loaded, owned, drv, tunnel, exit, leaked>>

ResetWrites ==
  /\ pc = "write"
  /\ \E ok \in BOOLEAN :
       /\ EditAndSet(ok)
       /\ pc' = IF ok THEN "run" ELSE "debugbreak"
       /\ drv' = IF ok THEN [drv EXCEPT !.cpu = "reset"] ELSE drv
  /\ UNCHANGED <<ram, loaded, owned, tunnel, exit, leaked>>

\* HAXM_CPU::run, in which the guest changes registers.  A failed ioctl
\* returns 0.
Run ==
  /\ pc = "run"
  /\ exit' \in Exits \cup {"failed"}
  /\ GuestRuns
  /\ pc' = "refresh"
  /\ UNCHANGED <<ram, loaded, owned, drv, tunnel, leaked>>

\* The get_cpu_state after run, whose result main ignores, and show_state.
Refresh ==
  /\ pc = "refresh"
  /\ \E ok \in BOOLEAN : get_cpu_state(ok)
  /\ pc' = "switch"
  /\ UNCHANGED <<ram, loaded, owned, drv, tunnel, exit, leaked>>

\* The switch, whose default case also takes the 0 of a failed run, and the
\* condition of the loop.
Status_VmexitKept(e) == IF e \in {"other", "failed"} THEN 0 ELSE 1
Status(e) == IF e \in {"unknown_vmexit", "other", "failed"} THEN 0 ELSE 1
Switch ==
  /\ pc = "switch"
  /\ pc' = IF Status(exit) > 0 THEN "run" ELSE "free"
  /\ UNCHANGED <<ram, loaded, owned, drv, tunnel, exit, leaked, cpu_vars>>

\* VirtualFree of the guest's RAM, before the destructor of haxm runs.
VirtualFree ==
  /\ pc = "free"
  /\ ram' = IF ram = "allocated" THEN "freed" ELSE ram
  /\ pc' = "close"
  /\ UNCHANGED <<loaded, owned, drv, tunnel, exit, leaked, cpu_vars>>

\* ~HAXM: close_device deletes the VM; close_vm deletes the vCPU, then closes
\* its own handle; last comes the device.
CloseCpu ==
  /\ pc = "close" /\ "cpu" \in owned
  /\ CloseOwned("cpu")
  /\ tunnel' = FALSE
  /\ UNCHANGED <<pc, ram, loaded, drv, exit, cpu_vars>>

CloseVm_BeforeCpus ==
  /\ pc = "close" /\ "vm" \in owned
  /\ CloseOwned("vm")
  /\ drv' = IF "vm" \in leaked' THEN drv
            ELSE [drv EXCEPT !.vm = FALSE, !.ram = "none", !.cpu = "none"]
  /\ UNCHANGED <<pc, ram, loaded, tunnel, exit, cpu_vars>>

CloseVm ==
  /\ pc = "close" /\ "vm" \in owned /\ "cpu" \notin owned
  /\ CloseOwned("vm")
  /\ drv' = IF "vm" \in leaked' THEN drv
            ELSE [drv EXCEPT !.vm = FALSE, !.ram = "none", !.cpu = "none"]
  /\ UNCHANGED <<pc, ram, loaded, tunnel, exit, cpu_vars>>

CloseDevice_VmsKept ==
  /\ pc = "close"
  /\ IF "device" \in owned THEN CloseOwned("device") ELSE UNCHANGED <<owned, leaked>>
  /\ pc' = "done"
  /\ UNCHANGED <<ram, loaded, drv, tunnel, exit, cpu_vars>>

CloseDevice ==
  /\ pc = "close" /\ "vm" \notin owned
  /\ IF "device" \in owned THEN CloseOwned("device") ELSE UNCHANGED <<owned, leaked>>
  /\ pc' = "done"
  /\ UNCHANGED <<ram, loaded, drv, tunnel, exit, cpu_vars>>

Next ==
  \/ PrepareVmContext \/ LoadBootCode \/ LoadGuestOs \/ CopyContext
  \/ OpenDevice \/ IsAvailable \/ IsSupported
  \/ CreateVm \/ PopulateRam \/ SetPhysMem \/ CreateCpu \/ DeleteHalfOpenCpu
  \/ GetCpuState \/ GetMsrs \/ ResetReads \/ ResetWrites \/ Run \/ Refresh \/ Switch
  \/ VirtualFree \/ CloseCpu \/ CloseVm \/ CloseDevice

\* main is one running thread: it does not stop between two calls.
Spec == Init /\ [][Next]_vars /\ WF_vars(Next)

-----------------------------------------------------------------------------
(* Properties *)

TypeOK ==
  /\ pc \in {"prepare", "load_boot", "load_os", "copy", "open", "available",
             "supported", "create_vm", "populate",
             "set_ram", "create_cpu", "delete_cpu", "get_state", "msrs", "reset", "write",
             "run", "refresh", "switch", "debugbreak", "free", "close", "done"}
  /\ ram \in {"none", "allocated", "freed"}
  /\ loaded \subseteq {"boot", "os", "context"} /\ tunnel \in BOOLEAN
  /\ owned \subseteq Handles /\ leaked \subseteq Handles
  /\ drv \in [cur_version : Versions, compat_version : Versions, vm : BOOLEAN,
              ram : {"none", "populated", "set"}, cpu : {"none", "created", "reset"}]
  /\ exit \in Exits \cup {"none", "failed"}
  /\ CpuTypeOK

\* The guest runs only on a supported driver, through open handles, with its
\* RAM placed, its registers reset, and its tunnel mapped: reset and run use
\* m_tunnel without testing it (HAXM_CPU.h:404, 478).  A guest that finds a
\* VM_CONTEXT in its RAM finds the images the VM_CONTEXT describes.
ReadyToRun ==
  /\ pc = "run" => drv.cpu = "reset"
  /\ "context" \in loaded => ram # "none" /\ loaded = {"boot", "os", "context"}
  /\ pc \in {"reset", "write", "run"} =>
       owned = Handles /\ tunnel /\ drv.vm /\ drv.ram = "set" /\ Supported

\* After main: every handle is closed unless CloseHandle failed on it, and a
\* virtual machine is left in the driver only if its device could not be
\* opened or its handle not closed.  Holds for every combination of failures.
NothingHeldAtExit ==
  pc = "done" =>
    /\ owned = {} /\ ~tunnel
    /\ drv.ram # "none" => "vm" \in leaked
    /\ drv.cpu # "none" => "vm" \in leaked

\* A failed run, or a status that main does not know or that means an unknown
\* VM exit, ends the program: teardown is reached and comes to its end.
UnknownExitEnds == exit \in {"unknown_vmexit", "other", "failed"} ~> pc = "done"

\* Handles are opened under their parents and given up children first.
Tree == INSTANCE HandleTree
ImplementsHandleTree == Tree!Spec

\* The guest first runs from the state reset describes, complete: whatever
\* failed before, no first run starts with a register that reset writes still
\* at its power-on value, nor with one it does not write overwritten.  Only an
\* MSR that reset does not write may have been replaced, by get_msrs.
FirstRunFromReset ==
  pc = "run" /\ exit = "none" =>
    \A r \in Registers :
      hw[r] \in IF r \in Written THEN {"reset"}
                ELSE IF r \in Msrs THEN {"power_on", "pattern"} ELSE {"power_on"}
=============================================================================
