------------------------------- MODULE MCHostVm -------------------------------
(***************************************************************************)
(* The host's side of the virtual machine, for TLC: its two programs and   *)
(* the two data structures of a HAXM_VM, side by side.  They share no      *)
(* step: a behaviour is of one part, chosen at the start, and what belongs *)
(* to the others is "idle" throughout.  frames: HostFrames; program:       *)
(* HaxHost; legacy: LegacyVm; blocks: MemBlocks.                           *)
(***************************************************************************)
EXTENDS HostFrames

CONSTANTS
  Versions, Written, Kept, Msrs,                                   \* HaxHost
  HAX_MAX_VCPU, MAX_VM_ID, MAX_VCPU_ID, VmIds, Modules, Sizes, NoLimit,  \* LegacyVm
  Buffers, GuestPages                                              \* MemBlocks

VARIABLES
  part,
  pc, ram, loaded, owned, drv, tunnel, exit, leaked, m_state, hw, fresh,
  inst, enabled, fd, vm_owned, vm, vcpus, tunnels, written, quota, limit, module, exec, status,
  m_mem_blocks, driver, set, failed

Program == INSTANCE HaxHost
Legacy == INSTANCE LegacyVm WITH owned <- vm_owned, tunnel <- tunnels
Blocks == INSTANCE MemBlocks

\* What the three are instantiated with.
ASSUME PartsAssumption ==
  /\ Program!VersionsAssumption /\ Program!RegistersAssumption
  /\ Legacy!LegacyAssumption /\ Blocks!BuffersAssumption

program_vars == <<pc, ram, loaded, owned, drv, tunnel, exit, leaked, m_state, hw, fresh>>
legacy_vars == <<inst, enabled, fd, vm_owned, vm, vcpus, tunnels, written, quota, limit,
                 module, exec, status>>
block_vars == <<m_mem_blocks, driver, set, failed>>
host_vars == <<part, vars, program_vars, legacy_vars, block_vars>>

NoFrames == db = "idle" /\ mem = "idle" /\ pdf = 0 /\ held = {} /\ call = Idle
NoProgram ==
  /\ pc = "idle" /\ ram = "idle" /\ loaded = "idle" /\ owned = {} /\ drv = "idle"
  /\ tunnel = "idle" /\ exit = "idle" /\ leaked = "idle"
  /\ m_state = "idle" /\ hw = "idle" /\ fresh = "idle"
NoLegacy ==
  /\ inst = "idle" /\ enabled = "idle" /\ fd = "idle" /\ vm_owned = {} /\ vm = "idle"
  /\ vcpus = "idle" /\ tunnels = "idle" /\ written = "idle" /\ quota = "idle"
  /\ limit = "idle" /\ module = "idle" /\ exec = "idle" /\ status = "idle"
NoBlocks == m_mem_blocks = "idle" /\ driver = "idle" /\ set = "idle" /\ failed = "idle"

HostInit ==
  \/ part = "frames" /\ Init /\ NoProgram /\ NoLegacy /\ NoBlocks
  \/ part = "program" /\ Program!Init /\ NoFrames /\ NoLegacy /\ NoBlocks
  \/ part = "legacy" /\ Legacy!Init /\ NoFrames /\ NoProgram /\ NoBlocks
  \/ part = "blocks" /\ Blocks!Init /\ NoFrames /\ NoProgram /\ NoLegacy

StepProgress ==
  /\ part = "frames" /\ Progress
  /\ UNCHANGED <<part, program_vars, legacy_vars, block_vars>>
StepCaller ==
  /\ part = "frames" /\ Caller
  /\ UNCHANGED <<part, program_vars, legacy_vars, block_vars>>
StepProgram ==
  /\ part = "program" /\ Program!Next
  /\ UNCHANGED <<part, vars, legacy_vars, block_vars>>
StepLegacy ==
  /\ part = "legacy" /\ Legacy!Next
  /\ UNCHANGED <<part, vars, program_vars, block_vars>>
StepBlocks ==
  /\ part = "blocks" /\ Blocks!Next
  /\ UNCHANGED <<part, vars, program_vars, legacy_vars>>

HostNext == StepProgress \/ StepCaller \/ StepProgram \/ StepLegacy \/ StepBlocks

\* The fairness of HostFrames and of HaxHost: a thread that is in a call, and
\* main, keep executing.
HostSpec ==
  HostInit /\ [][HostNext]_host_vars /\ WF_host_vars(StepProgress) /\ WF_host_vars(StepProgram)

-----------------------------------------------------------------------------
(* Constants *)

\* Drivers on both sides of both version checks.
MCModules == [cur_version : {0, 1}, compat_version : {2, 3}]
\* Three adjacent or distant buffers.
MCBuffers == {[hva |-> 10, size |-> 2], [hva |-> 12, size |-> 1], [hva |-> 20, size |-> 3]}

-----------------------------------------------------------------------------
(* Properties: those of HostFrames, which hold trivially in the other      *)
(* parts, and those of the other parts, of their behaviours only.          *)

\* The frame database, the owners of frames and the mappings of pages agree,
\* and the scan skips no run that is free (alloc_physical_pages, map_pages).
FramesAccounted ==
  part = "frames" =>
    TypeOK /\ OwnedFramesMarked /\ OwnersDisjoint /\ NoFrameLost /\ MappingsOwned /\ NothingSkipped
\* main runs the guest with everything it needs, first from the state reset
\* writes, and keeps no handle, tunnel or virtual machine at its end.
RunsAndCleansUp ==
  part = "program" =>
    Program!TypeOK /\ Program!ReadyToRun /\ Program!FirstRunFromReset /\ Program!NothingHeldAtExit
\* A failed run, and an exit main does not know, end the program.
UnknownExitEnds == Program!UnknownExitEnds
\* Both programs give handles up children first (close_vm, HaxVmDestroy).
ImplementHandleTree == Program!ImplementsHandleTree /\ Legacy!ImplementsHandleTree
\* What the host's tables say of a virtual machine is so in the driver: the
\* vCPU slots of VirtualCPU.cpp, and the memory blocks of HAXM_VM.
TablesMatchDriver ==
  /\ part = "legacy" => Legacy!TypeOK /\ Legacy!SlotsMatchHandles
  /\ part = "blocks" => Blocks!TypeOK /\ Blocks!TranslationIsTheDrivers
\* What the driver reports binds VM_CreateInstance and VM_SetRAMSize.
DriverTermsKept == [][part = "legacy" => Legacy!WithinTerms]_host_vars
==============================================================================
