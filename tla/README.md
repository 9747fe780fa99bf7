# ShellcodeVM: a TLA+ verification project

ShellcodeVM runs a piece of shellcode in a virtual machine of its own, on the Intel HAXM driver. A
Windows program (`ShellcodeVM/`) creates the machine, places a boot loader (`Boot/`) and a small
32-bit kernel (`GuestOS/`) in its memory, and runs its one virtual processor. Boot builds page
tables and enters the kernel; the kernel sets up descriptor tables and traps, unmaps low memory,
maps a buffer for the shellcode and enters it in ring 3.

In `ShellcodeVM/target-i386/` lie, for reference, the x86 files of QEMU the author worked from: QEMU's
own HAX accelerator, and the emulated processor that it shares a vCPU with.

This directory holds TLA+ modules of all three, the TLC configurations that check them, and TLAPS
proofs about them. `PROJECT.json` lists components, runs, hazards and theorems,
and maps every definition to the source lines it stands for. Paths below are relative to `src/`.

To check it: `tlc -config X.cfg M` for a run of `PROJECT.json`, `tlapm M.tla` for each
of the modules named `...Proofs`.

## Inventory

### Guest

| component | state | operations | module |
|---|---|---|---|
| Boot loader, guest paging (`Boot/main.cpp`, `GuestOS/paging.cpp`, `os.h`, `kernel.cpp`) | frame database, page tables, CR0.PG, TLB | `init_frame_database`, `init_page_table`, `startup_paging_mode`; `map_pages`, `unmap_pages`; kernel `main`; page faults | `Layout`, `GuestPaging`, `AddressSpace` |
| Traps (`GuestOS/trap.h`, `trap.cpp`) | registers and the kernel stack | 20 entry stubs, `dispatch`, handlers, return | `Trap` |
| GDT, IDT, TSS (`gdt.*`, `idt.*`, `tss.*`) | the two tables, TSS, task register | `Init` of each, `add_*_entry`, `add_call_gate`, `active` | `DescriptorTables` |
| Text screen (`video.*`) | lines, cursor | `putc`, `scroll`, `clear`, `gotoxy` | `Screen` |
| `PAGER`'s own allocator and directory | database pointer, cursor | `Init`, `alloc_physical_pages`, ... | none, see below |
| `cpu.*` | none | prints processor features | none |

### Host

| component | state | operations | module |
|---|---|---|---|
| `main` and the lifecycle of `HAXM`, `HAXM_VM`, `HAXM_CPU` | handles, RAM and what is loaded in it, tunnel, the driver's VM | load images, open, check versions, create, populate, exchange MSRs, reset, run, tear down | `HaxHost`, abstract `HandleTree` |
| Register copy of a vCPU (`HAXM_CPU.h`) | `m_state`, the driver's registers | `get_cpu_state`, `get_msrs`, `set_msrs`, `write_vmcs`, `set_cpu_state`, `run` | `VcpuState`, part of `HaxHost` |
| Memory blocks (`HAXM_VM.h`) | `m_mem_blocks`, the driver's RAM map | `hax_populate_ram`, `hax_set_phys_mem`, `gpa_to_hva`, `hva_to_gpa` | `MemBlocks` |
| Frame allocator and page-table editor of the host (`HAXM_VM.h`) | frame database, page tables in guest RAM | `alloc_physical_pages` (two), `free_physical_pages`, `set_page_dir`, `map_pages`, `unmap_pages` | `HostFrames`, abstract `FramePool` |
| C-style interface of HaxmTest (`VM.cpp`, `HaxVM.cpp`, `VirtualCPU.cpp`, `VirtualContext.cpp`, `hax-windows.c`) | instance, vCPU slots, handles, tunnels, RAM, RAM quota | check the driver, create, destroy, set size, place RAM, write registers, execute | `LegacyVm`, abstract `HandleTree` |
| Minidump reader, contents of images | files, buffers | parsing, copying | none yet |
| `clone_PEB_Module_list` | a copied PEB | one construction loop | none |
| `VM/page_frame.*`, `VM/paging.*`, `nasm/` | | unused or third party | none |

### QEMU (`ShellcodeVM/target-i386/`)

| component | state | operations | module |
|---|---|---|---|
| HAX accelerator (`hax-all.c`, `hax-windows.c`, `hax-darwin.c`) | handles, slots, tunnel, registers in two places | `hax_init`, create and destroy VM and vCPU, `hax_vcpu_hax_exec`, register exchange, interrupts, kick | `HaxDevice`, `HaxExec` |
| Segmentation, tasks, gates (`seg_helper.c`, `excp_helper.c`) | segment caches, TSSs, stacks, pending exception | `switch_tss`, interrupts, far jumps, calls and returns, system calls, loads and queries of segments | `CpuState`, `SegHelper`, `GuestTasks` |
| Modes (`smm_helper.c`, `svm_helper.c`, `helper.c`, `misc_helper.c`, `machine.c`, `kvm.c`) | control registers, `hflags`, SMRAM, VMCB | SMI and RSM, VMRUN and #VMEXIT, control register writes, reset, migration, exchange with KVM | `CpuState`, `SmmSvm`, `GuestModes` |
| Page walks (`helper.c`) | tables, TLB | `cpu_x86_handle_mmu_fault`, `cpu_get_phys_page_debug`, everything that flushes | `MmuHelper` |
| Breakpoints (`helper.c`, `misc_helper.c`, `kvm.c`) | DR0 to DR7, two breakpoint lists, gdb's requests | insert, remove, hit, update for KVM | `DebugRegs` |
| MSRs, machine checks (`misc_helper.c`, `helper.c`, `kvm.c`) | MSR fields, banks | WRMSR, RDMSR, exchange with KVM, inject | `MsrHelper` |
| KVM's run loop (`kvm.c`) | interrupt lines, injected, halted | before and after KVM_RUN, HLT | `KvmLoop` |
| Integer and string instructions (`int_helper.c`, `shift_helper_template.h`, `translate.c`) | operands; pointers and count | divide, adjust, rotate, multiply, scan; one repetition | `IntHelper`, `StringOps` |
| Lazy flags (`cc_helper*`, `translate.c`) | CC_OP, CC_SRC, CC_DST, and what the translator knows of them | arithmetic, shifts, SETcc, Jcc, block ends, faults | `LazyFlags` |
| FPU and SSE, CMPXCHG8B, BOUND, decoding, dumps | | | none |

### Interaction

The two halves share guest RAM. The host places images at fixed frames and the guest's tables
rely on them; `Layout` holds the constants both were compiled with. A guest `HLT` is an exit that
`main` answers by running the guest again, and every message of a trap handler halts, so traps end
only because the host's loop goes on: `Trap` has that as an action, `HaxHost` as a loop of `Run`
and `Switch`. `HostFrames` reads guest memory through `gpa_to_hva`, whose correctness is
`MemBlocks`. `HaxHost` extends `VcpuState`: every call `main` makes on the vCPU is one step of both.
`GuestPaging` takes the segment limits (`USER_LIMIT`, the DPL of the FS segment) from the GDT.

### What is hard, and what would make it correct

`PROJECT.json` names the lines. In short:

* **Stale state.** The page tables are edited through a window of their own; the TLB may hold what
  they no longer say, and the `invlpg` of `map_pages` / `unmap_pages` invalidates the wrong page (it
  names the variable, not the page). Correct: the window survives every edit, nothing but the pages
  meant is stale, and ring 3 sees only its buffer.
* **Order.** The kernel unmaps the stack its variables are on and keeps using them. Correct: no
  other access can fault. Stubs, processor and `struct TRAP_CONTEXT` describe one stack frame three
  times. Correct: they agree for every vector and ring.
* **Loops and limits.** The first-fit scan of the host moves its position by an offset, and the
  database ends where arbitrary memory begins. Correct: nothing owned is handed out, nothing is
  lost, no run is skipped.
* **Partial failure.** Every request to the driver can fail between two others. Correct: handles
  are opened under their parents and given up children first, and none is forgotten.
* **Overloaded values.** 0 is a frame, an address, an error and "not set", all at once.
* **The state of one vCPU in several places** (QEMU): in the driver or in `CPUX86State`; in the registers or
  in `hflags`, which is derived from them; in the tables or in the TLB; in EFLAGS or in CC_OP and its
  operands. Correct: whoever reads a copy reads what the last writer of the other left.
* **Another thread** (QEMU): it kicks the vCPU and raises interrupts between the test of a flag and
  the entry to the guest. Correct: a kick is answered, no interrupt is forgotten, none is injected
  on an old answer.
* **Multi-step transfers** (QEMU): task switches, #VMEXIT and RSM rebuild a processor piece by piece,
  and may fault on the way. Correct: a return brings back what was left, delivery ends.

The Windows program has no threads of its own; its interleaving comes from the processor's TLB, the
host re-running the guest, and failures. In QEMU a second thread acts on the vCPU.

## Modules

`Layout` has the constants of `os.h`, `Shellcode.h` and `gdt.cpp` in pages, and as `LayoutOK` what
the headers rely on: ranges do not overlap, kernel data lies below `KERNEL_MEM_N` and in kernel
space, the directory is the table that maps the window.

`GuestPaging`: `pc` is the next statement of Boot's `main`, then of the kernel's. All page tables
lie back to back, so they are one array `pte`; the directory is a slice of it, and `Walk` reads both
levels through it. `StoreEntry` goes to whatever frame the window page translates to at that
moment, TLB included: an edit can destroy the window. Boot's loops are done in one step each
(paging is off, nothing can observe them); the kernel's `map_pages` and `unmap_pages` are one step
per page. A fault leads to `trap` if code and stack of the handler are mapped, else to `shutdown`.

`AddressSpace` is what paging promises: a map that is turned on once with the layout of `os.h` in
place, and of which later only user pages change, one at a time.

`HostFrames`: one step per iteration of each loop, so that a loop which does not end is a
behaviour. `call` is the call in progress; `mem` the contents of the frames used as tables; `held`
the caller's frames, `Reserved` those it took first. Behind the database lies memory: if it is a page directory or
page table, a scan that overruns the end reads its entries byte by byte and `MarkBehind` overwrites
them; else it reads any number of free bytes. The first comment of the module lists what callers owe. `FramePool` is the abstract pool it implements.

`HaxHost`: one step per call of `main`, with one boolean per request that can fail. `drv` is the
driver's side, `leaked` the handles that `CloseHandle` refused. `VcpuState` tells where the value of
each register comes from, which is all that the order of reads and writes can get wrong: a register
that is also an MSR may hold the pattern `get_msrs` fills its buffer with.

`LegacyVm`: any sequence of calls by one caller, after `VM_HaxEnabled` as in `main1`. The requests of
`hax-windows.c` are sets of possible answers, one operator each, that the actions choose from. `fd`
may be the garbage that `hax_mod_open` returns from an uninitialised variable. `HandleTree` is the obligation of both hosts to the driver.

`Trap`: word-by-word kernel stack; `Frame` is what a stub pushes, `Popped` what it pops, `Offset`
the context's layout as `dispatch` reads it. Three definitions from three places of the code.

`DescriptorTables`: entries are six numbers (two words, four bytes), which `Segment` and `Gate`
write and `AsSegment` and `AsGate` read as the processor does.

`MemBlocks`: buffers of the process, blocks of the VM, RAM of the driver.
`Screen`: lines of cells, the cursor; one step per character.

`HaxDevice` is QEMU's side of the driver: `handles`, slots, and the requests of either host;
`HaxExec` extends it with the loop of one vCPU. `at` is the place in the loop, `env` and `drv` the two
copies of the registers by group, `guest` what they should be, `kicker` the other thread between
setting `exit_request` and setting the event in the tunnel.

`CpuState` holds what the helpers of the emulator have in common: segment caches, `hflags`, control
registers, the combination of exceptions. `SegHelper` has one operator per helper of
`seg_helper.c`, from a machine `[env, mem, exc]` to the machine it leaves; `Checked` is the row of tests
a helper makes in the code's order. `GuestTasks` is a guest that uses them: it opens transfers by
interrupt, exception, call, system call and task switch, returns from them in order, and keeps in
`frames` and `left` where each came from; `lowered` tells that a gate to conforming code has taken CPL
below the level of the stack. Stack memory that was never written reads as zeros. `SmmSvm` and `GuestModes` do the same for modes.

`MmuHelper`: a walk is a `path` of entries, and what stops it, what it may do and what it marks are
separate operators over that path; `stale` are the pages whose tables the guest has written since, and those whose
no-execute bits a write of EFER.NXE gave another meaning.
`DebugRegs`, `MsrHelper` and `KvmLoop` each have the registers, their copies elsewhere and the guest or
thread that changes them; KVM answers a request for MSRs with an error or any number of entries. `IntHelper` compares algorithms with definitions by arithmetic.
`LazyFlags` carries both the lazy state and, in `eager`, the flags of a processor that has them at
once; `known` and `dirty` are what the translator has of it, `lost` whether a fault or a LOOPZ has left CC_OP
and CC_SRC apart. `StringOps`: one repetition is a step, over
memory, a port and the pages that are mapped.

`MCHostVm`, `MCGuestOs` and `MCQemuCpu` put parts side by side for TLC: `part` is chosen at the start,
a behaviour is of that part, and what belongs to the others stays as it is. The parts share no
step, so nothing is lost by checking them in one run, and nothing is claimed about their
composition. The other `MC` modules hold the guests, tables and operands the parts start from.

Definitions named `X_Something` directly before `X` are variants of `X` with a plausible bug; no
specification uses them. Each shows that one property of a run can be violated.

## Runs

| run | checks | bounds, and why they are enough |
|---|---|---|
| `paging` | types; the window shows the tables and the kernel's mappings stay (`MappingsKept`); ring 3 sees only the buffer, read-only; only low pages are ever stale; only accesses to the boot stack fault; ring 3 is reached while that stack stays cached; the refinement of `AddressSpace` | 8 entries per table instead of 1024, 64 pages, 22 frames; every region present, two regions share a table, the window is table 6 of 8. Six pages can be cached, one of every region and the boot stack. The proofs cover the real sizes |
| `host_vm` | *frames*: the database, the owners and the mappings agree and the scan skips nothing (`FramesAccounted`), one translation changes per step, one-page calls return, the refinement of `FramePool`. *program*: RAM, registers, tunnel and handles in place before a run, the first run from the reset state, nothing held at exit (`RunsAndCleansUp`), unknown exits end the program. *legacy*: slots and handles agree (`TablesMatchDriver`), the driver's versions and quota bind (`DriverTermsKept`). *blocks*: both translations agree with the driver. Both programs refine `HandleTree` | 7 frames, 2 of them the database's and the last without RAM, 3 entries per table (one the self-map), runs of up to 2 pages: directory, one page table and two pages fill the pool, so exhaustion in the middle of `map_pages` happens. All versions around the accepted ones, all failures, all exit classes, four registers: written by `reset` or not, MSR or not. Legacy: 3 slots (first free, a gap, full), 3 sizes, drivers on both sides of both checks. Three buffers, two adjacent, sizes 1 to 3, 7 guest pages: they touch, leave holes and do not all fit |
| `host_frames_scan` | *violation* of `ScanReturns` | 7 frames: a used one, a gap of one, and a free run behind it |
| `host_frames_end` | *violation* of `DatabaseEnds` | a caller that reserves the database's own frames, and not the last one |
| `guest_os` | *traps*: `dispatch` sees the trap that happened, a trap is invisible to the program it interrupts, every trap returns. *tables*: issued selectors keep what was asked for and 0 means full, task register and TSS, every vector has its gate (with the traps, `TrapsFindTheirWay`). *screen*: the cursor stays inside, lines keep their terminator, printing moves history up and never rewrites it (`LinesKept`) | vectors without error code, with one, 14 (several messages), 17 (stub apart from the others of its kind); error codes 0, 3, 7; programs that can trap in both rings and at different depths of the stack. GDT of 10, two entries left after `TSS::Init`, so that callers fill it and ask once more; limits above 20 bits and counts above 8 bits are truncated as the code does. 4 bytes per line, a screen wider and higher than the maximum, which leaves 4 lines |
| `trap_causes` | *violation* of `OneCausePerFault` | vector 14 |
| `qemu_hax` | the device is held as long as something of it is (`DeviceHeld`, `DevicesFollowTree`); whoever runs the guest has all of its state (`GuestStateCarried`); interrupts (`InterruptsInOrder`); a kick is answered | 2 vCPUs, of which one runs; 2 interrupts, so that a second is raised while the first is pending; four guest states, which differ in every register group; one of them runs conforming code |
| `qemu_hax_efer` | *violation* of `EferCarried` | as `qemu_hax`; EFER has two values |
| `qemu_cpu` | the processor, see the next table | see the next table |
| `qemu_tasks` | *violation* of `TasksResume` | a 32-bit and a 16-bit task |
| `qemu_debug_stops` | *violation* of `GuestStops` | the DR7 values of `qemu_cpu` |
| `qemu_flags` | *violation* of `FlagsOnDemand` | chained blocks of one or two instructions |

The parts of `qemu_cpu`:

| part | properties | bounds |
|---|---|---|
| tasks | the copies of the privilege level agree (`SegmentsAtLevel`); no task that may still be returned to can be entered (`TasksBusyWhileLinked`); VERR, VERW, LAR and LSL agree with the loads (`QueriesPredictLoads`); every return and switch goes where it should (`TransfersReturn`); delivery of exceptions ends (`FaultsEscalate`) | two tasks, the second with an LDT of its own, two open transfers in all; eleven guests: tasks and task gates, gates, a gate to conforming code, segment loads, a missing handler, no handlers at all, virtual 8086 mode with IOPL 3 and 0, long mode, compatibility mode, real mode |
| modes | `hflags` and the interception follow the registers (`ModeFlagsCoherent`); RSM, #VMEXIT and VMRUN bring back all of the CPU they resume (`ModesReturn`) | ten guests from reset to nested machines, one that takes PAE from under LME, five VMCBs; one level of SMM and of nesting |
| mmu | what is cached is what the tables say, and the walk for the debugger finds the same where no entry has the no-execute bit (`TlbAsTables`) | two entries per table, two pages per guest, in the legacy, large-page, PAE, no-execute and long formats; one entry rewritten; PAE and NXE changed with paging on |
| debug | the breakpoints armed are those of the debug registers, as the emulator reads them, until a freed entry is used (`BreakpointsArmed`) | up to four values of DR7, six of gdb's requests; two tasks |
| msr | registers do not overlap, copies agree after every exchange, complete or not, machine checks are not lost (`MsrsKept`) | two banks, two writes; every answer of KVM |
| loop | an interrupt that is up reaches the guest that can take it (`IrqsRemembered`), and only then (`GivenWhenOpen`) | two lines |
| int | `ArithmeticRight` | 4-bit words for the wide division and multiplication, all operands; selected bytes and words at the limits for the narrow ones |
| flags | the flags are those of a processor that computes them at once, until a fault or a LOOPZ leaves CC_OP and CC_SRC apart (`FlagsOnDemand`) | eight pairs of operands, around carry, sign and overflow; blocks of two instructions |
| strings | an interrupted instruction does everything once (`ElementsOnce`) | three elements, two faults, each page mapped or not at the start |

`paging` and `guest_os` are checked for deadlock. In `host_vm`, `qemu_hax` and `qemu_cpu` a part may stop (the
program ends or aborts, a caller or a guest gives up), so deadlock is not checked there.

### Where code and comments disagree

* `host_frames_scan`. `HAXM_VM.h:338`, `i = j;`, is commented "skip the blank pages in between". `j`
  is an offset from `i`, so the scan may go back: from 3 to 2, over the same gap, for ever.
  Requests for one page are not affected (`OnePageCallsReturn`).
* `host_frames_end`. The scan and the `memset` of `HAXM_VM.h:331-335` know no end of the database, which the
  same layout gives 1M: a run of which the last entries lie behind it is returned, and marked there. In
  `host_vm` the caller has also reserved the last frame of the 4G, which has no RAM; then no run overruns.
* `trap_causes`. Cases 0 to 2 of the page fault's switch (`trap.cpp:362`) have no `break`: a read of
  an absent page by the kernel is also reported as three other causes.
* `qemu_hax_efer`. `hax_set_msrs` writes EFER (`hax-all.c:984`), `hax_get_msrs` never reads it: what the guest
  wrote is overwritten at the next exchange, against the description in `hax-interface.h:309-311`.
  `GuestStateCarried` is about all other registers.
* `qemu_tasks`. `switch_tss` (`seg_helper.c:284`) saves the old task in the layout of the new one. In
  `qemu_cpu` all tasks are 32-bit.
* `qemu_debug_stops`. The type and length of a breakpoint are found at strides of 2 (`cpu.h:973`) where the
  processor, and `kvm.c:961`, have 4. `BreakpointsArmed` goes by the emulator's reading.
* `qemu_flags`. A conditional jump that ends a chained block and computes the flags on its slow path
  leaves them in CC_SRC under the old CC_OP (`translate.c:2496`). In `qemu_cpu` such a jump ends its block
  unchained, which is the other way the code compiles it.

Others, without a run. Where a property excepts one of them, its comment says so. In the Windows program and the
guest:

* `HAXM_VM.h:36` gives the first megabyte to the frame database; nothing marks it as used, so the first
  allocations return it. The runs therefore assume a caller that reserves it (`Reserved`);
* `VirtualContext.cpp:26-31` says the CPU runs until the guest executes `HLT`; the case for it leaves `ret` at 0
  and the loop goes on;
* `add_ldt_entry` (`gdt.cpp:89`) returns a selector of the global table;
* `hax_set_phys_mem` (`HAXM_VM.h:188`) takes guest address 0 for "not set", so a block at 0 can be set again;
* `main.cpp:295` calls an exit a shutdown and goes on running the guest;
* the bottom line of the screen is neither moved nor cleared when it scrolls (`video.cpp:74`);
* `get_msrs` of `main.cpp` writes its buffer back even if reading it failed, so the SYSENTER registers can
  start as a fill pattern (`FirstRunFromReset` says which registers are safe);
* `hax_populate_ram` (`hax-windows.c:88`) returns 0 when the request failed, and its caller does not look;
  `hax_mod_open` (`hax-windows.c:64`) can return an uninitialised handle;
* a frame outside every populated block has no host address (`HAXM_VM.h:264`); the handle of the
  device is never closed by the C-style interface (`VM.cpp:52`).

In QEMU's files:

* `hax_vcpu_destroy` (`hax-all.c:266`) empties slot `vcpu_id`, which nothing ever sets: the machine of two vCPUs
  can never be destroyed;
* `hax_setup_qemu_emulator` (`hax-all.c:804`) takes the level from the DPL of CS, which is not the level when CS is
  conforming. One of the guests of `qemu_hax` runs conforming code; `GuestStateCarried` says nothing of the level then;
* a far call through a gate to conforming code of an inner level is treated as "to same privilege"
  (`seg_helper.c:1686`): the stack stays and CPL becomes the DPL of the code (`seg_helper.c:1717`). From then on
  (`lowered`) `SegmentsAtLevel` claims nothing;
* `cpu_x86_update_cr0` returns early when paging is turned on with LME and without PAE (`helper.c:875`). At a
  #VMEXIT from a machine in that state the hypervisor does not get its paging back, although its EFER is restored
  last "so the hidden flags get set properly" (`svm_helper.c:555`). VMRUN of such a machine, and an RSM of a 64-bit
  build to a CPU with LME and paging but without PAE or LMA, have the same defect. From such a step on
  (`left_at.lost`) `ModeFlagsCoherent` and `ModesReturn` claim nothing; the guests include such machines;
* `switch_tss` is to "reset local breakpoints" (`seg_helper.c:416`); a watchpoint is freed, its reference stays, and
  the next MOV to DR or the next hit uses it (`helper.c:1388`, `1407`). From then on (`freed`) `BreakpointsArmed`
  claims nothing of what is armed;
* INC, DEC, RCL and RCR change CC_SRC before they store (`translate.c:1596`, `1903`); when the store faults, CC_OP is
  restored and CC_SRC is not. LOOPZ and LOOPNZ jump over the computation of the flags (`translate.c:6980`), which
  the end of the block takes for done. From either on (`cc.lost`) `FlagsOnDemand` claims nothing;
* SYSEXIT and SYSRET leave the data segments as they are;
* an SMI from CPL 3 leaves the handler at CPL 3; VMRUN, #VMEXIT and SMM set DR7 without
  updating the breakpoints; the MSR bitmap is indexed by ECX/8 where two bits per register ask for
  ECX*2/8;
* `cpu_get_phys_page_debug` walks PAE tables with paging off and keeps the NX bit in addresses; with
  A20 off the offset in a large page is not masked; a change of EFER.NXE does not flush the TLB;
* `kvm_get_msrs` (`kvm.c:606`) takes the registers KVM has got to, and nobody notices that it was not all: a
  later `kvm_put_msrs` gives the guest old values of the others;
* DAA is wrong for sums 0xfa to 0xff; IDIV of the most negative number by -1 is undefined in C;
* on Darwin a run that is interrupted returns -1, never `-EINTR` (`hax-all.c:562`); results of
  register requests are ignored (`hax-all.c:495`, `1093`).

### Fairness

Fairness is of threads that run, and of what the host owes them:

* `WF(Kernel)` in `GuestPaging` and `Trap`, `WF(Progress)` in `HostFrames`, `WF(Next)` in `HaxHost`, and the same in
  `MCHostVm` and `MCGuestOs`: a processor executes the next instruction, a thread the next statement; in
  `Trap` it includes the host's loop, which runs the guest again after each `HLT`.
* `HaxExec`: weak fairness of the vCPU thread and of the thread that is about to set the event; of the
  driver's return only while an event is pending, which is what the tunnel's flag is for; strong
  fairness of leaving the emulator, which tests the exit request between any two blocks and is then
  enabled again and again.

Nothing is assumed of the TLB, of callers, of failures, of guests or of the shellcode, and nothing of
the driver without an event. The other parts of `MCQemuCpu` have safety properties only.

## Proofs

Each theorem holds for every value of the constants that satisfies the named assumptions; TLC
evaluates the assumptions on the instances of the runs.

| module | about | assumes |
|---|---|---|
| `GuestPagingProofs` | Boot's and the kernel's paging; refinement of `AddressSpace` | `LayoutAssumption`: `LayoutOK`, and the cached pages are pages |
| `HostFramesProofs` | allocator and page-table editor; refinement of `FramePool` | `SizeAssumption`: a database of at least two frames, tables of at least two entries |
| `HostVmProofs` | the four parts of `host_vm`: the above, `main`, the C-style interface, memory blocks; both refinements of `HandleTree` | `PartsAssumption`: versions, buffers that do not overlap, fewer slots than ids |
| `GuestOsProofs` | traps, descriptor tables, screen | `TrapAssumption`, `PartsAssumption`: tables that hold the fixed entries, callers that set a type, a screen of two lines and columns at least, of any maximal height |
| `HaxExecProofs` | QEMU's accelerator; refinement of `HandleTree` | `HaxDeviceAssumption`: one of the two hosts, at most 16 vCPUs; `MaxIrqsAssumption` |
| `CpuStateProofs` | lemmas about page walks with the TLB, and about the CPU's modes | `MmuAssumption`: CR3 and entries name frames that are in memory, A20 off included, and the guest starts with LMA in `hflags` as in EFER; `ModeAssumption`, see below |
| `GuestTasksProofs` | lemmas about the helpers of `seg_helper.c`, and the steps of a guest that uses them | `TablesAssumption`, `TasksAssumption`, see below |
| `QemuCpuProofs` | the parts of `qemu_cpu` that are proved: KVM's run loop, MSRs, TLB, breakpoints, tasks, modes, strings | those of the two above; `DebugAssumption`: DR7 values are sets of its bits, any of them; `StringAssumption`: strings have a length |

### Guest paging

| theorem | statement |
|---|---|
| `TypeCorrect` | `Spec => []TypeOK` |
| `SelfMapHolds` | the window shows every page table, writable, whatever was edited |
| `KernelMappedHolds` | kernel image, stack, video buffer and frame database stay mapped |
| `MappingsKeptHolds` | the two together, as the run checks them |
| `UserIsolationHolds` | in ring 3 every walk ends in the shellcode buffer, read-only |
| `StaleOnlyLowHolds` | only low pages are stale in the TLB |
| `KernelFaultsHold` | only accesses to the unmapped boot stack fault, no fault is fatal |
| `KernelFramesUsedHolds` | frames the kernel half maps are marked used |
| `Refinement` | `Spec => AS!Spec`: the tables, the window and the TLB implement `AddressSpace` |
| `HeaderLayout` | the numbers of `os.h`, `Shellcode.h` and `gdt.cpp` satisfy `LayoutOK` |

`HeaderLayout` ties the others to this program: the assumption is not only satisfiable, the real
constants satisfy it.

The argument. None of these is inductive: an edit preserves the window only if the window already
translates to the tables, including through the TLB. The invariant `IInv` says so:

* `PagingPhase`, `DatabaseMarked`: what has been done at each `pc`;
* `KernelHalf`: from the moment they exist, the entries of all pages from `USER_LIMIT` on are those
  of `BootTable`. This keeps the window, hence the directory, which lies in it;
* `UserHalf`: a user page above the low ones is absent or maps its page of the shellcode buffer;
* `LowPages`: the low pages are those of `BootTable` before `unmap_pages`, absent below its loop index
  during it, and absent after it;
* `StaleFlat`: a cached translation is the walk's or belongs to a low page;
* `KernelFaultsOnlyOnBootStack` itself, which `trap` needs to know where it returns.

`WalkIsFlat` reduces the two-level walk to one entry of the array while the directory is intact
(`TablesIntact`); `StoreIsFlat` and `EditEffect` then make one round of `map_pages` or `unmap_pages` a
change of exactly one entry; `StepBoot`, `StepUnmap`, `StepMap`, `StepRun` and `StepTlb` are the inductive
step, joined by `NextIInv`. `BootTableFacts` and `HeaderLayout` need arithmetic only.

### The host program

| theorem | statement |
|---|---|
| `FramesAreAccounted` | database, owners and mappings agree, and the scan passes over no free run |
| `MappingsStay` | an edit of the page tables changes the translation of the page it is at, and of no other |
| `HostFramesArePool` | allocator and editor implement `FramePool` |
| `MainRunsAndCleansUp` | RAM, tunnel, registers and handles are in place before a run, nothing is held at exit, whichever requests fail |
| `TablesAreTheDrivers` | the slots are the vCPUs the driver has; both translations of the blocks are the driver's |
| `TermsAreKept` | no instance under a driver whose version or quota does not allow it |
| `HandleTreesKept` | both programs implement `HandleTree` |

The first three take `CallerReserves` as a hypothesis: the caller begins by reserving the database's own frames,
and the last frame of the database, which has no RAM behind it. Without the one they are false, since the
allocator then hands out the database, without the other a run may overrun the database and damage a table
(`host_frames_end`); with both, that `MarkBehind` changes no table is proved. `Invariant`, `RemapsOnlyCurrentPage` and
`FramesArePool` of `HostFramesProofs` are the same facts of `HostFrames` alone.

For the allocator the invariant is `MemoryInv /\ CallInv`. `MemoryInv`: frames that are owned (by a
caller, as a table, mapped) are marked, have one owner each, and none is lost; the database's frames
stay marked; before `set_page_dir` all frames are blank. `CallInv`: what the call in progress has
scanned and passed over was used, and what `map_pages` has still to map is the caller's and mapped
nowhere. Each operation breaks one of the conjuncts unless all of the others hold: that a table
entered in the directory disturbs no other translation needs `OwnersDisjoint`, that the scan may
hand out a run needs `OwnedFramesMarked`, that it does not skip one needs `NothingSkipped`.
The attempt to prove this found a condition that the model did not state: unmapping an absent page
frees frame 0, so with a database of that one frame a run of free frames could begin at 0, which also
means failure, and be lost. The database of the code takes 256 frames; `SizeAssumption` asks for two.

For `main`, `ProgramInv` tells at each `pc` which handles are open (`HandlesInv`), what is loaded
(`ImagesInv`), what the driver has (`DriverInv`) and where each register's value comes from
(`RegistersInv`). `LegacyInv` adds to `SlotsMatchHandles` that an instance is opened only under a driver
that supports it, that a failed open leaves no handle, and that the vCPU that runs is one of the slots
(`InstanceInv`); `BlocksInv` that blocks the driver knows do not overlap and are the
buffers that were set. The refinements map a step to `Open`, `Close` or a stutter of `HandleTree`.

### The guest's kernel

| theorem | statement |
|---|---|
| `TrapsArrive` | `dispatch` reads the trap that happened; issued selectors keep what was asked for; task register and gates stay usable |
| `TrapsAreInvisible` | the interrupted program gets back its registers and, in ring 0, its stack |
| `LinesStay` | lines keep their terminator, the cursor stays on the screen, history moves up unchanged |

`TrapInv` describes the stack word by word at each place of the trap: `Delivered` after the
processor's pushes, `Saved` after the stub's, each above the stack that `before` remembers. That
the return finds what the entry left is then a fact about the concatenation of three parts
(`TwoParts`, `ThreeParts`). `TablesInv` says of every
entry of the GDT and IDT that it is a descriptor, with arithmetic lemmas for what `Segment` writes and
`AsSegment` reads (`SegmentWritten`, `SegmentRead`, `GateRead`), and `IssuedInv` that issued ones are what
was asked for, limits truncated to 20 bits. The screen's properties are inductive with their types.

### QEMU's accelerator

| theorem | statement |
|---|---|
| `DevicesHeld`, `DevicesAreATree` | handles are those of the step `hax_init` has reached and of the slots in use; they implement `HandleTree` |
| `StateCarried` | whoever runs the guest next has every group of registers, but EFER, as the last one left it; the level too, but in conforming code |
| `InterruptsKept` | a pending interrupt is not left behind; at most one is injected between two entries |

`CarriedInv` gives, for each place of the loop, who holds the guest's state: the emulator while
`emulation_state` says so (`EmulatorHas`, and segments in its form after a block), else the driver, which
pages but after an exit for real mode. `SyncedFromDriver` and `SyncedToDriver` prove of the exchanges
that they take the one form to the other for every guest. `IrqInv`: when the vCPU is in the driver, or
about to enter it, with an interrupt pending, the window has been asked for or an event is pending or
on its way.

### The processor

| theorem | statement |
|---|---|
| `IrqsAreRemembered`, `IrqsAreGivenWhenOpen` | an interrupt that is up reaches the guest that can take it, and only then |
| `MsrsAreKept` | a write changes one register at most; after an exchange with KVM, complete or cut short, the registers it reached are equal; no machine check is lost |
| `TlbIsAsTables` | what the TLB holds is what a walk finds, in every format, through every register write, unless the guest wrote the tables since, or EFER.NXE and an entry has its bit; a walk without a fault lets its access through |
| `BreakpointsAreArmed` | until a freed entry is used, the guest's breakpoints are armed as DR7 asks by the emulator's reading, DR6 tells which was hit, gdb's fit in four registers and are programmed |
| `SegmentsStayAtLevel` | the four places that hold the privilege level agree, whatever a guest does next, until a call gate leads to conforming code of an inner level |
| `QueriesDoPredict` | VERR and VERW grant what a load of the register allows; LSL and LAR refuse none of it |
| `FaultsDoEscalate` | an exception raised in the delivery of another is graver than it, so delivery ends |
| `ModeFlagsAreCoherent` | `hflags` is what the other registers say, nothing of a nested machine outlives it, while `update_cr0` has refused nothing |
| `ModesDoReturn` | RSM, #VMEXIT and VMRUN bring back all of the CPU they resume, while `update_cr0` has refused nothing |
| `ElementsDoneOnce` | a repeated string instruction does each element once, whatever faults under it |

*Run loop.* `LoopInv` says where QEMU's copy of IF is current and where KVM's word that it is ready
still holds, and that the interrupt window has been asked for when the guest runs with a line up.

*MSRs.* `MsrInv` keeps the copies in KVM equal to the fields but for those in `differ`, which either side has
written since the last exchange that reached them. `SlotsApart` shows
by arithmetic that no two register numbers reach the same field.

*TLB.* `MmuInv`: every cached entry of a page that is not `stale` is right (`CachedRight`): its walk has no
fault, its frame and rights are the walk's now. A walk depends only on the entries of its path,
`PathReaches` and `SamePath`, by induction down the two to four levels; marking accessed and
dirty bits changes no path (`MarkKeeps`, `SameWalk`), so other entries stay right while one is filled
(`WalkFills`, `CachedKept`). For register writes, either the format and the flags that walks read are
unchanged or the TLB is flushed: this is where each `tlb_flush` of `helper.c` is needed. EFER.NXE is written without
one: a walk that meets no entry with the bit is the same before and after.

*Breakpoints.* `GuestDebugInv` relates DR7, the four references and the list of armed breakpoints
(`Listed`): the registers that arm something refer to distinct items, which are exactly the armed ones, each
as DR7 describes it; a register whose watchpoint was refused refers to none. What other registers
refer to may be freed, which is why nothing is said of them. A watchpoint that `switch_tss` has taken out leaves its
reference behind (`Unfreed` are the registers of which this is not so): the registers and lists still agree
then, and the theorem ends where the freed entry is used (`freed`). `GdbInv` says of gdb's list that it is what was asked for and
not refused, and that KVM was given it.

*Tasks.* `TasksInv` is needed for more than the levels: a return loads what is on a stack or in a TSS,
so frames and saved tasks must be such that a processor can go on with them (`Well`), also when memory
below a stack pointer was never written (`Held` gives zeros there, the CPU does not fault). Between two
instructions all levels agree (`LevelsAgree`) and `old_exception` is -1. While an exception is pending
neither holds: `switch_tss` raises faults in the new task with some registers loaded and others not.
What is left then is `StackLevel` (SS is of the current level, or has no descriptor yet) and `Pending`
(the exception is the one that counts for the next). Each helper is followed assignment by assignment:
`Mid` is what holds on the way, `Goes` and `Fails` where it ends, `Tested` and `Tests1` to `Tests7` turn
a row of tests into the one case that passes them all. `Switched`, `ProtectedInterrupt`,
`LongInterrupt`, `Called`, `Jumped`, `Returned` and the system calls have a lemma each, `TasksStep`
joins them. `QueriesHold` takes from it that a machine between two instructions is one that a load may
meet, and compares the four helpers' tests with those of `helper_load_seg` (`LoadsIf`).
`FaultsDoEscalate` is a fact about one delivery: its handlers' tests raise #TS, #NP, #SS or #GP only,
which `check_exception` turns into #DF after a contributory one and into a reset after #DF; the
invariant supplies that `old_exception` is the exception being delivered.

`TablesAssumption` says of the descriptor tables: a TSS that is described exists; interrupt and trap
gates lead to code of level 0 that is not conforming, since a fault in a task whose stack could not be
loaded is delivered on a usable stack only if the level changes. Of call gates it says nothing: once one has led
to conforming code of an inner level (`lowered`), no claim is made about levels. `TasksAssumption` says of a guest
that it starts with levels that agree, with frames and TSSs, if there are any, that may be returned to,
and that virtual 8086 mode is used only if all TSSs are 32-bit: a 16-bit one does not keep the VM flag.
Which selectors it jumps to, calls and loads, what comes between a transfer and its return, and how
deeply transfers nest is free; the bound of the run on open transfers is not needed.

*Modes.* `ModesInv`. While QEMU has the registers, `Coherent` says flag by flag what `hflags` must be
(`ControlFlags`, `SegmentFlags`), and `SoundCpu` no 32-bit code in virtual 8086 mode and no long mode without paging,
which are kept by the helpers themselves. PAE and LME are independent: where `update_cr0` refuses CR0 for
that (`Cr0Refused`), or RSM enters long mode by it (`LostByRsm`), in the middle of a mode change, `left_at.lost` is set
and the invariant says nothing of the registers any more. While KVM has them,
its copy is sound instead, and `Fetched` shows that `kvm_get_sregs` computes flags that are right from that
copy alone. In SMM the save map, and in a nested machine the save area and the VMCB, are those of a
sound CPU, and equal what was left. The helpers load a register at a time into a CPU that is
half in the old mode and half in the new, where `Coherent` is false; so each helper has a lemma
that says which fields and which flags it alters (`SegmentLoaded`, `AllLoaded`, `Cr0Updated`, `EferLoaded`), and
`MachineLoaded`, `SmmStarted`, `Resumed64`, `Resumed32`, `Entered`, `Left` and `WasZeroed` follow each order of the
loads to an end that is coherent whatever was there before. `RightComputed` is the bridge to the property: flags
that are right are those that `kvm.c` computes.

`ModeAssumption` says that software starts from a sound CPU with the flags to go with it, that
hypervisors run sound VMCBs, that a 32-bit build has no EFER, and that what KVM runs uses neither
QEMU's SMM nor its SVM. No theorem holds without it: VMRUN checks next to nothing of what it loads, and RSM
nothing. Which values software writes, in which order, and when it is interrupted is free.

*Strings.* `Performed` makes the accesses of one repetition in order up to the first that faults;
`OneAccess`, `TwoAccesses` and `ThreeAccesses` show that every instruction faults before it has changed
anything but T0. With `RepInv` (pointers, elements done, what is left of the port, why it goes on) a
repetition that is begun again is as if it had not begun.

### What stays with TLC, and why

* Liveness: `ReachesUserIfBootStackCached`, `OnePageCallsReturn`, `UnknownExitEnds`, `EveryTrapReturns`,
  `KickAnswered`. The prover has no `ENABLED`, hence no fairness.
* `ArithmeticRight` and `FlagsOnDemand`: bit-by-bit algorithms and recursion over operands, which need
  induction over data.
* `TasksBusyWhileLinked` and `TransfersReturn`: that the stacks and TSSs hold the frames of the open
  transfers, one above the other and none overwritten, is a statement about nesting that `TasksInv` does
  not make; see the plan.

## Not modelled, and why

* `PAGER::Init` and its cursor allocator, `VM/page_frame.*`, `VM/paging.*`: no code calls them, and
  they could not run (the identity table maps the lowest 4M to frame 0, `m_page_frame_database`
  stays NULL, `new uint8_t(n)` allocates one byte). Their states are not states of the program.
* The minidump reader and what the loaders copy. Which parts are loaded before the guest starts is
  in `HaxHost`; their placement in guest RAM is the part worth a module.
* `clone_PEB_Module_list`: a construction loop without choices, whose result nobody reads.
* `cpu.*`, register dumps and other output: no state. FPU transfers and `inject_interrupt` have no caller.
* `nasm/`, `boot.asm`: third-party executables, and the real-mode entry.
* Of `target-i386/`: `fpu_helper.c`, `ops_sse.h` (arithmetic on data that TLC cannot enumerate; the top of
  the FPU stack is in `HaxExec` where it is exchanged), `mem_helper.c`, the decoding and addressing in
  `translate.c`, the frame that ENTER copies, VMLOAD, VMSAVE, the intercepted I/O and MSR bitmaps, CPUID,
  SHLD and SHRD, `helper_check_io`, user-mode emulation, and output.
* Nested traps: interrupts stay masked and handlers do not fault. The pages freed while the VM
  still maps them (`main.cpp:328`): no run follows.

## Plan

Done in this order, the address space first because everything else runs in it: `Layout`,
`GuestPaging`, `AddressSpace` and their proofs; `HostFrames` and `FramePool`; `HaxHost`, `HandleTree` and
`LegacyVm`; `Trap`; `DescriptorTables`; `MemBlocks`; `Screen`; `VcpuState`; then QEMU's files, the accelerator
first (`HaxDevice`, `HaxExec`), then the processor from the state everything else reads (`CpuState`,
`SegHelper`, `GuestTasks`, `SmmSvm`, `GuestModes`) to the parts that stand alone.

To extend:

1. a module `Loader`: images and dump blocks placed in guest RAM, composed with `Layout` (what Boot
   expects where) and `MemBlocks`;
2. `Trap` on `DescriptorTables`: gates and `TSS.esp0` read from the tables instead of assumed.

To prove, now that the invariants of the guest, of the host, of the accelerator and of seven parts of
the processor are:

1. `TransfersReturn` and `TasksBusyWhileLinked`, from `TasksInv` and an invariant that tells for each open
   transfer which stack its frame is on and at what depth, with the assumption that the stacks of a TSS
   and of the tasks are apart;
2. the divisions and the shift counts of `IntHelper` that are arithmetic without recursion.
