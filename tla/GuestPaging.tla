----------------------------- MODULE GuestPaging -----------------------------
(***************************************************************************)
(* The guest's address space from reset to ring 3: Boot/main.cpp builds    *)
(* the page tables and turns paging on, GuestOS/kernel.cpp then edits them *)
(* through their virtual window (PAGER of GuestOS/paging.cpp) and enters   *)
(* the shellcode.                                                          *)
(*                                                                         *)
(* All 1024 page tables lie back to back in physical memory, so they are   *)
(* one array `pte' of EPT * EPT entries; the page directory is the slice   *)
(* of it that maps the window itself.  The processor (page walk, TLB,      *)
(* INVLPG, page fault) is external.                                        *)
(***************************************************************************)
EXTENDS Layout

CONSTANT TLB_PAGES   \* the pages whose translations the processor may cache

ASSUME LayoutAssumption == LayoutOK /\ TLB_PAGES \subseteq VPage

VARIABLES
  pc,        \* the next statement of the boot loader or the kernel
  i,         \* loop variable of map_pages and unmap_pages
  frame_db,  \* the page frame database
  pte,       \* the page tables
  paging,    \* CR0.PG
  tlb,       \* cached translations
  resume     \* the statement a page fault interrupted

vars == <<pc, i, frame_db, pte, paging, tlb, resume>>

Entry(f, w, u) == [frame |-> f, present |-> TRUE, writable |-> w, user |-> u]
NoEntry == [frame |-> 0, present |-> FALSE, writable |-> FALSE, user |-> FALSE]
Entries == [frame : Frame, present : BOOLEAN, writable : BOOLEAN, user : BOOLEAN]

-----------------------------------------------------------------------------
(* The processor. *)

IsTable(f) == f \in Pages(PAGE_TABLE_P, PAGE_TABLE_N)

\* The entry of `pte' at index k of the table in frame f.
Slot(f, k) == (f - PAGE_TABLE_P) * EPT + k

PDE(t, v) == t[Slot(PAGE_DIR_P, PDE_INDEX(v))]

\* The translation of page v: both levels must be present, and a permission
\* holds only if both levels give it.
Walk(t, v) ==
  LET d == PDE(t, v)
      e == t[Slot(d.frame, PTE_INDEX(v))]
  IN  IF d.present /\ IsTable(d.frame) /\ e.present
      THEN Entry(e.frame, d.writable /\ e.writable, d.user /\ e.user)
      ELSE NoEntry

Translate(v) == IF tlb[v].present THEN tlb[v] ELSE Walk(pte, v)

\* CR0.WP is clear, so ring 0 writes to read-only pages.
KernelMay(v) == Translate(v).present
UserMay(v, write) ==
  LET e == Translate(v) IN e.present /\ e.user /\ (write => e.writable)

\* `__asm invlpg virtual_addr' names the variable: the page it invalidates is
\* the stack page that holds virtual_addr, not the page virtual_addr points to.
StackVarPage == KERNEL_STACK_V + KERNEL_STACK_N - 1
Invlpg(c) == [c EXCEPT ![StackVarPage] = NoEntry]

\* The statement completes, or faults and enters the trap handler, whose own
\* code and stack must be mapped; with no IDT or no stack the machine stops.
StepOrFault(ok, next) ==
  IF ok THEN pc' = next /\ UNCHANGED resume
        ELSE /\ pc' = IF KernelMay(OS_CODE_V) /\ KernelMay(StackVarPage)
                      THEN "trap" ELSE "shutdown"
             /\ resume' = pc

-----------------------------------------------------------------------------
(* Boot/main.cpp, with paging off. *)

MarkUsed(db, n) == [f \in Frame |-> IF f < n THEN "USED" ELSE db[f]]

InitFrameDatabase ==
  /\ pc = "init_frame_database"
  /\ frame_db' = MarkUsed([f \in Frame |-> "FREE"], KERNEL_MEM_N)
  /\ pc' = "init_page_table"
  /\ UNCHANGED <<i, pte, paging, tlb, resume>>

\* The loop over the directory: table k is mapped at entry k, without PT_USER.
MapTables(t) ==
  [v \in VPage |->
     IF v \in Pages(Slot(PAGE_DIR_P, 0), EPT)
     THEN Entry(PAGE_TABLE_P + (v - Slot(PAGE_DIR_P, 0)), TRUE, FALSE)
     ELSE t[v]]

\* PT_PRESENT | PT_WRITABLE | PT_USER, the default of `protect'.
map_pages(t, p, va, n) ==
  [v \in VPage |-> IF v \in Pages(va, n) THEN Entry(p + (v - va), TRUE, TRUE)
                                         ELSE t[v]]

BootTable_NoWindow ==
  LET t0 == MapTables([v \in VPage |-> NoEntry])
      t1 == map_pages(t0, 0, 0, BOOT_CODE_N)
      t2 == map_pages(t1, KERNEL_STACK_P, KERNEL_STACK_V, KERNEL_STACK_N)
      t3 == map_pages(t2, FRAME_DB_P, FRAME_DB_V, FRAME_DB_N)
      t4 == map_pages(t3, VIDEO_BUF_P, VIDEO_BUF_V, VIDEO_BUF_N)
  IN  map_pages(t4, OS_CODE_P, OS_CODE_V, OS_CODE_N)

BootTable_NoStack ==
  LET t0 == MapTables([v \in VPage |-> NoEntry])
      t1 == map_pages(t0, 0, 0, BOOT_CODE_N)
      t2 == map_pages(t1, FRAME_DB_P, FRAME_DB_V, FRAME_DB_N)
      t3 == map_pages(t2, VIDEO_BUF_P, VIDEO_BUF_V, VIDEO_BUF_N)
      t4 == map_pages(t3, PAGE_TABLE_P, PAGE_TABLE_V, PAGE_TABLE_N)
  IN  map_pages(t4, OS_CODE_P, OS_CODE_V, OS_CODE_N)

BootTable ==
  LET t0 == MapTables([v \in VPage |-> NoEntry])
      t1 == map_pages(t0, 0, 0, BOOT_CODE_N)
      t2 == map_pages(t1, KERNEL_STACK_P, KERNEL_STACK_V, KERNEL_STACK_N)
      t3 == map_pages(t2, FRAME_DB_P, FRAME_DB_V, FRAME_DB_N)
      t4 == map_pages(t3, VIDEO_BUF_P, VIDEO_BUF_V, VIDEO_BUF_N)
      t5 == map_pages(t4, PAGE_TABLE_P, PAGE_TABLE_V, PAGE_TABLE_N)
  IN  map_pages(t5, OS_CODE_P, OS_CODE_V, OS_CODE_N)

InitPageTable ==
  /\ pc = "init_page_table"
  /\ pte' = BootTable
  /\ pc' = "startup_paging_mode"
  /\ UNCHANGED <<i, frame_db, paging, tlb, resume>>

StartupPagingMode ==
  /\ pc = "startup_paging_mode"
  /\ paging' = TRUE
  /\ tlb' = [v \in VPage |-> NoEntry]
  /\ pc' = "kernel_init"
  /\ UNCHANGED <<i, frame_db, pte, resume>>

-----------------------------------------------------------------------------
(* GuestOS/kernel.cpp main. *)

\* The boot code still runs at its low address when it reads os_entry_point;
\* main then sets up video, GDT, IDT, TSS and traps on the boot stack, and
\* loads ESP.  No IDT is loaded before: a fault stops the machine.
KernelInit ==
  /\ pc = "kernel_init"
  /\ pc' = IF KernelMay(BOOT_STACK_V) /\ KernelMay(OS_CODE_V)
           THEN "unmap_pages" ELSE "shutdown"
  /\ i' = 0
  /\ UNCHANGED <<frame_db, pte, paging, tlb, resume>>

\* page_table[pte_index] = e, with page_table in the window: the store goes to
\* whatever frame the window page translates to.
WindowPage_ByPte(v) == PAGE_TABLE_V + PTE_INDEX(v)
WindowPage(v) == PAGE_TABLE_V + PDE_INDEX(v)
StoreEntry(v, e) ==
  LET f == Translate(WindowPage(v)).frame
  IN  IF IsTable(f) THEN [pte EXCEPT ![Slot(f, PTE_INDEX(v))] = e] ELSE pte

MoreRounds_Inclusive(n) == i < n
MoreRounds(n) == i + 1 < n

\* One round of the loop of map_pages or unmap_pages on page v, of n rounds.
EditPage(v, e, n, next) ==
  LET ok == KernelMay(WindowPage(v)) IN
  /\ StepOrFault(ok, IF MoreRounds(n) THEN pc ELSE next)
  /\ pte' = IF ok THEN StoreEntry(v, e) ELSE pte
  /\ tlb' = IF ok THEN Invlpg(tlb) ELSE tlb
  /\ i' = IF ~ok THEN i ELSE IF MoreRounds(n) THEN i + 1 ELSE 0
  /\ UNCHANGED <<frame_db, paging>>

UNMAP_N_DatabaseSize == FRAME_DB_N
UNMAP_N == FRAME_DB_P     \* the size kernel.cpp gives: FRAME_DB_PHYSICAL_ADDR

UnmapLow_KernelBase ==
  /\ pc = "unmap_pages"
  /\ EditPage(OS_CODE_V + i, NoEntry, UNMAP_N, "map_pages")

UnmapLow ==
  /\ pc = "unmap_pages"
  /\ EditPage(i, NoEntry, UNMAP_N, "map_pages")

MapShellcode_NotPresent ==
  /\ pc = "map_pages"
  /\ EditPage(SHELLCODE_BUF_V + i, NoEntry, SHELLCODE_BUF_N, "test_code_buf")

\* PT_PRESENT | PT_READONLY | PT_USER.
MapShellcode ==
  /\ pc = "map_pages"
  /\ EditPage(SHELLCODE_BUF_V + i, Entry(SHELLCODE_BUF_P + i, FALSE, TRUE),
              SHELLCODE_BUF_N, "test_code_buf")

\* test_code_buf and test_code_len are addressed from EBP, which still points
\* to the boot stack in the low memory just unmapped.
SetTestCode ==
  /\ pc = "test_code_buf"
  /\ StepOrFault(KernelMay(BOOT_STACK_V), "memcpy")
  /\ UNCHANGED <<i, frame_db, pte, paging, tlb>>

CopyTestCode ==
  /\ pc = "memcpy"
  /\ StepOrFault(KernelMay(BOOT_STACK_V) /\ KernelMay(SHELLCODE_BUF_V),
                 "return_to_user_mode")
  /\ UNCHANGED <<i, frame_db, pte, paging, tlb>>

ReturnToUserMode ==
  /\ pc = "return_to_user_mode"
  /\ StepOrFault(KernelMay(StackVarPage), "user")
  /\ UNCHANGED <<i, frame_db, pte, paging, tlb>>

-----------------------------------------------------------------------------
(* Ring 3, faults and the TLB. *)

\* Pages the shellcode can address: its flat segments end at USER_LIMIT, and
\* GDT_KERNEL_FS has DPL 3, so it can be loaded too.
UserLinear == 0 .. (USER_LIMIT - 1) \cup {KERNEL_FS_V}

UserAccess(v, write) ==
  /\ pc = "user"
  /\ StepOrFault(UserMay(v, write), "user")
  /\ tlb' = IF UserMay(v, write) THEN [tlb EXCEPT ![v] = Translate(v)] ELSE tlb
  /\ UNCHANGED <<i, frame_db, pte, paging>>

\* TRAP::dispatch repairs nothing: IRETD repeats the faulting statement.
TrapReturn ==
  /\ pc = "trap"
  /\ pc' = resume
  /\ UNCHANGED <<i, frame_db, pte, paging, tlb, resume>>

\* The processor may cache the translation of a present page at any time,
\* and may drop one.
TlbLoad(v) ==
  /\ paging /\ ~tlb[v].present /\ Walk(pte, v).present
  /\ tlb' = [tlb EXCEPT ![v] = Walk(pte, v)]
  /\ UNCHANGED <<pc, i, frame_db, pte, paging, resume>>

TlbEvict(v) ==
  /\ tlb[v].present
  /\ tlb' = [tlb EXCEPT ![v] = NoEntry]
  /\ UNCHANGED <<pc, i, frame_db, pte, paging, resume>>

Init ==
  /\ pc = "init_frame_database"
  /\ i = 0
  /\ frame_db = [f \in Frame |-> "FREE"]
  /\ pte = [v \in VPage |-> NoEntry]
  /\ paging = FALSE
  /\ tlb = [v \in VPage |-> NoEntry]
  /\ resume = "none"

Kernel ==
  \/ InitFrameDatabase \/ InitPageTable \/ StartupPagingMode
  \/ KernelInit \/ UnmapLow \/ MapShellcode
  \/ SetTestCode \/ CopyTestCode \/ ReturnToUserMode
  \/ TrapReturn

Next ==
  \/ Kernel
  \/ \E v \in UserLinear \cap TLB_PAGES, w \in BOOLEAN : UserAccess(v, w)
  \/ \E v \in TLB_PAGES : TlbLoad(v) \/ TlbEvict(v)

\* The virtual processor keeps executing; nothing is said of the TLB.
Spec == Init /\ [][Next]_vars /\ WF_vars(Kernel)

-----------------------------------------------------------------------------
(* Properties. *)

PCs == {"init_frame_database", "init_page_table", "startup_paging_mode",
        "kernel_init", "unmap_pages", "map_pages", "test_code_buf", "memcpy",
        "return_to_user_mode", "user", "trap", "shutdown"}

\* The types of the state: the loop index stays inside the range being edited.
TypeOK ==
  /\ pc \in PCs
  /\ resume \in PCs \cup {"none"}
  /\ i \in Nat
  /\ pc = "unmap_pages" => i < UNMAP_N
  /\ pc = "map_pages" => i < SHELLCODE_BUF_N
  /\ frame_db \in [Frame -> {"FREE", "USED"}]
  /\ pte \in [VPage -> Entries]
  /\ paging \in BOOLEAN
  /\ tlb \in [VPage -> Entries]

InRing3 == pc = "user" \/ (pc = "trap" /\ resume = "user")

\* The window at PAGE_TABLE_VIRTUAL_ADDR shows table k at its page k, writable,
\* whatever map_pages and unmap_pages have edited: a store through it is a
\* store into the tables.
SelfMap ==
  paging => \A k \in 0 .. (EPT - 1) :
              Walk(pte, PAGE_TABLE_V + k) = Entry(PAGE_TABLE_P + k, TRUE, TRUE)

MappedTo(va, p, n) ==
  \A k \in 0 .. (n - 1) : Walk(pte, va + k) = Entry(p + k, TRUE, TRUE)

\* The kernel's image, stack, video buffer and frame database keep their
\* mapping for as long as paging is on; every trap depends on the first two.
KernelMapped ==
  paging => /\ MappedTo(OS_CODE_V, OS_CODE_P, OS_CODE_N)
            /\ MappedTo(KERNEL_STACK_V, KERNEL_STACK_P, KERNEL_STACK_N)
            /\ MappedTo(VIDEO_BUF_V, VIDEO_BUF_P, VIDEO_BUF_N)
            /\ MappedTo(FRAME_DB_V, FRAME_DB_P, FRAME_DB_N)

\* What the kernel and its traps stand on survives every edit of the tables.
MappingsKept == SelfMap /\ KernelMapped

\* From the IRETD of return_to_user_mode on, a page walk from any address the
\* shellcode's segments reach ends in the shellcode buffer, read-only; every
\* other page there is absent.  All mappings carry PT_USER, so this rests on
\* the segment limits and on unmap_pages.
UserIsolation ==
  InRing3 => \A v \in UserLinear :
    LET e == Walk(pte, v) IN
    e.present => e.frame \in Pages(SHELLCODE_BUF_P, SHELLCODE_BUF_N) /\ ~e.writable

\* A cached translation that the tables no longer give is one of the low pages
\* removed by unmap_pages (its INVLPG misses them), never a page of the kernel,
\* of the window or of the shellcode.
StaleOnlyLow ==
  \A v \in VPage :
    tlb[v].present => tlb[v] = Walk(pte, v) \/ v \in Pages(0, UNMAP_N)

\* No statement of the boot loader or the kernel faults, except the ones that
\* use main's variables on the unmapped boot stack, and no fault is fatal.
KernelFaultsOnlyOnBootStack ==
  /\ pc # "shutdown"
  /\ pc = "trap" => resume \in {"test_code_buf", "memcpy", "user"}

\* A frame the kernel half of the address space maps is marked PAGE_USED.
KernelFramesUsed ==
  paging => \A v \in VPage :
    LET e == Walk(pte, v) IN
    v >= USER_LIMIT /\ e.present => frame_db[e.frame] = "USED"

\* While the stale translation of the boot stack stays cached, the kernel
\* reaches ring 3.
ReachesUserIfBootStackCached ==
  [](pc \in {"test_code_buf", "memcpy"} => tlb[BOOT_STACK_V].present)
    => <>(pc = "user")

-----------------------------------------------------------------------------
(* What the two programs together promise (AddressSpace). *)

AS == INSTANCE AddressSpace WITH
        as <- [v \in VPage |-> IF paging THEN Walk(pte, v) ELSE NoEntry],
        on <- paging

\* The page tables implement an address space of which, once it is on, only
\* user pages change, one at a time.
ImplementsAddressSpace == AS!Spec
=============================================================================
