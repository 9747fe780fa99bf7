-------------------------- MODULE GuestPagingProofs --------------------------
(***************************************************************************)
(* Proofs about GuestPaging for every layout that satisfies LayoutOK.      *)
(***************************************************************************)
EXTENDS GuestPaging, TLAPS

-----------------------------------------------------------------------------
(* Page numbers and their two indices *)

\* A page is one slot of one table.
LEMMA SplitPage ==
  ASSUME NEW v \in VPage
  PROVE  /\ PDE_INDEX(v) \in 0 .. (EPT - 1)
         /\ PTE_INDEX(v) \in 0 .. (EPT - 1)
         /\ PDE_INDEX(v) * EPT + PTE_INDEX(v) = v
<1>1. EPT \in Nat \ {0}
  BY LayoutAssumption DEF LayoutOK, LayoutTypes
<1>2. v \in Nat /\ v < EPT * EPT
  BY <1>1 DEF VPage
<1> QED
  BY <1>1, <1>2 DEF PDE_INDEX, PTE_INDEX

\* The layout numbers as the later proofs use them: types, and tables that fit.
LEMMA LayoutFacts ==
  /\ EPT \in Nat \ {0}
  /\ PAGE_TABLE_P \in Nat /\ PAGE_TABLE_V \in Nat
  /\ Slot(PAGE_DIR_P, 0) = PAGE_TABLE_V
  /\ PAGE_TABLE_V + EPT <= EPT * EPT
  /\ PAGE_TABLE_P + EPT <= RAM_N
  /\ EPT * EPT \in Nat
<1>1. EPT \in Nat \ {0} /\ PAGE_TABLE_P \in Nat /\ PAGE_TABLE_V \in Nat /\ EPT * EPT \in Nat
  BY LayoutAssumption DEF LayoutOK, LayoutTypes
<1>2. PAGE_TABLE_V \div EPT \in Int
  BY <1>1
<1>3. Slot(PAGE_DIR_P, 0) = PAGE_TABLE_V
  <2>1. PAGE_DIR_P - PAGE_TABLE_P = PAGE_TABLE_V \div EPT
    BY <1>1, <1>2, LayoutAssumption DEF LayoutOK, LayoutSelfMap, PDE_INDEX
  <2>2. (PAGE_TABLE_V \div EPT) * EPT + 0 = PAGE_TABLE_V
    BY <1>1, <1>2, LayoutAssumption DEF LayoutOK, LayoutSelfMap, PDE_INDEX
  <2> QED BY <2>1, <2>2 DEF Slot
<1>4. PAGE_TABLE_V + EPT <= EPT * EPT
  BY <1>1, LayoutAssumption DEF LayoutOK, LayoutTypes, LayoutVirtual
<1>5. PAGE_TABLE_P + EPT <= RAM_N
  BY <1>1, LayoutAssumption DEF LayoutOK, LayoutTypes, LayoutPhysical
<1> QED BY <1>1, <1>3, <1>4, <1>5

\* Slot in a table frame of the flat array.
LEMMA SlotOfTable ==
  ASSUME NEW v \in VPage
  PROVE  Slot(PAGE_TABLE_P + PDE_INDEX(v), PTE_INDEX(v)) = v
<1>1. PDE_INDEX(v) \in Int /\ PTE_INDEX(v) \in Int
  BY SplitPage
<1>2. (PAGE_TABLE_P + PDE_INDEX(v)) - PAGE_TABLE_P = PDE_INDEX(v)
  BY <1>1, LayoutFacts
<1> QED BY <1>2, SplitPage DEF Slot

-----------------------------------------------------------------------------
(* The walk is the flat array as long as the window part of it is intact. *)

WindowIntact(t) ==
  \A k \in 0 .. (EPT - 1) :
     t[PAGE_TABLE_V + k] = Entry(PAGE_TABLE_P + k, TRUE, TRUE)

Flat(t, v) == IF t[v].present THEN t[v] ELSE NoEntry

\* While the directory is the table that maps the window, the two levels of a
\* walk read one entry of the array of tables.
LEMMA WalkIsFlat ==
  ASSUME NEW t \in [VPage -> Entries], WindowIntact(t), NEW v \in VPage
  PROVE  Walk(t, v) = Flat(t, v)
<1> DEFINE k == PDE_INDEX(v)
<1>1. k \in 0 .. (EPT - 1) /\ k \in Int
  BY SplitPage
<1>2. Slot(PAGE_DIR_P, k) = PAGE_TABLE_V + k
  <2>1. (PAGE_DIR_P - PAGE_TABLE_P) * EPT + 0 = PAGE_TABLE_V
    BY LayoutFacts DEF Slot
  <2>2. (PAGE_DIR_P - PAGE_TABLE_P) * EPT \in Int
    BY LayoutAssumption DEF LayoutOK, LayoutTypes
  <2> HIDE DEF k
  <2>3. (PAGE_DIR_P - PAGE_TABLE_P) * EPT + k = PAGE_TABLE_V + k
    BY <2>1, <2>2, <1>1
  <2> QED BY <2>3 DEF Slot
<1>3. PDE(t, v) = Entry(PAGE_TABLE_P + k, TRUE, TRUE)
  <2> HIDE DEF k
  <2>1. t[PAGE_TABLE_V + k] = Entry(PAGE_TABLE_P + k, TRUE, TRUE)
    BY <1>1 DEF WindowIntact
  <2> QED BY <2>1, <1>2 DEF PDE, k
<1>4. PDE(t, v).frame = PAGE_TABLE_P + k /\ PDE(t, v).present
      /\ PDE(t, v).writable = TRUE /\ PDE(t, v).user = TRUE
  BY <1>3 DEF Entry
<1>5. IsTable(PDE(t, v).frame)
  <2> HIDE DEF k
  <2> QED BY <1>1, <1>4, LayoutFacts DEF IsTable, Pages, PAGE_TABLE_N
<1>6. Slot(PDE(t, v).frame, PTE_INDEX(v)) = v
  BY <1>4, SlotOfTable
<1>7. t[v] \in Entries
  OBVIOUS
<1>8. CASE t[v].present
  <2>1. Walk(t, v) = Entry(t[v].frame, TRUE /\ t[v].writable, TRUE /\ t[v].user)
    BY <1>4, <1>5, <1>6, <1>8 DEF Walk
  <2>2. t[v].writable \in BOOLEAN /\ t[v].user \in BOOLEAN /\ t[v].present = TRUE
    BY <1>7, <1>8 DEF Entries
  <2>3. Walk(t, v) = Entry(t[v].frame, t[v].writable, t[v].user)
    BY <2>1, <2>2
  <2>4. Entry(t[v].frame, t[v].writable, t[v].user) = t[v]
    BY <1>7, <2>2 DEF Entries, Entry
  <2> QED BY <2>3, <2>4, <1>8 DEF Flat
<1>9. CASE ~ t[v].present
  BY <1>6, <1>9 DEF Walk, Flat
<1> QED BY <1>8, <1>9

-----------------------------------------------------------------------------
(* What Boot's init_page_table leaves in the tables. *)

\* One page's entry after the six calls of map_pages: the last call that
\* covers the page wins.
BootEntry(v) ==
  IF v \in Pages(OS_CODE_V, OS_CODE_N)
    THEN Entry(OS_CODE_P + (v - OS_CODE_V), TRUE, TRUE)
  ELSE IF v \in Pages(PAGE_TABLE_V, EPT)
    THEN Entry(PAGE_TABLE_P + (v - PAGE_TABLE_V), TRUE, TRUE)
  ELSE IF v \in Pages(VIDEO_BUF_V, VIDEO_BUF_N)
    THEN Entry(VIDEO_BUF_P + (v - VIDEO_BUF_V), TRUE, TRUE)
  ELSE IF v \in Pages(FRAME_DB_V, FRAME_DB_N)
    THEN Entry(FRAME_DB_P + (v - FRAME_DB_V), TRUE, TRUE)
  ELSE IF v \in Pages(KERNEL_STACK_V, KERNEL_STACK_N)
    THEN Entry(KERNEL_STACK_P + (v - KERNEL_STACK_V), TRUE, TRUE)
  ELSE IF v \in Pages(0, BOOT_CODE_N)
    THEN Entry(0 + (v - 0), TRUE, TRUE)
  ELSE NoEntry

\* One entry of the tables init_page_table leaves, read through both levels.
LEMMA BootTableEntry ==
  /\ DOMAIN BootTable = VPage
  /\ \A v \in VPage : BootTable[v] = BootEntry(v)
<1> DEFINE t0 == MapTables([v \in VPage |-> NoEntry])
           t1 == map_pages(t0, 0, 0, BOOT_CODE_N)
           t2 == map_pages(t1, KERNEL_STACK_P, KERNEL_STACK_V, KERNEL_STACK_N)
           t3 == map_pages(t2, FRAME_DB_P, FRAME_DB_V, FRAME_DB_N)
           t4 == map_pages(t3, VIDEO_BUF_P, VIDEO_BUF_V, VIDEO_BUF_N)
           t5 == map_pages(t4, PAGE_TABLE_P, PAGE_TABLE_V, PAGE_TABLE_N)
           t6 == map_pages(t5, OS_CODE_P, OS_CODE_V, OS_CODE_N)
<1>0. BootTable = t6
  BY DEF BootTable
<1>1. \A v \in VPage : t0[v] = IF v \in Pages(PAGE_TABLE_V, EPT)
                               THEN Entry(PAGE_TABLE_P + (v - PAGE_TABLE_V), TRUE, FALSE)
                               ELSE NoEntry
  BY LayoutFacts DEF MapTables
<1> HIDE DEF t0, t1, t2, t3, t4, t5, t6
<1>3. \A v \in VPage : t1[v] = IF v \in Pages(0, BOOT_CODE_N)
                               THEN Entry(0 + (v - 0), TRUE, TRUE) ELSE t0[v]
  BY DEF t1, map_pages
<1>4. \A v \in VPage : t2[v] = IF v \in Pages(KERNEL_STACK_V, KERNEL_STACK_N)
        THEN Entry(KERNEL_STACK_P + (v - KERNEL_STACK_V), TRUE, TRUE) ELSE t1[v]
  BY DEF t2, map_pages
<1>5. \A v \in VPage : t3[v] = IF v \in Pages(FRAME_DB_V, FRAME_DB_N)
        THEN Entry(FRAME_DB_P + (v - FRAME_DB_V), TRUE, TRUE) ELSE t2[v]
  BY DEF t3, map_pages
<1>6. \A v \in VPage : t4[v] = IF v \in Pages(VIDEO_BUF_V, VIDEO_BUF_N)
        THEN Entry(VIDEO_BUF_P + (v - VIDEO_BUF_V), TRUE, TRUE) ELSE t3[v]
  BY DEF t4, map_pages
<1>7. \A v \in VPage : t5[v] = IF v \in Pages(PAGE_TABLE_V, EPT)
        THEN Entry(PAGE_TABLE_P + (v - PAGE_TABLE_V), TRUE, TRUE) ELSE t4[v]
  BY DEF t5, map_pages, PAGE_TABLE_N
<1>8. \A v \in VPage : t6[v] = IF v \in Pages(OS_CODE_V, OS_CODE_N)
        THEN Entry(OS_CODE_P + (v - OS_CODE_V), TRUE, TRUE) ELSE t5[v]
  BY DEF t6, map_pages
<1>9. DOMAIN t6 = VPage
  BY DEF t6, map_pages
<1>10. ASSUME NEW v \in VPage PROVE t6[v] = BootEntry(v)
  <2>1. CASE v \in Pages(OS_CODE_V, OS_CODE_N)
    BY <2>1, <1>8 DEF BootEntry
  <2>2. CASE v \notin Pages(OS_CODE_V, OS_CODE_N) /\ v \in Pages(PAGE_TABLE_V, EPT)
    BY <2>2, <1>8, <1>7 DEF BootEntry
  <2>3. CASE v \notin Pages(OS_CODE_V, OS_CODE_N) /\ v \notin Pages(PAGE_TABLE_V, EPT)
    <3>1. t6[v] = t4[v]
      BY <2>3, <1>8, <1>7
    <3>2. CASE v \in Pages(VIDEO_BUF_V, VIDEO_BUF_N)
      BY <2>3, <3>1, <3>2, <1>6 DEF BootEntry
    <3>3. CASE v \notin Pages(VIDEO_BUF_V, VIDEO_BUF_N)
      <4>1. t6[v] = t3[v]
        BY <3>1, <3>3, <1>6
      <4>2. CASE v \in Pages(FRAME_DB_V, FRAME_DB_N)
        BY <2>3, <3>3, <4>1, <4>2, <1>5 DEF BootEntry
      <4>3. CASE v \notin Pages(FRAME_DB_V, FRAME_DB_N)
        BY <2>3, <3>3, <4>1, <4>3, <1>5, <1>4, <1>3, <1>1 DEF BootEntry
      <4> QED BY <4>2, <4>3
    <3> QED BY <3>2, <3>3
  <2> QED BY <2>1, <2>2, <2>3
<1> QED BY <1>0, <1>9, <1>10

\* The boot entry of a page is absent or leads, writable and for users too,
\* to a frame of the kernel.
LEMMA BootEntryKinds ==
  ASSUME NEW v \in VPage
  PROVE  \/ BootEntry(v) = NoEntry
         \/ \E f \in 0 .. (KERNEL_MEM_N - 1) : BootEntry(v) = Entry(f, TRUE, TRUE)
<1> USE LayoutAssumption DEF LayoutOK, LayoutTypes, LayoutPhysical
<1>1. v \in Nat
  BY DEF VPage
<1>2. CASE v \in Pages(OS_CODE_V, OS_CODE_N)
  <2>1. OS_CODE_P + (v - OS_CODE_V) \in 0 .. (KERNEL_MEM_N - 1)
    BY <1>1, <1>2 DEF Pages
  <2> QED BY <1>2, <2>1 DEF BootEntry
<1>3. CASE v \in Pages(PAGE_TABLE_V, EPT)
  <2>1. PAGE_TABLE_P + (v - PAGE_TABLE_V) \in 0 .. (KERNEL_MEM_N - 1)
    BY <1>1, <1>3 DEF Pages
  <2> QED BY <1>2, <1>3, <2>1 DEF BootEntry
<1>4. CASE v \in Pages(VIDEO_BUF_V, VIDEO_BUF_N)
  <2>1. VIDEO_BUF_P + (v - VIDEO_BUF_V) \in 0 .. (KERNEL_MEM_N - 1)
    BY <1>1, <1>4 DEF Pages
  <2> QED BY <1>2, <1>3, <1>4, <2>1 DEF BootEntry
<1>5. CASE v \in Pages(FRAME_DB_V, FRAME_DB_N)
  <2>1. FRAME_DB_P + (v - FRAME_DB_V) \in 0 .. (KERNEL_MEM_N - 1)
    BY <1>1, <1>5 DEF Pages
  <2> QED BY <1>2, <1>3, <1>4, <1>5, <2>1 DEF BootEntry
<1>6. CASE v \in Pages(KERNEL_STACK_V, KERNEL_STACK_N)
  <2>1. KERNEL_STACK_P + (v - KERNEL_STACK_V) \in 0 .. (KERNEL_MEM_N - 1)
    BY <1>1, <1>6 DEF Pages
  <2> QED BY <1>2, <1>3, <1>4, <1>5, <1>6, <2>1 DEF BootEntry
<1>7. CASE v \in Pages(0, BOOT_CODE_N)
  <2>1. 0 + (v - 0) \in 0 .. (KERNEL_MEM_N - 1)
    BY <1>1, <1>7 DEF Pages
  <2> QED BY <1>2, <1>3, <1>4, <1>5, <1>6, <1>7, <2>1 DEF BootEntry
<1> QED BY <1>2, <1>3, <1>4, <1>5, <1>6, <1>7 DEF BootEntry

\* Each kernel range is mapped as the layout asks.
LEMMA BootRanges ==
  /\ \A k \in 0 .. (OS_CODE_N - 1) :
       /\ OS_CODE_V + k \in VPage /\ OS_CODE_V + k >= USER_LIMIT
       /\ BootEntry(OS_CODE_V + k) = Entry(OS_CODE_P + k, TRUE, TRUE)
  /\ \A k \in 0 .. (EPT - 1) :
       /\ PAGE_TABLE_V + k \in VPage /\ PAGE_TABLE_V + k >= USER_LIMIT
       /\ BootEntry(PAGE_TABLE_V + k) = Entry(PAGE_TABLE_P + k, TRUE, TRUE)
  /\ \A k \in 0 .. (VIDEO_BUF_N - 1) :
       /\ VIDEO_BUF_V + k \in VPage /\ VIDEO_BUF_V + k >= USER_LIMIT
       /\ BootEntry(VIDEO_BUF_V + k) = Entry(VIDEO_BUF_P + k, TRUE, TRUE)
  /\ \A k \in 0 .. (FRAME_DB_N - 1) :
       /\ FRAME_DB_V + k \in VPage /\ FRAME_DB_V + k >= USER_LIMIT
       /\ BootEntry(FRAME_DB_V + k) = Entry(FRAME_DB_P + k, TRUE, TRUE)
  /\ \A k \in 0 .. (KERNEL_STACK_N - 1) :
       /\ KERNEL_STACK_V + k \in VPage /\ KERNEL_STACK_V + k >= USER_LIMIT
       /\ BootEntry(KERNEL_STACK_V + k) = Entry(KERNEL_STACK_P + k, TRUE, TRUE)
<1> USE LayoutAssumption, LayoutFacts DEF LayoutOK, LayoutTypes, LayoutVirtual
<1>0. EPT * EPT \in Nat
  OBVIOUS
<1> DEFINE e2 == EPT * EPT
<1>00. e2 \in Nat /\ KERNEL_FS_V < e2 /\ VPage = 0 .. (e2 - 1)
  BY <1>0 DEF VPage
<1> HIDE DEF e2
<1>1. ASSUME NEW k \in 0 .. (OS_CODE_N - 1)
      PROVE  /\ OS_CODE_V + k \in VPage /\ OS_CODE_V + k >= USER_LIMIT
             /\ BootEntry(OS_CODE_V + k) = Entry(OS_CODE_P + k, TRUE, TRUE)
  <2>1. OS_CODE_V + k \in Pages(OS_CODE_V, OS_CODE_N)
    BY DEF Pages
  <2>2. OS_CODE_P + ((OS_CODE_V + k) - OS_CODE_V) = OS_CODE_P + k
    OBVIOUS
  <2>3. OS_CODE_V + k \in VPage /\ OS_CODE_V + k >= USER_LIMIT
    BY <1>00
  <2> QED BY <2>1, <2>2, <2>3 DEF BootEntry
<1>2. ASSUME NEW k \in 0 .. (EPT - 1)
      PROVE  /\ PAGE_TABLE_V + k \in VPage /\ PAGE_TABLE_V + k >= USER_LIMIT
             /\ BootEntry(PAGE_TABLE_V + k) = Entry(PAGE_TABLE_P + k, TRUE, TRUE)
  <2>1. PAGE_TABLE_V + k \in Pages(PAGE_TABLE_V, EPT)
    BY DEF Pages
  <2>2. PAGE_TABLE_V + k \notin Pages(OS_CODE_V, OS_CODE_N)
    BY DEF Pages
  <2>3. PAGE_TABLE_P + ((PAGE_TABLE_V + k) - PAGE_TABLE_V) = PAGE_TABLE_P + k
    OBVIOUS
  <2>4. PAGE_TABLE_V + k \in VPage /\ PAGE_TABLE_V + k >= USER_LIMIT
    BY <1>00
  <2> QED BY <2>1, <2>2, <2>3, <2>4 DEF BootEntry
<1>3. ASSUME NEW k \in 0 .. (VIDEO_BUF_N - 1)
      PROVE  /\ VIDEO_BUF_V + k \in VPage /\ VIDEO_BUF_V + k >= USER_LIMIT
             /\ BootEntry(VIDEO_BUF_V + k) = Entry(VIDEO_BUF_P + k, TRUE, TRUE)
  <2>1. VIDEO_BUF_V + k \in Pages(VIDEO_BUF_V, VIDEO_BUF_N)
    BY DEF Pages
  <2>2. /\ VIDEO_BUF_V + k \notin Pages(OS_CODE_V, OS_CODE_N)
        /\ VIDEO_BUF_V + k \notin Pages(PAGE_TABLE_V, EPT)
    BY DEF Pages
  <2>3. VIDEO_BUF_P + ((VIDEO_BUF_V + k) - VIDEO_BUF_V) = VIDEO_BUF_P + k
    OBVIOUS
  <2>4. VIDEO_BUF_V + k \in VPage /\ VIDEO_BUF_V + k >= USER_LIMIT
    BY <1>00
  <2> QED BY <2>1, <2>2, <2>3, <2>4 DEF BootEntry
<1>4. ASSUME NEW k \in 0 .. (FRAME_DB_N - 1)
      PROVE  /\ FRAME_DB_V + k \in VPage /\ FRAME_DB_V + k >= USER_LIMIT
             /\ BootEntry(FRAME_DB_V + k) = Entry(FRAME_DB_P + k, TRUE, TRUE)
  <2>1. FRAME_DB_V + k \in Pages(FRAME_DB_V, FRAME_DB_N)
    BY DEF Pages
  <2>2. /\ FRAME_DB_V + k \notin Pages(OS_CODE_V, OS_CODE_N)
        /\ FRAME_DB_V + k \notin Pages(PAGE_TABLE_V, EPT)
        /\ FRAME_DB_V + k \notin Pages(VIDEO_BUF_V, VIDEO_BUF_N)
    BY DEF Pages
  <2>3. FRAME_DB_P + ((FRAME_DB_V + k) - FRAME_DB_V) = FRAME_DB_P + k
    OBVIOUS
  <2>4. FRAME_DB_V + k \in VPage /\ FRAME_DB_V + k >= USER_LIMIT
    BY <1>00
  <2> QED BY <2>1, <2>2, <2>3, <2>4 DEF BootEntry
<1>5. ASSUME NEW k \in 0 .. (KERNEL_STACK_N - 1)
      PROVE  /\ KERNEL_STACK_V + k \in VPage /\ KERNEL_STACK_V + k >= USER_LIMIT
             /\ BootEntry(KERNEL_STACK_V + k) = Entry(KERNEL_STACK_P + k, TRUE, TRUE)
  <2>1. KERNEL_STACK_V + k \in Pages(KERNEL_STACK_V, KERNEL_STACK_N)
    BY DEF Pages
  <2>2. /\ KERNEL_STACK_V + k \notin Pages(OS_CODE_V, OS_CODE_N)
        /\ KERNEL_STACK_V + k \notin Pages(PAGE_TABLE_V, EPT)
        /\ KERNEL_STACK_V + k \notin Pages(VIDEO_BUF_V, VIDEO_BUF_N)
        /\ KERNEL_STACK_V + k \notin Pages(FRAME_DB_V, FRAME_DB_N)
    BY DEF Pages
  <2>3. KERNEL_STACK_P + ((KERNEL_STACK_V + k) - KERNEL_STACK_V) = KERNEL_STACK_P + k
    OBVIOUS
  <2>4. KERNEL_STACK_V + k \in VPage /\ KERNEL_STACK_V + k >= USER_LIMIT
    BY <1>00
  <2> QED BY <2>1, <2>2, <2>3, <2>4 DEF BootEntry
<1> QED BY <1>1, <1>2, <1>3, <1>4, <1>5

\* What init_page_table writes: where each range goes, with which flags.
LEMMA BootTableFacts ==
  /\ BootTable \in [VPage -> Entries]
  /\ WindowIntact(BootTable)
  /\ \A v \in VPage : BOOT_CODE_N <= v /\ v < USER_LIMIT => BootTable[v] = NoEntry
  /\ BOOT_STACK_V \in VPage /\ BootTable[BOOT_STACK_V].present
<1> USE LayoutAssumption DEF LayoutOK, LayoutTypes, LayoutVirtual, LayoutPhysical
<1>1. \A f \in 0 .. (KERNEL_MEM_N - 1) : Entry(f, TRUE, TRUE) \in Entries
  BY DEF Entry, Entries, Frame
<1>2. NoEntry \in Entries
  BY DEF NoEntry, Entries, Frame
<1>3. \A v \in VPage : BootTable[v] \in Entries
  <2> SUFFICES ASSUME NEW v \in VPage PROVE BootEntry(v) \in Entries
    BY BootTableEntry
  <2> QED BY BootEntryKinds, <1>1, <1>2
<1>4. BootTable \in [VPage -> Entries]
  <2>1. BootTable = [v \in VPage |-> BootTable[v]]
    BY DEF BootTable, map_pages
  <2> QED BY <1>3, <2>1
<1>5. WindowIntact(BootTable)
  BY BootTableEntry, BootRanges DEF WindowIntact
<1>6. ASSUME NEW v \in VPage, BOOT_CODE_N <= v, v < USER_LIMIT
      PROVE  BootTable[v] = NoEntry
  <2>1. v \in Nat
    BY DEF VPage
  <2>2. /\ v \notin Pages(OS_CODE_V, OS_CODE_N) /\ v \notin Pages(PAGE_TABLE_V, EPT)
        /\ v \notin Pages(VIDEO_BUF_V, VIDEO_BUF_N) /\ v \notin Pages(FRAME_DB_V, FRAME_DB_N)
        /\ v \notin Pages(KERNEL_STACK_V, KERNEL_STACK_N) /\ v \notin Pages(0, BOOT_CODE_N)
    BY <1>6, <2>1 DEF Pages
  <2> QED BY <2>2, BootTableEntry DEF BootEntry
<1>7. BOOT_STACK_V \in VPage
  <2>1. EPT * EPT \in Nat
    OBVIOUS
  <2> QED BY <2>1 DEF VPage
<1>8. BootTable[BOOT_STACK_V].present
  <2>1. /\ BOOT_STACK_V \notin Pages(OS_CODE_V, OS_CODE_N)
        /\ BOOT_STACK_V \notin Pages(PAGE_TABLE_V, EPT)
        /\ BOOT_STACK_V \notin Pages(VIDEO_BUF_V, VIDEO_BUF_N)
        /\ BOOT_STACK_V \notin Pages(FRAME_DB_V, FRAME_DB_N)
        /\ BOOT_STACK_V \notin Pages(KERNEL_STACK_V, KERNEL_STACK_N)
        /\ BOOT_STACK_V \in Pages(0, BOOT_CODE_N)
    BY DEF Pages
  <2>2. BootTable[BOOT_STACK_V] = Entry(0 + (BOOT_STACK_V - 0), TRUE, TRUE)
    BY <1>7, <2>1, BootTableEntry DEF BootEntry
  <2> QED BY <2>2 DEF Entry
<1> QED BY <1>4, <1>5, <1>6, <1>7, <1>8

-----------------------------------------------------------------------------
(* The inductive invariant. *)

BootPCs == {"init_frame_database", "init_page_table"}
EarlyPCs == BootPCs \cup {"startup_paging_mode"}
LatePCs == {"map_pages", "test_code_buf", "memcpy", "return_to_user_mode",
            "user", "trap"}

ShellEntry(v) == Entry(SHELLCODE_BUF_P + (v - SHELLCODE_BUF_V), FALSE, TRUE)

PagingPhase == paging <=> pc \notin EarlyPCs

DatabaseMarked ==
  pc # "init_frame_database" =>
     \A f \in Frame : f < KERNEL_MEM_N => frame_db[f] = "USED"

\* The kernel half of the tables is what Boot wrote ...
KernelHalf ==
  pc \notin BootPCs => \A v \in VPage : v >= USER_LIMIT => pte[v] = BootTable[v]

\* ... and the user half above the low pages holds the shellcode buffer only.
UserHalf ==
  pc \notin BootPCs =>
    \A v \in VPage : UNMAP_N <= v /\ v < USER_LIMIT =>
       \/ pte[v] = NoEntry
       \/ v \in Pages(SHELLCODE_BUF_V, SHELLCODE_BUF_N) /\ pte[v] = ShellEntry(v)

LowPages ==
  /\ pc \in {"startup_paging_mode", "kernel_init"} => pte = BootTable
  /\ pc = "unmap_pages" => \A v \in VPage : v < i => pte[v] = NoEntry
  /\ pc \in LatePCs => \A v \in VPage : v < UNMAP_N => pte[v] = NoEntry

StaleFlat ==
  /\ ~paging => \A v \in VPage : ~tlb[v].present
  /\ \A v \in VPage : tlb[v].present => tlb[v] = Flat(pte, v) \/ v < UNMAP_N

IInv == /\ TypeOK /\ PagingPhase /\ DatabaseMarked /\ KernelHalf /\ UserHalf
        /\ LowPages /\ StaleFlat /\ KernelFaultsOnlyOnBootStack

\* Memory and tables are large enough for the ranges of os.h.
LEMMA SizeFacts ==
  /\ EPT * EPT \in Nat /\ VPage \subseteq Nat
  /\ UNMAP_N \in Nat /\ 0 < UNMAP_N /\ BOOT_CODE_N \in Nat /\ BOOT_CODE_N <= UNMAP_N
  /\ USER_LIMIT \in Nat /\ KERNEL_MEM_N \in Nat /\ RAM_N \in Nat
  /\ SHELLCODE_BUF_V \in Nat /\ SHELLCODE_BUF_P \in Nat
  /\ SHELLCODE_BUF_N \in Nat /\ 0 < SHELLCODE_BUF_N
  /\ UNMAP_N <= SHELLCODE_BUF_V
  /\ SHELLCODE_BUF_V + SHELLCODE_BUF_N <= USER_LIMIT
  /\ SHELLCODE_BUF_P + SHELLCODE_BUF_N <= RAM_N
  /\ USER_LIMIT < EPT * EPT
  /\ \A x \in Nat : x < USER_LIMIT => x \in VPage
  /\ StackVarPage \in VPage /\ StackVarPage >= USER_LIMIT
  /\ OS_CODE_V \in VPage /\ OS_CODE_V >= USER_LIMIT
<1> USE LayoutAssumption DEF LayoutOK, LayoutTypes, LayoutVirtual, LayoutPhysical
<1> DEFINE e2 == EPT * EPT
<1>1. e2 \in Nat /\ VPage = 0 .. (e2 - 1) /\ KERNEL_FS_V < e2
  BY DEF VPage
<1> HIDE DEF e2
<1>2. /\ UNMAP_N \in Nat /\ 0 < UNMAP_N /\ BOOT_CODE_N <= UNMAP_N
      /\ UNMAP_N <= SHELLCODE_BUF_V
  BY DEF UNMAP_N
<1>3. USER_LIMIT < e2 /\ \A x \in Nat : x < USER_LIMIT => x \in VPage
  BY <1>1
<1>4. /\ StackVarPage \in VPage /\ StackVarPage >= USER_LIMIT
      /\ OS_CODE_V \in VPage /\ OS_CODE_V >= USER_LIMIT
  BY <1>1 DEF StackVarPage
<1> QED BY <1>1, <1>2, <1>3, <1>4 DEF e2

\* Consequences of the invariant used by every action.
LEMMA TablesIntact ==
  ASSUME TypeOK, KernelHalf, pc \notin BootPCs
  PROVE  /\ WindowIntact(pte)
         /\ \A v \in VPage : Walk(pte, v) = Flat(pte, v)
<1>1. WindowIntact(pte)
  BY BootTableEntry, BootRanges DEF WindowIntact, KernelHalf
<1>2. pte \in [VPage -> Entries]
  BY DEF TypeOK
<1> QED BY <1>1, <1>2, WalkIsFlat

\* Kernel pages are mapped from the entries of the upper half alone.
LEMMA KernelReaches ==
  ASSUME TypeOK, KernelHalf, pc \notin BootPCs
  PROVE  KernelMay(OS_CODE_V) /\ KernelMay(StackVarPage)
<1>1. ASSUME NEW v \in VPage, v >= USER_LIMIT, BootEntry(v).present
      PROVE  KernelMay(v)
  <2>1. pte[v].present
    BY <1>1, BootTableEntry DEF KernelHalf
  <2>2. Walk(pte, v).present
    BY <2>1, TablesIntact DEF Flat
  <2> QED BY <2>2 DEF KernelMay, Translate
<1> USE LayoutAssumption DEF LayoutOK, LayoutTypes
<1>2. BootEntry(OS_CODE_V).present
  <2>1. 0 \in 0 .. (OS_CODE_N - 1) /\ OS_CODE_V + 0 = OS_CODE_V
    OBVIOUS
  <2>2. BootEntry(OS_CODE_V) = Entry(OS_CODE_P + 0, TRUE, TRUE)
    BY <2>1, BootRanges
  <2> QED BY <2>2 DEF Entry
<1>3. BootEntry(StackVarPage).present
  <2> DEFINE k == KERNEL_STACK_N - 1
  <2>1. k \in 0 .. (KERNEL_STACK_N - 1) /\ KERNEL_STACK_V + k = StackVarPage
    BY DEF StackVarPage
  <2> HIDE DEF k
  <2>2. BootEntry(StackVarPage) = Entry(KERNEL_STACK_P + k, TRUE, TRUE)
    BY <2>1, BootRanges
  <2> QED BY <2>2 DEF Entry
<1> QED BY <1>1, <1>2, <1>3, SizeFacts

\* A store through the window edits the entry of the page it is meant for.
LEMMA StoreIsFlat ==
  ASSUME TypeOK, KernelHalf, StaleFlat, pc \notin BootPCs,
         NEW v \in VPage, NEW e
  PROVE  /\ KernelMay(WindowPage(v))
         /\ StoreEntry(v, e) = [pte EXCEPT ![v] = e]
<1> DEFINE k == PDE_INDEX(v)
           w == WindowPage(v)
<1>1. k \in 0 .. (EPT - 1) /\ w = PAGE_TABLE_V + k
  BY SplitPage DEF WindowPage
<1>2. w \in VPage /\ w >= USER_LIMIT
  <2> HIDE DEF k
  <2> QED BY <1>1, BootRanges
<1>3. pte[w] = Entry(PAGE_TABLE_P + k, TRUE, TRUE)
  <2> HIDE DEF k
  <2> QED BY <1>1, TablesIntact DEF WindowIntact
<1>4. Walk(pte, w) = pte[w] /\ Flat(pte, w) = pte[w]
  BY <1>2, <1>3, TablesIntact DEF Flat, Entry
<1>5. ~ (w < UNMAP_N)
  <2> HIDE DEF w
  <2>1. w \in Nat
    BY <1>2, SizeFacts
  <2>2. UNMAP_N \in Nat /\ USER_LIMIT \in Nat /\ UNMAP_N <= USER_LIMIT
    BY SizeFacts
  <2> QED BY <1>2, <2>1, <2>2
<1>6. Translate(w) = pte[w]
  BY <1>2, <1>4, <1>5 DEF Translate, StaleFlat
<1>7. Translate(w).present /\ Translate(w).frame = PAGE_TABLE_P + k
  BY <1>6, <1>3 DEF Entry
<1>8. IsTable(PAGE_TABLE_P + k)
  <2> HIDE DEF k
  <2> QED BY <1>1, LayoutFacts DEF IsTable, Pages, PAGE_TABLE_N
<1>9. Slot(PAGE_TABLE_P + k, PTE_INDEX(v)) = v
  BY SlotOfTable
<1>10. KernelMay(WindowPage(v))
  BY <1>7 DEF KernelMay
<1>11. StoreEntry(v, e) = [pte EXCEPT ![v] = e]
  BY <1>7, <1>8, <1>9 DEF StoreEntry
<1> QED BY <1>10, <1>11

\* Editing one user page, as a round of map_pages or unmap_pages does.
LEMMA EditEffect ==
  ASSUME TypeOK, KernelHalf, StaleFlat, pc \notin BootPCs, i \in Nat,
         NEW v \in VPage, NEW e, NEW n \in Nat, NEW next,
         EditPage(v, e, n, next)
  PROVE  /\ pte' = [pte EXCEPT ![v] = e]
         /\ tlb' = [tlb EXCEPT ![StackVarPage] = NoEntry]
         /\ i + 1 < n => pc' = pc /\ i' = i + 1
         /\ ~(i + 1 < n) => pc' = next /\ i' = 0
         /\ UNCHANGED <<frame_db, paging, resume>>
<1>1. KernelMay(WindowPage(v)) /\ StoreEntry(v, e) = [pte EXCEPT ![v] = e]
  BY StoreIsFlat
<1> QED BY <1>1 DEF EditPage, StepOrFault, MoreRounds, Invlpg

\* The invariant holds when Boot starts.
LEMMA InitIInv == Init => IInv
<1> SUFFICES ASSUME Init PROVE IInv
  OBVIOUS
<1>1. NoEntry \in Entries
  BY LayoutAssumption DEF NoEntry, Entries, Frame, LayoutOK, LayoutTypes, LayoutPhysical
<1>2. TypeOK
  BY <1>1 DEF Init, TypeOK, PCs
<1>3. ~NoEntry.present
  BY DEF NoEntry
<1>4. StaleFlat
  BY <1>3 DEF Init, StaleFlat
<1> QED BY <1>2, <1>4 DEF Init, IInv, PagingPhase, DatabaseMarked, KernelHalf,
          UserHalf, LowPages, KernelFaultsOnlyOnBootStack, EarlyPCs, BootPCs, LatePCs

\* An absent entry is within what the user half may hold.
LEMMA NoEntryOK ==
  /\ NoEntry \in Entries /\ ~NoEntry.present
  /\ \A v \in Pages(SHELLCODE_BUF_V, SHELLCODE_BUF_N) :
       ShellEntry(v) \in Entries /\ ShellEntry(v).present /\ ~ShellEntry(v).writable
<1> USE LayoutAssumption DEF LayoutOK, LayoutTypes, LayoutPhysical
<1>1. NoEntry \in Entries /\ ~NoEntry.present
  BY DEF NoEntry, Entries, Frame
<1>2. ASSUME NEW v \in Pages(SHELLCODE_BUF_V, SHELLCODE_BUF_N)
      PROVE  ShellEntry(v) \in Entries /\ ShellEntry(v).present /\ ~ShellEntry(v).writable
  <2>1. SHELLCODE_BUF_P + (v - SHELLCODE_BUF_V) \in Frame
    BY DEF Pages, Frame
  <2> QED BY <2>1 DEF ShellEntry, Entry, Entries
<1> QED BY <1>1, <1>2

-----------------------------------------------------------------------------
(* One lemma per group of actions. *)

\* Steps of Boot and of the kernel before it edits tables keep the invariant.
LEMMA StepBoot ==
  ASSUME IInv, InitFrameDatabase \/ InitPageTable \/ StartupPagingMode \/ KernelInit
  PROVE  IInv'
<1> USE DEF IInv, TypeOK, PCs
<1>1. CASE InitFrameDatabase
  <2>1. frame_db' \in [Frame -> {"FREE", "USED"}]
        /\ \A f \in Frame : f < KERNEL_MEM_N => frame_db'[f] = "USED"
    BY <1>1 DEF InitFrameDatabase, MarkUsed
  <2>2. TypeOK'
    BY <1>1, <2>1 DEF InitFrameDatabase
  <2>3. StaleFlat'
    BY <1>1 DEF InitFrameDatabase, StaleFlat, Flat
  <2> QED BY <1>1, <2>1, <2>2, <2>3 DEF InitFrameDatabase, PagingPhase, DatabaseMarked,
        KernelHalf, UserHalf, LowPages, KernelFaultsOnlyOnBootStack, EarlyPCs,
        BootPCs, LatePCs
<1>2. CASE InitPageTable
  <2>1. TypeOK'
    BY <1>2, BootTableFacts DEF InitPageTable
  <2>2. ~paging /\ ~paging'
    BY <1>2 DEF InitPageTable, PagingPhase, EarlyPCs, BootPCs
  <2>3. StaleFlat'
    BY <1>2, <2>2 DEF InitPageTable, StaleFlat
  <2>4. UserHalf'
    <3>1. \A v \in VPage : UNMAP_N <= v => BOOT_CODE_N <= v
      BY SizeFacts
    <3> QED BY <1>2, <3>1, BootTableFacts DEF InitPageTable, UserHalf
  <2> QED BY <1>2, <2>1, <2>2, <2>3, <2>4 DEF InitPageTable, PagingPhase, DatabaseMarked,
        KernelHalf, LowPages, KernelFaultsOnlyOnBootStack, EarlyPCs,
        BootPCs, LatePCs
<1>3. CASE StartupPagingMode
  <2>1. TypeOK'
    BY <1>3, NoEntryOK DEF StartupPagingMode
  <2>2. StaleFlat'
    BY <1>3, NoEntryOK DEF StartupPagingMode, StaleFlat
  <2> QED BY <1>3, <2>1, <2>2 DEF StartupPagingMode, PagingPhase, DatabaseMarked,
        KernelHalf, UserHalf, LowPages, KernelFaultsOnlyOnBootStack, EarlyPCs,
        BootPCs, LatePCs
<1>4. CASE KernelInit
  <2>1. pc = "kernel_init" /\ pc \notin BootPCs /\ pte = BootTable
    BY <1>4 DEF KernelInit, BootPCs, LowPages
  <2>2. KernelMay(OS_CODE_V)
    BY <2>1, KernelReaches
  <2>3. KernelMay(BOOT_STACK_V)
    <3>1. BOOT_STACK_V \in VPage /\ pte[BOOT_STACK_V].present
      BY <2>1, BootTableFacts
    <3>2. Walk(pte, BOOT_STACK_V).present
      BY <2>1, <3>1, TablesIntact DEF Flat
    <3> QED BY <3>2 DEF KernelMay, Translate
  <2>4. pc' = "unmap_pages" /\ i' = 0 /\ UNCHANGED <<frame_db, pte, paging, tlb, resume>>
    BY <1>4, <2>2, <2>3 DEF KernelInit
  <2>5. TypeOK'
    BY <2>4, SizeFacts
  <2>6. StaleFlat'
    BY <2>4 DEF StaleFlat, Flat
  <2>7. LowPages'
    BY <2>4, SizeFacts DEF LowPages, LatePCs
  <2> QED BY <2>1, <2>4, <2>5, <2>6, <2>7 DEF PagingPhase, DatabaseMarked,
        KernelHalf, UserHalf, KernelFaultsOnlyOnBootStack, EarlyPCs, BootPCs
<1> QED BY <1>1, <1>2, <1>3, <1>4

\* One round of unmap_pages over the low pages keeps the invariant.
LEMMA StepUnmap == ASSUME IInv, UnmapLow PROVE IInv'
<1> USE DEF IInv
<1>1. pc = "unmap_pages" /\ i \in Nat /\ i < UNMAP_N /\ paging
  BY DEF UnmapLow, TypeOK, PagingPhase, EarlyPCs, BootPCs
<1>2. i \in VPage /\ i < USER_LIMIT /\ pc \notin BootPCs
  BY <1>1, SizeFacts DEF BootPCs
<1>3. /\ pte' = [pte EXCEPT ![i] = NoEntry]
      /\ tlb' = [tlb EXCEPT ![StackVarPage] = NoEntry]
      /\ i + 1 < UNMAP_N => pc' = pc /\ i' = i + 1
      /\ ~(i + 1 < UNMAP_N) => pc' = "map_pages" /\ i' = 0
      /\ UNCHANGED <<frame_db, paging, resume>>
  BY <1>1, <1>2, EditEffect, SizeFacts DEF UnmapLow
<1>4. pc' \in {"unmap_pages", "map_pages"}
  BY <1>1, <1>3
<1>5. TypeOK'
  BY <1>1, <1>3, <1>4, NoEntryOK, SizeFacts DEF TypeOK, PCs
<1>6. \A v \in VPage : v # i => pte'[v] = pte[v]
  BY <1>3 DEF TypeOK
<1>7. pte'[i] = NoEntry
  BY <1>2, <1>3 DEF TypeOK
<1>8. KernelHalf' /\ UserHalf'
  <2>1. \A v \in VPage : v >= UNMAP_N => v # i
    BY <1>1, SizeFacts
  <2>2. \A v \in VPage : v >= USER_LIMIT => v # i
    BY <1>2, SizeFacts
  <2> QED BY <1>1, <1>6, <2>1, <2>2, SizeFacts DEF KernelHalf, UserHalf, BootPCs
<1>9. LowPages'
  <2>1. \A v \in VPage : v < i + 1 => pte'[v] = NoEntry
    BY <1>1, <1>6, <1>7, SizeFacts DEF LowPages
  <2>2. CASE i + 1 < UNMAP_N
    BY <2>1, <2>2, <1>1, <1>3 DEF LowPages, LatePCs
  <2>3. CASE ~(i + 1 < UNMAP_N)
    <3>1. UNMAP_N = i + 1
      BY <2>3, <1>1, SizeFacts
    <3> QED BY <2>1, <2>3, <3>1, <1>3 DEF LowPages, LatePCs
  <2> QED BY <2>2, <2>3
<1>10. StaleFlat'
  <2> SUFFICES ASSUME NEW v \in VPage, tlb'[v].present
               PROVE  tlb'[v] = Flat(pte', v) \/ v < UNMAP_N
    BY <1>1, <1>3 DEF StaleFlat
  <2>1. tlb'[v] = tlb[v]
    BY <1>3, NoEntryOK DEF TypeOK
  <2>2. CASE v = i
    BY <2>2, <1>1
  <2>3. CASE v # i
    BY <2>1, <2>3, <1>6 DEF StaleFlat, Flat
  <2> QED BY <2>2, <2>3
<1> QED BY <1>1, <1>3, <1>4, <1>5, <1>8, <1>9, <1>10 DEF PagingPhase,
      DatabaseMarked, KernelFaultsOnlyOnBootStack, EarlyPCs, BootPCs

\* One round of map_pages over the shellcode's buffer keeps the invariant.
LEMMA StepMap == ASSUME IInv, MapShellcode PROVE IInv'
<1> USE DEF IInv
<1> DEFINE s == SHELLCODE_BUF_V + i
<1>1. pc = "map_pages" /\ i \in Nat /\ i < SHELLCODE_BUF_N /\ paging
  BY DEF MapShellcode, TypeOK, PagingPhase, EarlyPCs, BootPCs
<1>2. /\ s \in VPage /\ s \in Nat /\ s < USER_LIMIT /\ s >= UNMAP_N /\ pc \notin BootPCs
      /\ s \in Pages(SHELLCODE_BUF_V, SHELLCODE_BUF_N)
      /\ SHELLCODE_BUF_P + i = SHELLCODE_BUF_P + (s - SHELLCODE_BUF_V)
  BY <1>1, SizeFacts DEF BootPCs, Pages
<1>3. /\ pte' = [pte EXCEPT ![s] = ShellEntry(s)]
      /\ tlb' = [tlb EXCEPT ![StackVarPage] = NoEntry]
      /\ i + 1 < SHELLCODE_BUF_N => pc' = pc /\ i' = i + 1
      /\ ~(i + 1 < SHELLCODE_BUF_N) => pc' = "test_code_buf" /\ i' = 0
      /\ UNCHANGED <<frame_db, paging, resume>>
  <2>1. EditPage(s, ShellEntry(s), SHELLCODE_BUF_N, "test_code_buf")
    BY <1>2 DEF MapShellcode, ShellEntry
  <2> HIDE DEF s
  <2> QED BY <1>1, <1>2, <2>1, EditEffect, SizeFacts
<1>4. pc' \in {"map_pages", "test_code_buf"}
  BY <1>1, <1>3
<1> HIDE DEF s
<1>5. TypeOK'
  BY <1>1, <1>2, <1>3, <1>4, NoEntryOK, SizeFacts DEF TypeOK, PCs
<1>6. \A v \in VPage : v # s => pte'[v] = pte[v]
  BY <1>3 DEF TypeOK
<1>7. pte'[s] = ShellEntry(s)
  BY <1>2, <1>3 DEF TypeOK
<1>8. KernelHalf' /\ UserHalf'
  <2>1. \A v \in VPage : v >= USER_LIMIT => v # s
    BY <1>2, SizeFacts
  <2> QED BY <1>1, <1>2, <1>6, <1>7, <2>1, SizeFacts DEF KernelHalf, UserHalf, BootPCs
<1>9. LowPages'
  <2>1. \A v \in VPage : v < UNMAP_N => v # s
    BY <1>2, SizeFacts
  <2> QED BY <1>1, <1>4, <1>6, <2>1 DEF LowPages, LatePCs
<1>10. StaleFlat'
  <2> SUFFICES ASSUME NEW v \in VPage, tlb'[v].present
               PROVE  tlb'[v] = Flat(pte', v) \/ v < UNMAP_N
    BY <1>1, <1>3 DEF StaleFlat
  <2>1. tlb'[v] = tlb[v]
    BY <1>3, NoEntryOK DEF TypeOK
  <2>2. CASE v = s
    <3>1. tlb[v] = Flat(pte, v)
      BY <2>1, <2>2, <1>2, SizeFacts DEF StaleFlat
    <3>2. pte[v] # NoEntry
      BY <2>1, <3>1, NoEntryOK DEF Flat
    <3>3. pte[v] = ShellEntry(v)
      BY <2>2, <3>2, <1>1, <1>2 DEF UserHalf
    <3> QED BY <2>1, <2>2, <3>1, <3>3, <1>7 DEF Flat
  <2>3. CASE v # s
    BY <2>1, <2>3, <1>6 DEF StaleFlat, Flat
  <2> QED BY <2>2, <2>3
<1> QED BY <1>1, <1>3, <1>4, <1>5, <1>8, <1>9, <1>10 DEF PagingPhase,
      DatabaseMarked, KernelFaultsOnlyOnBootStack, EarlyPCs, BootPCs

\* A statement that leaves the tables alone and completes or faults.
LEMMA StepRun ==
  ASSUME IInv,
         SetTestCode \/ CopyTestCode \/ ReturnToUserMode \/ TrapReturn
  PROVE  IInv'
<1> USE DEF IInv
<1>1. UNCHANGED <<i, frame_db, pte, paging, tlb>>
  BY DEF SetTestCode, CopyTestCode, ReturnToUserMode, TrapReturn
<1>2. pc \in LatePCs /\ pc # "map_pages" /\ pc \notin BootPCs
  BY DEF SetTestCode, CopyTestCode, ReturnToUserMode, TrapReturn, LatePCs, BootPCs
<1>3. KernelMay(OS_CODE_V) /\ KernelMay(StackVarPage)
  BY <1>2, KernelReaches
<1>4. /\ pc' \in LatePCs /\ pc' # "map_pages" /\ resume' \in PCs \cup {"none"}
      /\ pc' = "trap" => resume' \in {"test_code_buf", "memcpy", "user"}
  <2>1. CASE SetTestCode
    BY <2>1, <1>3 DEF SetTestCode, StepOrFault, TypeOK, PCs, LatePCs
  <2>2. CASE CopyTestCode
    BY <2>2, <1>3 DEF CopyTestCode, StepOrFault, TypeOK, PCs, LatePCs
  <2>3. CASE ReturnToUserMode
    BY <2>3, <1>3 DEF ReturnToUserMode, StepOrFault, TypeOK, PCs, LatePCs
  <2>4. CASE TrapReturn
    BY <2>4 DEF TrapReturn, KernelFaultsOnlyOnBootStack, TypeOK, PCs, LatePCs
  <2> QED BY <2>1, <2>2, <2>3, <2>4
<1>5. TypeOK'
  BY <1>1, <1>4 DEF TypeOK, PCs, LatePCs
<1>6. StaleFlat'
  BY <1>1 DEF StaleFlat, Flat
<1> QED BY <1>1, <1>2, <1>4, <1>5, <1>6 DEF PagingPhase, DatabaseMarked, KernelHalf,
      UserHalf, LowPages, KernelFaultsOnlyOnBootStack, EarlyPCs, BootPCs, LatePCs

\* The shellcode's accesses and the TLB change translations cached, no table.
LEMMA StepTlb ==
  ASSUME IInv,
         \/ \E v \in UserLinear \cap TLB_PAGES, w \in BOOLEAN : UserAccess(v, w)
         \/ \E v \in TLB_PAGES : TlbLoad(v) \/ TlbEvict(v)
  PROVE  IInv'
<1> USE DEF IInv
<1>1. /\ UNCHANGED <<i, frame_db, pte, paging>>
      /\ (pc' = pc /\ resume' = resume) \/ (pc = "user" /\ pc' = "trap" /\ resume' = "user")
      /\ \/ tlb' = tlb
         \/ \E v \in VPage : tlb' = [tlb EXCEPT ![v] = NoEntry]
         \/ \E v \in VPage : paging /\ tlb' = [tlb EXCEPT ![v] = Translate(v)]
  <2>1. CASE \E v \in UserLinear \cap TLB_PAGES, w \in BOOLEAN : UserAccess(v, w)
    <3>1. PICK v \in TLB_PAGES, w \in BOOLEAN : UserAccess(v, w)
      BY <2>1
    <3>2. v \in VPage /\ paging
      BY <3>1, LayoutAssumption DEF UserAccess, PagingPhase, EarlyPCs, BootPCs
    <3>3. KernelMay(OS_CODE_V) /\ KernelMay(StackVarPage)
      BY <3>1, KernelReaches DEF UserAccess, BootPCs
    <3>4. tlb' = tlb \/ tlb' = [tlb EXCEPT ![v] = Translate(v)]
      BY <3>1 DEF UserAccess
    <3>5. (pc' = pc /\ resume' = resume) \/ (pc = "user" /\ pc' = "trap" /\ resume' = "user")
      BY <3>1, <3>3 DEF UserAccess, StepOrFault
    <3>6. UNCHANGED <<i, frame_db, pte, paging>>
      BY <3>1 DEF UserAccess
    <3> QED BY <3>2, <3>4, <3>5, <3>6
  <2>2. CASE \E v \in TLB_PAGES : TlbLoad(v) \/ TlbEvict(v)
    <3>1. PICK v \in TLB_PAGES : TlbLoad(v) \/ TlbEvict(v)
      BY <2>2
    <3>2. v \in VPage
      BY LayoutAssumption
    <3>3. CASE TlbLoad(v)
      <4>1. paging /\ tlb' = [tlb EXCEPT ![v] = Translate(v)]
        BY <3>3 DEF TlbLoad, Translate
      <4> QED BY <3>2, <3>3, <4>1 DEF TlbLoad
    <3>4. CASE TlbEvict(v)
      BY <3>2, <3>4 DEF TlbEvict
    <3> QED BY <3>1, <3>3, <3>4
  <2> QED BY <2>1, <2>2
<1>2. ASSUME NEW v \in VPage, paging
      PROVE  /\ Translate(v) \in Entries
             /\ Translate(v) = Flat(pte, v) \/ v < UNMAP_N
  <2>1. Walk(pte, v) = Flat(pte, v)
    BY <1>2, TablesIntact DEF PagingPhase, EarlyPCs
  <2>2. Flat(pte, v) \in Entries
    BY NoEntryOK DEF Flat, TypeOK
  <2> QED BY <2>1, <2>2 DEF Translate, StaleFlat, TypeOK
<1>3. TypeOK'
  BY <1>1, <1>2, NoEntryOK DEF TypeOK, PCs
<1>4. StaleFlat'
  <2>1. CASE tlb' = tlb
    BY <1>1, <2>1 DEF StaleFlat, Flat
  <2>2. CASE \E v \in VPage : tlb' = [tlb EXCEPT ![v] = NoEntry]
    BY <1>1, <2>2, NoEntryOK DEF StaleFlat, Flat, TypeOK
  <2>3. CASE \E v \in VPage : paging /\ tlb' = [tlb EXCEPT ![v] = Translate(v)]
    <3>1. PICK v \in VPage : paging /\ tlb' = [tlb EXCEPT ![v] = Translate(v)]
      BY <2>3
    <3>2. tlb'[v] = Translate(v) /\ \A x \in VPage : x # v => tlb'[x] = tlb[x]
      BY <3>1 DEF TypeOK
    <3>3. ASSUME NEW x \in VPage, tlb'[x].present
          PROVE  tlb'[x] = Flat(pte, x) \/ x < UNMAP_N
      BY <3>1, <3>2, <3>3, <1>2 DEF StaleFlat
    <3> QED BY <1>1, <3>1, <3>3 DEF StaleFlat, Flat
  <2> QED BY <1>1, <2>1, <2>2, <2>3
<1> QED BY <1>1, <1>3, <1>4 DEF PagingPhase, DatabaseMarked, KernelHalf, UserHalf,
      LowPages, KernelFaultsOnlyOnBootStack, EarlyPCs, BootPCs, LatePCs

\* Every step keeps the invariant.
LEMMA NextIInv == IInv /\ [Next]_vars => IInv'
<1> SUFFICES ASSUME IInv, [Next]_vars PROVE IInv'
  OBVIOUS
<1>1. CASE InitFrameDatabase \/ InitPageTable \/ StartupPagingMode \/ KernelInit
  BY <1>1, StepBoot
<1>2. CASE UnmapLow
  BY <1>2, StepUnmap
<1>3. CASE MapShellcode
  BY <1>3, StepMap
<1>4. CASE SetTestCode \/ CopyTestCode \/ ReturnToUserMode \/ TrapReturn
  BY <1>4, StepRun
<1>5. CASE \/ \E v \in UserLinear \cap TLB_PAGES, w \in BOOLEAN : UserAccess(v, w)
           \/ \E v \in TLB_PAGES : TlbLoad(v) \/ TlbEvict(v)
  BY <1>5, StepTlb
<1>6. CASE UNCHANGED vars
  BY <1>6 DEF vars, IInv, TypeOK, PagingPhase, DatabaseMarked, KernelHalf, UserHalf,
     LowPages, StaleFlat, Flat, KernelFaultsOnlyOnBootStack
<1> QED BY <1>1, <1>2, <1>3, <1>4, <1>5, <1>6 DEF Next, Kernel

\* The invariant holds in every reachable state.
LEMMA IInvAlways == Spec => []IInv
<1> QED BY InitIInv, NextIInv, PTL DEF Spec

-----------------------------------------------------------------------------
(* The properties follow from the invariant. *)

\* The state stays well typed and the loop index inside the range edited.
THEOREM TypeCorrect == Spec => []TypeOK
<1>1. IInv => TypeOK
  BY DEF IInv
<1> QED BY <1>1, IInvAlways, PTL

\* Where paging is on, the invariant gives the address space of os.h.
LEMMA PagingTables ==
  ASSUME IInv, paging
  PROVE  /\ pc \notin BootPCs
         /\ \A v \in VPage : Walk(pte, v) = Flat(pte, v)
         /\ \A v \in VPage : v >= USER_LIMIT => pte[v] = BootEntry(v)
<1>1. pc \notin BootPCs
  BY DEF IInv, PagingPhase, EarlyPCs
<1>2. \A v \in VPage : Walk(pte, v) = Flat(pte, v)
  BY <1>1, TablesIntact DEF IInv
<1>3. \A v \in VPage : v >= USER_LIMIT => pte[v] = BootEntry(v)
  BY <1>1, BootTableEntry DEF IInv, KernelHalf
<1> QED BY <1>1, <1>2, <1>3

\* Whatever map_pages and unmap_pages edit, the window at
\* PAGE_TABLE_VIRTUAL_ADDR keeps showing every page table.
THEOREM SelfMapHolds == Spec => []SelfMap
<1>1. IInv => SelfMap
  <2> SUFFICES ASSUME IInv, paging, NEW k \in 0 .. (EPT - 1)
               PROVE  Walk(pte, PAGE_TABLE_V + k) = Entry(PAGE_TABLE_P + k, TRUE, TRUE)
    BY DEF SelfMap
  <2>1. Walk(pte, PAGE_TABLE_V + k) = Flat(pte, PAGE_TABLE_V + k)
        /\ pte[PAGE_TABLE_V + k] = Entry(PAGE_TABLE_P + k, TRUE, TRUE)
    BY PagingTables, BootRanges
  <2> QED BY <2>1 DEF Flat, Entry
<1> QED BY <1>1, IInvAlways, PTL

\* The kernel's ranges keep the mapping that Boot gave them.
THEOREM KernelMappedHolds == Spec => []KernelMapped
<1>1. IInv => KernelMapped
  <2> SUFFICES ASSUME IInv, paging
               PROVE  /\ MappedTo(OS_CODE_V, OS_CODE_P, OS_CODE_N)
                      /\ MappedTo(KERNEL_STACK_V, KERNEL_STACK_P, KERNEL_STACK_N)
                      /\ MappedTo(VIDEO_BUF_V, VIDEO_BUF_P, VIDEO_BUF_N)
                      /\ MappedTo(FRAME_DB_V, FRAME_DB_P, FRAME_DB_N)
    BY DEF KernelMapped
  <2>1. ASSUME NEW v \in VPage, v >= USER_LIMIT, BootEntry(v).present
        PROVE  Walk(pte, v) = BootEntry(v)
    BY <2>1, PagingTables DEF Flat
  <2>2. \A f : Entry(f, TRUE, TRUE).present
    BY DEF Entry
  <2>3. MappedTo(OS_CODE_V, OS_CODE_P, OS_CODE_N)
    BY <2>1, <2>2, BootRanges DEF MappedTo
  <2>4. MappedTo(KERNEL_STACK_V, KERNEL_STACK_P, KERNEL_STACK_N)
    BY <2>1, <2>2, BootRanges DEF MappedTo
  <2>5. MappedTo(VIDEO_BUF_V, VIDEO_BUF_P, VIDEO_BUF_N)
    BY <2>1, <2>2, BootRanges DEF MappedTo
  <2>6. MappedTo(FRAME_DB_V, FRAME_DB_P, FRAME_DB_N)
    BY <2>1, <2>2, BootRanges DEF MappedTo
  <2> QED BY <2>3, <2>4, <2>5, <2>6
<1> QED BY <1>1, IInvAlways, PTL

\* What the kernel and its traps stand on: both at once.
THEOREM MappingsKeptHolds == Spec => []MappingsKept
<1>1. SelfMap /\ KernelMapped => MappingsKept
  BY DEF MappingsKept
<1> QED BY <1>1, SelfMapHolds, KernelMappedHolds, PTL

\* Once in ring 3, no page walk from an address the shellcode can form ends
\* outside its own read-only buffer.
THEOREM UserIsolationHolds == Spec => []UserIsolation
<1>1. IInv => UserIsolation
  <2> SUFFICES ASSUME IInv, InRing3, NEW v \in UserLinear, Walk(pte, v).present
               PROVE  /\ Walk(pte, v).frame \in Pages(SHELLCODE_BUF_P, SHELLCODE_BUF_N)
                      /\ ~Walk(pte, v).writable
    BY DEF UserIsolation
  <2>1. paging /\ pc \in LatePCs
    BY DEF IInv, InRing3, PagingPhase, EarlyPCs, BootPCs, LatePCs
  <2>2. KERNEL_FS_V \in VPage /\ KERNEL_FS_V >= USER_LIMIT
    BY LayoutAssumption, SizeFacts DEF LayoutOK, LayoutTypes, LayoutVirtual, VPage
  <2>3. v \in VPage /\ v \in Nat
    BY <2>2, SizeFacts DEF UserLinear
  <2>4. Walk(pte, v) = pte[v] /\ pte[v].present
    BY <2>1, <2>3, PagingTables, NoEntryOK DEF Flat
  <2>5. v # KERNEL_FS_V
    <3>1. BootEntry(KERNEL_FS_V) = NoEntry
      <4> DEFINE x == KERNEL_FS_V
      <4>1. /\ x \notin Pages(OS_CODE_V, OS_CODE_N) /\ x \notin Pages(PAGE_TABLE_V, EPT)
            /\ x \notin Pages(VIDEO_BUF_V, VIDEO_BUF_N) /\ x \notin Pages(FRAME_DB_V, FRAME_DB_N)
            /\ x \notin Pages(KERNEL_STACK_V, KERNEL_STACK_N) /\ x \notin Pages(0, BOOT_CODE_N)
        BY LayoutAssumption DEF LayoutOK, LayoutTypes, LayoutVirtual, Pages
      <4> QED BY <4>1 DEF BootEntry
    <3> QED BY <2>1, <2>2, <2>4, <3>1, PagingTables, NoEntryOK
  <2>6. v < USER_LIMIT
    BY <2>5, SizeFacts DEF UserLinear
  <2>7. v >= UNMAP_N
    BY <2>1, <2>3, <2>4, NoEntryOK, SizeFacts DEF IInv, LowPages
  <2>8. v \in Pages(SHELLCODE_BUF_V, SHELLCODE_BUF_N) /\ pte[v] = ShellEntry(v)
    BY <2>1, <2>3, <2>4, <2>6, <2>7, NoEntryOK DEF IInv, UserHalf, LatePCs, BootPCs
  <2>9. SHELLCODE_BUF_P + (v - SHELLCODE_BUF_V) \in Pages(SHELLCODE_BUF_P, SHELLCODE_BUF_N)
    BY <2>3, <2>8, SizeFacts DEF Pages
  <2> QED BY <2>4, <2>8, <2>9 DEF ShellEntry, Entry
<1> QED BY <1>1, IInvAlways, PTL

\* The misdirected INVLPG leaves stale translations of the low pages only.
THEOREM StaleOnlyLowHolds == Spec => []StaleOnlyLow
<1>1. IInv => StaleOnlyLow
  <2> SUFFICES ASSUME IInv, NEW v \in VPage, tlb[v].present
               PROVE  tlb[v] = Walk(pte, v) \/ v \in Pages(0, UNMAP_N)
    BY DEF StaleOnlyLow
  <2>1. paging /\ (tlb[v] = Flat(pte, v) \/ v < UNMAP_N)
    BY DEF IInv, StaleFlat
  <2>2. v < UNMAP_N => v \in Pages(0, UNMAP_N)
    BY SizeFacts DEF Pages
  <2> QED BY <2>1, <2>2, PagingTables
<1> QED BY <1>1, IInvAlways, PTL

\* Only main's accesses to its variables on the unmapped boot stack fault.
THEOREM KernelFaultsHold == Spec => []KernelFaultsOnlyOnBootStack
<1>1. IInv => KernelFaultsOnlyOnBootStack
  BY DEF IInv
<1> QED BY <1>1, IInvAlways, PTL

\* Every frame the kernel half maps is marked in the frame database.
THEOREM KernelFramesUsedHolds == Spec => []KernelFramesUsed
<1>1. IInv => KernelFramesUsed
  <2> SUFFICES ASSUME IInv, paging, NEW v \in VPage, v >= USER_LIMIT, Walk(pte, v).present
               PROVE  frame_db[Walk(pte, v).frame] = "USED"
    BY DEF KernelFramesUsed
  <2>1. Walk(pte, v) = BootEntry(v) /\ BootEntry(v) # NoEntry
    BY PagingTables, NoEntryOK DEF Flat
  <2>2. PICK f \in 0 .. (KERNEL_MEM_N - 1) : BootEntry(v) = Entry(f, TRUE, TRUE)
    BY <2>1, BootEntryKinds
  <2>3. f \in Frame /\ f < KERNEL_MEM_N
    BY LayoutAssumption DEF LayoutOK, LayoutTypes, LayoutPhysical, Frame
  <2>4. frame_db[f] = "USED"
    BY <2>3 DEF IInv, DatabaseMarked, PagingPhase, EarlyPCs, BootPCs
  <2> QED BY <2>1, <2>2, <2>4 DEF Entry
<1> QED BY <1>1, IInvAlways, PTL

-----------------------------------------------------------------------------
(* GuestPaging implements AddressSpace. *)

asBar == [v \in VPage |-> IF paging THEN Walk(pte, v) ELSE NoEntry]

\* The abstract address space has the layout of the tables.
LEMMA SameLayout ==
  AS!VPage = VPage /\ AS!PAGE_TABLE_N = EPT /\ AS!Absent = NoEntry
<1> QED BY DEF AS!VPage, VPage, AS!PAGE_TABLE_N, AS!Absent, NoEntry

\* What init_page_table maps is what AddressSpace starts from.
LEMMA BootEntryWanted ==
  ASSUME NEW v \in VPage
  PROVE  BootEntry(v) \in IF AS!Wanted(v) = {} THEN {AS!Absent} ELSE AS!Wanted(v)
<1>1. \A p, va, n : AS!Region(v, p, va, n) =
         IF v \in Pages(va, n) THEN {Entry(p + (v - va), TRUE, TRUE)} ELSE {}
  BY DEF AS!Region, AS!Pages, Pages, Entry
<1>2. AS!Absent = NoEntry
  BY SameLayout
<1>3. AS!Wanted(v) = AS!Region(v, 0, 0, BOOT_CODE_N)
        \cup AS!Region(v, KERNEL_STACK_P, KERNEL_STACK_V, KERNEL_STACK_N)
        \cup AS!Region(v, FRAME_DB_P, FRAME_DB_V, FRAME_DB_N)
        \cup AS!Region(v, VIDEO_BUF_P, VIDEO_BUF_V, VIDEO_BUF_N)
        \cup AS!Region(v, PAGE_TABLE_P, PAGE_TABLE_V, EPT)
        \cup AS!Region(v, OS_CODE_P, OS_CODE_V, OS_CODE_N)
  BY SameLayout DEF AS!Wanted
<1>4. CASE BootEntry(v) = NoEntry /\ v \notin Pages(OS_CODE_V, OS_CODE_N)
           /\ v \notin Pages(PAGE_TABLE_V, EPT) /\ v \notin Pages(VIDEO_BUF_V, VIDEO_BUF_N)
           /\ v \notin Pages(FRAME_DB_V, FRAME_DB_N)
           /\ v \notin Pages(KERNEL_STACK_V, KERNEL_STACK_N)
           /\ v \notin Pages(0, BOOT_CODE_N)
  <2>1. /\ AS!Region(v, 0, 0, BOOT_CODE_N) = {}
        /\ AS!Region(v, KERNEL_STACK_P, KERNEL_STACK_V, KERNEL_STACK_N) = {}
        /\ AS!Region(v, FRAME_DB_P, FRAME_DB_V, FRAME_DB_N) = {}
        /\ AS!Region(v, VIDEO_BUF_P, VIDEO_BUF_V, VIDEO_BUF_N) = {}
        /\ AS!Region(v, PAGE_TABLE_P, PAGE_TABLE_V, EPT) = {}
        /\ AS!Region(v, OS_CODE_P, OS_CODE_V, OS_CODE_N) = {}
    BY <1>1, <1>4
  <2> QED BY ONLY <1>2, <1>3, <1>4, <2>1
<1>5. CASE v \in Pages(OS_CODE_V, OS_CODE_N)
  <2>1. BootEntry(v) \in AS!Region(v, OS_CODE_P, OS_CODE_V, OS_CODE_N)
    BY <1>1, <1>5 DEF BootEntry
  <2> QED BY <2>1, <1>3
<1>6. CASE v \in Pages(PAGE_TABLE_V, EPT) /\ v \notin Pages(OS_CODE_V, OS_CODE_N)
  <2>1. BootEntry(v) \in AS!Region(v, PAGE_TABLE_P, PAGE_TABLE_V, EPT)
    BY <1>1, <1>6 DEF BootEntry
  <2> QED BY <2>1, <1>3
<1>7. CASE /\ v \in Pages(VIDEO_BUF_V, VIDEO_BUF_N) /\ v \notin Pages(OS_CODE_V, OS_CODE_N)
           /\ v \notin Pages(PAGE_TABLE_V, EPT)
  <2>1. BootEntry(v) \in AS!Region(v, VIDEO_BUF_P, VIDEO_BUF_V, VIDEO_BUF_N)
    BY <1>1, <1>7 DEF BootEntry
  <2> QED BY <2>1, <1>3
<1>8. CASE /\ v \in Pages(FRAME_DB_V, FRAME_DB_N) /\ v \notin Pages(OS_CODE_V, OS_CODE_N)
           /\ v \notin Pages(PAGE_TABLE_V, EPT) /\ v \notin Pages(VIDEO_BUF_V, VIDEO_BUF_N)
  <2>1. BootEntry(v) \in AS!Region(v, FRAME_DB_P, FRAME_DB_V, FRAME_DB_N)
    BY <1>1, <1>8 DEF BootEntry
  <2> QED BY <2>1, <1>3
<1>9. CASE /\ v \in Pages(KERNEL_STACK_V, KERNEL_STACK_N)
           /\ v \notin Pages(OS_CODE_V, OS_CODE_N)
           /\ v \notin Pages(PAGE_TABLE_V, EPT) /\ v \notin Pages(VIDEO_BUF_V, VIDEO_BUF_N)
           /\ v \notin Pages(FRAME_DB_V, FRAME_DB_N)
  <2>1. BootEntry(v) \in AS!Region(v, KERNEL_STACK_P, KERNEL_STACK_V, KERNEL_STACK_N)
    BY <1>1, <1>9 DEF BootEntry
  <2> QED BY <2>1, <1>3
<1>10. CASE /\ v \in Pages(0, BOOT_CODE_N) /\ v \notin Pages(KERNEL_STACK_V, KERNEL_STACK_N)
            /\ v \notin Pages(OS_CODE_V, OS_CODE_N)
            /\ v \notin Pages(PAGE_TABLE_V, EPT) /\ v \notin Pages(VIDEO_BUF_V, VIDEO_BUF_N)
            /\ v \notin Pages(FRAME_DB_V, FRAME_DB_N)
  <2>1. BootEntry(v) \in AS!Region(v, 0, 0, BOOT_CODE_N)
    BY <1>1, <1>10 DEF BootEntry
  <2> QED BY <2>1, <1>3
<1> QED BY <1>4, <1>5, <1>6, <1>7, <1>8, <1>9, <1>10 DEF BootEntry

\* A store of entry e for user page s changes the translation of s only.
LEMMA EditRefines ==
  ASSUME IInv, IInv', paging, paging', NEW s \in VPage, s < USER_LIMIT,
         NEW e, pte' = [pte EXCEPT ![s] = e]
  PROVE  AS!Next
<1>1. \A v \in VPage : v # s => Walk(pte, v)' = Walk(pte, v)
  <2>1. \A v \in VPage : Walk(pte, v) = Flat(pte, v)
    BY PagingTables
  <2>2. \A v \in VPage : Walk(pte', v) = Flat(pte', v)
    <3>1. pc' \notin BootPCs
      BY DEF IInv, PagingPhase, EarlyPCs
    <3>2. pte' \in [VPage -> Entries]
      BY DEF IInv, TypeOK
    <3>3. WindowIntact(pte')
      BY <3>1, BootTableEntry, BootRanges DEF WindowIntact, IInv, KernelHalf
    <3> QED BY <3>2, <3>3, WalkIsFlat
  <2>3. \A v \in VPage : v # s => Flat(pte', v) = Flat(pte, v)
    BY DEF Flat, IInv, TypeOK
  <2> QED BY <2>1, <2>2, <2>3
<1>2. DOMAIN asBar' = VPage /\ \A w \in VPage : w # s => asBar'[w] = asBar[w]
  BY <1>1 DEF asBar
<1>3. AS!EditUserPage(s)
  BY <1>2, SameLayout DEF AS!EditUserPage, asBar
<1> QED BY <1>3, SameLayout DEF AS!Next

\* The tables, the window and the TLB together implement an address space of
\* which, once paging is on, only user pages change, one at a time.
THEOREM Refinement == Spec => ImplementsAddressSpace
<1>1. Init => AS!Init
  BY SameLayout DEF Init, AS!Init
<1>2. IInv /\ IInv' /\ [Next]_vars => [AS!Next]_<<asBar, paging>>
  <2> SUFFICES ASSUME IInv, IInv', [Next]_vars
               PROVE  AS!Next \/ UNCHANGED <<asBar, paging>>
    OBVIOUS
  <2>1. CASE InitFrameDatabase
    BY <2>1 DEF InitFrameDatabase, asBar, Walk, PDE
  <2>2. CASE InitPageTable
    <3>1. ~paging /\ ~paging'
      BY <2>2 DEF InitPageTable, IInv, PagingPhase, EarlyPCs, BootPCs
    <3>2. paging' = paging
      BY <2>2 DEF InitPageTable
    <3> QED BY <3>1, <3>2 DEF asBar
  <2>3. CASE StartupPagingMode
    <3>1. ~paging /\ paging' = TRUE /\ pte' = BootTable /\ pte = BootTable
      BY <2>3 DEF StartupPagingMode, IInv, PagingPhase, LowPages, EarlyPCs, BootPCs
    <3>2. ASSUME NEW v \in VPage PROVE Walk(pte, v)' = BootEntry(v)
      <4>1. Walk(BootTable, v) = Flat(BootTable, v)
        BY BootTableFacts, WalkIsFlat
      <4>2. Flat(BootTable, v) = BootEntry(v)
        BY BootTableEntry, BootEntryKinds DEF Flat, Entry, NoEntry
      <4> QED BY <3>1, <4>1, <4>2
    <3>3. DOMAIN asBar' = VPage /\ \A v \in VPage : asBar'[v] = BootEntry(v)
      BY <3>1, <3>2 DEF asBar
    <3>4. AS!TurnOn
      BY <3>1, <3>3, BootEntryWanted, SameLayout DEF AS!TurnOn, asBar
    <3> QED BY <3>4 DEF AS!Next
  <2>4. CASE UnmapLow
    <3>1. pc = "unmap_pages" /\ i \in Nat /\ i < UNMAP_N /\ paging
      BY <2>4 DEF IInv, UnmapLow, TypeOK, PagingPhase, EarlyPCs, BootPCs
    <3>2. i \in VPage /\ i < USER_LIMIT /\ pc \notin BootPCs
      BY <3>1, SizeFacts DEF BootPCs
    <3>3. pte' = [pte EXCEPT ![i] = NoEntry] /\ paging' = paging
      BY <2>4, <3>1, <3>2, EditEffect, SizeFacts DEF UnmapLow, IInv
    <3> QED BY <3>1, <3>2, <3>3, EditRefines
  <2>5. CASE MapShellcode
    <3> DEFINE s == SHELLCODE_BUF_V + i
               e == Entry(SHELLCODE_BUF_P + i, FALSE, TRUE)
    <3>1. pc = "map_pages" /\ i \in Nat /\ i < SHELLCODE_BUF_N /\ paging
      BY <2>5 DEF IInv, MapShellcode, TypeOK, PagingPhase, EarlyPCs, BootPCs
    <3>2. s \in VPage /\ s < USER_LIMIT /\ pc \notin BootPCs
      BY <3>1, SizeFacts DEF BootPCs
    <3>3. EditPage(s, e, SHELLCODE_BUF_N, "test_code_buf")
      BY <2>5 DEF MapShellcode
    <3> HIDE DEF s, e
    <3>4. pte' = [pte EXCEPT ![s] = e] /\ paging' = paging
      BY <3>1, <3>2, <3>3, EditEffect, SizeFacts DEF IInv
    <3> QED BY <3>1, <3>2, <3>4, EditRefines
  <2>6. CASE UNCHANGED <<pte, paging>>
    BY <2>6 DEF asBar, Walk, PDE
  <2>7. CASE KernelInit \/ SetTestCode \/ CopyTestCode \/ ReturnToUserMode \/ TrapReturn
    BY <2>6, <2>7 DEF KernelInit, SetTestCode, CopyTestCode, ReturnToUserMode, TrapReturn
  <2>8. CASE \/ \E v \in UserLinear \cap TLB_PAGES, w \in BOOLEAN : UserAccess(v, w)
             \/ \E v \in TLB_PAGES : TlbLoad(v) \/ TlbEvict(v)
    BY <2>6, <2>8 DEF UserAccess, TlbLoad, TlbEvict
  <2>9. CASE UNCHANGED vars
    BY <2>6, <2>9 DEF vars
  <2> QED BY <2>1, <2>2, <2>3, <2>4, <2>5, <2>7, <2>8, <2>9 DEF Next, Kernel
<1> QED BY <1>1, <1>2, IInvAlways, PTL DEF Spec, ImplementsAddressSpace, AS!Spec, asBar

-----------------------------------------------------------------------------
(* The numbers of os.h, Shellcode.h and gdt.cpp, in pages. *)

OsH == INSTANCE Layout WITH
  EPT <- 1024,
  BOOT_CODE_N <- 256, BOOT_STACK_V <- 15,
  KERNEL_STACK_P <- 1,                  \* 0x00001000
  KERNEL_STACK_V <- 788225,             \* 0xC0701000
  KERNEL_STACK_N <- 254,
  FRAME_DB_P <- 256,                    \* 0x00100000
  FRAME_DB_V <- 787456,                 \* 0xC0400000
  FRAME_DB_N <- 256,
  VIDEO_BUF_P <- 512,                   \* 0x00200000
  VIDEO_BUF_V <- 787712,                \* 0xC0500000
  VIDEO_BUF_N <- 512,
  PAGE_TABLE_P <- 1024,                 \* 0x00400000
  PAGE_TABLE_V <- 786432,               \* 0xC0000000
  PAGE_DIR_P <- 1792,                   \* 0x00700000
  OS_CODE_P <- 2048,                    \* 0x00800000
  OS_CODE_V <- 524288,                  \* 0x80000000
  OS_CODE_N <- 2048,
  KERNEL_MEM_N <- 4096,                 \* MB(16)
  RAM_N <- 25600,                       \* MB(100)
  SHELLCODE_BUF_P <- 4096,              \* 0x01000000
  SHELLCODE_BUF_V <- 4096,
  SHELLCODE_BUF_N <- 256,
  USER_LIMIT <- 524288,                 \* limit 0x7FFFF, 4K granular
  KERNEL_FS_V <- 1048063                \* 0xFFDFF000

\* The constants of the headers satisfy the assumption of every theorem above:
\* no range overlaps another and the page directory maps itself.
THEOREM HeaderLayout == OsH!LayoutOK
<1> QED BY DEF OsH!LayoutOK, OsH!LayoutTypes, OsH!LayoutVirtual, OsH!LayoutPhysical,
      OsH!LayoutSelfMap, OsH!PDE_INDEX, OsH!Disjoint
=============================================================================
