----------------------------- MODULE HostFrames -----------------------------
(***************************************************************************)
(* The physical page allocator and the page-table editor of class HAXM_VM  *)
(* (ShellcodeVM/HAXM_VM.h): a byte per guest frame at GPA 0, a first-fit   *)
(* scan over it, and map_pages / unmap_pages, which allocate page tables   *)
(* and free frames through it.                                             *)
(*                                                                         *)
(* The loops of the code are steps here: one step per iteration of the     *)
(* first-fit scan and of the map and unmap loops, so that a loop which     *)
(* does not end is a behaviour of the model.  The object is used by one    *)
(* thread: a new call starts only when the previous one has returned.      *)
(*                                                                         *)
(* Entries of page directories and page tables are modelled by the frame   *)
(* they point to; 0 is the absent entry, which is how the code tests them  *)
(* (PDE_ADDRESS(pde) != 0).  RAM is assumed populated and set for every    *)
(* frame, so gpa_to_hva succeeds.                                          *)
(*                                                                         *)
(* The scan does not stop at the end of the database: a run that begins in *)
(* it and goes on behind it is marked in the memory behind it, the frame   *)
(* DBF, and returned.  What a call does with a table that was overwritten  *)
(* so is not modelled: no call is made after that.                         *)
(*                                                                         *)
(* The callers (none exists in main.cpp yet) are assumed to obey:          *)
(*   - pages >= 1, and the ranges they name inside the database and the    *)
(*     address space;                                                      *)
(*   - set_page_dir is called once, with a zeroed page they own;           *)
(*   - they map only frames they own and have not mapped, never through    *)
(*     the self-map slot; they free only frames they own and have not      *)
(*     mapped.  They may unmap anything, and map over existing pages.      *)
(***************************************************************************)
EXTENDS Naturals

CONSTANTS
  NF,         \* FRAME_DATABASE_SIZE, the number of entries of the database
  DBF,        \* the frames the database itself occupies (1M / PAGE_SIZE)
  EPT,        \* entries of a page directory or page table
  MaxPages,   \* bound on the "pages" argument of every call
  Reserved    \* the frames the caller began by reserving

\* The database takes 256 frames.  With one frame only, frame 0, which unmapping
\* an absent page frees, would be followed by a frame of the callers.
ASSUME SizeAssumption ==
  /\ NF \in Nat /\ DBF \in Nat /\ EPT \in Nat /\ MaxPages \in Nat
  /\ 2 <= DBF /\ DBF <= NF /\ 2 <= EPT /\ 0 < MaxPages /\ MaxPages < NF
  /\ Reserved \in SUBSET (0 .. NF - 1)

PAGE_FREE == 0
PAGE_USED == 1

Frames == 0 .. NF - 1
Index  == 0 .. EPT - 1
DbFrames == 0 .. DBF - 1

\* A caller that begins well: the database's own frames are reserved, and so
\* are those without RAM, of which the last frame of the 4G the database counts
\* is one.
CallerReserves == DbFrames \subseteq Reserved /\ NF - 1 \in Reserved

\* PDE_INDEX / PTE_INDEX of a virtual page, as a pair of indices.
VPages == Index \X Index
Self   == EPT - 1      \* PDE_INDEX(m_page_dir_virtual_addr)

VARIABLES
  db,     \* the frame database
  mem,    \* contents of the frames that serve as page directory or page table
  pdf,    \* frame of the page directory, 0 until set_page_dir
  held,   \* frames the caller got from an allocation and has not given back
  call    \* the call in progress

vars == <<db, mem, pdf, held, call>>

Ops == {"none", "alloc", "map", "table", "unmap"}
Idle == [op |-> "none", i |-> 0, n |-> 0, gpa |-> 0, gva |-> <<0, 0>>]

\* The next virtual page: guest_virtual_addr += PAGE_SIZE.
NextPage(v) == IF v[2] + 1 < EPT THEN <<v[1], v[2] + 1>> ELSE <<v[1] + 1, 0>>

\* The pages of a range of n pages from v that stays below the self-map slot.
Linear(v) == v[1] * EPT + v[2]
InRange(v, n) == Linear(v) + n <= Self * EPT

Run(f, n) == f .. f + n - 1
AllFree(f, n) == \A k \in Run(f, n) : k \in Frames /\ db[k] = PAGE_FREE

\* The page table of a directory slot, 0 if it has none.
TableOf(d) == IF pdf = 0 THEN 0 ELSE mem[pdf][d]
Tables == {TableOf(d) : d \in Index} \ {0}

\* What a virtual page outside the self-map slot translates to (0: nothing).
Translation(v) == IF TableOf(v[1]) = 0 THEN 0 ELSE mem[TableOf(v[1])][v[2]]
UserPages == {v \in VPages : v[1] # Self}
MappedFrames == {Translation(v) : v \in UserPages} \ {0}

Init ==
  /\ db = [f \in Frames |->
             IF f \in Reserved THEN PAGE_USED ELSE PAGE_FREE]
  /\ mem = [f \in Frames |-> [e \in Index |-> 0]]
  /\ pdf = 0
  /\ held = {}
  /\ call = Idle

-----------------------------------------------------------------------------
(* alloc_physical_pages(pages): the first-fit scan.                        *)

AllocPages(n) ==
  /\ call.op = "none"
  /\ call' = [Idle EXCEPT !.op = "alloc", !.n = n]
  /\ UNCHANGED <<db, mem, pdf, held>>

Scanning == call.op \in {"alloc", "table"}

\* Byte k behind the database, NF <= k, is in the frame after it, four bytes to
\* an entry if that frame serves as page directory or page table.
BehindFrame(k) == DBF + (k - NF) \div (4 * EPT)
BehindEntry(k) == ((k - NF) \div 4) % EPT

\* How many of the MaxPages bytes behind the database read as PAGE_FREE, up to
\* the first that does not: the entries say it of a directory or table, any
\* number is possible in other memory.
Structure == Tables \cup ({pdf} \ {0})
Behind(k) == mem[BehindFrame(k)][BehindEntry(k)]
Blanks ==
  {b \in 0 .. MaxPages :
     /\ \A k \in NF .. NF + b - 1 : BehindFrame(k) \in Structure => Behind(k) = 0
     /\ b < MaxPages /\ BehindFrame(NF + b) \in Structure => Behind(NF + b) # 0}

\* The inner loop: the first offset whose byte is not PAGE_FREE, or n.
Byte(k, blank) ==
  IF k \in Frames THEN db[k] ELSE IF k < NF + blank THEN PAGE_FREE ELSE PAGE_USED
Gap(i, n, blank) ==
  CHOOSE j \in 1 .. n :
    /\ \A k \in 1 .. j - 1 : Byte(i + k, blank) = PAGE_FREE
    /\ j < n => Byte(i + j, blank) # PAGE_FREE

\* "i = j;" followed by the i++ of the for statement.
SkipTo(i, j) == j + 1

\* memset(frame_db_hva + f, PAGE_USED, n): the database, and what is behind it.
\* An entry any byte of which is overwritten is none that was made.
MarkUsed(f, n) == [k \in Frames |-> IF k \in Run(f, n) THEN PAGE_USED ELSE db[k]]
Damaged == NF
Hit(f, n, t, e) ==
  \E k \in Run(f, n) : NF <= k /\ t = BehindFrame(k) /\ e = BehindEntry(k)
MarkBehind(f, n) ==
  [t \in Frames |-> [e \in Index |->
     IF t \in Structure /\ Hit(f, n, t, e) THEN Damaged ELSE mem[t][e]]]
Undamaged == \A t \in Frames, e \in Index : mem[t][e] # Damaged

ScanUsed_NoIncrement ==
  /\ Scanning /\ call.i < NF /\ db[call.i] # PAGE_FREE
  /\ UNCHANGED vars
ScanUsed ==
  /\ Scanning /\ call.i < NF /\ db[call.i] # PAGE_FREE
  /\ call' = [call EXCEPT !.i = @ + 1]
  /\ UNCHANGED <<db, mem, pdf, held>>

ScanGap ==
  /\ call.op = "alloc" /\ call.i < NF /\ db[call.i] = PAGE_FREE
  /\ \E blank \in Blanks :
       /\ Gap(call.i, call.n, blank) < call.n
       /\ call' = [call EXCEPT !.i = SkipTo(call.i, Gap(call.i, call.n, blank))]
  /\ UNCHANGED <<db, mem, pdf, held>>

\* The run fits: memset it to PAGE_USED and return its address.  The address
\* of frame 0 is also the error value, so the caller does not keep such a run.
ScanFound ==
  /\ call.op = "alloc" /\ call.i < NF /\ db[call.i] = PAGE_FREE
  /\ \E blank \in Blanks : Gap(call.i, call.n, blank) = call.n
  /\ db' = MarkUsed(call.i, call.n)
  /\ mem' = MarkBehind(call.i, call.n)
  /\ held' = IF call.i = 0 THEN held ELSE held \cup Run(call.i, call.n)
  /\ call' = Idle
  /\ UNCHANGED pdf

\* The scan ends without a run: alloc_physical_pages returns 0, and so does
\* map_pages if it wanted a page table ("if (pt_gpa == 0) return false").
ScanFail ==
  /\ Scanning /\ call.i >= NF
  /\ call' = Idle
  /\ UNCHANGED <<db, mem, pdf, held>>

(* alloc_physical_pages(guest_physical_addr, pages): all of them or none.  *)
AllocAt_Unchecked(f, n) ==
  /\ call.op = "none" /\ f + n <= NF
  /\ db' = MarkUsed(f, n)
  /\ held' = IF f = 0 THEN held ELSE held \cup Run(f, n)
  /\ UNCHANGED <<mem, pdf, call>>
AllocAt(f, n) ==
  /\ call.op = "none" /\ f + n <= NF
  /\ IF AllFree(f, n)
     THEN /\ db' = MarkUsed(f, n)
          /\ held' = IF f = 0 THEN held ELSE held \cup Run(f, n)
     ELSE UNCHANGED <<db, held>>
  /\ UNCHANGED <<mem, pdf, call>>

(* free_physical_pages *)
FreePages_OneShort(f, n) ==
  /\ call.op = "none" /\ f + n <= NF
  /\ Run(f, n) \subseteq held \ MappedFrames
  /\ db' = [k \in Frames |-> IF k \in Run(f, n - 1) THEN PAGE_FREE ELSE db[k]]
  /\ held' = held \ Run(f, n)
  /\ UNCHANGED <<mem, pdf, call>>
FreePages(f, n) ==
  /\ call.op = "none" /\ f + n <= NF
  /\ Run(f, n) \subseteq held \ MappedFrames
  /\ db' = [k \in Frames |-> IF k \in Run(f, n) THEN PAGE_FREE ELSE db[k]]
  /\ held' = held \ Run(f, n)
  /\ UNCHANGED <<mem, pdf, call>>

-----------------------------------------------------------------------------
(* set_page_dir: remembers the directory and writes its self-map entry.    *)
SetPageDir(f) ==
  /\ call.op = "none" /\ pdf = 0
  /\ f \in held
  /\ pdf' = f
  /\ mem' = [mem EXCEPT ![f][Self] = f]
  /\ held' = held \ {f}
  /\ UNCHANGED <<db, call>>

(* map_pages *)
MapPages(f, v, n) ==
  /\ call.op = "none" /\ pdf # 0
  /\ InRange(v, n) /\ f + n <= NF
  /\ Run(f, n) \subseteq held \ MappedFrames
  /\ call' = [op |-> "map", i |-> 0, n |-> n, gpa |-> f, gva |-> v]
  /\ UNCHANGED <<db, mem, pdf, held>>

\* After a page: the next one, or back to the caller after the last.
Advance ==
  IF call.n = 1 THEN Idle
  ELSE [call EXCEPT !.op = "map", !.i = 0, !.n = @ - 1,
                    !.gpa = @ + 1, !.gva = NextPage(@)]

\* An iteration that finds a page table.
MapPage ==
  /\ call.op = "map" /\ TableOf(call.gva[1]) # 0
  /\ mem' = [mem EXCEPT ![TableOf(call.gva[1])][call.gva[2]] = call.gpa]
  /\ call' = Advance
  /\ UNCHANGED <<db, pdf, held>>

\* An iteration that finds none: pt_gpa = alloc_physical_pages(1).  The pages
\* left are kept while the scan looks for one page (see TableFound).
MapNeedsTable ==
  /\ call.op = "map" /\ TableOf(call.gva[1]) = 0
  /\ call' = [call EXCEPT !.op = "table", !.i = 0]
  /\ UNCHANGED <<db, mem, pdf, held>>

\* The scan for one page ends at its first free entry.  A page table at frame
\* 0 is taken for a failure; otherwise it is zeroed, entered in the directory
\* and the iteration goes on to write the page's entry.
ZeroTable_NotZeroed(f) == [e \in Index |-> NF - 1]
ZeroTable(f) == [e \in Index |-> 0]
TableFound ==
  /\ call.op = "table" /\ call.i < NF /\ db[call.i] = PAGE_FREE
  /\ db' = MarkUsed(call.i, 1)
  /\ IF call.i = 0
     THEN call' = Idle /\ UNCHANGED mem
     ELSE /\ mem' = [mem EXCEPT
                       ![call.i] = [ZeroTable(call.i) EXCEPT ![call.gva[2]] = call.gpa],
                       ![pdf][call.gva[1]] = call.i]
          /\ call' = Advance
  /\ UNCHANGED <<pdf, held>>

(* unmap_pages *)
UnmapPages(v, n) ==
  /\ call.op = "none" /\ pdf # 0
  /\ InRange(v, n)
  /\ call' = [Idle EXCEPT !.op = "unmap", !.n = n, !.gva = v]
  /\ UNCHANGED <<db, mem, pdf, held>>

\* An iteration: give the frame back and clear the entry; a slot without a
\* table ends the call.  An absent entry frees "frame 0".
UnmapPage ==
  /\ call.op = "unmap" /\ TableOf(call.gva[1]) # 0
  /\ LET f == Translation(call.gva)
     IN  /\ db' = [db EXCEPT ![f] = PAGE_FREE]
         /\ held' = held \ {f}
  /\ mem' = [mem EXCEPT ![TableOf(call.gva[1])][call.gva[2]] = 0]
  /\ call' = IF call.n = 1 THEN Idle
             ELSE [call EXCEPT !.n = @ - 1, !.gva = NextPage(@)]
  /\ UNCHANGED pdf

UnmapNoTable ==
  /\ call.op = "unmap" /\ TableOf(call.gva[1]) = 0
  /\ call' = Idle
  /\ UNCHANGED <<db, mem, pdf, held>>

-----------------------------------------------------------------------------
Progress ==
  \/ ScanUsed \/ ScanGap \/ ScanFound \/ ScanFail
  \/ MapPage \/ MapNeedsTable \/ TableFound
  \/ UnmapPage \/ UnmapNoTable

Caller ==
  /\ Undamaged
  /\ \/ \E n \in 1 .. MaxPages :
          \/ AllocPages(n)
          \/ \E f \in Frames : AllocAt(f, n) \/ FreePages(f, n)
          \/ \E v \in UserPages : UnmapPages(v, n) \/ \E f \in Frames : MapPages(f, v, n)
     \/ \E f \in Frames : SetPageDir(f)

Next == Progress \/ Caller

\* A call that has begun keeps executing: the thread that made it is running.
Spec == Init /\ [][Next]_vars /\ WF_vars(Progress)
-----------------------------------------------------------------------------
(* Properties *)

TypeOK ==
  /\ db \in [Frames -> {PAGE_FREE, PAGE_USED}]
  /\ mem \in [Frames -> [Index -> Frames]]
  /\ pdf \in Frames
  /\ held \in SUBSET Frames
  /\ call \in [op : Ops, i : 0 .. NF, n : 0 .. MaxPages, gpa : 0 .. NF + MaxPages,
               gva : (0 .. EPT) \X Index]

Owned == held \cup Structure

\* Every frame somebody owns (the caller, a page table, the directory) is
\* marked in the database, and none of them is one of the reserved frames, those
\* of the database and those without RAM: what the first-fit scan returns can never be in use already.  Frame
\* 0 may be freed by unmapping an absent page, and is still never handed out.
OwnedFramesMarked ==
  /\ \A f \in Owned : db[f] = PAGE_USED
  /\ Owned \cap Reserved = {}

\* The caller's frames, the page tables and the directory are pairwise
\* distinct, and two directory slots never share a page table: zeroing a new
\* page table or writing an entry cannot hit a page somebody else uses.
OwnersDisjoint ==
  /\ held \cap Structure = {}
  /\ \A d1, d2 \in Index : TableOf(d1) # 0 /\ TableOf(d1) = TableOf(d2) => d1 = d2
  /\ pdf # 0 => TableOf(Self) = pdf

\* No frame but the reserved ones is lost: a frame marked used is
\* owned by the caller or is a page table or the directory, also after a
\* map_pages that failed half-way or an unmap_pages that met a hole.
NoFrameLost == \A f \in Frames \ Reserved : db[f] = PAGE_USED => f \in Owned

\* Every page outside the self-map slot translates to a frame the caller owns,
\* and no frame is mapped at two pages: unmap_pages frees it exactly once.
MappingsOwned ==
  /\ MappedFrames \subseteq held
  /\ \A v, w \in UserPages : Translation(v) # 0 /\ Translation(v) = Translation(w) => v = w

\* The scan skips no run: no start below the scan position fits, so the scan
\* reports failure only when no run of that length is free.
Wanted == IF call.op = "alloc" THEN call.n ELSE 1
NothingSkipped == Scanning => \A k \in 0 .. call.i - 1 : ~AllFree(k, Wanted)

\* A step of any call changes the translation of at most one page: the page the
\* map or unmap loop is at.  In particular entering a new page table, and
\* zeroing it, disturbs no mapping made before.
OnlyCurrentPageRemapped ==
  [][\A v \in UserPages : v # call.gva => Translation(v)' = Translation(v)]_vars

\* map_pages and unmap_pages return, and so does an allocation of one page:
\* their scans always move forward.
OnePageCallsReturn ==
  (call.op \in {"map", "table", "unmap"} \/ (call.op = "alloc" /\ call.n = 1))
    ~> call.op = "none"

\* The allocator and the page-table editor together are a frame pool: owned
\* frames are those of the caller, the page tables and the directory.
Pool == INSTANCE FramePool WITH owned <- Owned, MaxRun <- MaxPages
ImplementsFramePool == Pool!Spec

\* HAXM_VM.h:338 says of "i = j;" that the scan skips the blank pages in the
\* middle and goes on: a call of alloc_physical_pages(pages) made while a run of
\* that length is free returns (with that run, or an earlier one).
ScanReturns ==
  (call.op = "alloc" /\ call.i = 0 /\ \E f \in Frames : AllFree(f, call.n))
    ~> call.op = "none"

\* The layout at HAXM_VM.h:34-37 ends the frame database at the first megabyte: marking the
\* run it found, alloc_physical_pages writes nothing that is behind it, least of
\* all a page directory or page table.
DatabaseEnds == [][call.op = "alloc" => mem' = mem]_vars
=============================================================================
