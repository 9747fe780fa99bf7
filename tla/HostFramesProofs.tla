--------------------------- MODULE HostFramesProofs ---------------------------
(***************************************************************************)
(* Proofs about HostFrames, for a database, page tables and calls of any   *)
(* size.  The caller is taken to reserve the frames of the database and    *)
(* the last one (CallerReserves): otherwise the first are handed out, and  *)
(* a run may be marked that goes on behind the database.                   *)
(***************************************************************************)
EXTENDS HostFrames, WellFoundedInduction, TLAPS

-----------------------------------------------------------------------------
(* The inductive invariant: the properties of HostFrames and what they     *)
(* rest on.                                                                *)

\* No operation frees a reserved frame, but for frame 0.
DatabaseMarked == 0 \in Reserved /\ \A f \in Reserved \ {0} : db[f] = PAGE_USED

\* Until set_page_dir every frame holds zeros, so that a directory starts empty.
NothingMapped == pdf = 0 => \A f \in Frames, e \in Index : mem[f][e] = 0

\* A loop over pages stays below the self-map slot, and what map_pages has
\* still to map is the caller's and mapped nowhere.
LoopInRange ==
  /\ call.op # "none" => call.n \in 1 .. MaxPages
  /\ call.op \in {"map", "table", "unmap"} => pdf # 0 /\ InRange(call.gva, call.n)
  /\ call.op \in {"map", "table"} => Run(call.gpa, call.n) \subseteq held \ MappedFrames
  /\ call.op = "table" => TableOf(call.gva[1]) = 0

\* What the invariant says of the memory, and what it says of the call.
MemoryTypes ==
  /\ db \in [Frames -> {PAGE_FREE, PAGE_USED}]
  /\ mem \in [Frames -> [Index -> Frames]]
  /\ pdf \in Frames
  /\ held \in SUBSET Frames
CallType ==
  call \in [op : Ops, i : 0 .. NF, n : 0 .. MaxPages, gpa : 0 .. NF + MaxPages,
            gva : (0 .. EPT) \X Index]

MemoryInv ==
  /\ MemoryTypes /\ OwnedFramesMarked /\ OwnersDisjoint /\ NoFrameLost /\ MappingsOwned
  /\ DatabaseMarked /\ NothingMapped
CallInv == CallType /\ NothingSkipped /\ LoopInRange

IInv == MemoryInv /\ CallInv

-----------------------------------------------------------------------------
(* SizeFacts, pages and ranges *)

\* The sizes, as the proofs use them.
LEMMA SizeFacts ==
  /\ NF \in Nat /\ DBF \in Nat /\ EPT \in Nat /\ MaxPages \in Nat
  /\ 2 <= DBF /\ DBF <= NF /\ 2 <= EPT /\ 0 < MaxPages /\ MaxPages < NF
  /\ 0 \in Frames /\ Reserved \subseteq Frames /\ 0 \in Index /\ Self \in Index /\ Self # 0
  /\ Self \in Nat /\ Self = EPT - 1
  /\ DbFrames \subseteq Frames /\ Frames \subseteq Nat /\ Index \subseteq Nat
BY SizeAssumption DEF Frames, DbFrames, Index, Self

\* A range of pages starts outside the self-map slot, and the loop's next page
\* starts the rest of it.
LEMMA RangeOfPages ==
  ASSUME NEW v \in (0 .. EPT) \X Index, NEW n \in Nat \ {0}, InRange(v, n)
  PROVE  /\ v \in UserPages /\ v[1] \in Index \ {Self} /\ v[2] \in Index
         /\ n # 1 => /\ NextPage(v) \in (0 .. EPT) \X Index
                     /\ InRange(NextPage(v), n - 1)
<1> DEFINE a == v[1]
           b == v[2]
<1>1. a \in 0 .. EPT /\ b \in Index /\ a \in Nat /\ b \in Nat /\ b < EPT
  BY SizeFacts DEF Index
<1>2. v = <<a, b>>
  OBVIOUS
<1>3. a * EPT + b + n <= (EPT - 1) * EPT
  BY SizeFacts DEF InRange, Linear
<1> HIDE DEF a, b
<1>4. a < EPT - 1
  <2>1. a # EPT
    <3> SUFFICES ASSUME a = EPT PROVE FALSE
      OBVIOUS
    <3>1. EPT * EPT + b + n <= EPT * EPT - EPT
      BY <1>3, SizeFacts
    <3>2. EPT * EPT \in Int
      BY SizeFacts
    <3> QED BY <3>1, <3>2, <1>1, SizeFacts
  <2>2. a # EPT - 1
    <3> SUFFICES ASSUME a = EPT - 1 PROVE FALSE
      OBVIOUS
    <3>1. (EPT - 1) * EPT + b + n <= (EPT - 1) * EPT
      BY <1>3
    <3>2. (EPT - 1) * EPT \in Int
      BY SizeFacts
    <3> QED BY <3>1, <3>2, <1>1
  <2> QED BY <2>1, <2>2, <1>1, SizeFacts
<1>5. a \in Index \ {Self} /\ v[1] = a /\ v[2] = b
  BY <1>1, <1>2, <1>4, SizeFacts DEF Index, Self
<1>6. v \in UserPages
  BY <1>1, <1>5 DEF UserPages, VPages
<1>7. ASSUME n # 1
      PROVE  NextPage(v) \in (0 .. EPT) \X Index /\ InRange(NextPage(v), n - 1)
  <2>0. a * EPT \in Int /\ (EPT - 1) * EPT \in Int
    BY <1>1, SizeFacts
  <2>1. CASE b + 1 < EPT
    <3>1. NextPage(v) = <<a, b + 1>>
      BY <1>5, <2>1 DEF NextPage
    <3>2. a * EPT + (b + 1) + (n - 1) <= (EPT - 1) * EPT
      BY <2>0, <1>1, <1>3
    <3>3. NextPage(v)[1] = a /\ NextPage(v)[2] = b + 1
      BY <3>1
    <3>4. NextPage(v) \in (0 .. EPT) \X Index
      BY <3>1, <1>1, <2>1, SizeFacts DEF Index
    <3> QED BY <3>2, <3>3, <3>4 DEF InRange, Linear, Self
  <2>2. CASE ~(b + 1 < EPT)
    <3>1. NextPage(v) = <<a + 1, 0>>
      BY <1>5, <2>2 DEF NextPage
    <3>2. (a + 1) * EPT = a * EPT + EPT /\ EPT = b + 1
      BY <1>1, <2>2, SizeFacts
    <3>3. (a + 1) * EPT + 0 + (n - 1) <= (EPT - 1) * EPT
      BY <3>2, <2>0, <1>1, <1>3
    <3>4. NextPage(v)[1] = a + 1 /\ NextPage(v)[2] = 0
      BY <3>1
    <3>5. NextPage(v) \in (0 .. EPT) \X Index
      BY <3>1, <1>1, <1>4, SizeFacts
    <3> QED BY <3>3, <3>4, <3>5 DEF InRange, Linear, Self
  <2> QED BY <2>1, <2>2
<1> QED BY <1>5, <1>6, <1>7, <1>1

\* A set of numbers that has an element has a least one (Gap chooses it, as the
\* scan's inner loop finds it).
LEMMA LeastOf ==
  ASSUME NEW S \in SUBSET Nat, S # {}
  PROVE  \E j \in S : \A k \in S : j <= k
<1> DEFINE R == OpToRel(<, Nat)
<1>1. IsWellFoundedOn(R, Nat)
  BY NatLessThanWellFounded
<1>2. \A j, k \in Nat : j < k => <<j, k>> \in R
  BY DEF OpToRel
<1> HIDE DEF R
<1>3. PICK j \in S : \A k \in S : ~(<<k, j>> \in R)
  BY <1>1, WFMin
<1>4. \A k \in S : ~(k < j)
  BY <1>2, <1>3
<1> QED BY <1>4

\* A store to one element of an array.
LEMMA Update ==
  ASSUME NEW S, NEW T, NEW g \in [S -> T], NEW x \in S, NEW y \in T
  PROVE  /\ [g EXCEPT ![x] = y] \in [S -> T]
         /\ [g EXCEPT ![x] = y][x] = y
         /\ \A k \in S \ {x} : [g EXCEPT ![x] = y][k] = g[k]
OBVIOUS

-----------------------------------------------------------------------------
(* The page tables *)

\* Directory slots designate frames; the tables are none of the caller's.
LEMMA TableFacts ==
  ASSUME MemoryTypes
  PROVE  /\ \A d \in Index : TableOf(d) \in Frames
         /\ \A d \in Index : TableOf(d) # 0 => TableOf(d) \in Structure
         /\ \A v \in VPages : Translation(v) \in Frames
         /\ \A v \in UserPages : Translation(v) # 0 => Translation(v) \in MappedFrames
         /\ Structure \subseteq Frames \ {0}
         /\ Owned \subseteq Frames /\ MappedFrames \subseteq Frames
<1>1. \A d \in Index : TableOf(d) \in Frames
  BY SizeFacts DEF MemoryTypes, TableOf
<1>2. \A v \in VPages : v[1] \in Index /\ v[2] \in Index /\ Translation(v) \in Frames
  BY <1>1, SizeFacts DEF VPages, Translation, MemoryTypes
<1> QED
  BY <1>1, <1>2, SizeFacts DEF Structure, Tables, MappedFrames, UserPages, Owned, MemoryTypes

\* Frame 0 has no owner, and an owner's frame is marked.
LEMMA OwnedFacts ==
  ASSUME MemoryInv
  PROVE  /\ 0 \notin held /\ 0 \notin Structure
         /\ \A f \in Frames : db[f] = PAGE_FREE => f \notin Owned
         /\ \A f \in Frames \ {0} : db[f] = PAGE_FREE => f \notin Reserved
         /\ 0 \in Reserved
BY SizeFacts DEF MemoryInv, OwnedFramesMarked, Owned, Structure, Tables, DatabaseMarked,
             PAGE_FREE, PAGE_USED

\* The directory is no page table of a slot outside the self map, and slots
\* with a table have different tables.
LEMMA TablesApart ==
  ASSUME MemoryInv, pdf # 0, NEW d \in Index \ {Self}, TableOf(d) # 0
  PROVE  /\ TableOf(d) # pdf /\ TableOf(d) \in Frames \ {0}
         /\ \A e \in Index \ {d} : TableOf(e) # TableOf(d)
<1>1. TableOf(Self) = pdf /\ Self \in Index
  BY SizeFacts DEF MemoryInv, OwnersDisjoint
<1> QED BY <1>1, TableFacts DEF MemoryInv, OwnersDisjoint

-----------------------------------------------------------------------------
(* Steps that change one entry of a page table: MapPage and UnmapPage. *)

\* A store into a page table, as map_pages and unmap_pages do it, changes one
\* translation (HAXM_VM.h, the last statement of both loops).
LEMMA EntryWritten ==
  ASSUME MemoryInv, pdf # 0, NEW w \in UserPages, TableOf(w[1]) # 0, NEW f \in Frames,
         mem' = [mem EXCEPT ![TableOf(w[1])][w[2]] = f], pdf' = pdf
  PROVE  /\ \A d \in Index : TableOf(d)' = TableOf(d)
         /\ \A v \in UserPages : Translation(v)' = IF v = w THEN f ELSE Translation(v)
         /\ Structure' = Structure
         /\ mem' \in [Frames -> [Index -> Frames]]
<1> DEFINE t == TableOf(w[1])
<1>1. w[1] \in Index \ {Self} /\ w[2] \in Index /\ w = <<w[1], w[2]>>
  BY DEF UserPages, VPages
<1>2. t \in Frames \ {0} /\ t # pdf /\ pdf \in Frames
  BY <1>1, TablesApart DEF MemoryInv, MemoryTypes
<1>3. mem' = [mem EXCEPT ![t][w[2]] = f] /\ mem \in [Frames -> [Index -> Frames]]
  BY DEF MemoryInv, MemoryTypes
<1>4. mem' \in [Frames -> [Index -> Frames]]
  BY <1>1, <1>2, <1>3
<1>5. \A d \in Index : TableOf(d)' = TableOf(d)
  BY <1>2, <1>3 DEF TableOf
<1>6. Structure' = Structure
  BY <1>5 DEF Structure, Tables
<1>7. ASSUME NEW v \in UserPages
      PROVE  Translation(v)' = IF v = w THEN f ELSE Translation(v)
  <2>1. v[1] \in Index /\ v[2] \in Index /\ v = <<v[1], v[2]>>
    BY DEF UserPages, VPages
  <2>2. TableOf(v[1])' = TableOf(v[1]) /\ TableOf(v[1]) \in Frames
    BY <2>1, <1>5, TableFacts DEF MemoryInv
  <2>3. CASE v = w
    BY <2>2, <2>3, <1>1, <1>2, <1>3 DEF Translation
  <2>4. CASE v # w
    <3>1. TableOf(v[1]) # t \/ v[2] # w[2]
      <4>1. v[1] # w[1] \/ v[2] # w[2]
        BY <2>1, <2>4, <1>1
      <4>2. v[1] # w[1] => TableOf(v[1]) # t
        BY <2>1, <1>1, TablesApart
      <4> QED BY <4>1, <4>2
    <3>2. mem'[TableOf(v[1])][v[2]] = mem[TableOf(v[1])][v[2]]
      BY <3>1, <2>1, <2>2, <1>1, <1>2, <1>3
    <3> QED BY <3>2, <2>2, <2>4 DEF Translation
  <2> QED BY <2>3, <2>4
<1> QED BY <1>4, <1>5, <1>6, <1>7

\* TableFound with a frame of its own: the new table holds one entry, and no
\* other page is translated differently.
LEMMA TableEntered ==
  ASSUME MemoryInv, pdf # 0, NEW w \in UserPages, TableOf(w[1]) = 0, NEW f \in Frames,
         NEW t \in Frames \ Owned, t # 0,
         mem' = [mem EXCEPT ![t] = [ZeroTable(t) EXCEPT ![w[2]] = f], ![pdf][w[1]] = t],
         pdf' = pdf
  PROVE  /\ \A d \in Index : TableOf(d)' = IF d = w[1] THEN t ELSE TableOf(d)
         /\ \A v \in UserPages : Translation(v)' = IF v = w THEN f ELSE Translation(v)
         /\ Structure' = Structure \cup {t}
         /\ mem' \in [Frames -> [Index -> Frames]]
<1>1. w[1] \in Index \ {Self} /\ w[2] \in Index /\ w = <<w[1], w[2]>>
  BY DEF UserPages, VPages
<1>2. pdf \in Frames /\ mem \in [Frames -> [Index -> Frames]] /\ pdf \in Structure
  BY DEF MemoryInv, MemoryTypes, Structure
<1>3. t # pdf /\ t \notin Structure
  BY <1>2 DEF Owned
<1> DEFINE new == [ZeroTable(t) EXCEPT ![w[2]] = f]
<1>4. new \in [Index -> Frames] /\ \A e \in Index : new[e] = IF e = w[2] THEN f ELSE 0
  BY <1>1, SizeFacts DEF ZeroTable
<1> DEFINE zeroed == [mem EXCEPT ![t] = new]
<1>5. mem' = [zeroed EXCEPT ![pdf][w[1]] = t]
  OBVIOUS
<1> HIDE DEF new
<1>6. /\ mem' \in [Frames -> [Index -> Frames]]
      /\ mem'[t] = new /\ mem'[pdf] = [mem[pdf] EXCEPT ![w[1]] = t]
      /\ \A k \in Frames \ {t, pdf} : mem'[k] = mem[k]
  <2>1. /\ zeroed \in [Frames -> [Index -> Frames]]
        /\ zeroed[t] = new /\ \A k \in Frames \ {t} : zeroed[k] = mem[k]
    BY <1>2, <1>4
  <2> HIDE DEF zeroed
  <2>2. /\ mem' \in [Frames -> [Index -> Frames]]
        /\ mem'[pdf] = [zeroed[pdf] EXCEPT ![w[1]] = t]
        /\ \A k \in Frames \ {pdf} : mem'[k] = zeroed[k]
    <3> DEFINE row == [zeroed[pdf] EXCEPT ![w[1]] = t]
    <3>1. row \in [Index -> Frames]
      BY <2>1, <1>1, <1>2
    <3>2. mem' = [zeroed EXCEPT ![pdf] = row]
      BY <1>5
    <3> HIDE DEF row
    <3> DEFINE entered == [zeroed EXCEPT ![pdf] = row]
    <3>3. zeroed \in [Frames -> [Index -> Frames]] /\ pdf \in Frames
      BY <2>1, <1>2
    <3>4. /\ entered \in [Frames -> [Index -> Frames]]
          /\ entered[pdf] = row /\ \A k \in Frames \ {pdf} : entered[k] = zeroed[k]
      BY <3>1, <3>3, Update
    <3>5. mem' = entered
      BY <3>2
    <3> HIDE DEF entered
    <3> QED BY <3>4, <3>5 DEF row
  <2> QED BY <2>1, <2>2, <1>2, <1>3
<1>7. \A d \in Index : TableOf(d)' = IF d = w[1] THEN t ELSE TableOf(d)
  <2> SUFFICES ASSUME NEW d \in Index
               PROVE  TableOf(d)' = IF d = w[1] THEN t ELSE TableOf(d)
    OBVIOUS
  <2>1. mem'[pdf][d] = (IF d = w[1] THEN t ELSE mem[pdf][d])
    BY <1>1, <1>2, <1>6
  <2> QED BY <1>1, <2>1 DEF TableOf
<1>8. Structure' = Structure \cup {t}
  <2>1. \A k : k \in Structure' <=> (\E d \in Index : k = TableOf(d)' /\ k # 0) \/ (k = pdf /\ k # 0)
    BY DEF Structure, Tables
  <2>2. \A k : k \in Structure <=> (\E d \in Index : k = TableOf(d) /\ k # 0) \/ (k = pdf /\ k # 0)
    BY DEF Structure, Tables
  <2> QED BY <2>1, <2>2, <1>1, <1>7
<1>9. ASSUME NEW v \in UserPages
      PROVE  Translation(v)' = IF v = w THEN f ELSE Translation(v)
  <2>1. v[1] \in Index \ {Self} /\ v[2] \in Index /\ v = <<v[1], v[2]>>
    BY DEF UserPages, VPages
  <2>2. CASE v[1] = w[1]
    <3>1. TableOf(v[1])' = t /\ TableOf(v[1]) = 0
      BY <2>1, <2>2, <1>7
    <3>2. Translation(v)' = new[v[2]] /\ Translation(v) = 0
      BY <3>1, <1>6 DEF Translation
    <3> QED BY <3>2, <2>1, <2>2, <1>1, <1>4
  <2>3. CASE v[1] # w[1]
    <3>1. TableOf(v[1])' = TableOf(v[1]) /\ v # w
      BY <2>1, <2>3, <1>7
    <3>2. TableOf(v[1]) # 0 => TableOf(v[1]) \in Frames \ {t, pdf}
      BY <2>1, <1>3, TablesApart, TableFacts DEF MemoryInv
    <3> QED BY <3>1, <3>2, <1>6 DEF Translation
  <2> QED BY <2>2, <2>3
<1> QED BY <1>6, <1>7, <1>8, <1>9

-----------------------------------------------------------------------------
(* Steps of the scan and of the loops that leave the memory alone. *)

\* A step of a call that touches no memory keeps the memory invariant.
LEMMA MemoryKept ==
  ASSUME MemoryInv, UNCHANGED <<db, mem, pdf, held>>
  PROVE  MemoryInv'
BY DEF MemoryInv, MemoryTypes, OwnedFramesMarked, OwnersDisjoint, NoFrameLost, MappingsOwned,
       DatabaseMarked, NothingMapped, Owned, Structure, Tables, TableOf, MappedFrames, Translation

\* A call that is not scanning, and not in a loop over pages.
LEMMA IdleInv == call' = Idle => CallInv'
<1> SUFFICES ASSUME call' = Idle PROVE CallInv'
  OBVIOUS
<1>1. CallType'
  BY SizeFacts DEF CallType, Idle, Ops
<1>2. NothingSkipped' /\ LoopInRange'
  BY DEF NothingSkipped, Scanning, LoopInRange, Idle
<1> QED BY <1>1, <1>2 DEF CallInv

\* Entering alloc_physical_pages (the scan) keeps the invariant.
LEMMA AllocPagesStep ==
  ASSUME IInv, NEW n \in 1 .. MaxPages, AllocPages(n)
  PROVE  IInv'
<1>1. MemoryInv'
  BY MemoryKept DEF IInv, AllocPages
<1>2. call' = [op |-> "alloc", i |-> 0, n |-> n, gpa |-> 0, gva |-> <<0, 0>>]
  BY DEF AllocPages, Idle
<1>3. CallType'
  BY <1>2, SizeFacts DEF CallType, Ops
<1>4. NothingSkipped' /\ LoopInRange'
  BY <1>2 DEF NothingSkipped, LoopInRange
<1> QED BY <1>1, <1>3, <1>4 DEF IInv, CallInv

\* A used byte, or one used inside a run, spoils every run that begins at or
\* below the next position.
LEMMA ScanUsedStep ==
  ASSUME IInv, ScanUsed
  PROVE  IInv'
<1>0. MemoryTypes /\ CallType /\ NothingSkipped /\ LoopInRange /\ Scanning
  BY DEF IInv, MemoryInv, CallInv, ScanUsed
<1>1. MemoryInv'
  BY MemoryKept DEF IInv, ScanUsed
<1>2. /\ call' = [call EXCEPT !.i = call.i + 1] /\ call.i \in 0 .. NF - 1
      /\ db[call.i] # PAGE_FREE /\ UNCHANGED <<db, mem, pdf, held>>
  BY <1>0, SizeFacts DEF ScanUsed, CallType
<1>3. CallType' /\ call'.i = call.i + 1 /\ call'.op = call.op /\ call'.n = call.n
      /\ call'.gpa = call.gpa /\ call'.gva = call.gva
  BY <1>0, <1>2, SizeFacts DEF CallType
<1>4. LoopInRange'
  BY <1>0, <1>2, <1>3 DEF LoopInRange, MappedFrames, Translation, TableOf
<1>5. Wanted \in Nat \ {0} /\ Wanted' = Wanted
  BY <1>0, <1>3, SizeFacts DEF Wanted, LoopInRange, CallType, Scanning
<1>6. ASSUME NEW k \in 0 .. call.i PROVE ~AllFree(k, Wanted)
  <2>1. CASE k = call.i
    BY <1>2, <1>5, <2>1, SizeFacts DEF AllFree, Run
  <2>2. CASE k # call.i
    BY <1>0, <1>2, <2>2 DEF NothingSkipped
  <2> QED BY <2>1, <2>2
<1>7. NothingSkipped'
  BY <1>2, <1>3, <1>5, <1>6 DEF NothingSkipped, AllFree
<1> QED BY <1>1, <1>3, <1>4, <1>7 DEF IInv, CallInv

\* The scan's inner loop: Gap is where it stops, and all before that is free.
LEMMA GapFacts ==
  ASSUME NEW i \in Nat, NEW n \in Nat \ {0}, NEW blank
  PROVE  /\ Gap(i, n, blank) \in 1 .. n
         /\ \A k \in 1 .. Gap(i, n, blank) - 1 : Byte(i + k, blank) = PAGE_FREE
         /\ Gap(i, n, blank) < n => Byte(i + Gap(i, n, blank), blank) # PAGE_FREE
<1> DEFINE P(j) == /\ \A k \in 1 .. j - 1 : Byte(i + k, blank) = PAGE_FREE
                   /\ j < n => Byte(i + j, blank) # PAGE_FREE
<1>1. \E j \in 1 .. n : P(j)
  <2>1. CASE \A k \in 1 .. n - 1 : Byte(i + k, blank) = PAGE_FREE
    <3>1. P(n)
      BY <2>1
    <3>2. n \in 1 .. n
      OBVIOUS
    <3> HIDE DEF P
    <3> QED BY <3>1, <3>2
  <2>2. CASE \E k \in 1 .. n - 1 : Byte(i + k, blank) # PAGE_FREE
    <3> DEFINE S == {k \in 1 .. n - 1 : Byte(i + k, blank) # PAGE_FREE}
    <3>1. PICK j \in S : \A k \in S : j <= k
      <4>0. PICK k \in 1 .. n - 1 : Byte(i + k, blank) # PAGE_FREE
        BY <2>2
      <4>1. k \in S /\ S \subseteq Nat
        BY <4>0
      <4> HIDE DEF S
      <4> QED BY <4>1, LeastOf
    <3>2. P(j)
      BY <3>1
    <3>3. j \in 1 .. n
      OBVIOUS
    <3> HIDE DEF P
    <3> QED BY <3>2, <3>3
  <2> QED BY <2>1, <2>2
<1>2. Gap(i, n, blank) = CHOOSE j \in 1 .. n : P(j)
  BY DEF Gap
<1> HIDE DEF P
<1>3. Gap(i, n, blank) \in 1 .. n /\ P(Gap(i, n, blank))
  BY <1>1, <1>2
<1> QED BY <1>3 DEF P

\* A gap that is too short moves the scan as `i = j` does.
LEMMA ScanGapStep ==
  ASSUME IInv, ScanGap
  PROVE  IInv'
<1>0. MemoryTypes /\ CallType /\ NothingSkipped /\ LoopInRange
  BY DEF IInv, MemoryInv, CallInv
<1>1. MemoryInv'
  BY MemoryKept DEF IInv, ScanGap
<1>2. PICK blank \in Blanks :
        /\ Gap(call.i, call.n, blank) < call.n
        /\ call' = [call EXCEPT !.i = SkipTo(call.i, Gap(call.i, call.n, blank))]
  BY DEF ScanGap
<1> DEFINE i == call.i
           n == call.n
           j == Gap(i, n, blank)
<1>3. /\ i \in Nat /\ i < NF /\ n \in 1 .. MaxPages /\ n \in Nat \ {0} /\ call.op = "alloc"
      /\ UNCHANGED <<db, mem, pdf, held>>
  BY <1>0, SizeFacts DEF ScanGap, CallType, LoopInRange
<1>4. j \in 1 .. n /\ j < n /\ Byte(i + j, blank) # PAGE_FREE /\ call' = [call EXCEPT !.i = j + 1]
  BY <1>2, <1>3, GapFacts DEF SkipTo
<1> HIDE DEF i, n, j
<1>5. j \in Nat /\ j + 1 \in 0 .. NF
  BY <1>3, <1>4, SizeFacts
<1>6. CallType' /\ call'.i = j + 1 /\ call'.op = "alloc" /\ call'.n = n
  BY <1>0, <1>3, <1>4, <1>5 DEF CallType, n
<1>7. LoopInRange'
  BY <1>3, <1>6 DEF LoopInRange
<1>8. Wanted = n /\ Wanted' = n
  BY <1>3, <1>6 DEF Wanted, n
<1>9. ASSUME NEW k \in 0 .. j PROVE ~AllFree(k, n)
  <2>1. CASE k < i
    BY <1>0, <1>3, <1>8, <2>1 DEF NothingSkipped, Scanning, i
  <2>2. CASE ~(k < i)
    <3>1. i + j \in Run(k, n)
      BY <2>2, <1>3, <1>4, <1>5 DEF Run
    <3>2. i + j \in Frames => db[i + j] # PAGE_FREE
      BY <1>4 DEF Byte
    <3> QED BY <3>1, <3>2 DEF AllFree
  <2> QED BY <2>1, <2>2
<1>10. NothingSkipped'
  BY <1>3, <1>5, <1>6, <1>8, <1>9 DEF NothingSkipped, AllFree
<1> QED BY <1>1, <1>6, <1>7, <1>10 DEF IInv, CallInv

-----------------------------------------------------------------------------
(* Handing out and taking back *)

\* A run of free frames becomes the caller's, or stays nobody's if it begins
\* with frame 0: then it is that frame only.
LEMMA RunHandedOut ==
  ASSUME MemoryInv, CallerReserves, NEW f \in Frames, NEW n \in Nat \ {0},
         AllFree(f, n),
         db' = MarkUsed(f, n),
         held' = IF f = 0 THEN held ELSE held \cup Run(f, n),
         UNCHANGED <<mem, pdf>>
  PROVE  MemoryInv' /\ (Owned' = Owned \/ Pool!HandOut(f, n))
<1> DEFINE R == Run(f, n)
<1>0. R \subseteq Frames /\ \A k \in R : db[k] = PAGE_FREE
  BY DEF AllFree
<1>1. Structure' = Structure /\ MappedFrames' = MappedFrames
  BY DEF Structure, Tables, TableOf, MappedFrames, Translation
<1>2. \A k \in Frames : db'[k] = IF k \in R THEN PAGE_USED ELSE db[k]
  BY DEF MarkUsed
<1>3. f = 0 => R = {0}
  <2> SUFFICES ASSUME f = 0 PROVE R = {0}
    OBVIOUS
  <2>1. 1 \in Reserved \ {0} /\ 1 \in Frames
    BY SizeFacts DEF CallerReserves, DbFrames, Frames
  <2>2. db[1] # PAGE_FREE
    BY <2>1 DEF MemoryInv, DatabaseMarked, PAGE_FREE, PAGE_USED
  <2>3. 1 \notin R
    BY <2>1, <2>2, <1>0
  <2>4. n = 1
    BY <2>1, <2>3 DEF Run
  <2> QED BY <2>4, SizeFacts DEF Run
<1>4. f # 0 => 0 \notin R
  BY SizeFacts DEF Run, Frames
<1>5. R \cap Owned = {} /\ (R \ {0}) \cap Reserved = {}
  BY <1>0, OwnedFacts
<1> HIDE DEF R
<1>6. held' = IF f = 0 THEN held ELSE held \cup R
  BY DEF R
<1>7. R \subseteq Frames /\ f \in R
  BY <1>0, SizeFacts DEF R, Run
<1>8. MemoryTypes'
  BY <1>6, <1>7 DEF MemoryInv, MemoryTypes, MarkUsed
<1>9. Owned' = IF f = 0 THEN Owned ELSE Owned \cup R
  BY <1>1, <1>6 DEF Owned
<1>10. OwnedFramesMarked'
  <2>1. Owned \subseteq Frames
    BY TableFacts DEF MemoryInv
  <2> QED BY <2>1, <1>2, <1>4, <1>5, <1>7, <1>9 DEF MemoryInv, OwnedFramesMarked
<1>11. OwnersDisjoint'
  <2>1. held' \cap Structure' = {}
    BY <1>1, <1>5, <1>6 DEF Owned, MemoryInv, OwnersDisjoint
  <2> QED BY <2>1 DEF MemoryInv, OwnersDisjoint, TableOf
<1>12. NoFrameLost'
  BY <1>2, <1>3, <1>9, OwnedFacts, SizeFacts DEF MemoryInv, NoFrameLost
<1>13. MappingsOwned'
  BY <1>1, <1>6 DEF MemoryInv, MappingsOwned, Translation, TableOf
<1>14. DatabaseMarked' /\ NothingMapped'
  BY <1>2, SizeFacts DEF MemoryInv, DatabaseMarked, NothingMapped
<1>15. f # 0 => Pool!HandOut(f, n)
  <2>1. f # 0 => R \subseteq Frames \ (Owned \cup Reserved)
    BY <1>4, <1>5, <1>7
  <2> QED BY <2>1, <1>9 DEF Pool!HandOut, R, Run
<1> QED BY <1>8, <1>9, <1>10, <1>11, <1>12, <1>13, <1>14, <1>15 DEF MemoryInv

\* A run found by the scan does not go on behind the database, whose last frame
\* is reserved: all of it is in the database and free.
LEMMA RunInside ==
  ASSUME MemoryInv, CallerReserves, NEW i \in Frames, NEW n \in Nat \ {0}, NEW blank,
         db[i] = PAGE_FREE, Gap(i, n, blank) = n
  PROVE  AllFree(i, n)
<1>1. i \in Nat /\ i < NF /\ NF - 1 \in Frames /\ db[NF - 1] # PAGE_FREE
  BY SizeFacts DEF CallerReserves, MemoryInv, DatabaseMarked, Frames, PAGE_FREE, PAGE_USED
<1>2. \A k \in 1 .. n - 1 : Byte(i + k, blank) = PAGE_FREE
  <2>1. \A k \in 1 .. Gap(i, n, blank) - 1 : Byte(i + k, blank) = PAGE_FREE
    BY <1>1, GapFacts
  <2> QED BY <2>1
<1>3. ASSUME NEW k \in Run(i, n), k \in Frames PROVE db[k] = PAGE_FREE
  <2>1. CASE k = i
    BY <2>1
  <2>2. CASE k # i
    <3>1. k \in Nat /\ k - i \in 1 .. n - 1
      BY <1>1, <2>2, SizeFacts DEF Run
    <3>2. i + (k - i) = k
      BY <1>1, <3>1
    <3> QED BY <1>3, <3>1, <3>2, <1>2 DEF Byte
  <2> QED BY <2>1, <2>2
<1>4. i + n <= NF
  <2> SUFFICES ASSUME ~(i + n <= NF) PROVE FALSE
    OBVIOUS
  <2>1. NF - 1 \in Run(i, n)
    BY <1>1, SizeFacts DEF Run
  <2> QED BY <2>1, <1>1, <1>3
<1>5. Run(i, n) \subseteq Frames
  BY <1>1, <1>4, SizeFacts DEF Run, Frames
<1> QED BY <1>3, <1>5 DEF AllFree

\* Such a run is marked in the database only: nothing behind it is written.
LEMMA NothingBehind ==
  ASSUME MemoryTypes, NEW f, NEW n, Run(f, n) \subseteq Frames, mem' = MarkBehind(f, n)
  PROVE  mem' = mem
<1>1. \A k \in Run(f, n) : ~(NF <= k)
  BY SizeFacts DEF Frames
<1>2. \A t, e : ~Hit(f, n, t, e)
  BY <1>1 DEF Hit
<1>3. mem' = [t \in Frames |-> [e \in Index |-> mem[t][e]]]
  BY <1>2 DEF MarkBehind
<1>4. \A t \in Frames : mem[t] = [e \in Index |-> mem[t][e]]
  BY DEF MemoryTypes
<1> QED BY <1>3, <1>4 DEF MemoryTypes

\* A run that is long enough is marked and handed out, and no memory is written:
\* the invariant holds, and to FramePool it is an allocation.
LEMMA ScanFoundStep ==
  ASSUME IInv, CallerReserves, ScanFound
  PROVE  IInv' /\ [Pool!Next]_Owned /\ UNCHANGED <<mem, pdf>>
<1> DEFINE i == call.i
           n == call.n
<1>0. MemoryInv /\ CallType /\ LoopInRange
  BY DEF IInv, CallInv
<1>1. i \in Frames /\ n \in Nat \ {0} /\ db[i] = PAGE_FREE
  BY <1>0, SizeFacts DEF ScanFound, CallType, LoopInRange, Frames
<1>2. PICK blank \in Blanks : Gap(i, n, blank) = n
  BY DEF ScanFound
<1>3. db' = MarkUsed(i, n) /\ held' = (IF i = 0 THEN held ELSE held \cup Run(i, n))
      /\ mem' = MarkBehind(i, n) /\ pdf' = pdf
  BY DEF ScanFound
<1>4. n \in 1 .. MaxPages
  BY <1>0 DEF ScanFound, LoopInRange
<1> HIDE DEF i, n
<1>5. AllFree(i, n)
  BY <1>0, <1>1, <1>2, RunInside
<1>6. mem' = mem
  <2>1. Run(i, n) \subseteq Frames
    BY <1>5 DEF AllFree
  <2> QED BY <2>1, <1>0, <1>3, NothingBehind DEF MemoryInv
<1>7. MemoryInv' /\ (Owned' = Owned \/ Pool!HandOut(i, n))
  BY <1>0, <1>1, <1>3, <1>5, <1>6, RunHandedOut
<1> QED BY <1>1, <1>3, <1>4, <1>6, <1>7, IdleInv DEF ScanFound, IInv, Pool!Next

\* alloc_physical_pages at a given frame, likewise.
LEMMA AllocAtStep ==
  ASSUME IInv, CallerReserves, NEW f \in Frames, NEW n \in 1 .. MaxPages, AllocAt(f, n)
  PROVE  IInv' /\ [Pool!Next]_Owned
<1>0. MemoryInv /\ CallInv /\ UNCHANGED <<mem, pdf, call>> /\ call.op = "none"
  BY DEF IInv, AllocAt
<1>1. MemoryInv' /\ (Owned' = Owned \/ Pool!HandOut(f, n))
  <2>1. CASE AllFree(f, n)
    BY <2>1, <1>0, RunHandedOut DEF AllocAt
  <2>2. CASE ~AllFree(f, n)
    <3>1. UNCHANGED <<db, mem, pdf, held>>
      BY <2>2, <1>0 DEF AllocAt
    <3> QED BY <3>1, <1>0, MemoryKept DEF Owned, Structure, Tables, TableOf
  <2> QED BY <2>1, <2>2
<1>2. CallInv'
  BY <1>0 DEF CallInv, CallType, NothingSkipped, Scanning, LoopInRange
<1> QED BY <1>1, <1>2 DEF IInv, Pool!Next

\* free_physical_pages gives back what the caller holds.
LEMMA FreePagesStep ==
  ASSUME IInv, NEW f \in Frames, NEW n \in 1 .. MaxPages, FreePages(f, n)
  PROVE  IInv' /\ Pool!Next
<1> DEFINE R == Run(f, n)
<1>0. MemoryInv /\ CallInv /\ UNCHANGED <<mem, pdf, call>> /\ call.op = "none"
  BY DEF IInv, FreePages
<1>1. R \subseteq held \ MappedFrames /\ held' = held \ R
      /\ db' = [k \in Frames |-> IF k \in R THEN PAGE_FREE ELSE db[k]]
  BY DEF FreePages
<1> HIDE DEF R
<1>2. Structure' = Structure /\ MappedFrames' = MappedFrames /\ R \cap Structure = {}
  BY <1>0, <1>1 DEF Structure, Tables, TableOf, MappedFrames, Translation, MemoryInv, OwnersDisjoint
<1>3. Owned' = Owned \ R /\ Owned \subseteq Frames
  BY <1>0, <1>1, <1>2, TableFacts DEF Owned, MemoryInv
<1>4. MemoryTypes'
  BY <1>0, <1>1 DEF MemoryInv, MemoryTypes
<1>5. OwnedFramesMarked' /\ NoFrameLost'
  <2>1. \A k \in Frames : db'[k] = IF k \in R THEN PAGE_FREE ELSE db[k]
    BY <1>1
  <2>2. OwnedFramesMarked'
    BY <1>0, <1>3, <2>1 DEF MemoryInv, OwnedFramesMarked
  <2>3. NoFrameLost'
    BY <1>0, <1>3, <2>1 DEF MemoryInv, NoFrameLost, PAGE_FREE, PAGE_USED
  <2> QED BY <2>2, <2>3
<1>6. OwnersDisjoint'
  <2>1. held' \cap Structure' = {}
    BY <1>0, <1>1, <1>2 DEF MemoryInv, OwnersDisjoint
  <2> QED BY <2>1, <1>0 DEF MemoryInv, OwnersDisjoint, TableOf
<1>7. MappingsOwned'
  <2>1. MappedFrames' \subseteq held'
    BY <1>0, <1>1, <1>2 DEF MemoryInv, MappingsOwned
  <2> QED BY <2>1, <1>0 DEF MemoryInv, MappingsOwned, Translation, TableOf
<1>8. DatabaseMarked' /\ NothingMapped'
  <2>1. R \cap Reserved = {}
    BY <1>0, <1>1 DEF MemoryInv, OwnedFramesMarked, Owned
  <2> QED BY <2>1, <1>0, <1>1, SizeFacts DEF MemoryInv, DatabaseMarked, NothingMapped
<1>9. MemoryInv'
  BY <1>4, <1>5, <1>6, <1>7, <1>8 DEF MemoryInv
<1>10. CallInv'
  BY <1>0 DEF CallInv, CallType, NothingSkipped, Scanning, LoopInRange
<1>11. Pool!TakeBackRun(f, n)
  <2>1. R \subseteq Owned
    BY <1>1 DEF Owned
  <2> QED BY <2>1, <1>3 DEF Pool!TakeBackRun, R, Run
<1> QED BY <1>9, <1>10, <1>11 DEF IInv, Pool!Next

-----------------------------------------------------------------------------
(* The directory *)

\* set_page_dir finds no page table, and leaves no page mapped.
LEMMA DirectorySet ==
  ASSUME MemoryInv, NEW f \in Frames, SetPageDir(f)
  PROVE  /\ f # 0 /\ mem' \in [Frames -> [Index -> Frames]]
         /\ \A d \in Index : TableOf(d) = 0 /\ TableOf(d)' = IF d = Self THEN f ELSE 0
         /\ \A v \in UserPages : Translation(v) = 0 /\ Translation(v)' = 0
         /\ Structure = {} /\ Structure' = {f}
<1>1. /\ pdf = 0 /\ f \in held /\ pdf' = f /\ f # 0
      /\ mem' = [mem EXCEPT ![f][Self] = f]
  BY OwnedFacts DEF SetPageDir
<1>2. mem \in [Frames -> [Index -> Frames]] /\ \A e \in Index : mem[f][e] = 0
  BY <1>1 DEF MemoryInv, MemoryTypes, NothingMapped
<1>3. /\ mem' \in [Frames -> [Index -> Frames]]
      /\ \A e \in Index : mem'[f][e] = IF e = Self THEN f ELSE 0
  BY <1>1, <1>2, SizeFacts
<1>4. \A d \in Index : TableOf(d) = 0 /\ TableOf(d)' = IF d = Self THEN f ELSE 0
  BY <1>1, <1>3 DEF TableOf
<1>5. \A v \in UserPages : Translation(v) = 0 /\ Translation(v)' = 0
  <2>1. \A v \in UserPages : v[1] \in Index /\ v[1] # Self
    BY DEF UserPages, VPages
  <2> QED BY <2>1, <1>4 DEF Translation
<1>6. Structure = {} /\ Structure' = {f}
  <2>1. \A k : k \in Structure' <=> (\E d \in Index : k = TableOf(d)' /\ k # 0) \/ (k = f /\ k # 0)
    BY <1>1 DEF Structure, Tables
  <2>2. \A k : k \in Structure <=> (\E d \in Index : k = TableOf(d) /\ k # 0) \/ (k = pdf /\ k # 0)
    BY DEF Structure, Tables
  <2> QED BY <2>1, <2>2, <1>1, <1>4
<1> QED BY <1>1, <1>3, <1>4, <1>5, <1>6

\* set_page_dir turns a held frame into the directory, with its self-map.
LEMMA SetPageDirStep ==
  ASSUME IInv, NEW f \in Frames, SetPageDir(f)
  PROVE  IInv' /\ Owned' = Owned
<1>0. /\ MemoryInv /\ CallInv /\ call.op = "none" /\ f \in held
      /\ pdf' = f /\ held' = held \ {f} /\ UNCHANGED <<db, call>>
  BY DEF IInv, SetPageDir
<1>1. /\ f # 0 /\ mem' \in [Frames -> [Index -> Frames]]
      /\ \A d \in Index : TableOf(d)' = IF d = Self THEN f ELSE 0
      /\ \A v \in UserPages : Translation(v)' = 0
      /\ Structure = {} /\ Structure' = {f}
  BY <1>0, DirectorySet
<1>2. Owned' = Owned
  BY <1>0, <1>1 DEF Owned
<1>3. MemoryTypes'
  BY <1>0, <1>1 DEF MemoryInv, MemoryTypes
<1>4. OwnedFramesMarked' /\ NoFrameLost' /\ DatabaseMarked' /\ NothingMapped'
  BY <1>0, <1>1, <1>2
     DEF MemoryInv, OwnedFramesMarked, NoFrameLost, DatabaseMarked, NothingMapped
<1>5. OwnersDisjoint'
  BY <1>0, <1>1, SizeFacts DEF OwnersDisjoint
<1>6. MappingsOwned'
  <2>1. MappedFrames' = {}
    BY <1>1 DEF MappedFrames
  <2> QED BY <2>1, <1>1 DEF MappingsOwned
<1>7. MemoryInv'
  BY <1>3, <1>4, <1>5, <1>6 DEF MemoryInv
<1>8. CallInv'
  BY <1>0 DEF CallInv, CallType, NothingSkipped, Scanning, LoopInRange
<1> QED BY <1>2, <1>7, <1>8 DEF IInv

-----------------------------------------------------------------------------
(* The loops over pages *)

\* The calls that only begin a loop, turn to the scan or give up.
LEMMA MapPagesStep ==
  ASSUME IInv, NEW f \in Frames, NEW v \in UserPages, NEW n \in 1 .. MaxPages, MapPages(f, v, n)
  PROVE  IInv'
<1>1. MemoryInv' /\ UNCHANGED <<db, mem, pdf, held>>
  BY MemoryKept DEF IInv, MapPages
<1>2. /\ call' = [op |-> "map", i |-> 0, n |-> n, gpa |-> f, gva |-> v]
      /\ pdf # 0 /\ InRange(v, n) /\ Run(f, n) \subseteq held \ MappedFrames
  BY DEF MapPages
<1>3. CallType'
  BY <1>2, SizeFacts DEF CallType, Ops, UserPages, VPages, Frames, Index
<1>4. NothingSkipped'
  BY <1>2 DEF NothingSkipped, Scanning
<1>5. LoopInRange'
  BY <1>1, <1>2 DEF LoopInRange, MappedFrames, Translation, TableOf
<1> QED BY <1>1, <1>3, <1>4, <1>5 DEF IInv, CallInv

\* Entering unmap_pages keeps the invariant.
LEMMA UnmapPagesStep ==
  ASSUME IInv, NEW v \in UserPages, NEW n \in 1 .. MaxPages, UnmapPages(v, n)
  PROVE  IInv'
<1>1. MemoryInv' /\ UNCHANGED <<db, mem, pdf, held>>
  BY MemoryKept DEF IInv, UnmapPages
<1>2. /\ call' = [op |-> "unmap", i |-> 0, n |-> n, gpa |-> 0, gva |-> v]
      /\ pdf # 0 /\ InRange(v, n)
  BY DEF UnmapPages, Idle
<1>3. CallType'
  BY <1>2, SizeFacts DEF CallType, Ops, UserPages, VPages, Index
<1>4. NothingSkipped'
  BY <1>2 DEF NothingSkipped, Scanning
<1>5. LoopInRange'
  BY <1>1, <1>2 DEF LoopInRange
<1> QED BY <1>1, <1>3, <1>4, <1>5 DEF IInv, CallInv

\* map_pages without a table for the page starts the scan for one frame.
LEMMA MapNeedsTableStep ==
  ASSUME IInv, MapNeedsTable
  PROVE  IInv'
<1>0. CallType /\ LoopInRange
  BY DEF IInv, CallInv
<1>1. MemoryInv' /\ UNCHANGED <<db, mem, pdf, held>>
  BY MemoryKept DEF IInv, MapNeedsTable
<1>2. /\ call.op = "map" /\ TableOf(call.gva[1]) = 0
      /\ call' = [call EXCEPT !.op = "table", !.i = 0]
  BY DEF MapNeedsTable
<1>3. /\ CallType' /\ call'.op = "table" /\ call'.i = 0 /\ call'.n = call.n
      /\ call'.gpa = call.gpa /\ call'.gva = call.gva
  <2>1. call' = [op |-> "table", i |-> 0, n |-> call.n, gpa |-> call.gpa, gva |-> call.gva]
    BY <1>0, <1>2 DEF CallType
  <2> QED BY <2>1, <1>0, SizeFacts DEF CallType, Ops
<1>4. NothingSkipped'
  BY <1>3 DEF NothingSkipped
<1>5. LoopInRange'
  BY <1>0, <1>1, <1>2, <1>3 DEF LoopInRange, MappedFrames, Translation, TableOf
<1> QED BY <1>1, <1>3, <1>4, <1>5 DEF IInv, CallInv

\* A scan that finds nothing, and unmap_pages without a table, end the call.
LEMMA GivingUpStep ==
  ASSUME IInv, ScanFail \/ UnmapNoTable
  PROVE  IInv'
<1>1. call' = Idle /\ UNCHANGED <<db, mem, pdf, held>>
  BY DEF ScanFail, UnmapNoTable
<1>2. MemoryInv'
  BY <1>1, MemoryKept DEF IInv
<1>3. CallInv'
  BY <1>1, IdleInv
<1> QED BY <1>2, <1>3 DEF IInv

\* The page a loop is at.
LEMMA CurrentPage ==
  ASSUME CallType, LoopInRange, call.op \in {"map", "table", "unmap"}
  PROVE  /\ call.n \in 1 .. MaxPages /\ call.gva \in UserPages /\ call.gva[1] \in Index \ {Self}
         /\ call.n # 1 => /\ NextPage(call.gva) \in (0 .. EPT) \X Index
                          /\ InRange(NextPage(call.gva), call.n - 1)
<1>1. call.gva \in (0 .. EPT) \X Index /\ call.n \in 1 .. MaxPages /\ InRange(call.gva, call.n)
  BY DEF CallType, LoopInRange
<1>2. call.n \in Nat \ {0}
  BY <1>1, SizeFacts
<1> QED BY <1>1, <1>2, RangeOfPages

\* A frame that is entered for the current page leaves the rest of the run to
\* the rest of the loop.
LEMMA AdvanceInv ==
  ASSUME MemoryTypes, CallType, LoopInRange, call.op \in {"map", "table"}, call' = Advance,
         held' = held, pdf' = pdf, MappedFrames' \subseteq MappedFrames \cup {call.gpa}
  PROVE  CallInv'
<1>1. CASE call.n = 1
  BY <1>1, IdleInv DEF Advance
<1>2. CASE call.n # 1
  <2>1. call.n - 1 \in 1 .. MaxPages
    BY <1>2, CurrentPage, SizeFacts
  <2>2. call' = [call EXCEPT !.op = "map", !.i = 0, !.n = call.n - 1, !.gpa = call.gpa + 1,
                             !.gva = NextPage(call.gva)]
    BY <1>2 DEF Advance
  <2>3. Run(call.gpa, call.n) \subseteq held \ MappedFrames /\ call.gpa \in Nat /\ call.n \in Nat
    BY <2>1, SizeFacts DEF LoopInRange, CallType
  <2>4. Run(call.gpa + 1, call.n - 1) \subseteq Run(call.gpa, call.n) \ {call.gpa}
    BY <2>1, <2>3 DEF Run
  <2>5. call.gpa + 1 \in 0 .. NF + MaxPages
    <3>1. call.gpa \in Run(call.gpa, call.n)
      BY <2>1, <2>3, CurrentPage DEF Run
    <3>2. call.gpa \in Frames
      BY <3>1, <2>3 DEF MemoryTypes
    <3> QED BY <3>2, SizeFacts DEF Frames
  <2>6. /\ CallType' /\ call'.op = "map" /\ call'.n = call.n - 1 /\ call'.gpa = call.gpa + 1
        /\ call'.gva = NextPage(call.gva)
    <3> DEFINE next == NextPage(call.gva)
               left == call.n - 1
               frame == call.gpa + 1
    <3>1. next \in (0 .. EPT) \X Index /\ left \in 0 .. MaxPages /\ frame \in 0 .. NF + MaxPages
      BY <1>2, <2>1, <2>5, CurrentPage, SizeFacts
    <3>2. call' = [call EXCEPT !.op = "map", !.i = 0, !.n = left, !.gpa = frame, !.gva = next]
      BY <2>2
    <3> HIDE DEF next, left, frame
    <3>3. call' = [op |-> "map", i |-> 0, n |-> left, gpa |-> frame, gva |-> next]
      BY <3>2 DEF CallType
    <3>4. CallType'
      BY <3>1, <3>3, SizeFacts DEF CallType, Ops
    <3> QED BY <3>3, <3>4 DEF next, left, frame
  <2>7. NothingSkipped'
    BY <2>6 DEF NothingSkipped, Scanning
  <2>8. LoopInRange'
    <3>1. pdf' # 0 /\ InRange(call'.gva, call'.n)
      BY <1>2, <2>6, CurrentPage DEF LoopInRange
    <3>2. Run(call'.gpa, call'.n) \subseteq held' \ MappedFrames'
      BY <2>3, <2>4, <2>6
    <3> QED BY <3>1, <3>2, <2>1, <2>6 DEF LoopInRange
  <2> QED BY <2>6, <2>7, <2>8 DEF CallInv
<1> QED BY <1>1, <1>2

\* The page a loop is at is the only one a step translates differently.
OthersKept == \A v \in UserPages \ {call.gva} : Translation(v)' = Translation(v)

\* A frame of the caller's that was mapped nowhere may be mapped at any page.
LEMMA FrameMapped ==
  ASSUME MemoryInv, NEW w \in UserPages, NEW f \in held \ MappedFrames, held' = held,
         \A v \in UserPages : Translation(v)' = IF v = w THEN f ELSE Translation(v)
  PROVE  MappingsOwned' /\ MappedFrames' \subseteq MappedFrames \cup {f}
<1>1. \A v \in UserPages : Translation(v) # 0 => Translation(v) \in MappedFrames
  BY TableFacts DEF MemoryInv
<1>2. MappedFrames' \subseteq MappedFrames \cup {f}
  BY <1>1 DEF MappedFrames
<1>3. MappedFrames' \subseteq held'
  BY <1>2 DEF MemoryInv, MappingsOwned
<1>4. \A v, u \in UserPages : Translation(v)' # 0 /\ Translation(v)' = Translation(u)' => v = u
  BY <1>1 DEF MemoryInv, MappingsOwned
<1> QED BY <1>2, <1>3, <1>4 DEF MappingsOwned

\* An iteration of the map loop that finds a page table: the frame entered is
\* the caller's and was mapped nowhere.
LEMMA MapPageStep ==
  ASSUME IInv, MapPage
  PROVE  IInv' /\ Owned' = Owned /\ OthersKept
<1> DEFINE w == call.gva
           f == call.gpa
<1>0. /\ MemoryInv /\ MemoryTypes /\ CallType /\ LoopInRange /\ call.op = "map"
      /\ TableOf(w[1]) # 0 /\ mem' = [mem EXCEPT ![TableOf(w[1])][w[2]] = f]
      /\ call' = Advance /\ UNCHANGED <<db, pdf, held>>
  BY DEF IInv, MemoryInv, CallInv, MapPage
<1>1. w \in UserPages /\ pdf # 0 /\ call.n \in Nat \ {0}
  BY <1>0, CurrentPage, SizeFacts DEF LoopInRange
<1>2. f \in held \ MappedFrames /\ f \in Frames
  <2>1. f \in Run(f, call.n)
    BY <1>0, <1>1 DEF Run, CallType
  <2> QED BY <2>1, <1>0 DEF LoopInRange, MemoryTypes
<1> HIDE DEF w, f
<1>3. /\ \A d \in Index : TableOf(d)' = TableOf(d)
      /\ \A v \in UserPages : Translation(v)' = IF v = w THEN f ELSE Translation(v)
      /\ Structure' = Structure
      /\ mem' \in [Frames -> [Index -> Frames]]
  BY <1>0, <1>1, <1>2, EntryWritten
<1>4. MappingsOwned' /\ MappedFrames' \subseteq MappedFrames \cup {f}
  BY <1>0, <1>1, <1>2, <1>3, FrameMapped
<1>5. Owned' = Owned
  BY <1>0, <1>3 DEF Owned
<1>6. MemoryInv'
  <2>1. MemoryTypes'
    BY <1>0, <1>3 DEF MemoryTypes
  <2>2. OwnedFramesMarked' /\ NoFrameLost' /\ DatabaseMarked' /\ NothingMapped'
    BY <1>0, <1>1, <1>5
       DEF MemoryInv, OwnedFramesMarked, NoFrameLost, DatabaseMarked, NothingMapped
  <2>3. OwnersDisjoint'
    BY <1>0, <1>3, SizeFacts DEF MemoryInv, OwnersDisjoint
  <2> QED BY <2>1, <2>2, <2>3, <1>4 DEF MemoryInv
<1>7. CallInv'
  BY <1>0, <1>4, AdvanceInv DEF f
<1> QED BY <1>3, <1>5, <1>6, <1>7 DEF IInv, OthersKept, w

\* The scan for a page table ends: at frame 0 map_pages fails, and elsewhere
\* the new table has a frame of its own.
LEMMA TableFoundStep ==
  ASSUME IInv, CallerReserves, TableFound
  PROVE  /\ IInv' /\ OthersKept
         /\ Owned' = Owned \/ \E t \in Frames \ (Owned \cup Reserved) : Owned' = Owned \cup {t}
<1> DEFINE w == call.gva
           f == call.gpa
           t == call.i
<1>0. /\ MemoryInv /\ MemoryTypes /\ CallType /\ LoopInRange /\ call.op = "table"
      /\ t < NF /\ db[t] = PAGE_FREE /\ db' = MarkUsed(t, 1) /\ UNCHANGED <<pdf, held>>
      /\ t = 0 => call' = Idle /\ mem' = mem
      /\ t # 0 => /\ mem' = [mem EXCEPT ![t] = [ZeroTable(t) EXCEPT ![w[2]] = f],
                                        ![pdf][w[1]] = t]
                  /\ call' = Advance
  BY DEF IInv, MemoryInv, CallInv, TableFound
<1>1. w \in UserPages /\ pdf # 0 /\ call.n \in Nat \ {0} /\ TableOf(w[1]) = 0
  BY <1>0, CurrentPage, SizeFacts DEF LoopInRange
<1>2. f \in held \ MappedFrames /\ f \in Frames
  <2>1. f \in Run(f, call.n)
    BY <1>0, <1>1 DEF Run, CallType
  <2> QED BY <2>1, <1>0 DEF LoopInRange, MemoryTypes
<1>3. t \in Frames /\ t \notin Owned /\ (t # 0 => t \notin Reserved)
  <2>1. t \in Frames
    BY <1>0, SizeFacts DEF CallType, Frames
  <2> QED BY <2>1, <1>0, OwnedFacts
<1> HIDE DEF w, f, t
<1>4. \A k \in Frames : db'[k] = IF k = t THEN PAGE_USED ELSE db[k]
  <2>1. Run(t, 1) = {t}
    BY <1>3, SizeFacts DEF Run
  <2> QED BY <2>1, <1>0 DEF MarkUsed
<1>5. CASE t = 0
  <2>1. call' = Idle /\ mem' = mem
    BY <1>0, <1>5
  <2>2. MemoryInv'
    <3>1. AllFree(0, 1) /\ db' = MarkUsed(0, 1)
      BY <1>0, <1>5, SizeFacts DEF Run, AllFree
    <3> QED BY <3>1, <1>0, <2>1, SizeFacts, RunHandedOut
  <2>3. OthersKept /\ Owned' = Owned
    BY <2>1, <1>0 DEF OthersKept, Translation, Owned, Structure, Tables, TableOf
  <2> QED BY <2>1, <2>2, <2>3, IdleInv DEF IInv
<1>6. CASE t # 0
  <2>1. /\ \A d \in Index : TableOf(d)' = IF d = w[1] THEN t ELSE TableOf(d)
        /\ \A v \in UserPages : Translation(v)' = IF v = w THEN f ELSE Translation(v)
        /\ Structure' = Structure \cup {t}
        /\ mem' \in [Frames -> [Index -> Frames]]
    BY <1>0, <1>1, <1>2, <1>3, <1>6, TableEntered
  <2>2. MappingsOwned' /\ MappedFrames' \subseteq MappedFrames \cup {f}
    BY <1>0, <1>1, <1>2, <2>1, FrameMapped
  <2>3. Owned' = Owned \cup {t} /\ Owned \subseteq Frames
    BY <1>0, <2>1, TableFacts DEF Owned
  <2>4. MemoryTypes'
    BY <1>0, <2>1 DEF MemoryTypes, MarkUsed
  <2>5. OwnedFramesMarked' /\ NoFrameLost' /\ DatabaseMarked' /\ NothingMapped'
    <3>1. OwnedFramesMarked'
      BY <1>0, <1>3, <1>4, <1>6, <2>3 DEF MemoryInv, OwnedFramesMarked
    <3>2. NoFrameLost'
      BY <1>0, <1>4, <2>3 DEF MemoryInv, NoFrameLost
    <3>3. DatabaseMarked' /\ NothingMapped'
      BY <1>0, <1>1, <1>4, SizeFacts DEF MemoryInv, DatabaseMarked, NothingMapped
    <3> QED BY <3>1, <3>2, <3>3
  <2>6. OwnersDisjoint'
    <3>1. w[1] \in Index \ {Self}
      BY <1>1 DEF UserPages, VPages
    <3>2. \A d \in Index : TableOf(d) # t
      BY <1>0, <1>3, <1>6, TableFacts DEF Owned
    <3>3. held' \cap Structure' = {}
      BY <1>0, <1>3, <2>1 DEF MemoryInv, OwnersDisjoint, Owned
    <3>4. \A d1, d2 \in Index : TableOf(d1)' # 0 /\ TableOf(d1)' = TableOf(d2)' => d1 = d2
      BY <1>0, <2>1, <3>2 DEF MemoryInv, OwnersDisjoint
    <3>5. TableOf(Self)' = pdf'
      BY <1>0, <1>1, <2>1, <3>1, SizeFacts DEF MemoryInv, OwnersDisjoint
    <3> QED BY <3>3, <3>4, <3>5 DEF OwnersDisjoint
  <2>7. MemoryInv'
    BY <2>2, <2>4, <2>5, <2>6 DEF MemoryInv
  <2>8. CallInv'
    BY <1>0, <1>6, <2>2, AdvanceInv DEF f
  <2>9. OthersKept
    BY <2>1 DEF OthersKept, w
  <2>10. t \in Frames \ (Owned \cup Reserved)
    BY <1>3, <1>6
  <2> QED BY <2>3, <2>7, <2>8, <2>9, <2>10 DEF IInv
<1> QED BY <1>5, <1>6

\* An iteration of the unmap loop gives one frame back, frame 0 if the page had
\* none, and leaves its page without a frame.
LEMMA UnmapPageStep ==
  ASSUME IInv, UnmapPage
  PROVE  /\ IInv' /\ OthersKept
         /\ Owned' = Owned \/ \E f \in Owned : Owned' = Owned \ {f}
<1> DEFINE w == call.gva
           f == Translation(w)
<1>0. /\ MemoryInv /\ MemoryTypes /\ CallType /\ LoopInRange /\ call.op = "unmap"
      /\ TableOf(w[1]) # 0 /\ mem' = [mem EXCEPT ![TableOf(w[1])][w[2]] = 0]
      /\ db' = [db EXCEPT ![f] = PAGE_FREE] /\ held' = held \ {f} /\ pdf' = pdf
  BY DEF IInv, MemoryInv, CallInv, UnmapPage
<1>1. w \in UserPages /\ pdf # 0 /\ call.n \in Nat \ {0}
  BY <1>0, CurrentPage, SizeFacts DEF LoopInRange
<1>2. f \in Frames /\ f \notin Structure /\ (f # 0 => f \in held)
  <2>1. f \in Frames /\ (f # 0 => f \in MappedFrames)
    BY <1>0, <1>1, TableFacts DEF UserPages
  <2>2. f # 0 => f \in held
    BY <2>1, <1>0 DEF MemoryInv, MappingsOwned
  <2> QED BY <2>1, <2>2, <1>0, OwnedFacts DEF MemoryInv, OwnersDisjoint
<1>3. f = Translation(w)
  OBVIOUS
<1> HIDE DEF w, f
<1>4. /\ \A d \in Index : TableOf(d)' = TableOf(d)
      /\ \A v \in UserPages : Translation(v)' = IF v = w THEN 0 ELSE Translation(v)
      /\ Structure' = Structure
      /\ mem' \in [Frames -> [Index -> Frames]]
  BY <1>0, <1>1, SizeFacts, EntryWritten
<1>5. Owned' = Owned \ {f} /\ Owned \subseteq Frames /\ (f # 0 => f \in Owned)
  BY <1>0, <1>2, <1>4, TableFacts DEF Owned
<1>6. \A k \in Frames : db'[k] = IF k = f THEN PAGE_FREE ELSE db[k]
  BY <1>0, <1>2 DEF MemoryTypes
<1>7. MemoryInv'
  <2>1. MemoryTypes'
    BY <1>0, <1>2, <1>4 DEF MemoryTypes, PAGE_FREE
  <2>2. OwnedFramesMarked'
    BY <1>0, <1>5, <1>6 DEF MemoryInv, OwnedFramesMarked
  <2>3. NoFrameLost'
    BY <1>0, <1>5, <1>6 DEF MemoryInv, NoFrameLost, PAGE_FREE, PAGE_USED
  <2>4. DatabaseMarked' /\ NothingMapped'
    <3>1. f \notin Reserved \ {0}
      BY <1>0, <1>5 DEF MemoryInv, OwnedFramesMarked
    <3> QED BY <3>1, <1>0, <1>1, <1>6, SizeFacts DEF MemoryInv, DatabaseMarked, NothingMapped
  <2>5. OwnersDisjoint'
    BY <1>0, <1>4, SizeFacts DEF MemoryInv, OwnersDisjoint
  <2>6. MappingsOwned'
    <3>1. MappedFrames' \subseteq MappedFrames \ {f}
      <4>1. ASSUME NEW v \in UserPages, Translation(v)' # 0
            PROVE  Translation(v) \in MappedFrames /\ Translation(v)' = Translation(v)
                   /\ Translation(v) # f
        BY <4>1, <1>0, <1>1, <1>3, <1>4, TableFacts DEF MemoryInv, MappingsOwned
      <4> QED BY <4>1 DEF MappedFrames
    <3>2. MappedFrames' \subseteq held'
      BY <3>1, <1>0 DEF MemoryInv, MappingsOwned
    <3>3. \A v, u \in UserPages : Translation(v)' # 0 /\ Translation(v)' = Translation(u)' => v = u
      BY <1>0, <1>4 DEF MemoryInv, MappingsOwned
    <3> QED BY <3>2, <3>3 DEF MappingsOwned
  <2> QED BY <2>1, <2>2, <2>3, <2>4, <2>5, <2>6 DEF MemoryInv
<1>8. CallInv'
  <2>1. CASE call.n = 1
    BY <2>1, IdleInv DEF UnmapPage
  <2>2. CASE call.n # 1
    <3> DEFINE next == NextPage(call.gva)
               left == call.n - 1
    <3>1. next \in (0 .. EPT) \X Index /\ left \in 1 .. MaxPages /\ InRange(next, left)
      BY <2>2, <1>0, CurrentPage, SizeFacts
    <3>2. call' = [call EXCEPT !.n = left, !.gva = next]
      BY <2>2 DEF UnmapPage
    <3> HIDE DEF next, left
    <3>3. call' = [op |-> "unmap", i |-> call.i, n |-> left, gpa |-> call.gpa, gva |-> next]
      BY <3>2, <1>0 DEF CallType
    <3>4. CallType' /\ call'.op = "unmap" /\ call'.n = left /\ call'.gva = next
      BY <3>1, <3>3, <1>0, SizeFacts DEF CallType, Ops
    <3>5. NothingSkipped'
      BY <3>4 DEF NothingSkipped, Scanning
    <3>6. LoopInRange'
      BY <3>1, <3>4, <1>0, <1>1 DEF LoopInRange
    <3> QED BY <3>4, <3>5, <3>6 DEF CallInv
  <2> QED BY <2>1, <2>2
<1>9. OthersKept
  BY <1>4 DEF OthersKept, w
<1>10. Owned' = Owned \/ f \in Owned
  BY <1>2, <1>5, <1>0, OwnedFacts DEF Owned
<1> QED BY <1>5, <1>7, <1>8, <1>9, <1>10 DEF IInv

-----------------------------------------------------------------------------
(* The invariant *)

\* A virtual machine whose caller reserves those frames first begins well.
LEMMA InitInv ==
  ASSUME Init, CallerReserves
  PROVE  IInv
<1>1. MemoryTypes /\ held = {} /\ pdf = 0 /\ call = Idle
  BY SizeFacts DEF Init, MemoryTypes, PAGE_FREE, PAGE_USED
<1>2. /\ \A d \in Index : TableOf(d) = 0
      /\ \A v \in UserPages : Translation(v) = 0
      /\ Structure = {} /\ Owned = {} /\ MappedFrames = {}
  BY <1>1 DEF TableOf, Translation, UserPages, VPages, Structure, Tables, Owned, MappedFrames
<1>3. OwnedFramesMarked /\ OwnersDisjoint /\ MappingsOwned
  BY <1>1, <1>2 DEF OwnedFramesMarked, OwnersDisjoint, MappingsOwned
<1>4. NoFrameLost /\ DatabaseMarked /\ NothingMapped
  BY SizeFacts DEF Init, CallerReserves, DbFrames, NoFrameLost, DatabaseMarked, NothingMapped,
                   PAGE_FREE, PAGE_USED
<1>5. CallType
  BY <1>1, SizeFacts DEF CallType, Idle, Ops
<1>6. NothingSkipped /\ LoopInRange
  BY <1>1 DEF NothingSkipped, Scanning, LoopInRange, Idle
<1> QED BY <1>1, <1>3, <1>4, <1>5, <1>6 DEF IInv, MemoryInv, CallInv

\* Every step of the allocator and of the page-table editor preserves it.
LEMMA StepInv ==
  ASSUME IInv, CallerReserves, [Next]_vars
  PROVE  IInv'
<1>1. ASSUME UNCHANGED vars PROVE IInv'
  <2>1. MemoryInv' /\ UNCHANGED <<db, mem, pdf, held, call>>
    BY <1>1, MemoryKept DEF IInv, vars
  <2>2. CallInv'
    BY <2>1 DEF IInv, CallInv, CallType, NothingSkipped, Scanning, Wanted, AllFree, LoopInRange,
                MappedFrames, Translation, TableOf
  <2> QED BY <2>1, <2>2 DEF IInv
<1>2. ASSUME Progress PROVE IInv'
  BY <1>2, ScanUsedStep, ScanGapStep, ScanFoundStep, GivingUpStep, MapPageStep, MapNeedsTableStep,
     TableFoundStep, UnmapPageStep DEF Progress
<1>3. ASSUME Caller PROVE IInv'
  <2>1. ASSUME NEW n \in 1 .. MaxPages, AllocPages(n) PROVE IInv'
    BY <2>1, AllocPagesStep
  <2>2. ASSUME NEW n \in 1 .. MaxPages, NEW f \in Frames, AllocAt(f, n) PROVE IInv'
    BY <2>2, AllocAtStep
  <2>3. ASSUME NEW n \in 1 .. MaxPages, NEW f \in Frames, FreePages(f, n) PROVE IInv'
    BY <2>3, FreePagesStep
  <2>4. ASSUME NEW n \in 1 .. MaxPages, NEW v \in UserPages, UnmapPages(v, n) PROVE IInv'
    BY <2>4, UnmapPagesStep
  <2>5. ASSUME NEW n \in 1 .. MaxPages, NEW v \in UserPages, NEW f \in Frames, MapPages(f, v, n)
        PROVE  IInv'
    BY <2>5, MapPagesStep
  <2>6. ASSUME NEW f \in Frames, SetPageDir(f) PROVE IInv'
    BY <2>6, SetPageDirStep
  <2> QED BY <1>3, <2>1, <2>2, <2>3, <2>4, <2>5, <2>6 DEF Caller
<1> QED BY <1>1, <1>2, <1>3 DEF Next

\* Where the caller reserves the frames of the database and the last, the owners of frames
\* stay apart and marked, no frame is lost, the mappings are the caller's and
\* the scan skips no run.
THEOREM Invariant ==
  ASSUME CallerReserves
  PROVE  Spec => []IInv
<1>1. Init => IInv
  BY InitInv
<1>2. IInv /\ [Next]_vars => IInv'
  BY StepInv
<1> QED BY <1>1, <1>2, PTL DEF Spec

-----------------------------------------------------------------------------
(* What a step may do *)

\* No step of any call disturbs a mapping but that of the page its loop is at:
\* entering a page table, and zeroing it, leaves every other page alone.
LEMMA RemapsOne ==
  ASSUME IInv, CallerReserves, [Next]_vars
  PROVE  OthersKept
<1>1. ASSUME UNCHANGED <<mem, pdf>> PROVE OthersKept
  BY <1>1 DEF OthersKept, Translation, TableOf
<1>2. ASSUME NEW f \in Frames, SetPageDir(f) PROVE OthersKept
  BY <1>2, DirectorySet DEF OthersKept, IInv
<1>3. ASSUME Progress PROVE OthersKept
  BY <1>1, <1>3, ScanFoundStep, MapPageStep, TableFoundStep, UnmapPageStep
     DEF Progress, ScanUsed, ScanGap, ScanFail, MapNeedsTable, UnmapNoTable
<1>4. ASSUME Caller PROVE OthersKept
  BY <1>1, <1>2, <1>4 DEF Caller, AllocPages, AllocAt, FreePages, UnmapPages, MapPages
<1> QED BY <1>1, <1>3, <1>4 DEF Next, vars

\* A step changes the translation of no user page but the one its call is at
\* (map_pages and unmap_pages, HAXM_VM.h).
THEOREM RemapsOnlyCurrentPage ==
  ASSUME CallerReserves
  PROVE  Spec => OnlyCurrentPageRemapped
<1>1. IInv /\ [Next]_vars
        => [\A v \in UserPages : v # call.gva => Translation(v)' = Translation(v)]_vars
  BY RemapsOne DEF OthersKept
<1> QED BY <1>1, Invariant, PTL DEF Spec, OnlyCurrentPageRemapped

\* Ownership changes only as a frame pool's does: page tables are handed out
\* like the caller's frames, and unmap_pages takes back what it frees.
LEMMA PoolStep ==
  ASSUME IInv, CallerReserves, [Next]_vars
  PROVE  [Pool!Next]_Owned
<1>1. ASSUME UNCHANGED <<mem, pdf, held>> PROVE Owned' = Owned
  BY <1>1 DEF Owned, Structure, Tables, TableOf
<1>2. ASSUME TableFound PROVE [Pool!Next]_Owned
  <2>1. CASE Owned' = Owned
    BY <2>1
  <2>2. ASSUME NEW t \in Frames \ (Owned \cup Reserved), Owned' = Owned \cup {t}
        PROVE  Pool!HandOut(t, 1)
    <3>1. t .. t + 1 - 1 = {t}
      BY SizeFacts
    <3> QED BY <2>2, <3>1 DEF Pool!HandOut
  <2>3. 1 \in 1 .. MaxPages
    BY SizeFacts
  <2> QED BY <1>2, <2>1, <2>2, <2>3, TableFoundStep DEF Pool!Next
<1>3. ASSUME UnmapPage PROVE [Pool!Next]_Owned
  <2>1. Owned \subseteq Frames
    BY TableFacts DEF IInv, MemoryInv
  <2> QED BY <1>3, <2>1, UnmapPageStep DEF Pool!Next, Pool!TakeBack
<1>4. ASSUME Progress PROVE [Pool!Next]_Owned
  BY <1>1, <1>2, <1>3, <1>4, ScanFoundStep, MapPageStep
     DEF Progress, ScanUsed, ScanGap, ScanFail, MapNeedsTable, UnmapNoTable
<1>5. ASSUME Caller PROVE [Pool!Next]_Owned
  BY <1>1, <1>5, AllocAtStep, FreePagesStep, SetPageDirStep
     DEF Caller, AllocPages, UnmapPages, MapPages
<1> QED BY <1>1, <1>4, <1>5 DEF Next, vars

\* The database, the tables and the callers together are a pool of frames: each
\* step takes free frames or gives owned ones back, or neither.
THEOREM FramesArePool ==
  ASSUME CallerReserves
  PROVE  Spec => ImplementsFramePool
<1>1. Init => Owned = {}
  BY DEF Init, Owned, Structure, Tables, TableOf
<1>2. IInv /\ [Next]_vars => [Pool!Next]_Owned
  BY PoolStep
<1> QED BY <1>1, <1>2, Invariant, PTL DEF Spec, ImplementsFramePool, Pool!Spec, Pool!Init
===============================================================================
