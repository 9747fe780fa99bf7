--------------------------- MODULE CpuStateProofs ---------------------------
(***************************************************************************)
(* Lemmas about the state of the emulated CPU.                             *)
(*                                                                         *)
(* Page walks and the TLB, for every guest whose tables lie in its memory: *)
(* what is cached is what a walk finds, through register writes, marks,    *)
(* INVLPG and writes to the tables.                                        *)
(*                                                                         *)
(* The CPU's mode, for every system software, handler and hypervisor:      *)
(* hflags follows the registers through everything that changes them, and  *)
(* what SMM, a nested machine and KVM give back is what was left.  Every   *)
(* helper gets a lemma that says which fields and which hidden flags it    *)
(* alters; ModesInv is inductive.                                          *)
(***************************************************************************)
EXTENDS MmuHelper, GuestModes, FiniteSetTheorems, FunctionTheorems, TLAPS

-----------------------------------------------------------------------------
(* The path of a walk *)

\* The recursive function that Path cuts its sequence from.
Climb(e, m, page) ==
  CHOOSE loc : loc = [l \in 1 .. Levels(e) |->
        <<Mask(e, IF l = Levels(e) THEN e.cr3 ELSE m[loc[l + 1]].to), page[5 - l]>>]

\* There is a walk of 2, of 3 and of 4 levels.
LEMMA ClimbUnfolds ==
  ASSUME NEW e, NEW m, NEW page
  PROVE  Climb(e, m, page) =
           [l \in 1 .. Levels(e) |->
              <<Mask(e, IF l = Levels(e) THEN e.cr3 ELSE m[Climb(e, m, page)[l + 1]].to),
                page[5 - l]>>]
<1> DEFINE At(frame, l) == <<Mask(e, frame), page[5 - l]>>
           Is(loc) == loc = [l \in 1 .. Levels(e) |->
                               At(IF l = Levels(e) THEN e.cr3 ELSE m[loc[l + 1]].to, l)]
<1>1. Levels(e) \in {2, 3, 4}
  BY DEF Levels
<1>2. \E loc : Is(loc)
  <2> DEFINE b(t) == m[t].to
  <2>1. CASE Levels(e) = 2
    <3> DEFINE p2 == At(e.cr3, 2)
               p1 == At(m[p2].to, 1)
               g == [l \in 1 .. 2 |-> IF l = 2 THEN p2 ELSE p1]
    <3>1. g[2] = p2
      OBVIOUS
    <3>2. \A l \in 1 .. 2 :
            (IF l = 2 THEN p2 ELSE p1) = At(IF l = 2 THEN e.cr3 ELSE m[g[l + 1]].to, l)
      <4> HIDE DEF At, g
      <4> QED BY <3>1
    <3>3. g = [l \in 1 .. 2 |-> At(IF l = 2 THEN e.cr3 ELSE m[g[l + 1]].to, l)]
      <4> HIDE DEF At, p2, p1
      <4> QED BY <3>2
    <3> HIDE DEF At, g
    <3>4. Is(g)
      BY <2>1, <3>3
    <3> HIDE DEF Is
    <3> QED BY <3>4
  <2>2. CASE Levels(e) = 3
    <3> DEFINE p3 == At(e.cr3, 3)
               p2 == At(m[p3].to, 2)
               p1 == At(m[p2].to, 1)
               g == [l \in 1 .. 3 |-> IF l = 3 THEN p3 ELSE IF l = 2 THEN p2 ELSE p1]
    <3>1. g[2] = p2 /\ g[3] = p3
      OBVIOUS
    <3>2. \A l \in 1 .. 3 :
            (IF l = 3 THEN p3 ELSE IF l = 2 THEN p2 ELSE p1)
               = At(IF l = 3 THEN e.cr3 ELSE m[g[l + 1]].to, l)
      <4> HIDE DEF At, g
      <4> QED BY <3>1
    <3>3. g = [l \in 1 .. 3 |-> At(IF l = 3 THEN e.cr3 ELSE m[g[l + 1]].to, l)]
      <4> HIDE DEF At, p3, p2, p1
      <4> QED BY <3>2
    <3> HIDE DEF At, g
    <3>4. Is(g)
      BY <2>2, <3>3
    <3> HIDE DEF Is
    <3> QED BY <3>4
  <2>3. CASE Levels(e) = 4
    <3> DEFINE p4 == At(e.cr3, 4)
               p3 == At(m[p4].to, 3)
               p2 == At(m[p3].to, 2)
               p1 == At(m[p2].to, 1)
               g == [l \in 1 .. 4 |-> IF l = 4 THEN p4 ELSE IF l = 3 THEN p3
                                      ELSE IF l = 2 THEN p2 ELSE p1]
    <3>1. g[2] = p2 /\ g[3] = p3 /\ g[4] = p4
      <4> HIDE DEF At, p4, p3, p2, p1
      <4> QED OBVIOUS
    <3>2. \A l \in 1 .. 4 :
            (IF l = 4 THEN p4 ELSE IF l = 3 THEN p3 ELSE IF l = 2 THEN p2 ELSE p1)
               = At(IF l = 4 THEN e.cr3 ELSE m[g[l + 1]].to, l)
      <4> HIDE DEF At, g
      <4> QED BY <3>1
    <3>3. g = [l \in 1 .. 4 |-> At(IF l = 4 THEN e.cr3 ELSE m[g[l + 1]].to, l)]
      <4> HIDE DEF At, p4, p3, p2, p1
      <4> QED BY <3>2
    <3> HIDE DEF At, g
    <3>4. Is(g)
      BY <2>3, <3>3
    <3> HIDE DEF Is
    <3> QED BY <3>4
  <2> QED BY <1>1, <2>1, <2>2, <2>3
<1>3. Climb(e, m, page) = CHOOSE loc : Is(loc)
  BY DEF Climb
<1>4. Is(Climb(e, m, page))
  <2> HIDE DEF Is
  <2> QED BY <1>2, <1>3
<1> QED BY <1>4

\* The levels of a walk, the highest first.
LEMMA PathSteps ==
  ASSUME NEW e, NEW m, NEW page
  PROVE  /\ Levels(e) \in {2, 3, 4}
         /\ Path(e, m, page) = [l \in 1 .. Levels(e) |-> Path(e, m, page)[l]]
         /\ Path(e, m, page)[Levels(e)] = <<Mask(e, e.cr3), page[5 - Levels(e)]>>
         /\ \A l \in 1 .. Levels(e) - 1 :
              Path(e, m, page)[l] = <<Mask(e, m[Path(e, m, page)[l + 1]].to), page[5 - l]>>
<1>1. Levels(e) \in {2, 3, 4}
  BY DEF Levels
<1>2. Path(e, m, page) = SubSeq(Climb(e, m, page), 1, Levels(e))
  BY DEF Path, Climb
<1> DEFINE c == Climb(e, m, page)
           n == Levels(e)
<1>3. SubSeq(c, 1, n) = [l \in 1 .. n |-> c[l]]
  <2> HIDE DEF c, n
  <2>1. n \in Nat
    BY <1>1 DEF n
  <2> QED BY <2>1
<1>4. \A l \in 1 .. n : c[l] = <<Mask(e, IF l = n THEN e.cr3 ELSE m[c[l + 1]].to), page[5 - l]>>
  <2>1. c = [l \in 1 .. n |-> <<Mask(e, IF l = n THEN e.cr3 ELSE m[c[l + 1]].to), page[5 - l]>>]
    BY ClimbUnfolds
  <2> HIDE DEF c, n
  <2> QED BY <2>1
<1>5. Path(e, m, page) = [l \in 1 .. n |-> c[l]]
  BY <1>2, <1>3
<1>6. \A l \in 1 .. n : Path(e, m, page)[l] = c[l]
  <2> HIDE DEF c, n
  <2> QED BY <1>5
<1> DEFINE p == Path(e, m, page)
<1>7. n \in {2, 3, 4}
  BY <1>1
<1>8. p = [l \in 1 .. n |-> p[l]]
  <2> HIDE DEF c, n, p
  <2>0. p = [l \in 1 .. n |-> c[l]]
    BY <1>5 DEF p
  <2> QED BY <2>0
<1>9. /\ p[n] = <<Mask(e, e.cr3), page[5 - n]>>
      /\ \A l \in 1 .. n - 1 : p[l] = <<Mask(e, m[p[l + 1]].to), page[5 - l]>>
  <2>0. \A l \in 1 .. n : p[l] = c[l]
    BY <1>6
  <2> HIDE DEF c, n, p
  <2>1. n \in 1 .. n /\ \A l \in 1 .. n - 1 : l \in 1 .. n /\ l + 1 \in 1 .. n /\ l # n
    BY <1>7
  <2> QED BY <1>4, <2>0, <2>1
<1> QED BY <1>7, <1>8, <1>9

\* A guest's memory, and a processor whose walks stay in it.
Walkable(e, m, p) ==
  /\ p \in DOMAIN MmuBoot
  /\ e \in MmuCpus(p) /\ m \in MmuTables(p)

\* A processor, field by field.
LEMMA CpuFields ==
  ASSUME NEW p, NEW e \in MmuCpus(p)
  PROVE  /\ e.cr0 \in SUBSET CpuFlags /\ e.cr3 \in MmuFrames(p) /\ e.cr4 \in SUBSET CpuFlags
         /\ e.efer \in SUBSET CpuFlags /\ e.a20 \in BOOLEAN /\ e.hflags \in SUBSET CpuFlags
BY DEF MmuCpus

\* A walk never leaves the memory, and asks for entries that are there.
LEMMA PathReaches ==
  ASSUME NEW p, NEW e, NEW m, NEW page \in Pages, Walkable(e, m, p)
  PROVE  \A l \in 1 .. Levels(e) :
           Path(e, m, page)[l] \in DOMAIN m /\ m[Path(e, m, page)[l]] \in MmuEntries(p)
<1> DEFINE n == Levels(e)
           q == Path(e, m, page)
           F == MmuFrames(p)
<1>1. n \in {2, 3, 4} /\ q[n] = <<Mask(e, e.cr3), page[5 - n]>>
      /\ \A l \in 1 .. n - 1 : q[l] = <<Mask(e, m[q[l + 1]].to), page[5 - l]>>
  BY PathSteps
<1>2. /\ page[1] \in Indexes /\ page[2] \in Indexes /\ page[3] \in Indexes
      /\ page[4] \in Indexes
  BY MmuAssumption
<1>3. \A f \in F : Mask(e, f) \in F
  BY MmuAssumption DEF Walkable, Mask
<1>4. DOMAIN m = F \X Indexes /\ (\A loc \in F \X Indexes : m[loc] \in MmuEntries(p))
      /\ e.cr3 \in F
  BY CpuFields DEF Walkable, MmuTables
<1>5. \A loc \in F \X Indexes : m[loc].to \in F
  BY <1>4 DEF MmuEntries
<1> HIDE DEF n, q, F
<1>6. q[n] \in F \X Indexes
  BY <1>1, <1>2, <1>3, <1>4
<1>7. \A l \in 1 .. n - 1 : q[l + 1] \in F \X Indexes => q[l] \in F \X Indexes
  <2> SUFFICES ASSUME NEW l \in 1 .. n - 1, q[l + 1] \in F \X Indexes
               PROVE  q[l] \in F \X Indexes
    OBVIOUS
  <2>1. l \in {1, 2, 3} /\ page[5 - l] \in Indexes
    BY <1>1, <1>2
  <2>2. Mask(e, m[q[l + 1]].to) \in F
    BY <1>3, <1>5
  <2> QED BY <1>1, <2>1, <2>2
<1>8. \A l \in 1 .. n : q[l] \in F \X Indexes
  BY <1>1, <1>6, <1>7
<1> QED BY <1>4, <1>8 DEF n, q

-----------------------------------------------------------------------------
(* What a walk depends on *)

\* Two processors whose walks take the same way, and which stop alike too.
SameWay(e, f) ==
  /\ f.a20 = e.a20 /\ f.cr3 = e.cr3 /\ Levels(f) = Levels(e)
  /\ Pae(f) = Pae(e) /\ LongPaging(f) = LongPaging(e)
  /\ ("PSE" \in f.cr4 <=> "PSE" \in e.cr4)
SameFormat(e, f) == SameWay(e, f) /\ ("NXE" \in f.efer <=> "NXE" \in e.efer)

\* Two entries that lead a walk on alike.
SameEntry(a, b) ==
  a.to = b.to /\ \A x \in {"P", "RW", "US", "PS", "NX"} : x \in a.flags <=> x \in b.flags

\* A walk that meets the same entries goes the same way.
LEMMA SamePath ==
  ASSUME NEW e, NEW m, NEW f, NEW k, NEW page, SameWay(e, f),
         \A l \in 1 .. Levels(e) : SameEntry(k[Path(e, m, page)[l]], m[Path(e, m, page)[l]])
  PROVE  Path(f, k, page) = Path(e, m, page)
<1> DEFINE n == Levels(e)
           q == Path(e, m, page)
           r == Path(f, k, page)
<1>1. /\ n \in {2, 3, 4} /\ q = [l \in 1 .. n |-> q[l]]
      /\ q[n] = <<Mask(e, e.cr3), page[5 - n]>>
      /\ \A l \in 1 .. n - 1 : q[l] = <<Mask(e, m[q[l + 1]].to), page[5 - l]>>
  BY PathSteps
<1>2. /\ r = [l \in 1 .. n |-> r[l]]
      /\ r[n] = <<Mask(f, f.cr3), page[5 - n]>>
      /\ \A l \in 1 .. n - 1 : r[l] = <<Mask(f, k[r[l + 1]].to), page[5 - l]>>
  <2>1. Levels(f) = n
    BY DEF SameWay
  <2> QED BY <2>1, PathSteps
<1>3. \A x : Mask(f, x) = Mask(e, x)
  BY DEF Mask, SameWay
<1>4. f.cr3 = e.cr3 /\ \A l \in 1 .. n : k[q[l]].to = m[q[l]].to
  BY DEF SameWay, SameEntry
<1> HIDE DEF n, q, r
<1>5. r[n] = q[n]
  <2>1. Mask(f, f.cr3) = Mask(e, e.cr3)
    BY <1>3, <1>4
  <2> QED BY ONLY <1>1, <1>2, <2>1
<1>6. \A l \in 1 .. n - 1 : r[l + 1] = q[l + 1] => r[l] = q[l]
  <2> SUFFICES ASSUME NEW l \in 1 .. n - 1, r[l + 1] = q[l + 1]
               PROVE  r[l] = q[l]
    OBVIOUS
  <2>1. l + 1 \in 1 .. n
    BY <1>1
  <2>2. k[r[l + 1]].to = m[q[l + 1]].to
    BY <1>4, <2>1
  <2>3. r[l] = <<Mask(f, k[r[l + 1]].to), page[5 - l]>>
    BY <1>2
  <2>4. q[l] = <<Mask(e, m[q[l + 1]].to), page[5 - l]>>
    BY <1>1
  <2>5. Mask(f, k[r[l + 1]].to) = Mask(e, m[q[l + 1]].to)
    BY <1>3, <2>2
  <2> QED BY <2>3, <2>4, <2>5
<1>7. \A l \in 1 .. n : r[l] = q[l]
  <2>0. n \in {2, 3, 4}
    BY <1>1
  <2> DEFINE Same(l) == r[l] = q[l]
  <2>1. Same(n) /\ \A l \in 1 .. n - 1 : Same(l + 1) => Same(l)
    BY <1>5, <1>6
  <2> HIDE DEF Same
  <2>2. n > 3 => Same(3)
    BY <2>0, <2>1
  <2>3. n > 2 => Same(2)
    BY <2>0, <2>1, <2>2
  <2>4. Same(1)
    BY <2>0, <2>1, <2>3
  <2>5. \A l \in 1 .. n : Same(l)
    BY <2>0, <2>1, <2>2, <2>3, <2>4
  <2> QED BY <2>5 DEF Same
<1>8. r = q
  BY <1>1, <1>2, <1>7
<1> QED BY <1>8 DEF q, r

\* And ends alike: in the same error, or with the same rights on the same frame.
LEMMA SameWalk ==
  ASSUME NEW e, NEW m, NEW f, NEW k, NEW page, SameFormat(e, f),
         NEW q, q = Path(e, m, page),
         \A l \in 1 .. Levels(e) : SameEntry(k[q[l]], m[q[l]])
  PROVE  /\ Path(f, k, page) = q
         /\ LeafLevel(f, k, q) = LeafLevel(e, m, q)
         /\ LeafLevel(e, m, q) \in {1, 2}
         /\ Stops(f, k, q) = Stops(e, m, q)
         /\ Rights(f, k, q) = Rights(e, m, q)
         /\ Paddr(f, k, q, page) = Paddr(e, m, q, page)
<1>1. Path(f, k, page) = q
  BY SamePath DEF SameFormat
<1>2. Levels(e) \in {2, 3, 4} /\ Levels(f) = Levels(e) /\ Pae(f) = Pae(e)
      /\ \A l : IsPdpt(f, l) = IsPdpt(e, l)
  BY PathSteps DEF SameFormat, SameWay, IsPdpt
<1>3. LeafLevel(f, k, q) = LeafLevel(e, m, q) /\ LeafLevel(e, m, q) \in {1, 2}
  <2>1. "PS" \in k[q[2]].flags <=> "PS" \in m[q[2]].flags
    BY <1>2 DEF SameEntry
  <2> QED BY <1>2, <2>1 DEF LeafLevel, Large, SameFormat, SameWay
<1> DEFINE leaf == LeafLevel(e, m, q)
<1>4. \A l \in leaf .. Levels(e) : SameEntry(k[q[l]], m[q[l]])
  BY <1>2, <1>3
<1>5. Stops(f, k, q) = Stops(e, m, q)
  <2>1. \A l \in leaf .. Levels(e) :
          /\ Reserved(f, k, q, l) = Reserved(e, m, q, l)
          /\ "P" \in k[q[l]].flags <=> "P" \in m[q[l]].flags
    <3> HIDE DEF leaf
    <3> QED BY <1>2, <1>4 DEF Reserved, SameEntry, SameFormat, SameWay
  <2> QED BY <1>2, <1>3, <2>1 DEF Stops
<1>6. Rights(f, k, q) = Rights(e, m, q)
  <2>1. \A l \in leaf .. Levels(e) :
          /\ "RW" \in k[q[l]].flags <=> "RW" \in m[q[l]].flags
          /\ "US" \in k[q[l]].flags <=> "US" \in m[q[l]].flags
          /\ "NX" \in k[q[l]].flags <=> "NX" \in m[q[l]].flags
    <3> HIDE DEF leaf
    <3> QED BY <1>4 DEF SameEntry
  <2>2. {l \in LeafLevel(f, k, q) .. Levels(f) : ~IsPdpt(f, l)}
          = {l \in leaf .. Levels(e) : ~IsPdpt(e, l)}
    BY <1>2, <1>3
  <2> QED BY <1>2, <2>1, <2>2 DEF Rights
<1>7. Paddr(f, k, q, page) = Paddr(e, m, q, page)
  <2>1. k[q[leaf]].to = m[q[leaf]].to
    BY <1>2, <1>3, <1>4 DEF SameEntry
  <2>2. Mask(f, m[q[leaf]].to) = Mask(e, m[q[leaf]].to)
    BY DEF Mask, SameFormat, SameWay
  <2> QED BY <1>3, <2>1, <2>2 DEF Paddr
<1> QED BY <1>1, <1>3, <1>5, <1>6, <1>7

\* What the TLB holds of a page is what a walk finds (TlbFaithful, but for the
\* second walk), and of no page that is not canonical.
CachedRight(e, m, u, v, c) ==
  LET path == Path(e, m, v)
      leaf == m[path[LeafLevel(e, m, path)]].flags
  IN  IF "PG" \notin e.cr0 THEN c.paddr = Unpaged(e, v)
      ELSE /\ LongPaging(e) => Canonical(v)
           /\ Stops(e, m, path) = {} /\ c.paddr = Paddr(e, m, path, v)
           /\ \A a \in c.prot : ~Denied(e, Rights(e, m, path), a, u)
           /\ "A" \in leaf /\ ("write" \in c.prot => "D" \in leaf)

\* It stays so while the format, the way and the marks stay.
LEMMA CachedKept ==
  ASSUME NEW e, NEW m, NEW f, NEW k, NEW u, NEW v, NEW c, CachedRight(e, m, u, v, c),
         SameFormat(e, f), "PG" \in f.cr0 <=> "PG" \in e.cr0, Wp(f) = Wp(e),
         \A l \in 1 .. Levels(e) :
           /\ SameEntry(k[Path(e, m, v)[l]], m[Path(e, m, v)[l]])
           /\ m[Path(e, m, v)[l]].flags \subseteq k[Path(e, m, v)[l]].flags
  PROVE  CachedRight(f, k, u, v, c)
<1> DEFINE q == Path(e, m, v)
<1>1. CASE "PG" \notin e.cr0
  <2>1. Unpaged(f, v) = Unpaged(e, v)
    BY DEF Unpaged, Mask, SameFormat, SameWay
  <2> QED BY <1>1, <2>1 DEF CachedRight
<1>2. CASE "PG" \in e.cr0
  <2>1. /\ Path(f, k, v) = q /\ LeafLevel(f, k, q) = LeafLevel(e, m, q)
        /\ LeafLevel(e, m, q) \in {1, 2}
        /\ Stops(f, k, q) = Stops(e, m, q) /\ Rights(f, k, q) = Rights(e, m, q)
        /\ Paddr(f, k, q, v) = Paddr(e, m, q, v)
    BY SameWalk
  <2>2. LeafLevel(e, m, q) \in 1 .. Levels(e)
    BY <2>1, PathSteps
  <2>3. m[q[LeafLevel(e, m, q)]].flags \subseteq k[q[LeafLevel(e, m, q)]].flags
    BY <2>2
  <2>4. \A rights, a : Denied(f, rights, a, u) <=> Denied(e, rights, a, u)
    BY DEF Denied
  <2>5. LongPaging(f) = LongPaging(e)
    BY DEF SameFormat, SameWay
  <2> HIDE DEF q
  <2>6. /\ LongPaging(e) => Canonical(v)
        /\ Stops(e, m, q) = {} /\ c.paddr = Paddr(e, m, q, v)
        /\ \A a \in c.prot : ~Denied(e, Rights(e, m, q), a, u)
        /\ "A" \in m[q[LeafLevel(e, m, q)]].flags
        /\ "write" \in c.prot => "D" \in m[q[LeafLevel(e, m, q)]].flags
    BY <1>2 DEF CachedRight, q
  <2> QED BY <1>2, <2>1, <2>3, <2>4, <2>5, <2>6 DEF CachedRight
<1> QED BY <1>1, <1>2

-----------------------------------------------------------------------------
(* What a walk leaves *)

\* The tables k are the tables m with more marks.
OnlyMarked(m, k, p) ==
  /\ k \in MmuTables(p)
  /\ \A loc \in DOMAIN m : SameEntry(k[loc], m[loc]) /\ m[loc].flags \subseteq k[loc].flags

\* Marks lead no walk astray.
LEMMA MarkKeeps ==
  ASSUME NEW p, NEW e, NEW m \in MmuTables(p), NEW path, NEW ls, NEW bits \in SUBSET {"A", "D"}
  PROVE  OnlyMarked(m, Mark(e, m, path, ls, bits), p)
<1> DEFINE k == Mark(e, m, path, ls, bits)
           D == MmuFrames(p) \X Indexes
           new(loc) == IF \E l \in ls : path[l] = loc /\ ~IsPdpt(e, l)
                         THEN [m[loc] EXCEPT !.flags = @ \cup bits] ELSE m[loc]
<1>1. DOMAIN m = D /\ m \in [D -> MmuEntries(p)]
  BY DEF MmuTables
<1>2. k = [loc \in D |-> new(loc)]
  BY <1>1 DEF Mark
<1>3. ASSUME NEW x \in MmuEntries(p)
      PROVE  LET y == [x EXCEPT !.flags = @ \cup bits] IN
             y \in MmuEntries(p) /\ SameEntry(y, x) /\ x.flags \subseteq y.flags
  BY DEF MmuEntries, EntryFlags, SameEntry
<1>4. \A x : SameEntry(x, x)
  BY DEF SameEntry
<1>5. \A loc \in D : new(loc) \in MmuEntries(p) /\ SameEntry(new(loc), m[loc])
                     /\ m[loc].flags \subseteq new(loc).flags
  <2> SUFFICES ASSUME NEW loc \in D
               PROVE  new(loc) \in MmuEntries(p) /\ SameEntry(new(loc), m[loc])
                     /\ m[loc].flags \subseteq new(loc).flags
    OBVIOUS
  <2>1. m[loc] \in MmuEntries(p)
    BY <1>1
  <2>2. CASE new(loc) = m[loc]
    BY <1>4, <2>1, <2>2
  <2>3. CASE new(loc) = [m[loc] EXCEPT !.flags = @ \cup bits]
    BY <1>3, <2>1, <2>3
  <2> QED BY <2>2, <2>3
<1> HIDE DEF new
<1>6. k \in [D -> MmuEntries(p)] /\ \A loc \in D : k[loc] = new(loc)
  BY <1>2, <1>5
<1> QED BY <1>1, <1>5, <1>6 DEF OnlyMarked, MmuTables

\* Marked twice is marked.
LEMMA MarkedTwice ==
  ASSUME NEW p, NEW m \in MmuTables(p), NEW k, NEW j, OnlyMarked(m, k, p), OnlyMarked(k, j, p)
  PROVE  OnlyMarked(m, j, p)
<1>1. DOMAIN m = DOMAIN k
  BY DEF OnlyMarked, MmuTables
<1> QED BY <1>1 DEF OnlyMarked, SameEntry

\* cpu_x86_handle_mmu_fault: it only marks entries, and what it gives to the TLB
\* is right, and lets the access through that asked for it.
LEMMA WalkFills ==
  ASSUME NEW p, NEW e, NEW m, Walkable(e, m, p), NEW page \in Pages,
         NEW access \in AccessKinds, NEW user \in Users,
         NEW r, r = handle_mmu_fault(e, m, page, access, user)
  PROVE  /\ OnlyMarked(m, r.mem, p)
         /\ r.fault = NoFault => /\ CachedRight(e, r.mem, user, page, r.fill)
                                /\ access \in r.fill.prot
<1> DEFINE q == Path(e, m, page)
           leaf == LeafLevel(e, m, q)
           stops == Stops(e, m, q)
           first == CHOOSE l \in stops : \A k \in stops : k <= l
           rights == Rights(e, m, q)
           above == Mark(e, m, q, leaf + 1 .. Levels(e), {"A"})
           bits == {"A"} \cup IF access = "write" THEN {"D"} ELSE {}
           marked == Mark(e, above, q, {leaf}, bits)
<1>0. m \in MmuTables(p) /\ OnlyMarked(m, m, p)
  BY DEF Walkable, OnlyMarked, SameEntry
<1>1. CASE "PG" \notin e.cr0
  <2>1. r = Filled(m, Unpaged(e, page), AccessKinds, FALSE)
    BY <1>1 DEF handle_mmu_fault
  <2>2. r.mem = m /\ r.fill.paddr = Unpaged(e, page) /\ r.fill.prot = AccessKinds
    BY <2>1 DEF Filled
  <2> QED BY <1>0, <1>1, <2>2 DEF CachedRight
<1>2. CASE "PG" \in e.cr0 /\ LongPaging(e) /\ ~Canonical(page)
  <2>1. r.mem = m /\ r.fault = [vector |-> GP, code |-> {}]
    BY <1>2 DEF handle_mmu_fault
  <2>2. r.fault # NoFault
    BY <2>1 DEF GP, NoFault
  <2> QED BY <1>0, <2>1, <2>2
<1>3. \A x, y : PageFault(e, x, y, access, user).fault # NoFault
            /\ PageFault(e, x, y, access, user).mem = x
  <2>1. \A code : [vector |-> 14, code |-> code] # [vector |-> -1, code |-> {}]
    <3> SUFFICES ASSUME NEW code, [vector |-> 14, code |-> code] = [vector |-> -1, code |-> {}]
                 PROVE  FALSE
      OBVIOUS
    <3>1. [vector |-> 14, code |-> code].vector = [vector |-> -1, code |-> {}].vector
      OBVIOUS
    <3> QED BY <3>1
  <2> QED BY <2>1 DEF PageFault, NoFault, PF
<1>4. ASSUME "PG" \in e.cr0, LongPaging(e) => Canonical(page), stops # {}
      PROVE  OnlyMarked(m, r.mem, p) /\ r.fault # NoFault
  <2>1. r = PageFault(e, Mark(e, m, q, first + 1 .. Levels(e), {"A"}),
                      StopCode(e, m, q, first), access, user)
    BY <1>4 DEF handle_mmu_fault
  <2>2. OnlyMarked(m, Mark(e, m, q, first + 1 .. Levels(e), {"A"}), p)
    BY <1>0, MarkKeeps
  <2> QED BY <1>3, <2>1, <2>2
<1>5. OnlyMarked(m, above, p)
  BY <1>0, MarkKeeps
<1>6. ASSUME "PG" \in e.cr0, LongPaging(e) => Canonical(page), stops = {},
             Denied(e, rights, access, user)
      PROVE  OnlyMarked(m, r.mem, p) /\ r.fault # NoFault
  <2>1. r = PageFault(e, above, {"P"}, access, user)
    BY <1>6 DEF handle_mmu_fault
  <2> QED BY <1>3, <1>5, <2>1
<1>7. ASSUME "PG" \in e.cr0, LongPaging(e) => Canonical(page), stops = {},
             ~Denied(e, rights, access, user)
      PROVE  /\ OnlyMarked(m, r.mem, p) /\ CachedRight(e, r.mem, user, page, r.fill)
             /\ access \in r.fill.prot
  <2> DEFINE prot == PageProt(e, rights, "D" \in marked[q[leaf]].flags, user)
  <2>1. r = Filled(marked, Paddr(e, marked, q, page), prot, leaf = 2)
    BY <1>7 DEF handle_mmu_fault
  <2>2. r.mem = marked /\ r.fill.paddr = Paddr(e, marked, q, page) /\ r.fill.prot = prot
    BY <2>1 DEF Filled
  <2>3. OnlyMarked(above, marked, p) /\ OnlyMarked(m, marked, p)
    <3>1. above \in MmuTables(p)
      BY <1>5 DEF OnlyMarked
    <3>2. OnlyMarked(above, marked, p)
      BY <3>1, MarkKeeps
    <3> QED BY <1>0, <1>5, <3>2, MarkedTwice
  <2>4. \A l \in 1 .. Levels(e) : q[l] \in DOMAIN m /\ SameEntry(marked[q[l]], m[q[l]])
    BY <2>3, PathReaches DEF OnlyMarked
  <2>5. SameFormat(e, e)
    BY DEF SameFormat, SameWay
  <2>6. /\ Path(e, marked, page) = q /\ LeafLevel(e, marked, q) = leaf /\ leaf \in {1, 2}
        /\ Stops(e, marked, q) = stops /\ Rights(e, marked, q) = rights
        /\ Paddr(e, marked, q, page) = Paddr(e, m, q, page)
    <3> HIDE DEF marked
    <3>1. \A l \in 1 .. Levels(e) : SameEntry(marked[q[l]], m[q[l]])
      BY <2>4
    <3> QED BY <2>5, <3>1, SameWalk
  <2>7. bits \subseteq marked[q[leaf]].flags
    <3>1. Levels(e) \in {2, 3, 4}
      BY PathSteps
    <3>2. q[leaf] \in DOMAIN above /\ above[q[leaf]] \in MmuEntries(p)
      <4>1. q[leaf] \in DOMAIN m
        BY <2>4, <2>6, <3>1
      <4> QED BY <1>0, <1>5, <4>1 DEF OnlyMarked, MmuTables
    <3>3. ~IsPdpt(e, leaf)
      BY <2>6 DEF IsPdpt
    <3>4. marked[q[leaf]] = [above[q[leaf]] EXCEPT !.flags = @ \cup bits]
      <4> HIDE DEF q, leaf, above, bits
      <4> QED BY <3>2, <3>3 DEF marked, Mark
    <3> QED BY <3>2, <3>4 DEF MmuEntries
  <2>8. access \in prot
    <3>1. access = "write" => "D" \in marked[q[leaf]].flags
      BY <2>7
    <3> HIDE DEF rights, marked, leaf, q
    <3> QED BY <1>7, <3>1 DEF PageProt, Denied, AccessKinds, Users
  <2>9. \A a \in prot : ~Denied(e, rights, a, user)
    <3> HIDE DEF rights, marked, leaf, q
    <3> QED BY <1>7 DEF PageProt, Denied, AccessKinds, Users
  <2>10. "A" \in marked[q[leaf]].flags /\ ("write" \in prot => "D" \in marked[q[leaf]].flags)
    <3>1. "A" \in marked[q[leaf]].flags
      BY <2>7
    <3> HIDE DEF rights, marked, leaf, q
    <3> QED BY <3>1 DEF PageProt
  <2>11. CachedRight(e, marked, user, page, r.fill)
    <3> HIDE DEF rights, marked, leaf, q, stops, prot
    <3> QED BY <1>7, <2>2, <2>6, <2>9, <2>10 DEF CachedRight
  <2> QED BY <2>2, <2>3, <2>8, <2>11
<1> QED BY <1>1, <1>2, <1>4, <1>6, <1>7

-----------------------------------------------------------------------------
(* The guest *)

\* What is cached, and not of a page whose tables were written since, is right.
LmaShown(e) == "LMA" \in e.hflags <=> "LMA" \in e.efer
MmuInv ==
  /\ Walkable(env, tables, mmu_profile)
  /\ LmaShown(env)
  /\ tlb = [u \in Users |-> [v \in Pages |-> tlb[u][v]]]
  /\ \A u \in Users, v \in Pages :
       tlb[u][v] # NotCached /\ v \notin stale => CachedRight(env, tables, u, v, tlb[u][v])

\* A TLB that was flushed.
LEMMA EmptyTlb ==
  /\ Empty = [u \in Users |-> [v \in Pages |-> Empty[u][v]]]
  /\ \A u \in Users, v \in Pages : Empty[u][v] = NotCached
BY DEF Empty

\* A guest begins with nothing cached.
LEMMA MmuBegins ==
  ASSUME MmuInit
  PROVE  MmuInv
BY MmuAssumption, EmptyTlb DEF MmuInit, MmuInv, Walkable, LmaShown

\* A register write that flushes leaves nothing to be wrong; one that does not
\* has to leave the format, the rights and the start of the walk.
LEMMA FlushStep ==
  ASSUME MmuInv, NEW cond \in BOOLEAN, Flush(cond), env' \in MmuCpus(mmu_profile), LmaShown(env'),
         cond \/ \A u \in Users, v \in Pages : \A c :
                   CachedRight(env, tables, u, v, c) => CachedRight(env', tables, u, v, c)
  PROVE  MmuInv'
<1>1. Walkable(env, tables, mmu_profile)'
  BY DEF MmuInv, Walkable, Flush
<1>2. CASE cond
  <2>1. tlb' = Empty
    BY <1>2 DEF Flush
  <2> QED BY <1>1, <2>1, EmptyTlb DEF MmuInv
<1>3. CASE ~cond
  <2>1. tlb' = tlb /\ stale' = stale /\ tables' = tables
    BY <1>3 DEF Flush
  <2> QED BY <1>1, <1>3, <2>1 DEF MmuInv
<1> QED BY <1>2, <1>3

\* An access that the TLB does not serve: the walk, its marks and its fill.
LEMMA AccessStep ==
  ASSUME MmuInv, NEW page \in Pages, NEW access \in AccessKinds, NEW user \in Users,
         MemAccess(page, access, user)
  PROVE  MmuInv'
<1> DEFINE r == handle_mmu_fault(env, tables, page, access, user)
           p == mmu_profile
<1>1. OnlyMarked(tables, r.mem, p)
      /\ (r.fault = NoFault => CachedRight(env, r.mem, user, page, r.fill))
  BY WalkFills DEF MmuInv
<1>2. /\ tables' = r.mem
      /\ tlb' = IF r.fault = NoFault THEN [tlb EXCEPT ![user][page] = r.fill] ELSE tlb
      /\ stale' = IF r.fault = NoFault /\ tlb[CHOOSE u \in Users : u # user][page] = NotCached
                    THEN stale \ {page} ELSE stale
      /\ env' = env \/ env' = [env EXCEPT !.cr2 = page]
      /\ mmu_profile' = mmu_profile
  BY DEF MemAccess
<1> HIDE DEF r
<1>3. env' \in MmuCpus(p)
  BY <1>2 DEF MmuInv, Walkable, MmuCpus
<1>4. SameFormat(env, env') /\ env'.cr0 = env.cr0
  BY <1>2 DEF SameFormat, SameWay, Levels, Pae, LongPaging, MmuInv, Walkable, MmuCpus
<1>5. Walkable(env, tables, mmu_profile)'
  BY <1>1, <1>2, <1>3 DEF MmuInv, Walkable, OnlyMarked
<1>6. ASSUME NEW m \in MmuTables(p), OnlyMarked(m, tables', p),
             NEW u, NEW v \in Pages, NEW c, CachedRight(env, m, u, v, c)
      PROVE  CachedRight(env', tables', u, v, c)
  <2>1. \A l \in 1 .. Levels(env) : Path(env, m, v)[l] \in DOMAIN m
    BY PathReaches DEF MmuInv, Walkable
  <2>2. \A l \in 1 .. Levels(env) :
          /\ SameEntry(tables'[Path(env, m, v)[l]], m[Path(env, m, v)[l]])
          /\ m[Path(env, m, v)[l]].flags \subseteq tables'[Path(env, m, v)[l]].flags
    BY <1>6, <2>1 DEF OnlyMarked
  <2>3. Wp(env') = Wp(env)
    BY <1>4 DEF Wp
  <2> QED BY <1>4, <1>6, <2>2, <2>3, CachedKept
<1>7. tlb' = [u \in Users |-> [v \in Pages |-> tlb'[u][v]]]
      /\ \A u \in Users, v \in Pages :
           tlb'[u][v] = IF r.fault = NoFault /\ u = user /\ v = page THEN r.fill ELSE tlb[u][v]
  <2>1. tlb = [u \in Users |-> [v \in Pages |-> tlb[u][v]]]
    BY DEF MmuInv
  <2>2. CASE r.fault = NoFault
    <3>1. tlb' = [tlb EXCEPT ![user][page] = r.fill]
      BY <1>2, <2>2
    <3> QED BY <2>1, <2>2, <3>1
  <2>3. CASE r.fault # NoFault
    BY <1>2, <2>1, <2>3
  <2> QED BY <2>2, <2>3
<1>8. ASSUME NEW u \in Users, NEW v \in Pages, tlb'[u][v] # NotCached, v \notin stale'
      PROVE  CachedRight(env', tables', u, v, tlb'[u][v])
  <2>1. CASE r.fault = NoFault /\ u = user /\ v = page
    <3>1. tables' \in MmuTables(p) /\ OnlyMarked(tables', tables', p)
      BY <1>1, <1>2 DEF OnlyMarked, SameEntry
    <3>2. CachedRight(env, tables', u, v, tlb'[u][v])
      BY <1>1, <1>2, <1>7, <2>1
    <3> QED BY <1>6, <3>1, <3>2
  <2>2. CASE ~(r.fault = NoFault /\ u = user /\ v = page)
    <3>1. tlb'[u][v] = tlb[u][v]
      BY <1>7, <2>2
    <3>2. v \notin stale
      <4>1. CASE v = page /\ r.fault = NoFault
        <5>1. u # user
          BY <2>2, <4>1
        <5>2. (CHOOSE x \in Users : x # user) = u
          BY <5>1 DEF Users
        <5>3. tlb[u][page] # NotCached
          BY <1>8, <3>1, <4>1
        <5> QED BY <1>2, <1>8, <5>2, <5>3
      <4>2. CASE ~(v = page /\ r.fault = NoFault)
        BY <1>2, <1>8, <4>2
      <4> QED BY <4>1, <4>2
    <3>3. CachedRight(env, tables, u, v, tlb'[u][v])
      BY <1>8, <3>1, <3>2 DEF MmuInv
    <3>4. tables \in MmuTables(p) /\ OnlyMarked(tables, tables', p)
      BY <1>1, <1>2 DEF MmuInv, Walkable
    <3> QED BY <1>6, <3>3, <3>4
  <2> QED BY <2>1, <2>2
<1>9. LmaShown(env')
  BY <1>2 DEF LmaShown, MmuInv, Walkable, MmuCpus
<1> QED BY <1>5, <1>7, <1>8, <1>9 DEF MmuInv

\* A register that leaves the format and the rights leaves what is cached right.
LEMMA RegisterKeeps ==
  ASSUME MmuInv, NEW f, SameFormat(env, f), Wp(f) = Wp(env),
         "PG" \in f.cr0 <=> "PG" \in env.cr0,
         NEW u \in Users, NEW v \in Pages, NEW c, CachedRight(env, tables, u, v, c)
  PROVE  CachedRight(f, tables, u, v, c)
<1>1. \A l \in 1 .. Levels(env) :
        /\ SameEntry(tables[Path(env, tables, v)[l]], tables[Path(env, tables, v)[l]])
        /\ tables[Path(env, tables, v)[l]].flags \subseteq tables[Path(env, tables, v)[l]].flags
  BY DEF SameEntry
<1> QED BY <1>1, CachedKept

\* Words of flags stay such.
LEMMA FlagWordsKept ==
  ASSUME NEW S \in SUBSET CpuFlags
  PROVE  /\ \A T : S \ T \in SUBSET CpuFlags
         /\ S \cup {"LMA"} \in SUBSET CpuFlags /\ S \cup {"PE"} \in SUBSET CpuFlags
         /\ S \cup {"ADDSEG"} \in SUBSET CpuFlags
<1>1. "LMA" \in CpuFlags /\ "PE" \in CpuFlags /\ "ADDSEG" \in CpuFlags
  BY DEF CpuFlags
<1>2. \A x \in CpuFlags : S \cup {x} \in SUBSET CpuFlags
  OBVIOUS
<1>3. \A T : S \ T \in SUBSET CpuFlags
  OBVIOUS
<1> QED BY <1>1, <1>2, <1>3, Zenon

\* cpu_x86_update_cr0: LMA changes only with PG.
LEMMA Cr0Step ==
  ASSUME MmuInv, NEW new \in SUBSET CpuFlags, MmuCr0(new)
  PROVE  MmuInv'
<1> DEFINE cond == Differ(env.cr0, new, FlushingCr0)
<1>1. Flush(cond) /\ env' = UpdateCr0(env, new) /\ cond \in BOOLEAN
  BY DEF MmuCr0, Differ
<1>2. env \in MmuCpus(mmu_profile)
  BY DEF MmuInv, Walkable
<1>3. env' \in MmuCpus(mmu_profile)
  <2> DEFINE enter == "PG" \notin env.cr0 /\ "PG" \in new /\ "LME" \in env.efer
             leave == "PG" \in env.cr0 /\ "PG" \notin new /\ "LMA" \in env.efer
             mode == IF enter
                       THEN [env EXCEPT !.efer = @ \cup {"LMA"}, !.hflags = @ \cup {"LMA"}]
                     ELSE IF leave
                       THEN [env EXCEPT !.efer = @ \ {"LMA"}, !.hflags = @ \ {"LMA", "CS64"}]
                     ELSE env
             pe == With(mode.hflags, "PE", "PE" \in new)
             addseg == IF "PE" \in new THEN pe ELSE pe \cup {"ADDSEG"}
             h == (addseg \ FpuBits) \cup (new \cap FpuBits)
  <2>1. env' = IF enter /\ "PAE" \notin env.cr4 THEN env
               ELSE [mode EXCEPT !.cr0 = new, !.hflags = h]
    BY <1>1 DEF UpdateCr0, Cr0Refused, Enters
  <2>2. mode \in MmuCpus(mmu_profile)
    <3>1. ASSUME NEW x \in SUBSET CpuFlags, NEW y \in SUBSET CpuFlags
          PROVE  [env EXCEPT !.efer = x, !.hflags = y] \in MmuCpus(mmu_profile)
      BY <1>2, <3>1 DEF MmuCpus
    <3>2. env.efer \in SUBSET CpuFlags /\ env.hflags \in SUBSET CpuFlags
      BY <1>2, CpuFields
    <3>3. /\ env.efer \cup {"LMA"} \in SUBSET CpuFlags /\ env.hflags \cup {"LMA"} \in SUBSET CpuFlags
          /\ env.efer \ {"LMA"} \in SUBSET CpuFlags /\ env.hflags \ {"LMA", "CS64"} \in SUBSET CpuFlags
      BY <3>2, FlagWordsKept, Zenon
    <3>4. /\ [env EXCEPT !.efer = @ \cup {"LMA"}, !.hflags = @ \cup {"LMA"}] \in MmuCpus(mmu_profile)
          /\ [env EXCEPT !.efer = @ \ {"LMA"}, !.hflags = @ \ {"LMA", "CS64"}]
                \in MmuCpus(mmu_profile)
      <4> DEFINE Mode(x, y) == [env EXCEPT !.efer = x, !.hflags = y] \in MmuCpus(mmu_profile)
      <4>1. \A x \in SUBSET CpuFlags, y \in SUBSET CpuFlags : Mode(x, y)
        BY <3>1
      <4> HIDE DEF Mode
      <4>2. /\ Mode(env.efer \cup {"LMA"}, env.hflags \cup {"LMA"})
            /\ Mode(env.efer \ {"LMA"}, env.hflags \ {"LMA", "CS64"})
        BY <3>3, <4>1, Zenon
      <4> QED BY <4>2 DEF Mode
    <3> HIDE DEF enter, leave
    <3> QED BY <1>2, <3>4
  <2> HIDE DEF enter, mode
  <2>3. mode.hflags \in SUBSET CpuFlags
    BY <2>2, CpuFields
  <2>4. h \in SUBSET CpuFlags
    <3>1. pe \in SUBSET CpuFlags
      BY <2>3, FlagWordsKept DEF With
    <3>2. addseg \in SUBSET CpuFlags
      <4> HIDE DEF pe
      <4> QED BY <3>1, FlagWordsKept
    <3>3. addseg \ FpuBits \in SUBSET CpuFlags /\ new \cap FpuBits \in SUBSET CpuFlags
      <4> HIDE DEF addseg
      <4> QED BY <3>2, FlagWordsKept
    <3> HIDE DEF addseg
    <3> QED BY <3>3
  <2> HIDE DEF h
  <2>5. [mode EXCEPT !.cr0 = new, !.hflags = h] \in MmuCpus(mmu_profile)
    BY <2>2, <2>4 DEF MmuCpus
  <2> QED BY <1>2, <2>1, <2>5
<1>4. ASSUME ~cond
      PROVE  SameFormat(env, env') /\ Wp(env') = Wp(env) /\ ("PG" \in env'.cr0 <=> "PG" \in env.cr0)
  <2>1. ("PG" \in new <=> "PG" \in env.cr0) /\ ("WP" \in new <=> "WP" \in env.cr0)
    BY <1>4 DEF Differ, FlushingCr0
  <2>2. /\ env'.cr0 = new /\ env'.cr3 = env.cr3 /\ env'.cr4 = env.cr4 /\ env'.a20 = env.a20
        /\ env'.efer = env.efer /\ ("LMA" \in env'.hflags <=> "LMA" \in env.hflags)
    BY <1>1, <1>2, <2>1 DEF UpdateCr0, Cr0Refused, Enters, MmuCpus, With, FpuBits
  <2> QED BY <2>1, <2>2 DEF SameFormat, SameWay, Levels, Pae, LongPaging, Wp
<1>5. LmaShown(env')
  BY <1>1, <1>2 DEF UpdateCr0, MmuCpus, With, FpuBits, LmaShown, MmuInv
<1> HIDE DEF cond
<1> QED BY <1>1, <1>3, <1>4, <1>5, FlushStep, RegisterKeeps

\* cpu_x86_update_cr4
LEMMA Cr4Step ==
  ASSUME MmuInv, NEW new \in SUBSET CpuFlags, MmuCr4(new)
  PROVE  MmuInv'
<1> DEFINE cond == Differ(env.cr4, new, FlushingCr4)
<1>1. Flush(cond) /\ env' = UpdateCr4(env, new) /\ cond \in BOOLEAN
  BY DEF MmuCr4, Differ
<1>2. env \in MmuCpus(mmu_profile)
  BY DEF MmuInv, Walkable
<1>3. env' \in MmuCpus(mmu_profile)
  BY <1>1, <1>2 DEF UpdateCr4, MmuCpus, With
<1>4. ASSUME ~cond
      PROVE  SameFormat(env, env') /\ Wp(env') = Wp(env) /\ ("PG" \in env'.cr0 <=> "PG" \in env.cr0)
  <2>1. ("PAE" \in new <=> "PAE" \in env.cr4) /\ ("PSE" \in new <=> "PSE" \in env.cr4)
    BY <1>4 DEF Differ, FlushingCr4
  <2>2. /\ env'.cr0 = env.cr0 /\ env'.cr3 = env.cr3 /\ env'.cr4 = new /\ env'.a20 = env.a20
        /\ env'.efer = env.efer /\ ("LMA" \in env'.hflags <=> "LMA" \in env.hflags)
    BY <1>1, <1>2 DEF UpdateCr4, MmuCpus, With
  <2> QED BY <2>1, <2>2 DEF SameFormat, SameWay, Levels, Pae, LongPaging, Wp
<1>5. LmaShown(env')
  BY <1>1, <1>2 DEF UpdateCr4, MmuCpus, With, LmaShown, MmuInv
<1> HIDE DEF cond
<1> QED BY <1>1, <1>3, <1>4, <1>5, FlushStep, RegisterKeeps

\* cpu_x86_update_cr3: without paging nothing that is cached depends on it.
LEMMA Cr3Step ==
  ASSUME MmuInv, NEW new \in MmuFrames(mmu_profile), MmuCr3(new)
  PROVE  MmuInv'
<1>1. Flush("PG" \in env.cr0) /\ env' = [env EXCEPT !.cr3 = new] /\ ("PG" \in env.cr0) \in BOOLEAN
  BY DEF MmuCr3
<1>2. env \in MmuCpus(mmu_profile)
  BY DEF MmuInv, Walkable
<1>3. env' \in MmuCpus(mmu_profile) /\ env'.cr0 = env.cr0 /\ env'.a20 = env.a20 /\ LmaShown(env')
  BY <1>1, <1>2 DEF MmuCpus, LmaShown, MmuInv
<1>4. ASSUME "PG" \notin env.cr0, NEW u \in Users, NEW v \in Pages, NEW c,
             CachedRight(env, tables, u, v, c)
      PROVE  CachedRight(env', tables, u, v, c)
  <2>1. c.paddr = Unpaged(env, v)
    BY <1>4 DEF CachedRight
  <2>2. Unpaged(env', v) = Unpaged(env, v)
    BY <1>3 DEF Unpaged, Mask
  <2> QED BY <1>3, <1>4, <2>1, <2>2 DEF CachedRight
<1> QED BY <1>1, <1>3, <1>4, FlushStep

\* helper_wrmsr of EFER.NXE: where no entry has the bit the walks stay.
LEMMA NxeStep ==
  ASSUME MmuInv, NEW on \in BOOLEAN, MmuNxe(on)
  PROVE  MmuInv'
<1> DEFINE efer == With(env.efer, "NXE", on)
           h == With(With(env.hflags, "LMA", "LMA" \in efer), "SVME", "SVME" \in efer)
<1>1. /\ env' = [env EXCEPT !.efer = efer, !.hflags = h] /\ UNCHANGED <<mmu_profile, tables, tlb>>
      /\ stale' = stale \cup {v \in Pages :
                  /\ \E l \in 1 .. Levels(env) : "NX" \in tables[Path(env, tables, v)[l]].flags
                  /\ \E u \in Users : tlb[u][v] # NotCached}
  BY DEF MmuNxe, LoadEfer
<1>2. env \in MmuCpus(mmu_profile) /\ LmaShown(env)
  BY DEF MmuInv, Walkable
<1>3. efer \in SUBSET CpuFlags /\ h \in SUBSET CpuFlags
      /\ ("LMA" \in h <=> "LMA" \in efer) /\ ("LMA" \in efer <=> "LMA" \in env.efer)
  <2>1. "NXE" \in CpuFlags /\ "LMA" \in CpuFlags /\ "SVME" \notin CpuFlags
    BY DEF CpuFlags
  <2>2. env.efer \in SUBSET CpuFlags /\ env.hflags \in SUBSET CpuFlags
    BY <1>2, CpuFields
  <2>3. efer \in SUBSET CpuFlags
    BY <2>1, <2>2 DEF With
  <2>4. "SVME" \notin efer
    BY <2>1, <2>3
  <2>5. With(env.hflags, "LMA", "LMA" \in efer) \in SUBSET CpuFlags
    <3> HIDE DEF efer
    <3> QED BY <2>1, <2>2 DEF With
  <2>6. h \in SUBSET CpuFlags
    <3> HIDE DEF efer
    <3> QED BY <2>4, <2>5 DEF With
  <2> QED BY <2>3, <2>6 DEF With
<1> HIDE DEF efer, h
<1>4. env' \in MmuCpus(mmu_profile) /\ LmaShown(env')
  BY <1>1, <1>2, <1>3 DEF MmuCpus, LmaShown
<1>5. Walkable(env, tables, mmu_profile)'
  BY <1>1, <1>4 DEF MmuInv, Walkable
<1>6. /\ env'.cr0 = env.cr0 /\ env'.cr3 = env.cr3 /\ env'.cr4 = env.cr4 /\ env'.a20 = env.a20
      /\ ("LMA" \in env'.hflags <=> "LMA" \in env.hflags)
  BY <1>1, <1>2, <1>3 DEF MmuCpus, LmaShown
<1>8. SameWay(env, env')
  BY <1>6 DEF SameWay, Levels, Pae, LongPaging
<1>7. ASSUME NEW u \in Users, NEW v \in Pages, tlb[u][v] # NotCached, v \notin stale'
      PROVE  CachedRight(env', tables, u, v, tlb[u][v])
  <2> DEFINE q == Path(env, tables, v)
             leaf == LeafLevel(env, tables, q)
  <2>1. v \notin stale /\ \A l \in 1 .. Levels(env) : "NX" \notin tables[q[l]].flags
    BY <1>1, <1>7
  <2>2. CachedRight(env, tables, u, v, tlb[u][v])
    BY <1>7, <2>1 DEF MmuInv
  <2>3. Path(env', tables, v) = q /\ Levels(env) \in {2, 3, 4}
    <3>1. \A x : SameEntry(x, x)
      BY DEF SameEntry
    <3> QED BY <1>8, <3>1, SamePath, PathSteps
  <2> HIDE DEF q
  <2>4. LeafLevel(env', tables, q) = leaf /\ leaf \in {1, 2}
    BY <1>8 DEF LeafLevel, Large, SameWay
  <2>5. /\ \A l : IsPdpt(env', l) = IsPdpt(env, l)
        /\ \A x : Mask(env', x) = Mask(env, x)
        /\ Levels(env') = Levels(env) /\ Pae(env') = Pae(env) /\ LongPaging(env') = LongPaging(env)
    BY <1>8 DEF IsPdpt, Mask, SameWay
  <2>6. \A l \in leaf .. Levels(env) :
           ~Reserved(env', tables, q, l) /\ ~Reserved(env, tables, q, l)
    <3>1. \A l \in leaf .. Levels(env) : l \in 1 .. Levels(env)
      BY <2>3, <2>4
    <3> HIDE DEF leaf
    <3> QED BY <2>1, <3>1 DEF Reserved
  <2>7. Stops(env', tables, q) = Stops(env, tables, q)
    BY <2>4, <2>5, <2>6 DEF Stops
  <2>8. Rights(env', tables, q) = Rights(env, tables, q)
         /\ Paddr(env', tables, q, v) = Paddr(env, tables, q, v)
    BY <2>4, <2>5 DEF Rights, Paddr
  <2>9. \A rights, a : Denied(env', rights, a, u) <=> Denied(env, rights, a, u)
    BY <1>6 DEF Denied, Wp
  <2>10. Unpaged(env', v) = Unpaged(env, v)
    BY <2>5 DEF Unpaged
  <2>11. CASE "PG" \notin env.cr0
    BY <1>6, <2>2, <2>10, <2>11 DEF CachedRight
  <2>12. CASE "PG" \in env.cr0
    <3>1. /\ LongPaging(env) => Canonical(v)
          /\ Stops(env, tables, q) = {} /\ tlb[u][v].paddr = Paddr(env, tables, q, v)
          /\ \A a \in tlb[u][v].prot : ~Denied(env, Rights(env, tables, q), a, u)
          /\ "A" \in tables[q[leaf]].flags
          /\ "write" \in tlb[u][v].prot => "D" \in tables[q[leaf]].flags
      BY <2>2, <2>12 DEF CachedRight, q
    <3> HIDE DEF leaf
    <3> QED BY <1>6, <2>3, <2>4, <2>5, <2>7, <2>8, <2>9, <2>12, <3>1 DEF CachedRight
  <2> QED BY <2>11, <2>12
<1> QED BY <1>1, <1>4, <1>5, <1>7 DEF MmuInv

\* cpu_x86_set_a20
LEMMA A20Step ==
  ASSUME MmuInv, NEW on \in BOOLEAN, set_a20(on)
  PROVE  MmuInv'
<1>1. Flush(on # env.a20) /\ env' = [env EXCEPT !.a20 = on] /\ (on # env.a20) \in BOOLEAN
  BY DEF set_a20
<1>2. env \in MmuCpus(mmu_profile)
  BY DEF MmuInv, Walkable
<1>3. env' \in MmuCpus(mmu_profile) /\ (on = env.a20 => env' = env) /\ LmaShown(env')
  BY <1>1, <1>2 DEF MmuCpus, LmaShown, MmuInv
<1> QED BY <1>1, <1>3, FlushStep

\* helper_invlpg
LEMMA InvlpgStep ==
  ASSUME MmuInv, NEW page \in Pages, helper_invlpg(page)
  PROVE  MmuInv'
<1>1. UNCHANGED <<env, mmu_profile, tables>>
  BY DEF helper_invlpg
<1>2. Walkable(env, tables, mmu_profile)' /\ LmaShown(env)'
  BY <1>1 DEF MmuInv, Walkable, LmaShown
<1>3. CASE InLargePage(page)
  <2>1. tlb' = Empty
    BY <1>3 DEF helper_invlpg
  <2> QED BY <1>2, <2>1, EmptyTlb DEF MmuInv
<1>4. CASE ~InLargePage(page)
  <2>1. /\ tlb' = [u \in Users |-> [tlb[u] EXCEPT ![page] = NotCached]]
        /\ stale' = stale \ {page}
    BY <1>4 DEF helper_invlpg
  <2>2. tlb = [u \in Users |-> [v \in Pages |-> tlb[u][v]]]
    BY DEF MmuInv
  <2>3. \A u \in Users : tlb[u] = [v \in Pages |-> tlb[u][v]]
    BY <2>2
  <2>4. \A u \in Users : [tlb[u] EXCEPT ![page] = NotCached] =
                          [v \in Pages |-> IF v = page THEN NotCached ELSE tlb[u][v]]
    BY <2>3
  <2>5. tlb' = [u \in Users |-> [v \in Pages |-> IF v = page THEN NotCached ELSE tlb[u][v]]]
    BY <2>1, <2>4
  <2>6. /\ tlb' = [u \in Users |-> [v \in Pages |-> tlb'[u][v]]]
        /\ \A u \in Users, v \in Pages : tlb'[u][v] = IF v = page THEN NotCached ELSE tlb[u][v]
    BY <2>5
  <2> QED BY <1>1, <1>2, <2>1, <2>6 DEF MmuInv
<1> QED BY <1>3, <1>4

\* The guest writes an entry: a page that is cached and whose walk goes
\* through it becomes stale, the walks of the others stay.
LEMMA WriteStep ==
  ASSUME MmuInv, NEW loc, NEW entry \in MmuEntries(mmu_profile), WriteEntry(loc, entry)
  PROVE  MmuInv'
<1>1. /\ tables' = [tables EXCEPT ![loc] = entry] /\ UNCHANGED <<env, mmu_profile, tlb>>
      /\ stale' = stale \cup {v \in Pages : \E l \in 1 .. Levels(env) : Path(env, tables, v)[l] = loc
                                /\ \E u \in Users : tlb[u][v] # NotCached}
  BY DEF WriteEntry
<1>2. Walkable(env, tables, mmu_profile)' /\ LmaShown(env)'
  BY <1>1 DEF MmuInv, Walkable, MmuTables, LmaShown
<1>3. ASSUME NEW u \in Users, NEW v \in Pages, tlb[u][v] # NotCached, v \notin stale'
      PROVE  CachedRight(env, tables', u, v, tlb[u][v])
  <2>1. v \notin stale /\ \A l \in 1 .. Levels(env) : Path(env, tables, v)[l] # loc
    BY <1>1, <1>3
  <2>2. CachedRight(env, tables, u, v, tlb[u][v])
    BY <1>3, <2>1 DEF MmuInv
  <2>3. \A l \in 1 .. Levels(env) : Path(env, tables, v)[l] \in DOMAIN tables
    BY PathReaches DEF MmuInv, Walkable
  <2>4. \A l \in 1 .. Levels(env) :
          tables'[Path(env, tables, v)[l]] = tables[Path(env, tables, v)[l]]
    BY <1>1, <2>1, <2>3
  <2>5. SameFormat(env, env)
    BY DEF SameFormat, SameWay
  <2>6. \A x : SameEntry(x, x)
    BY DEF SameEntry
  <2>7. \A l \in 1 .. Levels(env) :
          /\ SameEntry(tables'[Path(env, tables, v)[l]], tables[Path(env, tables, v)[l]])
          /\ tables[Path(env, tables, v)[l]].flags \subseteq tables'[Path(env, tables, v)[l]].flags
    BY <2>4, <2>6
  <2> QED BY <2>2, <2>5, <2>7, CachedKept
<1> QED BY <1>1, <1>2, <1>3 DEF MmuInv

\* Every step of the guest keeps the invariant.
LEMMA MmuStep ==
  ASSUME MmuInv, MmuNext
  PROVE  MmuInv'
<1> DEFINE use == MmuUse[mmu_profile]
<1>1. /\ use.pages \subseteq Pages /\ use.cr3 \subseteq MmuFrames(mmu_profile)
      /\ use.a20 \cup use.nxe \subseteq BOOLEAN /\ use.cr0 \cup use.cr4 \subseteq SUBSET CpuFlags
      /\ \A loc \in DOMAIN use.entries : use.entries[loc] \subseteq MmuEntries(mmu_profile)
  BY MmuAssumption DEF MmuInv, Walkable
<1>2. CASE \E v \in use.pages, a \in AccessKinds, u \in Users : MemAccess(v, a, u)
  BY <1>1, <1>2, AccessStep
<1>3. CASE \E c \in use.cr0 : MmuCr0(c)
  BY <1>1, <1>3, Cr0Step
<1>4. CASE \E c \in use.cr4 : MmuCr4(c)
  BY <1>1, <1>4, Cr4Step
<1>5. CASE \E f \in use.cr3 : MmuCr3(f)
  BY <1>1, <1>5, Cr3Step
<1>6. CASE \E on \in use.a20 : set_a20(on)
  BY <1>1, <1>6, A20Step
<1>7. CASE \E v \in use.pages : helper_invlpg(v)
  BY <1>1, <1>7, InvlpgStep
<1>9. CASE \E on \in use.nxe : MmuNxe(on)
  BY <1>1, <1>9, NxeStep
<1>8. CASE \E loc \in DOMAIN use.entries : \E entry \in use.entries[loc] : WriteEntry(loc, entry)
  BY <1>1, <1>8, WriteStep
<1> HIDE DEF use
<1> QED BY <1>2, <1>3, <1>4, <1>5, <1>6, <1>7, <1>8, <1>9 DEF MmuNext, use

-----------------------------------------------------------------------------
(* What follows *)

\* With A20 on, and no entry on the way with the no-execute bit,
\* cpu_get_phys_page_debug finds the frame that the walk finds.
LEMMA SecondWalk ==
  ASSUME NEW e, NEW m, NEW p, Walkable(e, m, p), NEW v \in Pages, NEW u, NEW c,
         CachedRight(e, m, u, v, c), "PG" \in e.cr0, e.a20,
         NoExecute(e, m, Path(e, m, v)) = {}
  PROVE  c.paddr = get_phys_page_debug(e, m, v)
<1> DEFINE q == Path(e, m, v)
<1>1. LongPaging(e) => Canonical(v)
  BY DEF CachedRight
<1>2. Stops(e, m, q) = {} /\ c.paddr = Paddr(e, m, q, v)
  BY DEF CachedRight
<1>3. \A l \in LeafLevel(e, m, q) .. Levels(e) : "P" \in m[q[l]].flags
  BY <1>2 DEF Stops
<1>4. [e EXCEPT !.a20 = e.a20 \/ Pae(e)] = e
  BY DEF Walkable, MmuCpus
<1> HIDE DEF q
<1> QED BY <1>1, <1>2, <1>3, <1>4 DEF get_phys_page_debug, q

\* The TLB holds what a walk finds now, and no access is walked for twice.
LEMMA TlbRight ==
  ASSUME MmuInv
  PROVE  TlbFaithful /\ FillsResolve
<1>1. TlbFaithful
  <2> SUFFICES ASSUME NEW u \in Users, NEW v \in Pages, tlb[u][v] # NotCached, v \notin stale
               PROVE  LET c == tlb[u][v]
                          path == Path(env, tables, v)
                          leaf == tables[path[LeafLevel(env, tables, path)]].flags
                      IN  IF "PG" \notin env.cr0 THEN c.paddr = Unpaged(env, v)
                          ELSE /\ Stops(env, tables, path) = {}
                               /\ c.paddr = Paddr(env, tables, path, v)
                               /\ \A a \in c.prot : ~Denied(env, Rights(env, tables, path), a, u)
                               /\ "A" \in leaf /\ ("write" \in c.prot => "D" \in leaf)
                               /\ env.a20 /\ NoExecute(env, tables, path) = {} =>
                                    c.paddr = get_phys_page_debug(env, tables, v)
    BY DEF TlbFaithful
  <2>1. CachedRight(env, tables, u, v, tlb[u][v])
    BY DEF MmuInv
  <2>2. "PG" \in env.cr0 /\ env.a20 /\ NoExecute(env, tables, Path(env, tables, v)) = {} =>
          tlb[u][v].paddr = get_phys_page_debug(env, tables, v)
    BY <2>1, SecondWalk DEF MmuInv
  <2> QED BY <2>1, <2>2 DEF CachedRight
<1>2. FillsResolve
  <2>1. MmuUse[mmu_profile].pages \subseteq Pages
    BY MmuAssumption DEF MmuInv, Walkable
  <2> QED BY <2>1, WalkFills DEF FillsResolve, MmuInv
<1> QED BY <1>1, <1>2

-----------------------------------------------------------------------------
\* As many things as there are names for them, when no two have the same.
LEMMA AsMany ==
  ASSUME NEW names, IsFiniteSet(names), NEW set, NEW f \in [names -> set],
         \A a, b \in names : f[a] = f[b] => a = b, \A t \in set : \E a \in names : f[a] = t
  PROVE  Cardinality(set) = Cardinality(names)
<1>1. f \in Bijection(names, set)
  BY Fun_IsBij
<1>2. IsFiniteSet(names) /\ ExistsBijection(names, set)
  BY <1>1 DEF ExistsBijection
<1> QED BY ONLY <1>2, FS_Bijection

-----------------------------------------------------------------------------
(* hflags *)

\* m is the CPU e with other values in the fields F only.
Alters(m, e, F) ==
  /\ m = [f \in EnvFields |-> m[f]]
  /\ \A f \in EnvFields \ F : m[f] = e[f]
IsCpu(e) == e = [f \in EnvFields |-> e[f]]

\* m has the hidden flags of e but for those of F.
SameHidden(m, e, F) == \A f : f \notin F => (f \in m.hflags <=> f \in e.hflags)

SoundSegments(segs) ==
  segs = [r \in SegRegs |-> segs[r]] /\ \A r \in SegRegs : SoundSegment(segs[r])

\* The flags that come from control registers and EFER.
ControlFlags(e) ==
  /\ \A f \in {"PE"} \cup FpuBits : f \in e.hflags <=> f \in e.cr0
  /\ "OSFXSR" \in e.hflags <=> "OSFXSR" \in e.cr4
  /\ "LMA" \in e.hflags <=> "LMA" \in e.efer

\* And those that come from the segments.
InLongCode(e) == "LMA" \in e.efer /\ e.segs.CS.attr.l
NeedsBases(e) ==
  \/ "PE" \notin e.cr0 \/ "VM" \in e.eflags \/ ~e.segs.CS.attr.b
  \/ e.segs.DS.base # 0 \/ e.segs.SS.base # 0
SegmentFlags(e) ==
  /\ "CS64" \in e.hflags <=> InLongCode(e)
  /\ "CS32" \in e.hflags <=> InLongCode(e) \/ e.segs.CS.attr.b
  /\ ~InLongCode(e) => ("SS32" \in e.hflags <=> e.segs.SS.attr.b)
  /\ ~InLongCode(e) /\ NeedsBases(e) => "ADDSEG" \in e.hflags
Coherent(e) == ControlFlags(e) /\ SegmentFlags(e)

OfSegments == {"CS32", "SS32", "CS64", "ADDSEG"}
OfControl == {"PE", "MP", "EM", "TS", "OSFXSR", "LMA"}

\* Changes one after the other.
LEMMA AltersTwice ==
  ASSUME NEW e, NEW m, NEW n, NEW F, NEW G, Alters(m, e, F), Alters(n, m, G)
  PROVE  Alters(n, e, F \cup G)
BY DEF Alters

\* What has not been altered.
LEMMA AltersFields ==
  ASSUME NEW e, NEW m, NEW F, Alters(m, e, F)
  PROVE  /\ IsCpu(m)
         /\ "segs" \notin F => m.segs = e.segs
         /\ "efer" \notin F => m.efer = e.efer
         /\ "cr0" \notin F => m.cr0 = e.cr0
         /\ "cr4" \notin F => m.cr4 = e.cr4
         /\ "eip" \notin F => m.eip = e.eip
         /\ "eflags" \notin F => m.eflags = e.eflags
         /\ "iopl" \notin F => m.iopl = e.iopl
         /\ "dr7" \notin F => m.dr7 = e.dr7
         /\ "cpl" \notin F => m.cpl = e.cpl
         /\ "hflags" \notin F => m.hflags = e.hflags
         /\ "hflags2" \notin F => m.hflags2 = e.hflags2
         /\ "smbase" \notin F => m.smbase = e.smbase
         /\ "intercept" \notin F => m.intercept = e.intercept
         /\ "virq" \notin F => m.virq = e.virq
BY DEF Alters, IsCpu, EnvFields

\* One assignment.
LEMMA Assigned ==
  ASSUME NEW e, IsCpu(e), NEW f \in EnvFields, NEW v
  PROVE  Alters([e EXCEPT ![f] = v], e, {f}) /\ [e EXCEPT ![f] = v][f] = v
BY DEF Alters, IsCpu

\* A bit that follows a condition.
LEMMA WithBit ==
  ASSUME NEW S, NEW bit, NEW cond \in BOOLEAN, NEW f
  PROVE  f \in With(S, bit, cond) <=> IF f = bit THEN cond ELSE f \in S
BY DEF With

\* cpu_x86_load_seg_cache, of a segment.
LEMMA SegmentLoaded ==
  ASSUME NEW e, IsCpu(e), SoundSegments(e.segs), NEW reg \in SegRegs, NEW seg, SoundSegment(seg),
         NEW m, m = LoadSaved(e, reg, seg)
  PROVE  /\ Alters(m, e, {"segs", "hflags"}) /\ m.segs = [e.segs EXCEPT ![reg] = seg]
         /\ SameHidden(m, e, OfSegments)
         /\ IF reg = "CS"
              THEN LET long == "LMA" \in e.hflags /\ seg.attr.l IN
                   /\ "CS64" \in m.hflags <=> long
                   /\ "CS32" \in m.hflags <=> long \/ seg.attr.b
              ELSE SameHidden(m, e, {"SS32", "ADDSEG"})
         /\ "SS32" \in m.hflags <=> m.segs.SS.attr.b
         /\ "CS64" \notin m.hflags /\ AddsSegment(m) => "ADDSEG" \in m.hflags
<1> DEFINE e1 == [e EXCEPT !.segs[reg] = seg]
           long == "LMA" \in e.hflags /\ seg.attr.l
           h1 == IF reg # "CS" THEN e.hflags
                 ELSE IF long THEN (e.hflags \ {"ADDSEG"}) \cup {"CS32", "SS32", "CS64"}
                 ELSE With(e.hflags, "CS32", seg.attr.b) \ {"CS64"}
           h2 == With(h1, "SS32", e1.segs["SS"].attr.b)
           e2 == [e1 EXCEPT !.hflags = h2]
           adds == "CS64" \notin h1 /\ AddsSegment(e2)
           h3 == With(h2, "ADDSEG", adds)
<1>0. seg = Segment(seg.sel, seg.base, seg.attr) /\ seg.attr.b \in BOOLEAN /\ seg.attr.l \in BOOLEAN
  BY DEF SoundSegment
<1>1. m = [e2 EXCEPT !.hflags = With(@, "ADDSEG", adds)]
  BY <1>0 DEF LoadSaved, LoadSegCache
<1>2. /\ e1 = [e EXCEPT !.segs = [e.segs EXCEPT ![reg] = seg]]
      /\ Alters(e1, e, {"segs"}) /\ e1.segs = [e.segs EXCEPT ![reg] = seg]
  <2>1. e1 = [e EXCEPT !.segs = [e.segs EXCEPT ![reg] = seg]]
    OBVIOUS
  <2>2. "segs" \in EnvFields
    BY DEF EnvFields
  <2> HIDE DEF e1
  <2> QED BY <2>1, <2>2, Assigned
<1>3. SoundSegments(e1.segs)
  <2> HIDE DEF e1
  <2> QED BY <1>2 DEF SoundSegments
<1>4. Alters(e2, e1, {"hflags"}) /\ e2.hflags = h2
  <2>1. IsCpu(e1) /\ "hflags" \in EnvFields
    BY <1>2 DEF Alters, IsCpu, EnvFields
  <2> HIDE DEF e1, h2
  <2> QED BY <2>1, Assigned
<1>5. Alters(m, e2, {"hflags"}) /\ m.hflags = h3
  <2>1. IsCpu(e2) /\ "hflags" \in EnvFields
    BY <1>4 DEF Alters, IsCpu, EnvFields
  <2>2. m = [e2 EXCEPT !.hflags = h3]
    <3> HIDE DEF e2, h2, adds
    <3> QED BY <1>1, <1>4
  <2> HIDE DEF e2, h3
  <2>3. Alters([e2 EXCEPT !.hflags = h3], e2, {"hflags"}) /\ [e2 EXCEPT !.hflags = h3].hflags = h3
    BY <2>1, Assigned
  <2> QED BY <2>2, <2>3
<1> HIDE DEF e1, e2
<1>6. Alters(m, e, {"segs", "hflags"}) /\ m.segs = e1.segs /\ e2.segs = e1.segs
      /\ e2.cr0 = m.cr0 /\ e2.eflags = m.eflags
  <2>1. Alters(m, e1, {"hflags"} \cup {"hflags"})
    BY <1>4, <1>5, AltersTwice
  <2>2. Alters(m, e, {"segs"} \cup ({"hflags"} \cup {"hflags"}))
    BY <2>1, <1>2, AltersTwice
  <2>3. {"segs"} \cup ({"hflags"} \cup {"hflags"}) = {"segs", "hflags"}
    OBVIOUS
  <2>4. e2.segs = e1.segs
    BY <1>4, AltersFields
  <2>5. m.segs = e2.segs /\ m.cr0 = e2.cr0 /\ m.eflags = e2.eflags
    BY <1>5, AltersFields
  <2> QED BY <2>2, <2>3, <2>4, <2>5
<1>7. adds \in BOOLEAN /\ e1.segs["SS"].attr.b \in BOOLEAN
  BY <1>3 DEF SoundSegments, SegRegs, SoundSegment
<1>8. \A f : f \in m.hflags <=> IF f = "ADDSEG" THEN adds ELSE f \in h2
  <2> HIDE DEF adds, h2
  <2> QED BY <1>5, <1>7, WithBit
<1>9. \A f : f \in h2 <=> IF f = "SS32" THEN m.segs.SS.attr.b ELSE f \in h1
  <2> HIDE DEF h1
  <2> QED BY <1>6, <1>7, WithBit
<1>10. /\ reg # "CS" => h1 = e.hflags
       /\ reg = "CS" => /\ \A f : f \notin OfSegments => (f \in h1 <=> f \in e.hflags)
                        /\ "CS64" \in h1 <=> long
                        /\ "CS32" \in h1 <=> long \/ seg.attr.b
  <2>1. \A f : f \in With(e.hflags, "CS32", seg.attr.b)
                 <=> IF f = "CS32" THEN seg.attr.b ELSE f \in e.hflags
    BY <1>0, WithBit
  <2> QED BY <2>1 DEF OfSegments
<1>11. AddsSegment(m) <=> AddsSegment(e2)
  <2>1. "CS32" \in m.hflags <=> "CS32" \in e2.hflags
    BY <1>8, <1>4
  <2> QED BY <1>6, <2>1 DEF AddsSegment
<1>12. "CS64" \in m.hflags <=> "CS64" \in h1
  BY <1>8, <1>9
<1> HIDE DEF h1, h2, h3
<1>13. m.segs = [e.segs EXCEPT ![reg] = seg]
  BY <1>2, <1>6
<1>14. SameHidden(m, e, OfSegments)
  BY <1>8, <1>9, <1>10 DEF SameHidden, OfSegments
<1>15. CASE reg = "CS"
  <2>1. "CS64" \in m.hflags <=> long
    BY <1>15, <1>10, <1>12
  <2>2. "CS32" \in m.hflags <=> long \/ seg.attr.b
    BY <1>15, <1>8, <1>9, <1>10
  <2> QED BY <1>15, <2>1, <2>2, <1>6, <1>8, <1>9, <1>11, <1>12, <1>13, <1>14
<1>16. CASE reg # "CS"
  <2>1. SameHidden(m, e, {"SS32", "ADDSEG"})
    BY <1>16, <1>8, <1>9, <1>10 DEF SameHidden
  <2> QED BY <1>16, <2>1, <1>6, <1>8, <1>9, <1>11, <1>12, <1>13, <1>14
<1> QED BY <1>15, <1>16

\* The order of the loads leaves every flag as the last one needs it.
LEMMA AllLoaded ==
  ASSUME NEW e, IsCpu(e), SoundSegments(e.segs), NEW segs, SoundSegments(segs),
         NEW m, m = LoadAll(e, segs)
  PROVE  /\ Alters(m, e, {"segs", "hflags"}) /\ m.segs = segs
         /\ SameHidden(m, e, OfSegments)
         /\ ("LMA" \in e.hflags <=> "LMA" \in e.efer) => SegmentFlags(m)
<1> DEFINE a == LoadSaved(e, "CS", segs.CS)
           b == LoadSaved(a, "SS", segs.SS)
           long == "LMA" \in e.hflags /\ segs.CS.attr.l
<1>0. "CS" \in SegRegs /\ "SS" \in SegRegs /\ "DS" \in SegRegs
  BY DEF SegRegs
<1>1. m = LoadSaved(b, "DS", segs.DS)
  BY DEF LoadAll
<1>2. SoundSegment(segs.CS) /\ SoundSegment(segs.SS) /\ SoundSegment(segs.DS)
  BY <1>0 DEF SoundSegments
<1>3. /\ Alters(a, e, {"segs", "hflags"}) /\ a.segs = [e.segs EXCEPT !["CS"] = segs.CS]
      /\ SameHidden(a, e, OfSegments)
      /\ "CS64" \in a.hflags <=> long
      /\ "CS32" \in a.hflags <=> long \/ segs.CS.attr.b
  <2> HIDE DEF a
  <2>1. \A x : x = LoadSaved(e, "CS", segs.CS) =>
         /\ Alters(x, e, {"segs", "hflags"}) /\ x.segs = [e.segs EXCEPT !["CS"] = segs.CS]
         /\ SameHidden(x, e, OfSegments)
         /\ "CS64" \in x.hflags <=> long
         /\ "CS32" \in x.hflags <=> long \/ segs.CS.attr.b
    BY <1>0, <1>2, SegmentLoaded
  <2> QED BY <2>1 DEF a
<1>4. SoundSegments(a.segs)
  <2> HIDE DEF a
  <2> QED BY <1>0, <1>2, <1>3 DEF SoundSegments
<1>5. /\ Alters(b, a, {"segs", "hflags"}) /\ b.segs = [a.segs EXCEPT !["SS"] = segs.SS]
      /\ SameHidden(b, a, OfSegments) /\ SameHidden(b, a, {"SS32", "ADDSEG"})
  <2>1. IsCpu(a)
    BY <1>3, AltersFields
  <2> HIDE DEF a, b
  <2>2. \A x : x = LoadSaved(a, "SS", segs.SS) =>
         /\ Alters(x, a, {"segs", "hflags"}) /\ x.segs = [a.segs EXCEPT !["SS"] = segs.SS]
         /\ SameHidden(x, a, OfSegments) /\ SameHidden(x, a, {"SS32", "ADDSEG"})
    BY <2>1, <1>0, <1>2, <1>4, SegmentLoaded
  <2> QED BY <2>2 DEF b
<1>6. SoundSegments(b.segs)
  <2> HIDE DEF a, b
  <2> QED BY <1>0, <1>2, <1>4, <1>5 DEF SoundSegments
<1>7. /\ Alters(m, b, {"segs", "hflags"}) /\ m.segs = [b.segs EXCEPT !["DS"] = segs.DS]
      /\ SameHidden(m, b, OfSegments) /\ SameHidden(m, b, {"SS32", "ADDSEG"})
      /\ "SS32" \in m.hflags <=> m.segs.SS.attr.b
      /\ "CS64" \notin m.hflags /\ AddsSegment(m) => "ADDSEG" \in m.hflags
  <2>1. IsCpu(b)
    BY <1>5, AltersFields
  <2> HIDE DEF b
  <2> QED BY ONLY <2>1, <1>0, <1>1, <1>2, <1>6, SegmentLoaded
<1> HIDE DEF a, b
<1>8. Alters(m, e, {"segs", "hflags"})
  <2>1. Alters(b, e, {"segs", "hflags"} \cup {"segs", "hflags"})
    BY <1>3, <1>5, AltersTwice
  <2>2. Alters(m, e, ({"segs", "hflags"} \cup {"segs", "hflags"}) \cup {"segs", "hflags"})
    BY <2>1, <1>7, AltersTwice
  <2> QED BY <2>2
<1>9. m.segs = segs
  <2>1. m.segs = [r \in SegRegs |-> segs[r]]
    BY <1>3, <1>5, <1>7 DEF SoundSegments, SegRegs
  <2> QED BY <2>1 DEF SoundSegments
<1>10. SameHidden(m, e, OfSegments)
  BY <1>3, <1>5, <1>7 DEF SameHidden
<1>11. /\ "CS64" \in m.hflags <=> long
       /\ "CS32" \in m.hflags <=> long \/ segs.CS.attr.b
  BY <1>3, <1>5, <1>7 DEF SameHidden
<1>12. ASSUME "LMA" \in e.hflags <=> "LMA" \in e.efer
       PROVE  SegmentFlags(m)
  <2>1. m.efer = e.efer
    BY <1>8, AltersFields
  <2>2. InLongCode(m) <=> long
    BY <1>12, <2>1, <1>9 DEF InLongCode
  <2> HIDE DEF long
  <2>3. ~InLongCode(m) /\ NeedsBases(m) => AddsSegment(m)
    BY <2>2, <1>9, <1>11 DEF NeedsBases, AddsSegment
  <2> QED BY <2>2, <2>3, <1>7, <1>9, <1>11 DEF SegmentFlags
<1> QED BY <1>8, <1>9, <1>10, <1>12

\* What cpu_x86_update_cr0 does, for a new value, where it does not return early.
EntersLong(e, new) == Enters(e, new)
LeavesLong(e, new) == "PG" \in e.cr0 /\ "PG" \notin new /\ "LMA" \in e.efer
Cr0Effect(m, e, new) ==
  /\ Alters(m, e, {"cr0", "efer", "hflags"}) /\ m.cr0 = new
  /\ m.efer = IF EntersLong(e, new) THEN e.efer \cup {"LMA"}
              ELSE IF LeavesLong(e, new) THEN e.efer \ {"LMA"} ELSE e.efer
  /\ "LMA" \in m.hflags
       <=> EntersLong(e, new) \/ (~LeavesLong(e, new) /\ "LMA" \in e.hflags)
  /\ "CS64" \in m.hflags
       <=> "CS64" \in e.hflags /\ (EntersLong(e, new) \/ ~LeavesLong(e, new))
  /\ \A f \in {"PE"} \cup FpuBits : f \in m.hflags <=> f \in new
  /\ SameHidden(m, e, {"PE", "MP", "EM", "TS", "LMA", "CS64", "ADDSEG"})
  /\ "ADDSEG" \in m.hflags <=> "ADDSEG" \in e.hflags \/ "PE" \notin new
LEMMA Cr0Updated ==
  ASSUME NEW e, IsCpu(e), NEW new, ~Cr0Refused(e, new)
  PROVE  Cr0Effect(UpdateCr0(e, new), e, new)
<1> DEFINE m == UpdateCr0(e, new)
           enter == "PG" \notin e.cr0 /\ "PG" \in new /\ "LME" \in e.efer
           leave == "PG" \in e.cr0 /\ "PG" \notin new /\ "LMA" \in e.efer
           efer == IF enter THEN e.efer \cup {"LMA"}
                   ELSE IF leave THEN e.efer \ {"LMA"} ELSE e.efer
           h0 == IF enter THEN e.hflags \cup {"LMA"}
                 ELSE IF leave THEN e.hflags \ {"LMA", "CS64"} ELSE e.hflags
           pe == With(h0, "PE", "PE" \in new)
           h1 == ((IF "PE" \in new THEN pe ELSE pe \cup {"ADDSEG"}) \ FpuBits) \cup (new \cap FpuBits)
           mode == IF enter
                THEN [e EXCEPT !.efer = @ \cup {"LMA"}, !.hflags = @ \cup {"LMA"}]
              ELSE IF leave
                THEN [e EXCEPT !.efer = @ \ {"LMA"}, !.hflags = @ \ {"LMA", "CS64"}]
              ELSE e
<1>1. m = [mode EXCEPT !.cr0 = new,
             !.hflags = ((IF "PE" \in new THEN With(mode.hflags, "PE", "PE" \in new)
                          ELSE With(mode.hflags, "PE", "PE" \in new) \cup {"ADDSEG"}) \ FpuBits)
                          \cup (new \cap FpuBits)]
  BY DEF UpdateCr0, Enters
<1> HIDE DEF m
<1>2. ASSUME NEW x, NEW y
      PROVE  LET n == [e EXCEPT !.efer = x, !.hflags = y] IN
             Alters(n, e, {"efer", "hflags"}) /\ n.efer = x /\ n.hflags = y
  <2> DEFINE d == [e EXCEPT !.efer = x]
             n == [d EXCEPT !.hflags = y]
  <2>1. "efer" \in EnvFields /\ "hflags" \in EnvFields /\ IsCpu(e)
    BY AltersFields DEF EnvFields
  <2>2. [e EXCEPT !.efer = x, !.hflags = y] = n
    OBVIOUS
  <2>3. Alters(d, e, {"efer"}) /\ d.efer = x
    BY <2>1, Assigned
  <2> HIDE DEF d
  <2>4. IsCpu(d)
    BY <2>3, AltersFields
  <2>5. Alters(n, d, {"hflags"}) /\ n.hflags = y
    BY <2>1, <2>4, Assigned
  <2> HIDE DEF n
  <2>6. Alters(n, e, {"efer"} \cup {"hflags"}) /\ n.efer = d.efer
    BY <2>3, <2>5, AltersTwice, AltersFields
  <2>7. {"efer"} \cup {"hflags"} = {"efer", "hflags"}
    OBVIOUS
  <2>8. Alters(n, e, {"efer", "hflags"}) /\ n.hflags = y /\ n.efer = x
    BY <2>3, <2>5, <2>6, <2>7
  <2> QED BY <2>2, <2>8
<1>3. Alters(mode, e, {"efer", "hflags"}) /\ mode.efer = efer /\ mode.hflags = h0
  <2> DEFINE on == [e EXCEPT !.efer = e.efer \cup {"LMA"}, !.hflags = e.hflags \cup {"LMA"}]
             off == [e EXCEPT !.efer = e.efer \ {"LMA"}, !.hflags = e.hflags \ {"LMA", "CS64"}]
  <2>1. /\ Alters(on, e, {"efer", "hflags"})
        /\ on.efer = e.efer \cup {"LMA"} /\ on.hflags = e.hflags \cup {"LMA"}
    BY ONLY <1>2
  <2>2. /\ Alters(off, e, {"efer", "hflags"})
        /\ off.efer = e.efer \ {"LMA"} /\ off.hflags = e.hflags \ {"LMA", "CS64"}
    BY ONLY <1>2
  <2>3. mode = IF enter THEN on ELSE IF leave THEN off ELSE e
    BY DEF on, off
  <2> HIDE DEF on, off, mode
  <2>4. CASE enter
    BY <2>4, <2>1, <2>3
  <2>5. CASE ~enter /\ leave
    BY <2>5, <2>2, <2>3
  <2>6. CASE ~enter /\ ~leave
    <3>1. Alters(e, e, {"efer", "hflags"})
      BY DEF IsCpu, Alters
    <3> QED BY <2>6, <2>3, <3>1
  <2> QED BY <2>4, <2>5, <2>6
<1> HIDE DEF mode
<1>4. m = [mode EXCEPT !.cr0 = new, !.hflags = h1]
  BY <1>1, <1>3
<1>5. ASSUME NEW x, NEW y
      PROVE  LET n == [mode EXCEPT !.cr0 = x, !.hflags = y] IN
             Alters(n, mode, {"cr0", "hflags"}) /\ n.cr0 = x /\ n.hflags = y
  <2> DEFINE d == [mode EXCEPT !.cr0 = x]
             n == [d EXCEPT !.hflags = y]
  <2>1. "cr0" \in EnvFields /\ "hflags" \in EnvFields /\ IsCpu(mode)
    BY <1>3, AltersFields DEF EnvFields
  <2>2. [mode EXCEPT !.cr0 = x, !.hflags = y] = n
    OBVIOUS
  <2>3. Alters(d, mode, {"cr0"}) /\ d.cr0 = x
    BY <2>1, Assigned
  <2> HIDE DEF d
  <2>4. IsCpu(d)
    BY <2>3, AltersFields
  <2>5. Alters(n, d, {"hflags"}) /\ n.hflags = y
    BY <2>1, <2>4, Assigned
  <2> HIDE DEF n
  <2>6. Alters(n, mode, {"cr0"} \cup {"hflags"}) /\ n.cr0 = d.cr0
    BY <2>3, <2>5, AltersTwice, AltersFields
  <2>7. {"cr0"} \cup {"hflags"} = {"cr0", "hflags"}
    OBVIOUS
  <2>8. Alters(n, mode, {"cr0", "hflags"}) /\ n.hflags = y /\ n.cr0 = x
    BY <2>3, <2>5, <2>6, <2>7
  <2> QED BY <2>2, <2>8
<1>6. Alters(m, mode, {"cr0", "hflags"}) /\ m.cr0 = new /\ m.hflags = h1
  <2> HIDE DEF h1
  <2> QED BY ONLY <1>4, <1>5
<1>7. Alters(m, e, {"cr0", "efer", "hflags"}) /\ m.efer = efer
  <2>1. Alters(m, e, {"efer", "hflags"} \cup {"cr0", "hflags"})
    BY <1>3, <1>6, AltersTwice
  <2>2. {"efer", "hflags"} \cup {"cr0", "hflags"} = {"cr0", "efer", "hflags"}
    OBVIOUS
  <2>3. m.efer = mode.efer
    BY <1>6, AltersFields
  <2> QED BY <2>1, <2>2, <2>3, <1>3
<1>8. \A f : f \in pe <=> IF f = "PE" THEN "PE" \in new ELSE f \in h0
  <2> HIDE DEF h0
  <2> QED BY DEF With
<1>9. \A f : f \in h1 <=> \/ f \in FpuBits /\ f \in new
                          \/ f \notin FpuBits /\ (f \in pe \/ ("PE" \notin new /\ f = "ADDSEG"))
  <2> HIDE DEF pe
  <2> QED OBVIOUS
<1> HIDE DEF pe, h1
<1>10. /\ \A f \in {"PE"} \cup FpuBits : f \in m.hflags <=> f \in new
       /\ SameHidden(m, e, {"PE", "MP", "EM", "TS", "LMA", "CS64", "ADDSEG"})
       /\ "ADDSEG" \in m.hflags <=> "ADDSEG" \in e.hflags \/ "PE" \notin new
       /\ "LMA" \in m.hflags <=> "LMA" \in h0
       /\ "CS64" \in m.hflags <=> "CS64" \in h0
  BY <1>6, <1>8, <1>9 DEF SameHidden, FpuBits
<1>11. /\ "LMA" \in h0 <=> enter \/ (~leave /\ "LMA" \in e.hflags)
       /\ "CS64" \in h0 <=> "CS64" \in e.hflags /\ (enter \/ ~leave)
  OBVIOUS
<1>12. Cr0Effect(m, e, new)
  <2>1. (enter <=> EntersLong(e, new)) /\ (leave <=> LeavesLong(e, new))
    BY DEF EntersLong, Enters, LeavesLong
  <2> HIDE DEF enter, leave, h0
  <2> QED BY <1>6, <1>7, <1>10, <1>11, <2>1 DEF Cr0Effect
<1> QED BY <1>12 DEF m

\* cpu_x86_update_cr4.
LEMMA Cr4Updated ==
  ASSUME NEW e, IsCpu(e), NEW new, NEW m, m = UpdateCr4(e, new)
  PROVE  /\ Alters(m, e, {"cr4", "hflags"}) /\ m.cr4 = new
         /\ \A f : f \in m.hflags <=> IF f = "OSFXSR" THEN f \in new ELSE f \in e.hflags
<1> DEFINE h == With(e.hflags, "OSFXSR", "OSFXSR" \in new)
<1> DEFINE d == [e EXCEPT !.cr4 = new]
           n == [d EXCEPT !.hflags = h]
<1>1. UpdateCr4(e, new) = n
  BY DEF UpdateCr4
<1>2. "cr4" \in EnvFields /\ "hflags" \in EnvFields
  BY DEF EnvFields
<1> HIDE DEF h
<1>3. Alters(d, e, {"cr4"}) /\ d.cr4 = new
  BY <1>2, Assigned
<1> HIDE DEF d
<1>4. IsCpu(d)
  BY <1>3, AltersFields
<1>5. Alters(n, d, {"hflags"}) /\ n.hflags = h
  BY <1>2, <1>4, Assigned
<1> HIDE DEF n
<1>6. Alters(n, e, {"cr4"} \cup {"hflags"}) /\ n.cr4 = d.cr4
  BY <1>3, <1>5, AltersTwice, AltersFields
<1>7. {"cr4"} \cup {"hflags"} = {"cr4", "hflags"}
  OBVIOUS
<1>8. Alters(m, e, {"cr4", "hflags"}) /\ m.cr4 = new /\ m.hflags = h
  BY <1>1, <1>3, <1>5, <1>6, <1>7
<1>9. \A f : f \in h <=> IF f = "OSFXSR" THEN f \in new ELSE f \in e.hflags
  BY DEF h, With
<1> QED BY <1>8, <1>9

\* cpu_load_efer.
LEMMA EferLoaded ==
  ASSUME NEW e, IsCpu(e), NEW val, NEW m, m = LoadEfer(e, val)
  PROVE  /\ Alters(m, e, {"efer", "hflags"}) /\ m.efer = val
         /\ \A f : f \in m.hflags <=> IF f \in {"LMA", "SVME"} THEN f \in val ELSE f \in e.hflags
<1> DEFINE h == With(With(e.hflags, "LMA", "LMA" \in val), "SVME", "SVME" \in val)
<1> DEFINE d == [e EXCEPT !.efer = val]
           n == [d EXCEPT !.hflags = h]
<1>1. LoadEfer(e, val) = n
  BY DEF LoadEfer
<1>2. "efer" \in EnvFields /\ "hflags" \in EnvFields
  BY DEF EnvFields
<1> HIDE DEF h
<1>3. Alters(d, e, {"efer"}) /\ d.efer = val
  BY <1>2, Assigned
<1> HIDE DEF d
<1>4. IsCpu(d)
  BY <1>3, AltersFields
<1>5. Alters(n, d, {"hflags"}) /\ n.hflags = h
  BY <1>2, <1>4, Assigned
<1> HIDE DEF n
<1>6. Alters(n, e, {"efer"} \cup {"hflags"}) /\ n.efer = d.efer
  BY <1>3, <1>5, AltersTwice, AltersFields
<1>7. {"efer"} \cup {"hflags"} = {"efer", "hflags"}
  OBVIOUS
<1>8. Alters(m, e, {"efer", "hflags"}) /\ m.efer = val /\ m.hflags = h
  BY <1>1, <1>3, <1>5, <1>6, <1>7
<1>9. \A f : f \in h <=> IF f \in {"LMA", "SVME"} THEN f \in val ELSE f \in e.hflags
  BY DEF h, With
<1> QED BY <1>8, <1>9

\* cpu_load_eflags, with all the flags there are.
LEMMA EflagsLoaded ==
  ASSUME NEW e, IsCpu(e), NEW new, e.eflags \subseteq AllFlags, new.eflags \subseteq AllFlags,
         NEW m, m = LoadEflags(e, new, AllFlags)
  PROVE  Alters(m, e, {"eflags", "iopl"}) /\ m.eflags = new.eflags /\ m.iopl = new.iopl
<1> DEFINE x == (e.eflags \ AllFlags) \cup (new.eflags \cap AllFlags)
           y == IF "IOPL" \in AllFlags THEN new.iopl ELSE e.iopl
<1> DEFINE d == [e EXCEPT !.eflags = x]
           n == [d EXCEPT !.iopl = y]
<1>1. LoadEflags(e, new, AllFlags) = n
  BY DEF LoadEflags
<1>2. "eflags" \in EnvFields /\ "iopl" \in EnvFields
  BY DEF EnvFields
<1> HIDE DEF x, y
<1>3. Alters(d, e, {"eflags"}) /\ d.eflags = x
  BY <1>2, Assigned
<1> HIDE DEF d
<1>4. IsCpu(d)
  BY <1>3, AltersFields
<1>5. Alters(n, d, {"iopl"}) /\ n.iopl = y
  BY <1>2, <1>4, Assigned
<1> HIDE DEF n
<1>6. Alters(n, e, {"eflags"} \cup {"iopl"}) /\ n.eflags = d.eflags
  BY <1>3, <1>5, AltersTwice, AltersFields
<1>7. {"eflags"} \cup {"iopl"} = {"eflags", "iopl"}
  OBVIOUS
<1>8. Alters(m, e, {"eflags", "iopl"}) /\ m.eflags = x /\ m.iopl = y
  BY <1>1, <1>3, <1>5, <1>6, <1>7
<1>9. x = new.eflags
  BY DEF x
<1>10. y = new.iopl
  BY DEF y, AllFlags
<1> QED BY <1>8, <1>9, <1>10

\* A CPU that is changed in what it saves, or in less.
Core == SavedFields \cup {"hflags"}
LEMMA AltersCore ==
  /\ \A e, m, F : Alters(m, e, F) /\ F \subseteq Core => Alters(m, e, Core)
  /\ \A e, m, n : Alters(m, e, Core) /\ Alters(n, m, Core) => Alters(n, e, Core)
  /\ "segs" \in Core /\ "efer" \in Core /\ "cr0" \in Core /\ "cr4" \in Core /\ "eip" \in Core
  /\ "eflags" \in Core /\ "iopl" \in Core /\ "dr7" \in Core /\ "hflags" \in Core
  /\ "cpl" \notin Core /\ "hflags2" \notin Core /\ "smbase" \notin Core
  /\ "intercept" \notin Core /\ "virq" \notin Core
<1>1. \A e, m, F : Alters(m, e, F) /\ F \subseteq Core => Alters(m, e, Core)
  BY DEF Alters
<1>2. \A e, m, n : Alters(m, e, Core) /\ Alters(n, m, Core) => Alters(n, e, Core)
  BY DEF Alters
<1> QED BY <1>1, <1>2 DEF Core, SavedFields

\* The flags depend on six registers.
LEMMA FlagsKept ==
  ASSUME NEW e, NEW m, m.segs = e.segs, m.efer = e.efer, m.cr0 = e.cr0, m.cr4 = e.cr4,
         m.eflags = e.eflags, m.hflags = e.hflags
  PROVE  (ControlFlags(e) <=> ControlFlags(m)) /\ (SegmentFlags(e) <=> SegmentFlags(m))
BY DEF ControlFlags, SegmentFlags, InLongCode, NeedsBases

\* What is saved is what is loaded.
IsSaved(m) == m = [f \in SavedFields |-> m[f]]
LEMMA SavedIs ==
  ASSUME NEW e, NEW m, IsSaved(m), e.segs = m.segs, e.efer = m.efer, e.cr0 = m.cr0,
         e.cr4 = m.cr4, e.eip = m.eip, e.eflags = m.eflags, e.iopl = m.iopl, e.dr7 = m.dr7
  PROVE  Saved(e) = m
<1>1. m = [segs |-> m.segs, efer |-> m.efer, cr0 |-> m.cr0, cr4 |-> m.cr4, eip |-> m.eip,
           eflags |-> m.eflags, iopl |-> m.iopl, dr7 |-> m.dr7]
  BY DEF IsSaved, SavedFields
<1> QED BY <1>1 DEF Saved

LEMMA SavedFieldsOf ==
  ASSUME NEW e
  PROVE  /\ IsSaved(Saved(e))
         /\ Saved(e).segs = e.segs /\ Saved(e).efer = e.efer /\ Saved(e).cr0 = e.cr0
         /\ Saved(e).cr4 = e.cr4 /\ Saved(e).eip = e.eip /\ Saved(e).eflags = e.eflags
         /\ Saved(e).iopl = e.iopl /\ Saved(e).dr7 = e.dr7
         /\ SoundCpu(Saved(e)) <=> SoundCpu(e)
<1>1. /\ IsSaved(Saved(e))
      /\ Saved(e).segs = e.segs /\ Saved(e).efer = e.efer /\ Saved(e).cr0 = e.cr0
      /\ Saved(e).cr4 = e.cr4 /\ Saved(e).eip = e.eip /\ Saved(e).eflags = e.eflags
      /\ Saved(e).iopl = e.iopl /\ Saved(e).dr7 = e.dr7
  BY DEF IsSaved, Saved, SavedFields
<1> QED BY <1>1 DEF SoundCpu

\* The end of VMRUN and of #VMEXIT: the machine is loaded, into whatever CPU.
LEMMA MachineLoaded ==
  ASSUME NEW e, IsCpu(e), SoundSegments(e.segs),
         NEW m, IsSaved(m), SoundCpu(m), ~Cr0Refused(e, m.cr0), NEW n, n = LoadMachine(e, m)
  PROVE  /\ Alters(n, e, Core) /\ Saved(n) = m /\ Coherent(n)
         /\ SameHidden(n, e, OfControl \cup OfSegments \cup {"SVME"})
         /\ "SVME" \in n.hflags <=> "SVME" \in n.efer
<1> DEFINE a == UpdateCr0(e, m.cr0)
           b == UpdateCr4(a, m.cr4)
           c == LoadEfer(b, m.efer)
           c1 == [c EXCEPT !.eflags = {}]
           c2 == [c1 EXCEPT !.iopl = 0]
           d == LoadEflags(c2, m, AllFlags)
           s == LoadSaved(d, "DS", m.segs.DS)
           g == LoadAll(s, m.segs)
           n1 == [g EXCEPT !.eip = m.eip]
<1>1. n = [n1 EXCEPT !.dr7 = m.dr7]
  BY DEF LoadMachine, LoadVmcbSegs
<1>2. SoundSegments(m.segs) /\ m.eflags \subseteq AllFlags /\ SoundSegment(m.segs.DS)
  BY DEF SoundCpu, SoundSegments, SegRegs
<1>3. /\ Alters(a, e, {"cr0", "efer", "hflags"}) /\ a.cr0 = m.cr0
      /\ \A f \in {"PE"} \cup FpuBits : f \in a.hflags <=> f \in m.cr0
      /\ SameHidden(a, e, {"PE", "MP", "EM", "TS", "LMA", "CS64", "ADDSEG"})
  <2>1. Cr0Effect(a, e, m.cr0)
    BY Cr0Updated
  <2> HIDE DEF a
  <2> QED BY <2>1 DEF Cr0Effect
<1> HIDE DEF a
<1>4. /\ Alters(b, a, {"cr4", "hflags"}) /\ b.cr4 = m.cr4
      /\ \A f : f \in b.hflags <=> IF f = "OSFXSR" THEN f \in m.cr4 ELSE f \in a.hflags
  BY <1>3, AltersFields, Cr4Updated
<1> HIDE DEF b
<1>5. /\ Alters(c, b, {"efer", "hflags"}) /\ c.efer = m.efer
      /\ \A f : f \in c.hflags <=> IF f \in {"LMA", "SVME"} THEN f \in m.efer ELSE f \in b.hflags
  BY <1>4, AltersFields, EferLoaded
<1> HIDE DEF c
<1>6. Alters(c1, c, {"eflags"}) /\ c1.eflags = {}
  BY <1>5, AltersFields, Assigned DEF EnvFields
<1> HIDE DEF c1
<1>7. Alters(c2, c1, {"iopl"})
  BY <1>6, AltersFields, Assigned DEF EnvFields
<1> HIDE DEF c2
<1>8. Alters(d, c2, {"eflags", "iopl"}) /\ d.eflags = m.eflags /\ d.iopl = m.iopl
  <2>1. IsCpu(c2) /\ c2.eflags \subseteq AllFlags
    BY <1>6, <1>7, AltersFields
  <2> QED BY <2>1, <1>2, EflagsLoaded
<1> HIDE DEF d
<1>9. /\ Alters(d, e, Core) /\ d.cr0 = m.cr0 /\ d.cr4 = m.cr4 /\ d.efer = m.efer
      /\ d.segs = e.segs /\ d.hflags = c.hflags
  <2>1. Alters(a, e, Core)
    BY <1>3, AltersCore
  <2>2. Alters(b, a, Core)
    BY <1>4, AltersCore
  <2>3. Alters(c, b, Core)
    BY <1>5, AltersCore
  <2>4. Alters(c1, c, Core)
    BY <1>6, AltersCore
  <2>5. Alters(c2, c1, Core)
    BY <1>7, AltersCore
  <2>6. Alters(d, c2, Core)
    BY <1>8, AltersCore
  <2>7. Alters(d, e, Core)
    BY <2>1, <2>2, <2>3, <2>4, <2>5, <2>6, AltersCore
  <2>8. b.cr0 = a.cr0 /\ b.segs = a.segs /\ a.segs = e.segs
    BY <1>3, <1>4, AltersFields
  <2>9. c.cr0 = b.cr0 /\ c.segs = b.segs /\ c.cr4 = b.cr4
    BY <1>5, AltersFields
  <2>10. c1.cr0 = c.cr0 /\ c1.segs = c.segs /\ c1.cr4 = c.cr4 /\ c1.efer = c.efer
         /\ c1.hflags = c.hflags
    BY <1>6, AltersFields
  <2>11. c2.cr0 = c1.cr0 /\ c2.segs = c1.segs /\ c2.cr4 = c1.cr4 /\ c2.efer = c1.efer
         /\ c2.hflags = c1.hflags
    BY <1>7, AltersFields
  <2>12. d.cr0 = c2.cr0 /\ d.segs = c2.segs /\ d.cr4 = c2.cr4 /\ d.efer = c2.efer
         /\ d.hflags = c2.hflags
    BY <1>8, AltersFields
  <2> QED BY <2>7, <2>8, <2>9, <2>10, <2>11, <2>12, <1>3, <1>4, <1>5
<1>10. /\ ControlFlags(d)
       /\ "SVME" \in d.hflags <=> "SVME" \in d.efer
       /\ SameHidden(d, e, OfControl \cup OfSegments \cup {"SVME"})
  <2>1. ControlFlags(d)
    BY <1>3, <1>4, <1>5, <1>9 DEF ControlFlags, FpuBits
  <2>2. "SVME" \in d.hflags <=> "SVME" \in d.efer
    BY <1>5, <1>9
  <2>3. SameHidden(d, e, OfControl \cup OfSegments \cup {"SVME"})
    BY <1>3, <1>4, <1>5, <1>9 DEF SameHidden, OfControl, OfSegments
  <2> QED BY <2>1, <2>2, <2>3
<1>11. /\ Alters(s, d, {"segs", "hflags"}) /\ s.segs = [d.segs EXCEPT !["DS"] = m.segs.DS]
       /\ SameHidden(s, d, OfSegments)
  <2>1. IsCpu(d) /\ SoundSegments(d.segs) /\ "DS" \in SegRegs
    BY <1>9, AltersFields DEF SegRegs
  <2> HIDE DEF s
  <2>2. \A x : x = LoadSaved(d, "DS", m.segs.DS) =>
         /\ Alters(x, d, {"segs", "hflags"}) /\ x.segs = [d.segs EXCEPT !["DS"] = m.segs.DS]
         /\ SameHidden(x, d, OfSegments)
    BY <2>1, <1>2, SegmentLoaded
  <2> QED BY <2>2 DEF s
<1> HIDE DEF s
<1>12. SoundSegments(s.segs)
  BY <1>2, <1>9, <1>11 DEF SoundSegments, SegRegs
<1>13. /\ s.efer = d.efer /\ s.cr0 = d.cr0 /\ s.cr4 = d.cr4 /\ s.eflags = d.eflags
       /\ s.iopl = d.iopl
  BY <1>11, AltersFields
<1>14. "LMA" \in s.hflags <=> "LMA" \in s.efer
  <2>1. "LMA" \in d.hflags <=> "LMA" \in d.efer
    BY <1>10 DEF ControlFlags
  <2>2. "LMA" \in s.hflags <=> "LMA" \in d.hflags
    BY <1>11 DEF SameHidden, OfSegments
  <2> QED BY <2>1, <2>2, <1>13
<1>15. /\ Alters(g, s, {"segs", "hflags"}) /\ g.segs = m.segs
       /\ SameHidden(g, s, OfSegments) /\ SegmentFlags(g)
  <2>1. IsCpu(s)
    BY <1>11, AltersFields
  <2> HIDE DEF g
  <2>2. \A x : x = LoadAll(s, m.segs) =>
         /\ Alters(x, s, {"segs", "hflags"}) /\ x.segs = m.segs
         /\ SameHidden(x, s, OfSegments) /\ SegmentFlags(x)
    BY <2>1, <1>2, <1>12, <1>14, AllLoaded
  <2> QED BY <2>2 DEF g
<1> HIDE DEF g
<1>16. /\ g.efer = s.efer /\ g.cr0 = s.cr0 /\ g.cr4 = s.cr4 /\ g.eflags = s.eflags
       /\ g.iopl = s.iopl
  BY <1>15, AltersFields
<1>17. Alters(n1, g, {"eip"}) /\ n1.eip = m.eip
  BY <1>15, AltersFields, Assigned DEF EnvFields
<1> HIDE DEF n1
<1>18. Alters(n, n1, {"dr7"}) /\ n.dr7 = m.dr7
  <2>1. "dr7" \in EnvFields /\ IsCpu(n1)
    BY <1>17, AltersFields DEF EnvFields
  <2>2. Alters([n1 EXCEPT !.dr7 = m.dr7], n1, {"dr7"}) /\ [n1 EXCEPT !.dr7 = m.dr7].dr7 = m.dr7
    BY <2>1, Assigned
  <2> QED BY <1>1, <2>2
<1>19. Alters(n, e, Core)
  <2>1. Alters(s, d, Core)
    BY <1>11, AltersCore
  <2>2. Alters(g, s, Core)
    BY <1>15, AltersCore
  <2>3. Alters(n1, g, Core)
    BY <1>17, AltersCore
  <2>4. Alters(n, n1, Core)
    BY <1>18, AltersCore
  <2> QED BY <2>1, <2>2, <2>3, <2>4, <1>9, AltersCore
<1>20. /\ n.segs = g.segs /\ n.efer = g.efer /\ n.cr0 = g.cr0 /\ n.cr4 = g.cr4
       /\ n.eflags = g.eflags /\ n.iopl = g.iopl /\ n.hflags = g.hflags /\ n.eip = m.eip
  <2>1. /\ n1.segs = g.segs /\ n1.efer = g.efer /\ n1.cr0 = g.cr0 /\ n1.cr4 = g.cr4
        /\ n1.eflags = g.eflags /\ n1.iopl = g.iopl /\ n1.hflags = g.hflags
    BY <1>17, AltersFields
  <2>2. /\ n.segs = n1.segs /\ n.efer = n1.efer /\ n.cr0 = n1.cr0 /\ n.cr4 = n1.cr4
        /\ n.eflags = n1.eflags /\ n.iopl = n1.iopl /\ n.hflags = n1.hflags /\ n.eip = n1.eip
    BY <1>18, AltersFields
  <2> QED BY <2>1, <2>2, <1>17
<1>21. Saved(n) = m
  BY <1>8, <1>9, <1>13, <1>15, <1>16, <1>18, <1>20, SavedIs
<1>22. SameHidden(n, d, OfSegments)
  BY <1>11, <1>15, <1>20 DEF SameHidden
<1>23. ControlFlags(n)
  <2>1. n.efer = d.efer /\ n.cr0 = d.cr0 /\ n.cr4 = d.cr4
    BY <1>13, <1>16, <1>20
  <2>2. \A f \in OfControl : f \in n.hflags <=> f \in d.hflags
    BY <1>22 DEF SameHidden, OfSegments, OfControl
  <2> QED BY <1>10, <2>1, <2>2 DEF ControlFlags, OfControl, FpuBits
<1>24. SegmentFlags(n)
  BY <1>15, <1>20, FlagsKept
<1>25. /\ SameHidden(n, e, OfControl \cup OfSegments \cup {"SVME"})
       /\ "SVME" \in n.hflags <=> "SVME" \in n.efer
  <2>1. SameHidden(n, e, OfControl \cup OfSegments \cup {"SVME"})
    BY <1>10, <1>22 DEF SameHidden
  <2>2. "SVME" \in n.hflags <=> "SVME" \in d.hflags
    BY <1>22 DEF SameHidden, OfSegments
  <2>3. n.efer = d.efer
    BY <1>13, <1>16, <1>20
  <2>4. "SVME" \in n.hflags <=> "SVME" \in n.efer
    BY <2>2, <2>3, <1>10
  <2> QED BY <2>1, <2>4
<1> QED BY <1>19, <1>21, <1>23, <1>24, <1>25 DEF Coherent

\* Every field.
LEMMA CpuRecord ==
  ASSUME NEW e
  PROVE  IsCpu(e) <=>
           e = [segs |-> e.segs, efer |-> e.efer, cr0 |-> e.cr0, cr4 |-> e.cr4, eip |-> e.eip,
                eflags |-> e.eflags, iopl |-> e.iopl, dr7 |-> e.dr7, cpl |-> e.cpl,
                hflags |-> e.hflags, hflags2 |-> e.hflags2, smbase |-> e.smbase,
                intercept |-> e.intercept, virq |-> e.virq]
BY DEF IsCpu, EnvFields

\* A new CR0 leaves the flags of the segments right: it changes LMA in 16-bit
\* and 32-bit code only.
LEMMA Cr0Keeps ==
  ASSUME NEW e, NEW new, NEW m, Cr0Effect(m, e, new),
         SegmentFlags(e), "LMA" \in e.hflags <=> "LMA" \in e.efer,
         m.efer = e.efer \/ ~e.segs.CS.attr.l
  PROVE  SegmentFlags(m) /\ ("LMA" \in m.hflags <=> "LMA" \in m.efer)
<1>1. m.segs = e.segs /\ m.eflags = e.eflags /\ m.cr0 = new
  BY AltersFields DEF Cr0Effect
<1>2. InLongCode(m) <=> InLongCode(e)
  BY <1>1 DEF InLongCode
<1>3. "LMA" \in m.hflags <=> "LMA" \in m.efer
  BY DEF Cr0Effect
<1>4. "CS64" \in m.hflags <=> InLongCode(m)
  <2>1. CASE LeavesLong(e, new) /\ ~EntersLong(e, new)
    <3>1. m.efer # e.efer
      BY <2>1 DEF Cr0Effect, LeavesLong
    <3>2. ~InLongCode(e) /\ ~InLongCode(m)
      BY <3>1, <1>2 DEF InLongCode
    <3> QED BY <3>2 DEF Cr0Effect, SegmentFlags
  <2>2. CASE EntersLong(e, new) \/ ~LeavesLong(e, new)
    BY <2>2, <1>2 DEF Cr0Effect, SegmentFlags
  <2> QED BY <2>1, <2>2
<1>5. /\ "CS32" \in m.hflags <=> "CS32" \in e.hflags
      /\ "SS32" \in m.hflags <=> "SS32" \in e.hflags
      /\ "ADDSEG" \in m.hflags <=> "ADDSEG" \in e.hflags \/ "PE" \notin new
  BY DEF Cr0Effect, SameHidden
<1>6. /\ "CS32" \in m.hflags <=> InLongCode(m) \/ m.segs.CS.attr.b
      /\ ~InLongCode(m) => ("SS32" \in m.hflags <=> m.segs.SS.attr.b)
  BY <1>1, <1>2, <1>5 DEF SegmentFlags
<1>7. ASSUME ~InLongCode(m), NeedsBases(m)
      PROVE  "ADDSEG" \in m.hflags
  <2>1. CASE "PE" \notin new
    BY <2>1, <1>5
  <2>2. CASE "PE" \in new
    <3>1. NeedsBases(e)
      BY <1>7, <2>2, <1>1 DEF NeedsBases
    <3> QED BY <3>1, <1>7, <1>2, <1>5 DEF SegmentFlags
  <2> QED BY <2>1, <2>2
<1> QED BY <1>3, <1>4, <1>6, <1>7 DEF SegmentFlags

\* EFLAGS whose VM is clear in 32-bit code leave them right too.
LEMMA EflagsKeep ==
  ASSUME NEW e, NEW m, Alters(m, e, {"eflags", "iopl"}), SegmentFlags(e),
         "VM" \in m.eflags => ~e.segs.CS.attr.b
  PROVE  SegmentFlags(m)
<1>1. m.segs = e.segs /\ m.efer = e.efer /\ m.cr0 = e.cr0 /\ m.hflags = e.hflags
  BY AltersFields
<1>2. NeedsBases(m) => NeedsBases(e)
  BY <1>1 DEF NeedsBases
<1> QED BY <1>1, <1>2 DEF SegmentFlags, InLongCode

-----------------------------------------------------------------------------
(* System management mode *)

\* A flag that says which mode the CPU is in, set or cleared.
ModeFlags == {"SMM", "SVMI"}
LEMMA ModeFlagKeeps ==
  ASSUME NEW e, NEW m, m.segs = e.segs, m.efer = e.efer, m.cr0 = e.cr0, m.cr4 = e.cr4,
         m.eflags = e.eflags, SameHidden(m, e, ModeFlags)
  PROVE  (ControlFlags(e) <=> ControlFlags(m)) /\ (SegmentFlags(e) <=> SegmentFlags(m))
<1>1. /\ \A f \in OfControl : f \in m.hflags <=> f \in e.hflags
      /\ \A f \in OfSegments : f \in m.hflags <=> f \in e.hflags
  BY DEF SameHidden, ModeFlags, OfControl, OfSegments
<1>2. ControlFlags(e) <=> ControlFlags(m)
  BY <1>1 DEF ControlFlags, OfControl, FpuBits
<1>3. SegmentFlags(e) <=> SegmentFlags(m)
  BY <1>1 DEF SegmentFlags, OfSegments, InLongCode, NeedsBases
<1> QED BY <1>2, <1>3

\* A segment of no attributes.
LEMMA FlatSegments ==
  ASSUME NEW sel, NEW sel2, NEW base, NEW base2
  PROVE  SoundSegments([CS |-> Segment(sel, base, NoAttr), SS |-> Segment(sel2, base2, NoAttr),
                        DS |-> Segment(sel2, base2, NoAttr)])
<1> DEFINE S == [CS |-> Segment(sel, base, NoAttr), SS |-> Segment(sel2, base2, NoAttr),
                 DS |-> Segment(sel2, base2, NoAttr)]
<1>1. \A x, y : SoundSegment(Segment(x, y, NoAttr))
  BY DEF SoundSegment, Segment, NoAttr
<1>2. S = [r \in SegRegs |-> S[r]]
  BY DEF SegRegs
<1>3. \A r \in SegRegs : SoundSegment(S[r])
  <2>1. SoundSegment(S.CS) /\ SoundSegment(S.SS) /\ SoundSegment(S.DS)
    BY <1>1
  <2> QED BY <2>1 DEF SegRegs
<1> QED BY <1>2, <1>3 DEF SoundSegments

\* do_smm_enter, of a CPU that has EFER or never had.
LEMMA SmmStarted ==
  ASSUME NEW e, IsCpu(e), SoundCpu(e), Coherent(e), "SVME" \in e.hflags <=> "SVME" \in e.efer,
         NEW target64 \in BOOLEAN, ~target64 => e.efer = {},
         NEW n, n = SmmStart(e, target64)
  PROVE  /\ Alters(n, e, Core) /\ SoundCpu(n) /\ Coherent(n)
         /\ n.efer = {} /\ n.eflags = {}
         /\ "SVME" \notin n.hflags /\ "SMM" \in n.hflags
         /\ "SVMI" \in n.hflags <=> "SVMI" \in e.hflags
<1> DEFINE a == [e EXCEPT !.hflags = @ \cup {"SMM"}]
           b == IF target64 THEN LoadEfer(a, {}) ELSE a
           c == LoadEflags(b, NoFlags, AllFlags)
           c1 == [c EXCEPT !.eip = 0]
           flat == Segment(NullSel, 0, NoAttr)
           segs == [CS |-> Segment(Sel(e.smbase, 0), 1, NoAttr), SS |-> flat, DS |-> flat]
           d == LoadAll(c1, segs)
           new == d.cr0 \ {"PE", "EM", "TS", "PG"}
           g == UpdateCr0(d, new)
           k == UpdateCr4(g, {})
<1>1. n = [k EXCEPT !.dr7 = {}]
  BY DEF SmmStart
<1>2. /\ Alters(a, e, {"hflags"})
      /\ \A f : f \in a.hflags <=> f \in e.hflags \/ f = "SMM"
  <2>1. Alters(a, e, {"hflags"}) /\ a.hflags = e.hflags \cup {"SMM"}
    BY Assigned DEF EnvFields
  <2> HIDE DEF a
  <2> QED BY <2>1
<1> HIDE DEF a
<1>3. a.efer = e.efer /\ IsCpu(a) /\ a.cr0 = e.cr0 /\ a.segs = e.segs /\ a.eflags = e.eflags
      /\ a.cr4 = e.cr4
  BY <1>2, AltersFields
<1>4. /\ Alters(b, a, {"efer", "hflags"}) /\ b.efer = {}
      /\ "LMA" \notin b.hflags /\ "SVME" \notin b.hflags
      /\ SameHidden(b, a, {"LMA", "SVME"})
  <2>1. CASE target64
    <3>1. b = LoadEfer(a, {})
      BY <2>1
    <3> HIDE DEF b
    <3>2. /\ Alters(b, a, {"efer", "hflags"}) /\ b.efer = {}
          /\ \A f : f \in b.hflags <=> IF f \in {"LMA", "SVME"} THEN f \in {} ELSE f \in a.hflags
      BY <3>1, <1>3, EferLoaded
    <3> QED BY <3>2 DEF SameHidden
  <2>2. CASE ~target64
    <3>1. b = a
      BY <2>2
    <3>2. "LMA" \notin a.hflags /\ "SVME" \notin a.hflags
      BY <2>2, <1>2 DEF Coherent, ControlFlags
    <3> HIDE DEF b
    <3>3. Alters(a, a, {"efer", "hflags"}) /\ SameHidden(a, a, {"LMA", "SVME"})
      BY <1>3 DEF Alters, IsCpu, SameHidden
    <3> QED BY <2>2, <3>1, <3>2, <3>3, <1>3
  <2> QED BY <2>1, <2>2
<1> HIDE DEF b
<1>5. IsCpu(b) /\ b.eflags \subseteq AllFlags /\ b.segs = e.segs
  <2>1. IsCpu(b) /\ b.eflags = e.eflags /\ b.segs = e.segs
    BY <1>3, <1>4, AltersFields
  <2> QED BY <2>1 DEF SoundCpu
<1>6. Alters(c, b, {"eflags", "iopl"}) /\ c.eflags = {}
  <2>1. NoFlags.eflags = {}
    BY DEF NoFlags
  <2> QED BY <2>1, <1>5, EflagsLoaded
<1> HIDE DEF c
<1>7. Alters(c1, c, {"eip"})
  BY <1>6, AltersFields, Assigned DEF EnvFields
<1> HIDE DEF c1
<1>8. /\ c1.segs = e.segs /\ c1.hflags = b.hflags /\ c1.efer = {} /\ IsCpu(c1) /\ c1.eflags = {}
  <2>1. c.segs = b.segs /\ c.hflags = b.hflags /\ c.efer = b.efer
    BY <1>6, AltersFields
  <2>2. c1.segs = c.segs /\ c1.hflags = c.hflags /\ c1.efer = c.efer /\ IsCpu(c1)
        /\ c1.eflags = c.eflags
    BY <1>7, AltersFields
  <2> QED BY <2>1, <2>2, <1>4, <1>5, <1>6
<1>9. SoundSegments(segs) /\ SoundSegments(c1.segs)
  <2>1. SoundSegments(segs)
    BY FlatSegments
  <2>2. SoundSegments(e.segs)
    BY DEF SoundCpu, SoundSegments
  <2> QED BY <2>1, <2>2, <1>8
<1>10. segs.CS.attr.b = FALSE /\ segs.SS.attr.b = FALSE /\ segs.CS.attr.l = FALSE
  BY DEF Segment, NoAttr
<1> HIDE DEF segs
<1>11. /\ Alters(d, c1, {"segs", "hflags"}) /\ d.segs = segs
       /\ SameHidden(d, c1, OfSegments) /\ SegmentFlags(d)
  <2>1. "LMA" \in c1.hflags <=> "LMA" \in c1.efer
    BY <1>4, <1>8
  <2> HIDE DEF d
  <2>2. \A x : x = LoadAll(c1, segs) =>
         /\ Alters(x, c1, {"segs", "hflags"}) /\ x.segs = segs
         /\ SameHidden(x, c1, OfSegments) /\ SegmentFlags(x)
    BY <2>1, <1>8, <1>9, AllLoaded
  <2> QED BY <2>2 DEF d
<1> HIDE DEF d
<1>12. d.efer = {} /\ d.eflags = {} /\ IsCpu(d)
  BY <1>8, <1>11, AltersFields
<1>13. Cr0Effect(g, d, new) /\ "PE" \notin new /\ "PG" \notin new
  <2> HIDE DEF g, new
  <2>1. "PE" \notin new /\ "PG" \notin new
    BY DEF new
  <2>2. ~Cr0Refused(d, new)
    BY <2>1 DEF Cr0Refused, Enters
  <2>3. Cr0Effect(g, d, new)
    BY <1>12, <2>2, Cr0Updated DEF g
  <2> QED BY <2>1, <2>3
<1> HIDE DEF g
<1>14. g.efer = {} /\ g.cr0 = new /\ g.segs = segs /\ g.eflags = {} /\ IsCpu(g)
  <2>1. g.efer = {}
    BY <1>12, <1>13 DEF Cr0Effect, EntersLong, Enters, LeavesLong
  <2> QED BY <2>1, <1>11, <1>12, <1>13, AltersFields DEF Cr0Effect
<1>15. SegmentFlags(g) /\ "LMA" \notin g.hflags
  <2>1. "LMA" \in d.hflags <=> "LMA" \in d.efer
    BY <1>4, <1>8, <1>11, <1>12 DEF SameHidden, OfSegments
  <2>2. SegmentFlags(d) /\ (g.efer = d.efer \/ ~d.segs.CS.attr.l)
    BY <1>11, <1>12, <1>14
  <2>3. SegmentFlags(g) /\ ("LMA" \in g.hflags <=> "LMA" \in g.efer)
    BY ONLY <2>1, <2>2, <1>13, Cr0Keeps
  <2> QED BY <2>3, <1>14
<1>16. /\ Alters(k, g, {"cr4", "hflags"}) /\ k.cr4 = {}
       /\ \A f : f \in k.hflags <=> IF f = "OSFXSR" THEN f \in {} ELSE f \in g.hflags
  BY <1>14, Cr4Updated
<1> HIDE DEF k
<1>17. Alters(n, k, {"dr7"})
  <2>1. IsCpu(k) /\ "dr7" \in EnvFields
    BY <1>16, AltersFields DEF EnvFields
  <2> QED BY <2>1, <1>1, Assigned
<1>18. /\ n.segs = segs /\ n.efer = {} /\ n.cr0 = new /\ n.cr4 = {} /\ n.eflags = {}
       /\ n.hflags = k.hflags
  <2>1. k.segs = g.segs /\ k.efer = g.efer /\ k.cr0 = g.cr0 /\ k.eflags = g.eflags
    BY <1>16, AltersFields
  <2>2. /\ n.segs = k.segs /\ n.efer = k.efer /\ n.cr0 = k.cr0 /\ n.cr4 = k.cr4
        /\ n.eflags = k.eflags /\ n.hflags = k.hflags
    BY <1>17, AltersFields
  <2> QED BY <2>1, <2>2, <1>14, <1>16
<1>19. SoundCpu(n)
  BY <1>9, <1>18 DEF SoundCpu, SoundSegments
<1>20. ControlFlags(n)
  <2>1. \A f \in {"PE"} \cup FpuBits : f \in g.hflags <=> f \in new
    BY <1>13 DEF Cr0Effect
  <2> QED BY <2>1, <1>15, <1>16, <1>18 DEF ControlFlags, FpuBits
<1>21. SegmentFlags(n)
  <2>1. \A f \in OfSegments : f \in n.hflags <=> f \in g.hflags
    BY <1>16, <1>18 DEF OfSegments
  <2>2. "ADDSEG" \in g.hflags
    BY <1>13 DEF Cr0Effect
  <2> QED BY <1>14, <1>15, <1>18, <2>1, <2>2 DEF SegmentFlags, InLongCode, OfSegments
<1>22. /\ "SVME" \notin n.hflags /\ "SMM" \in n.hflags
       /\ "SVMI" \in n.hflags <=> "SVMI" \in e.hflags
  <2>1. \A f \in {"SVME", "SMM", "SVMI"} : f \in n.hflags <=> f \in b.hflags
    BY <1>8, <1>11, <1>13, <1>16, <1>18 DEF SameHidden, OfSegments, Cr0Effect
  <2>2. /\ "SMM" \in b.hflags
        /\ "SVMI" \in b.hflags <=> "SVMI" \in e.hflags
    BY <1>2, <1>4 DEF SameHidden
  <2> QED BY <2>1, <2>2, <1>4
<1>23. Alters(n, e, Core)
  <2>1. Alters(a, e, Core)
    BY <1>2, AltersCore
  <2>2. Alters(b, a, Core)
    BY <1>4, AltersCore
  <2>3. Alters(c, b, Core)
    BY <1>6, AltersCore
  <2>4. Alters(c1, c, Core)
    BY <1>7, AltersCore
  <2>5. Alters(d, c1, Core)
    BY <1>11, AltersCore
  <2>6. Alters(g, d, Core)
    BY <1>13, AltersCore DEF Cr0Effect
  <2>7. Alters(k, g, Core)
    BY <1>16, AltersCore
  <2>8. Alters(n, k, Core)
    BY <1>17, AltersCore
  <2>9. Alters(c1, e, Core)
    BY <2>1, <2>2, <2>3, <2>4, AltersCore
  <2>10. Alters(n, c1, Core)
    BY <2>5, <2>6, <2>7, <2>8, AltersCore
  <2> QED BY <2>9, <2>10, AltersCore
<1> QED BY <1>18, <1>19, <1>20, <1>21, <1>22, <1>23 DEF Coherent

\* What RSM gives back, of a CPU e in the handler, of the map m.
Resumed(n, e, m) ==
  /\ Alters(n, e, Core \cup {"smbase"})
  /\ Saved(n) = m.cpu /\ SoundCpu(n) /\ Coherent(n)
  /\ "SMM" \notin n.hflags
  /\ "SVMI" \in n.hflags <=> "SVMI" \in e.hflags
  /\ "SVME" \in n.hflags <=> "SVME" \in n.efer

\* The registers that RSM loads last.
LEMMA RsmEnds ==
  ASSUME NEW e, NEW m, NEW g, Alters(g, e, Core), IsSaved(m.cpu), SoundCpu(m.cpu),
         Saved(g) = m.cpu, ControlFlags(g), SegmentFlags(g),
         "SVMI" \in g.hflags <=> "SVMI" \in e.hflags, "SVME" \in g.hflags <=> "SVME" \in g.efer,
         NEW n, n = [g EXCEPT !.smbase = m.smbase, !.hflags = @ \ {"SMM"}]
  PROVE  Resumed(n, e, m)
<1> DEFINE a == [g EXCEPT !.smbase = m.smbase]
           b == [a EXCEPT !.hflags = g.hflags \ {"SMM"}]
<1>1. n = b
  BY AltersFields
<1>2. Alters(a, g, {"smbase"})
  BY AltersFields, Assigned DEF EnvFields
<1> HIDE DEF a
<1>3. Alters(b, a, {"hflags"}) /\ b.hflags = g.hflags \ {"SMM"}
  BY <1>2, AltersFields, Assigned DEF EnvFields
<1> HIDE DEF b
<1>4. Alters(n, e, Core \cup {"smbase"})
  <2>1. Alters(b, g, {"smbase"} \cup {"hflags"})
    BY <1>2, <1>3, AltersTwice
  <2>2. Alters(b, e, Core \cup ({"smbase"} \cup {"hflags"}))
    BY <2>1, AltersTwice
  <2>3. Core \cup ({"smbase"} \cup {"hflags"}) = Core \cup {"smbase"}
    BY AltersCore
  <2> QED BY <1>1, <2>2, <2>3
<1>5. /\ n.segs = g.segs /\ n.efer = g.efer /\ n.cr0 = g.cr0 /\ n.cr4 = g.cr4 /\ n.eip = g.eip
      /\ n.eflags = g.eflags /\ n.iopl = g.iopl /\ n.dr7 = g.dr7
  <2>1. /\ a.segs = g.segs /\ a.efer = g.efer /\ a.cr0 = g.cr0 /\ a.cr4 = g.cr4 /\ a.eip = g.eip
        /\ a.eflags = g.eflags /\ a.iopl = g.iopl /\ a.dr7 = g.dr7
    BY <1>2, AltersFields
  <2>2. /\ b.segs = a.segs /\ b.efer = a.efer /\ b.cr0 = a.cr0 /\ b.cr4 = a.cr4 /\ b.eip = a.eip
        /\ b.eflags = a.eflags /\ b.iopl = a.iopl /\ b.dr7 = a.dr7
    BY <1>3, AltersFields
  <2> QED BY <2>1, <2>2, <1>1
<1>6. Saved(n) = m.cpu
  BY <1>5 DEF Saved
<1>7. SoundCpu(n)
  BY <1>6, SavedFieldsOf
<1>8. SameHidden(n, g, ModeFlags)
  BY <1>1, <1>3 DEF SameHidden, ModeFlags
<1>9. Coherent(n)
  <2>1. (ControlFlags(g) <=> ControlFlags(n)) /\ (SegmentFlags(g) <=> SegmentFlags(n))
    BY ONLY <1>5, <1>8, ModeFlagKeeps
  <2> QED BY <2>1 DEF Coherent
<1>10. /\ "SMM" \notin n.hflags
       /\ "SVMI" \in n.hflags <=> "SVMI" \in e.hflags
       /\ "SVME" \in n.hflags <=> "SVME" \in n.efer
  BY <1>1, <1>3, <1>5
<1> QED BY <1>4, <1>6, <1>7, <1>9, <1>10 DEF Resumed

\* helper_rsm of a 64-bit build: segments are loaded while CR0 and EFLAGS are
\* the handler's, and CR0 comes after CR4; it may be entering long mode only if
\* it may be and has been.
LEMMA Resumed64 ==
  ASSUME NEW e, IsCpu(e), SoundCpu(e), NEW m, IsSaved(m.cpu), SoundCpu(m.cpu),
         Enters([e EXCEPT !.efer = m.cpu.efer], m.cpu.cr0)
           => "PAE" \in m.cpu.cr4 /\ "LMA" \in m.cpu.efer
  PROVE  Resumed(helper_rsm64(e, m), e, m)
<1> DEFINE a == LoadEfer(e, m.cpu.efer)
           b == LoadAll(a, m.cpu.segs)
           b1 == [b EXCEPT !.eip = m.cpu.eip]
           b2 == [b1 EXCEPT !.dr7 = m.cpu.dr7]
           c == LoadEflags(b2, m.cpu, AllFlags)
           d == UpdateCr4(c, m.cpu.cr4)
           g == UpdateCr0(d, m.cpu.cr0)
<1>1. helper_rsm64(e, m) = [g EXCEPT !.smbase = m.smbase, !.hflags = @ \ {"SMM"}]
  BY DEF helper_rsm64
<1>2. /\ Alters(a, e, {"efer", "hflags"}) /\ a.efer = m.cpu.efer
      /\ \A f : f \in a.hflags <=> IF f \in {"LMA", "SVME"} THEN f \in m.cpu.efer
                                    ELSE f \in e.hflags
  BY EferLoaded
<1> HIDE DEF a
<1>3. SoundSegments(m.cpu.segs) /\ SoundSegments(a.segs)
  <2>1. a.segs = e.segs
    BY <1>2, AltersFields
  <2> QED BY <2>1 DEF SoundCpu, SoundSegments
<1>4. /\ Alters(b, a, {"segs", "hflags"}) /\ b.segs = m.cpu.segs
      /\ SameHidden(b, a, OfSegments) /\ SegmentFlags(b)
  <2>1. IsCpu(a) /\ ("LMA" \in a.hflags <=> "LMA" \in a.efer)
    BY <1>2, AltersFields
  <2> HIDE DEF b
  <2>2. \A x : x = LoadAll(a, m.cpu.segs) =>
         /\ Alters(x, a, {"segs", "hflags"}) /\ x.segs = m.cpu.segs
         /\ SameHidden(x, a, OfSegments) /\ SegmentFlags(x)
    BY <2>1, <1>3, AllLoaded
  <2> QED BY <2>2 DEF b
<1> HIDE DEF b
<1>5. Alters(b1, b, {"eip"}) /\ b1.eip = m.cpu.eip
  BY <1>4, AltersFields, Assigned DEF EnvFields
<1> HIDE DEF b1
<1>6. Alters(b2, b1, {"dr7"}) /\ b2.dr7 = m.cpu.dr7
  BY <1>5, AltersFields, Assigned DEF EnvFields
<1> HIDE DEF b2
<1>7. /\ b2.segs = m.cpu.segs /\ b2.efer = m.cpu.efer /\ b2.eip = m.cpu.eip
      /\ b2.hflags = b.hflags /\ b2.eflags = e.eflags /\ IsCpu(b2)
      /\ b2.cr0 = b.cr0 /\ b2.eflags = b.eflags /\ b2.cr4 = b.cr4 /\ b2.efer = b.efer
  <2>1. a.eflags = e.eflags
    BY <1>2, AltersFields
  <2>2. b.efer = a.efer /\ b.eflags = a.eflags
    BY <1>4, AltersFields
  <2>3. /\ b1.segs = b.segs /\ b1.efer = b.efer /\ b1.hflags = b.hflags
        /\ b1.eflags = b.eflags /\ b1.cr0 = b.cr0 /\ b1.cr4 = b.cr4
    BY <1>5, AltersFields
  <2>4. /\ b2.segs = b1.segs /\ b2.efer = b1.efer /\ b2.hflags = b1.hflags
        /\ b2.eflags = b1.eflags /\ b2.cr0 = b1.cr0 /\ b2.cr4 = b1.cr4 /\ b2.eip = b1.eip
        /\ IsCpu(b2)
    BY <1>6, AltersFields
  <2> QED BY <2>1, <2>2, <2>3, <2>4, <1>2, <1>4, <1>5
<1>8. Alters(c, b2, {"eflags", "iopl"}) /\ c.eflags = m.cpu.eflags /\ c.iopl = m.cpu.iopl
  <2>1. b2.eflags \subseteq AllFlags /\ m.cpu.eflags \subseteq AllFlags
    BY <1>7 DEF SoundCpu
  <2> QED BY <2>1, <1>7, EflagsLoaded
<1> HIDE DEF c
<1>9. SegmentFlags(c)
  <2>1. SegmentFlags(b2)
    BY <1>4, <1>7, FlagsKept
  <2>2. "VM" \in c.eflags => ~b2.segs.CS.attr.b
    BY <1>7, <1>8 DEF SoundCpu
  <2> QED BY <2>1, <2>2, <1>8, EflagsKeep
<1>10. /\ Alters(d, c, {"cr4", "hflags"}) /\ d.cr4 = m.cpu.cr4
       /\ \A f : f \in d.hflags <=> IF f = "OSFXSR" THEN f \in m.cpu.cr4 ELSE f \in c.hflags
  BY <1>8, AltersFields, Cr4Updated
<1> HIDE DEF d
<1>11. /\ d.segs = m.cpu.segs /\ d.efer = m.cpu.efer /\ d.eip = m.cpu.eip /\ d.dr7 = m.cpu.dr7
       /\ d.eflags = m.cpu.eflags /\ d.iopl = m.cpu.iopl /\ c.hflags = b.hflags
       /\ c.segs = d.segs /\ c.efer = d.efer /\ c.cr0 = d.cr0 /\ IsCpu(d)
  <2>1. /\ c.segs = b2.segs /\ c.efer = b2.efer /\ c.eip = b2.eip /\ c.dr7 = b2.dr7
        /\ c.hflags = b2.hflags
    BY <1>8, AltersFields
  <2>2. /\ d.segs = c.segs /\ d.efer = c.efer /\ d.eip = c.eip /\ d.dr7 = c.dr7
        /\ d.eflags = c.eflags /\ d.iopl = c.iopl /\ d.cr0 = c.cr0 /\ IsCpu(d)
    BY <1>10, AltersFields
  <2> QED BY <2>1, <2>2, <1>6, <1>7, <1>8
<1>12. /\ SegmentFlags(d)
       /\ "LMA" \in d.hflags <=> "LMA" \in d.efer
       /\ "SVME" \in d.hflags <=> "SVME" \in d.efer
       /\ "SVMI" \in d.hflags <=> "SVMI" \in e.hflags
       /\ "OSFXSR" \in d.hflags <=> "OSFXSR" \in d.cr4
  <2>1. SegmentFlags(d)
    <3>1. \A f \in OfSegments : f \in d.hflags <=> f \in c.hflags
      BY <1>10 DEF OfSegments
    <3>2. d.eflags = c.eflags
      BY <1>8, <1>11
    <3> QED BY <3>1, <3>2, <1>9, <1>11 DEF SegmentFlags, InLongCode, NeedsBases, OfSegments
  <2>2. \A f \in {"LMA", "SVME", "SVMI"} : f \in d.hflags <=> f \in a.hflags
    BY <1>4, <1>10, <1>11 DEF SameHidden, OfSegments
  <2> QED BY <2>1, <2>2, <1>2, <1>10, <1>11
<1>22. Enters(d, m.cpu.cr0) => "PAE" \in d.cr4 /\ "LMA" \in d.efer
  <2> DEFINE x == [e EXCEPT !.efer = m.cpu.efer]
  <2>1. Alters(x, e, {"efer"}) /\ x.efer = m.cpu.efer
    BY Assigned DEF EnvFields
  <2> HIDE DEF x
  <2>2. x.cr0 = e.cr0
    BY <2>1, AltersFields
  <2>3. a.cr0 = e.cr0
    BY <1>2, AltersFields
  <2>4. b.cr0 = a.cr0
    BY <1>4, AltersFields
  <2>5. b2.cr0 = b.cr0
    BY <1>7
  <2>6. c.cr0 = b2.cr0
    BY <1>8, AltersFields
  <2>7. d.cr0 = x.cr0 /\ d.efer = x.efer
    BY <2>1, <2>2, <2>3, <2>4, <2>5, <2>6, <1>11
  <2>8. Enters(x, m.cpu.cr0) => "PAE" \in m.cpu.cr4 /\ "LMA" \in m.cpu.efer
    BY DEF x
  <2> QED BY <2>7, <2>8, <1>10, <1>11 DEF Enters
<1>13. Cr0Effect(g, d, m.cpu.cr0)
  <2>1. ~Cr0Refused(d, m.cpu.cr0)
    BY <1>22 DEF Cr0Refused
  <2> QED BY <2>1, <1>11, Cr0Updated
<1> HIDE DEF g
<1>14. g.efer = d.efer
  <2>1. LeavesLong(d, m.cpu.cr0) => "LMA" \notin d.efer
    BY <1>11 DEF LeavesLong, SoundCpu
  <2>2. EntersLong(d, m.cpu.cr0) => "LMA" \in d.efer
    BY <1>22 DEF EntersLong
  <2>3. ~LeavesLong(d, m.cpu.cr0)
    BY <2>1 DEF LeavesLong
  <2> QED BY <2>2, <2>3, <1>13 DEF Cr0Effect
<1>15. SegmentFlags(g) /\ ("LMA" \in g.hflags <=> "LMA" \in g.efer)
  BY <1>12, <1>13, <1>14, Cr0Keeps
<1>16. /\ g.cr0 = m.cpu.cr0 /\ g.segs = d.segs /\ g.cr4 = d.cr4 /\ g.eip = d.eip
       /\ g.eflags = d.eflags /\ g.iopl = d.iopl /\ g.dr7 = d.dr7
  BY <1>13, AltersFields DEF Cr0Effect
<1>17. Saved(g) = m.cpu
  BY <1>10, <1>11, <1>14, <1>16, SavedIs
<1>18. \A f \in {"SVME", "SVMI", "OSFXSR"} : f \in g.hflags <=> f \in d.hflags
  BY <1>13 DEF Cr0Effect, SameHidden
<1>19. ControlFlags(g)
  <2>1. \A f \in {"PE"} \cup FpuBits : f \in g.hflags <=> f \in g.cr0
    BY <1>13 DEF Cr0Effect
  <2> QED BY <2>1, <1>12, <1>15, <1>16, <1>18 DEF ControlFlags
<1>20. Alters(g, e, Core)
  <2>1. Alters(a, e, Core)
    BY <1>2, AltersCore
  <2>2. Alters(b, a, Core)
    BY <1>4, AltersCore
  <2>3. Alters(b1, b, Core)
    BY <1>5, AltersCore
  <2>4. Alters(b2, b1, Core)
    BY <1>6, AltersCore
  <2>5. Alters(c, b2, Core)
    BY <1>8, AltersCore
  <2>6. Alters(d, c, Core)
    BY <1>10, AltersCore
  <2>7. Alters(g, d, Core)
    BY <1>13, AltersCore DEF Cr0Effect
  <2>8. Alters(b2, e, Core)
    BY <2>1, <2>2, <2>3, <2>4, AltersCore
  <2>9. Alters(g, b2, Core)
    BY <2>5, <2>6, <2>7, AltersCore
  <2> QED BY <2>8, <2>9, AltersCore
<1>21. /\ "SVMI" \in g.hflags <=> "SVMI" \in e.hflags
       /\ "SVME" \in g.hflags <=> "SVME" \in g.efer
  BY <1>12, <1>14, <1>18
<1> QED BY <1>1, <1>15, <1>17, <1>19, <1>20, <1>21, RsmEnds

\* Of a 32-bit build, without EFER: CR0 and EFLAGS come first.
LEMMA Resumed32 ==
  ASSUME NEW e, IsCpu(e), SoundCpu(e), Coherent(e), "SVME" \in e.hflags <=> "SVME" \in e.efer,
         NEW m, IsSaved(m.cpu), SoundCpu(m.cpu), e.efer = {}, m.cpu.efer = {}
  PROVE  Resumed(helper_rsm32(e, m), e, m)
<1> DEFINE a == UpdateCr0(e, m.cpu.cr0)
           b == LoadEflags(a, m.cpu, AllFlags)
           b1 == [b EXCEPT !.eip = m.cpu.eip]
           b2 == [b1 EXCEPT !.dr7 = m.cpu.dr7]
           c == LoadAll(b2, m.cpu.segs)
           d == UpdateCr4(c, m.cpu.cr4)
<1>1. helper_rsm32(e, m) = [d EXCEPT !.smbase = m.smbase, !.hflags = @ \ {"SMM"}]
  BY DEF helper_rsm32
<1>2. Cr0Effect(a, e, m.cpu.cr0)
  <2>1. ~Cr0Refused(e, m.cpu.cr0)
    BY DEF Cr0Refused, Enters
  <2> QED BY <2>1, Cr0Updated
<1> HIDE DEF a
<1>3. /\ a.efer = {} /\ a.cr0 = m.cpu.cr0 /\ a.eflags = e.eflags /\ IsCpu(a) /\ a.segs = e.segs
      /\ \A f \in {"PE"} \cup FpuBits : f \in a.hflags <=> f \in a.cr0
      /\ "LMA" \notin a.hflags /\ "SVME" \notin a.hflags
      /\ "SVMI" \in a.hflags <=> "SVMI" \in e.hflags
  <2>1. a.efer = {} /\ "LMA" \notin a.hflags
    BY <1>2 DEF Cr0Effect, EntersLong, Enters, LeavesLong, Coherent, ControlFlags
  <2>2. \A f \in {"SVME", "SVMI"} : f \in a.hflags <=> f \in e.hflags
    BY <1>2 DEF Cr0Effect, SameHidden
  <2>3. a.eflags = e.eflags /\ IsCpu(a) /\ a.segs = e.segs
    BY <1>2, AltersFields DEF Cr0Effect
  <2>4. a.cr0 = m.cpu.cr0 /\ \A f \in {"PE"} \cup FpuBits : f \in a.hflags <=> f \in a.cr0
    BY <1>2 DEF Cr0Effect
  <2> QED BY <2>1, <2>2, <2>3, <2>4
<1>4. Alters(b, a, {"eflags", "iopl"}) /\ b.eflags = m.cpu.eflags /\ b.iopl = m.cpu.iopl
  <2>1. a.eflags \subseteq AllFlags /\ m.cpu.eflags \subseteq AllFlags
    BY <1>3 DEF SoundCpu
  <2> QED BY <2>1, <1>3, EflagsLoaded
<1> HIDE DEF b
<1>5. Alters(b1, b, {"eip"}) /\ b1.eip = m.cpu.eip
  BY <1>4, AltersFields, Assigned DEF EnvFields
<1> HIDE DEF b1
<1>6. Alters(b2, b1, {"dr7"}) /\ b2.dr7 = m.cpu.dr7
  BY <1>5, AltersFields, Assigned DEF EnvFields
<1> HIDE DEF b2
<1>7. /\ b2.segs = e.segs /\ b2.efer = {} /\ b2.cr0 = m.cpu.cr0 /\ b2.eip = m.cpu.eip
      /\ b2.eflags = m.cpu.eflags /\ b2.iopl = m.cpu.iopl /\ b2.hflags = a.hflags /\ IsCpu(b2)
  <2>1. b.segs = a.segs /\ b.efer = a.efer /\ b.cr0 = a.cr0 /\ b.hflags = a.hflags
    BY <1>4, AltersFields
  <2>2. /\ b1.segs = b.segs /\ b1.efer = b.efer /\ b1.cr0 = b.cr0 /\ b1.hflags = b.hflags
        /\ b1.eflags = b.eflags /\ b1.iopl = b.iopl
    BY <1>5, AltersFields
  <2>3. /\ b2.segs = b1.segs /\ b2.efer = b1.efer /\ b2.cr0 = b1.cr0 /\ b2.hflags = b1.hflags
        /\ b2.eflags = b1.eflags /\ b2.iopl = b1.iopl /\ b2.eip = b1.eip /\ IsCpu(b2)
    BY <1>6, AltersFields
  <2> QED BY <2>1, <2>2, <2>3, <1>3, <1>4, <1>5
<1>8. /\ Alters(c, b2, {"segs", "hflags"}) /\ c.segs = m.cpu.segs
      /\ SameHidden(c, b2, OfSegments) /\ SegmentFlags(c)
  <2>1. SoundSegments(m.cpu.segs) /\ SoundSegments(b2.segs)
    BY <1>7 DEF SoundCpu, SoundSegments
  <2>2. "LMA" \in b2.hflags <=> "LMA" \in b2.efer
    BY <1>3, <1>7
  <2> HIDE DEF c
  <2>3. \A x : x = LoadAll(b2, m.cpu.segs) =>
         /\ Alters(x, b2, {"segs", "hflags"}) /\ x.segs = m.cpu.segs
         /\ SameHidden(x, b2, OfSegments) /\ SegmentFlags(x)
    BY <2>1, <2>2, <1>7, AllLoaded
  <2> QED BY <2>3 DEF c
<1> HIDE DEF c
<1>9. /\ Alters(d, c, {"cr4", "hflags"}) /\ d.cr4 = m.cpu.cr4
      /\ \A f : f \in d.hflags <=> IF f = "OSFXSR" THEN f \in m.cpu.cr4 ELSE f \in c.hflags
  BY <1>8, AltersFields, Cr4Updated
<1> HIDE DEF d
<1>10. /\ d.segs = c.segs /\ d.efer = c.efer /\ d.cr0 = c.cr0 /\ d.eflags = c.eflags
       /\ d.efer = b2.efer /\ d.cr0 = b2.cr0 /\ d.eflags = b2.eflags /\ d.iopl = b2.iopl
       /\ d.eip = b2.eip /\ d.dr7 = b2.dr7
  <2>1. /\ c.efer = b2.efer /\ c.cr0 = b2.cr0 /\ c.eflags = b2.eflags /\ c.iopl = b2.iopl
        /\ c.eip = b2.eip /\ c.dr7 = b2.dr7
    BY <1>8, AltersFields
  <2>2. /\ d.segs = c.segs /\ d.efer = c.efer /\ d.cr0 = c.cr0 /\ d.eflags = c.eflags
        /\ d.iopl = c.iopl /\ d.eip = c.eip /\ d.dr7 = c.dr7
    BY <1>9, AltersFields
  <2> QED BY <2>1, <2>2
<1>11. Saved(d) = m.cpu
  <2>1. /\ d.segs = m.cpu.segs /\ d.efer = m.cpu.efer /\ d.cr0 = m.cpu.cr0
        /\ d.cr4 = m.cpu.cr4 /\ d.eip = m.cpu.eip /\ d.eflags = m.cpu.eflags
        /\ d.iopl = m.cpu.iopl /\ d.dr7 = m.cpu.dr7
    BY <1>6, <1>7, <1>8, <1>9, <1>10
  <2> QED BY <2>1, SavedIs
<1>12. \A f \in OfControl \cup {"SVME", "SVMI"} : f # "OSFXSR" =>
         (f \in d.hflags <=> f \in a.hflags)
  BY <1>7, <1>8, <1>9 DEF SameHidden, OfSegments, OfControl
<1>13. ControlFlags(d)
  BY <1>3, <1>7, <1>9, <1>10, <1>12 DEF ControlFlags, OfControl, FpuBits
<1>14. SegmentFlags(d)
  <2>1. \A f \in OfSegments : f \in d.hflags <=> f \in c.hflags
    BY <1>9 DEF OfSegments
  <2> QED BY <2>1, <1>8, <1>10 DEF SegmentFlags, InLongCode, NeedsBases, OfSegments
<1>15. /\ "SVMI" \in d.hflags <=> "SVMI" \in e.hflags
       /\ "SVME" \in d.hflags <=> "SVME" \in d.efer
  BY <1>3, <1>7, <1>10, <1>12
<1>16. Alters(d, e, Core)
  <2>1. Alters(a, e, Core)
    BY <1>2, AltersCore DEF Cr0Effect
  <2>2. Alters(b, a, Core)
    BY <1>4, AltersCore
  <2>3. Alters(b1, b, Core)
    BY <1>5, AltersCore
  <2>4. Alters(b2, b1, Core)
    BY <1>6, AltersCore
  <2>5. Alters(c, b2, Core)
    BY <1>8, AltersCore
  <2>6. Alters(d, c, Core)
    BY <1>9, AltersCore
  <2>7. Alters(b2, e, Core)
    BY <2>1, <2>2, <2>3, <2>4, AltersCore
  <2> QED BY <2>5, <2>6, <2>7, AltersCore
<1> QED BY <1>1, <1>11, <1>13, <1>14, <1>15, <1>16, RsmEnds

-----------------------------------------------------------------------------
(* The nested machine *)

\* VMRUN of a VMCB: the nested machine is loaded, with its controls.
LEMMA Entered ==
  ASSUME NEW e, IsCpu(e), SoundCpu(e), NEW v, IsSaved(v.save.cpu), SoundCpu(v.save.cpu),
         ~Cr0Refused(e, v.save.cpu.cr0), NEW n, n = helper_vmrun(e, v)
  PROVE  /\ IsCpu(n) /\ Saved(n) = v.save.cpu /\ SoundCpu(n) /\ Coherent(n)
         /\ "SVME" \in n.hflags <=> "SVME" \in n.efer
         /\ "SVMI" \in n.hflags
         /\ "SMM" \in n.hflags <=> "SMM" \in e.hflags
         /\ n.cpl = v.save.cpl /\ n.intercept = v.control.intercept
         /\ "VINTR" \in n.hflags2 => ("HIF" \in n.hflags2 <=> "IF" \in e.eflags)
<1> DEFINE c == v.control
           masked == IF ~c.masking THEN {}
                     ELSE {"VINTR"} \cup (IF "IF" \in e.eflags THEN {"HIF"} ELSE {})
           flags2 == (e.hflags2 \ {"HIF", "VINTR"}) \cup masked
           a == [e EXCEPT !.intercept = c.intercept, !.hflags = @ \cup {"SVMI"}, !.hflags2 = flags2]
           b == LoadMachine(a, v.save.cpu)
           d == [b EXCEPT !.cpl = v.save.cpl]
<1>1. n = [d EXCEPT !.hflags2 = @ \cup {"GIF"}, !.virq = e.virq \/ c.virq]
  BY DEF helper_vmrun, SetCpl
<1>2. e = [segs |-> e.segs, efer |-> e.efer, cr0 |-> e.cr0, cr4 |-> e.cr4, eip |-> e.eip,
           eflags |-> e.eflags, iopl |-> e.iopl, dr7 |-> e.dr7, cpl |-> e.cpl,
           hflags |-> e.hflags, hflags2 |-> e.hflags2, smbase |-> e.smbase,
           intercept |-> e.intercept, virq |-> e.virq]
  BY CpuRecord
<1>3. /\ IsCpu(a) /\ a.segs = e.segs /\ a.efer = e.efer /\ a.cr0 = e.cr0 /\ a.cr4 = e.cr4
      /\ a.intercept = c.intercept /\ a.hflags = e.hflags \cup {"SVMI"} /\ a.hflags2 = flags2
  <2> DEFINE x == c.intercept
             h == e.hflags \cup {"SVMI"}
  <2>1. a = [e EXCEPT !.intercept = x, !.hflags = h, !.hflags2 = flags2]
    OBVIOUS
  <2> HIDE DEF flags2, x, h, a
  <2>2. a = [segs |-> e.segs, efer |-> e.efer, cr0 |-> e.cr0, cr4 |-> e.cr4, eip |-> e.eip,
           eflags |-> e.eflags, iopl |-> e.iopl, dr7 |-> e.dr7, cpl |-> e.cpl,
           hflags |-> h, hflags2 |-> flags2, smbase |-> e.smbase,
           intercept |-> x, virq |-> e.virq]
    BY ONLY <2>1, <1>2
  <2> HIDE DEF a
  <2>3. /\ a.segs = e.segs /\ a.efer = e.efer /\ a.cr0 = e.cr0 /\ a.cr4 = e.cr4
        /\ a.intercept = c.intercept /\ a.hflags = e.hflags \cup {"SVMI"} /\ a.hflags2 = flags2
    BY <2>2 DEF x, h
  <2>4. IsCpu(a)
    BY <2>2, CpuRecord
  <2> QED BY <2>3, <2>4
<1> HIDE DEF a
<1>4. /\ Alters(b, a, Core) /\ Saved(b) = v.save.cpu /\ Coherent(b)
      /\ SameHidden(b, a, OfControl \cup OfSegments \cup {"SVME"})
      /\ "SVME" \in b.hflags <=> "SVME" \in b.efer
  <2>1. SoundSegments(a.segs) /\ ~Cr0Refused(a, v.save.cpu.cr0)
    BY <1>3 DEF SoundCpu, SoundSegments, Cr0Refused, Enters
  <2> HIDE DEF b
  <2> QED BY <2>1, <1>3, MachineLoaded DEF b
<1> HIDE DEF b
<1>5. Alters(d, b, {"cpl"}) /\ d.cpl = v.save.cpl
  BY <1>4, AltersFields, Assigned DEF EnvFields
<1> HIDE DEF d
<1>6. d.hflags2 = flags2 /\ d.intercept = c.intercept
  <2>1. b.hflags2 = a.hflags2 /\ b.intercept = a.intercept
    BY <1>4, AltersCore, AltersFields
  <2> QED BY <2>1, <1>3, <1>5, AltersFields
<1> DEFINE g == [d EXCEPT !.hflags2 = flags2 \cup {"GIF"}]
           k == [g EXCEPT !.virq = e.virq \/ c.virq]
<1>7. n = k
  BY <1>1, <1>6
<1>8. Alters(g, d, {"hflags2"}) /\ g.hflags2 = flags2 \cup {"GIF"}
  BY <1>5, AltersFields, Assigned DEF EnvFields
<1> HIDE DEF g
<1>9. Alters(k, g, {"virq"})
  BY <1>8, AltersFields, Assigned DEF EnvFields
<1> HIDE DEF k
<1>10. /\ n.segs = b.segs /\ n.efer = b.efer /\ n.cr0 = b.cr0 /\ n.cr4 = b.cr4 /\ n.eip = b.eip
       /\ n.eflags = b.eflags /\ n.iopl = b.iopl /\ n.dr7 = b.dr7 /\ n.hflags = b.hflags
       /\ n.cpl = v.save.cpl /\ n.intercept = c.intercept /\ n.hflags2 = flags2 \cup {"GIF"}
       /\ IsCpu(n)
  <2>1. /\ d.segs = b.segs /\ d.efer = b.efer /\ d.cr0 = b.cr0 /\ d.cr4 = b.cr4
        /\ d.eip = b.eip /\ d.eflags = b.eflags /\ d.iopl = b.iopl /\ d.dr7 = b.dr7
        /\ d.hflags = b.hflags
    BY <1>5, AltersFields
  <2>2. /\ g.segs = d.segs /\ g.efer = d.efer /\ g.cr0 = d.cr0 /\ g.cr4 = d.cr4
        /\ g.eip = d.eip /\ g.eflags = d.eflags /\ g.iopl = d.iopl /\ g.dr7 = d.dr7
        /\ g.hflags = d.hflags /\ g.cpl = d.cpl /\ g.intercept = d.intercept
    BY <1>8, AltersFields
  <2>3. /\ k.segs = g.segs /\ k.efer = g.efer /\ k.cr0 = g.cr0 /\ k.cr4 = g.cr4
        /\ k.eip = g.eip /\ k.eflags = g.eflags /\ k.iopl = g.iopl /\ k.dr7 = g.dr7
        /\ k.hflags = g.hflags /\ k.cpl = g.cpl /\ k.intercept = g.intercept
        /\ k.hflags2 = g.hflags2 /\ IsCpu(k)
    BY <1>9, AltersFields
  <2> HIDE DEF flags2, c
  <2> QED BY <2>1, <2>2, <2>3, <1>5, <1>6, <1>7, <1>8
<1>11. Saved(n) = v.save.cpu
  BY <1>4, <1>10 DEF Saved
<1>12. SoundCpu(n)
  BY <1>11, SavedFieldsOf
<1>13. Coherent(n)
  BY <1>4, <1>10, FlagsKept DEF Coherent
<1>14. /\ "SVME" \in n.hflags <=> "SVME" \in n.efer
       /\ "SVMI" \in n.hflags
       /\ "SMM" \in n.hflags <=> "SMM" \in e.hflags
  <2>1. \A f \in ModeFlags : f \in n.hflags <=> f \in a.hflags
    BY <1>4, <1>10 DEF SameHidden, OfControl, OfSegments, ModeFlags
  <2> QED BY <2>1, <1>3, <1>4, <1>10 DEF ModeFlags
<1>15. "VINTR" \in n.hflags2 => ("HIF" \in n.hflags2 <=> "IF" \in e.eflags)
  BY <1>10
<1> QED BY <1>10, <1>11, <1>12, <1>13, <1>14, <1>15

\* #VMEXIT to a host that ran in protected mode.
LEMMA Left ==
  ASSUME NEW e, IsCpu(e), SoundCpu(e), NEW h, IsSaved(h), SoundCpu(h), "PE" \in h.cr0,
         "VM" \notin h.eflags, ~Cr0Refused(e, h.cr0), NEW n, n = HostAfter(e, h)
  PROVE  /\ IsCpu(n) /\ Saved(n) = h /\ SoundCpu(n) /\ Coherent(n)
         /\ "SVME" \in n.hflags <=> "SVME" \in n.efer
         /\ "SVMI" \notin n.hflags
         /\ "SMM" \in n.hflags <=> "SMM" \in e.hflags
         /\ n.intercept = {} /\ ~n.virq /\ {"HIF", "VINTR"} \cap n.hflags2 = {}
<1> DEFINE flags2 == e.hflags2 \ {"HIF", "VINTR"}
           hidden == e.hflags \ {"SVMI"}
           a == [e EXCEPT !.hflags2 = flags2, !.hflags = hidden, !.intercept = {}, !.virq = FALSE]
           m == [h EXCEPT !.cr0 = @ \cup {"PE"}]
           b == LoadMachine(a, m)
           d == [b EXCEPT !.cpl = 0]
<1>1. n = [d EXCEPT !.hflags2 = @ \ {"GIF"}, !.cr0 = @ \cup {"PE"}, !.eflags = @ \ {"VM"}]
  BY DEF HostAfter, SetCpl
<1>2. e = [segs |-> e.segs, efer |-> e.efer, cr0 |-> e.cr0, cr4 |-> e.cr4, eip |-> e.eip,
           eflags |-> e.eflags, iopl |-> e.iopl, dr7 |-> e.dr7, cpl |-> e.cpl,
           hflags |-> e.hflags, hflags2 |-> e.hflags2, smbase |-> e.smbase,
           intercept |-> e.intercept, virq |-> e.virq]
  BY CpuRecord
<1>3. /\ IsCpu(a) /\ a.segs = e.segs /\ a.efer = e.efer /\ a.cr0 = e.cr0 /\ a.cr4 = e.cr4
      /\ a.intercept = {} /\ a.hflags = hidden /\ a.hflags2 = flags2 /\ a.virq = FALSE
  <2>1. a = [e EXCEPT !.hflags2 = flags2, !.hflags = hidden, !.intercept = {}, !.virq = FALSE]
    OBVIOUS
  <2> HIDE DEF flags2, hidden, a
  <2>2. a = [segs |-> e.segs, efer |-> e.efer, cr0 |-> e.cr0, cr4 |-> e.cr4, eip |-> e.eip,
           eflags |-> e.eflags, iopl |-> e.iopl, dr7 |-> e.dr7, cpl |-> e.cpl,
           hflags |-> hidden, hflags2 |-> flags2, smbase |-> e.smbase,
           intercept |-> {}, virq |-> FALSE]
    BY ONLY <2>1, <1>2
  <2> HIDE DEF a
  <2>3. /\ a.segs = e.segs /\ a.efer = e.efer /\ a.cr0 = e.cr0 /\ a.cr4 = e.cr4
        /\ a.intercept = {} /\ a.hflags = hidden /\ a.hflags2 = flags2 /\ a.virq = FALSE
    BY <2>2
  <2>4. IsCpu(a)
    BY <2>2, CpuRecord
  <2> QED BY <2>3, <2>4
<1> HIDE DEF a
<1>4. m = h
  <2>1. h = [segs |-> h.segs, efer |-> h.efer, cr0 |-> h.cr0, cr4 |-> h.cr4, eip |-> h.eip,
             eflags |-> h.eflags, iopl |-> h.iopl, dr7 |-> h.dr7]
    BY DEF IsSaved, SavedFields
  <2>2. h.cr0 \cup {"PE"} = h.cr0
    OBVIOUS
  <2> QED BY <2>1, <2>2
<1> HIDE DEF m
<1>5. /\ Alters(b, a, Core) /\ Saved(b) = h /\ Coherent(b)
      /\ SameHidden(b, a, OfControl \cup OfSegments \cup {"SVME"})
      /\ "SVME" \in b.hflags <=> "SVME" \in b.efer
  <2>1. SoundSegments(a.segs) /\ ~Cr0Refused(a, h.cr0)
    BY <1>3 DEF SoundCpu, SoundSegments, Cr0Refused, Enters
  <2>2. b = LoadMachine(a, h)
    BY <1>4
  <2> HIDE DEF b
  <2> QED BY <2>1, <2>2, <1>3, MachineLoaded
<1> HIDE DEF b
<1>6. Alters(d, b, {"cpl"})
  BY <1>5, AltersFields, Assigned DEF EnvFields
<1> HIDE DEF d
<1>7. /\ d.segs = h.segs /\ d.efer = h.efer /\ d.cr0 = h.cr0 /\ d.cr4 = h.cr4 /\ d.eip = h.eip
      /\ d.eflags = h.eflags /\ d.iopl = h.iopl /\ d.dr7 = h.dr7 /\ d.hflags = b.hflags
      /\ d.hflags2 = flags2 /\ d.intercept = {} /\ d.virq = FALSE /\ IsCpu(d)
  <2>1. /\ b.segs = h.segs /\ b.efer = h.efer /\ b.cr0 = h.cr0 /\ b.cr4 = h.cr4
        /\ b.eip = h.eip /\ b.eflags = h.eflags /\ b.iopl = h.iopl /\ b.dr7 = h.dr7
    BY <1>5, SavedFieldsOf
  <2>2. b.hflags2 = a.hflags2 /\ b.intercept = a.intercept /\ b.virq = a.virq
    BY <1>5, AltersCore, AltersFields
  <2> HIDE DEF flags2
  <2> QED BY <2>1, <2>2, <1>3, <1>6, AltersFields
<1>8. n = [d EXCEPT !.hflags2 = flags2 \ {"GIF"}]
  <2>1. d.cr0 \cup {"PE"} = d.cr0 /\ d.eflags \ {"VM"} = d.eflags
    BY <1>7
  <2>2. n = [d EXCEPT !.hflags2 = flags2 \ {"GIF"}, !.cr0 = d.cr0, !.eflags = d.eflags]
    BY <1>1, <1>7, <2>1
  <2> DEFINE w == flags2 \ {"GIF"}
  <2> HIDE DEF w
  <2>3. d = [segs |-> d.segs, efer |-> d.efer, cr0 |-> d.cr0, cr4 |-> d.cr4, eip |-> d.eip,
             eflags |-> d.eflags, iopl |-> d.iopl, dr7 |-> d.dr7, cpl |-> d.cpl,
             hflags |-> d.hflags, hflags2 |-> d.hflags2, smbase |-> d.smbase,
             intercept |-> d.intercept, virq |-> d.virq]
    BY <1>7, CpuRecord
  <2>4. [d EXCEPT !.hflags2 = w, !.cr0 = d.cr0, !.eflags = d.eflags] = [d EXCEPT !.hflags2 = w]
    BY ONLY <2>3
  <2> QED BY <2>2, <2>4 DEF w
<1>9. Alters(n, d, {"hflags2"}) /\ n.hflags2 = flags2 \ {"GIF"}
  <2> DEFINE w == flags2 \ {"GIF"}
  <2> HIDE DEF w
  <2>1. "hflags2" \in EnvFields /\ IsCpu(d)
    BY <1>7 DEF EnvFields
  <2>2. Alters([d EXCEPT !.hflags2 = w], d, {"hflags2"}) /\ [d EXCEPT !.hflags2 = w].hflags2 = w
    BY ONLY <2>1, Assigned
  <2> QED BY <2>2, <1>8 DEF w
<1>10. /\ n.segs = d.segs /\ n.efer = d.efer /\ n.cr0 = d.cr0 /\ n.cr4 = d.cr4 /\ n.eip = d.eip
       /\ n.eflags = d.eflags /\ n.iopl = d.iopl /\ n.dr7 = d.dr7 /\ n.hflags = d.hflags
       /\ n.intercept = {} /\ n.virq = FALSE /\ IsCpu(n)
  BY <1>7, <1>9, AltersFields
<1>11. Saved(n) = h
  BY <1>7, <1>10, SavedIs
<1>12. SoundCpu(n)
  BY <1>11, SavedFieldsOf
<1>13. Coherent(n)
  <2>1. /\ n.segs = b.segs /\ n.efer = b.efer /\ n.cr0 = b.cr0 /\ n.cr4 = b.cr4
        /\ n.eflags = b.eflags /\ n.hflags = b.hflags
    BY <1>5, <1>7, <1>10, SavedFieldsOf
  <2> QED BY <2>1, <1>5, FlagsKept DEF Coherent
<1>14. \A f \in ModeFlags : f \in n.hflags <=> f \in hidden
  BY <1>3, <1>5, <1>7, <1>10 DEF SameHidden, OfControl, OfSegments, ModeFlags
<1>15. /\ "SVME" \in n.hflags <=> "SVME" \in n.efer
       /\ "SVMI" \notin n.hflags
       /\ "SMM" \in n.hflags <=> "SMM" \in e.hflags
  <2>1. b.efer = h.efer
    BY <1>5, SavedFieldsOf
  <2> QED BY <2>1, <1>5, <1>7, <1>10, <1>14 DEF ModeFlags
<1>16. {"HIF", "VINTR"} \cap n.hflags2 = {}
  BY <1>9
<1> QED BY <1>10, <1>11, <1>12, <1>13, <1>15, <1>16

-----------------------------------------------------------------------------
(* Reset *)

\* cpu_reset.
LEMMA WasZeroed ==
  ASSUME NEW e, IsCpu(e), SoundSegments(e.segs), NEW n, n = ResetCpu(e)
  PROVE  /\ IsCpu(n) /\ SoundCpu(n) /\ Coherent(n) /\ n.efer = {} /\ n.eflags = {}
         /\ {"SVME", "SVMI", "SMM"} \cap n.hflags = {} /\ n.hflags2 = {"GIF"}
         /\ n.intercept = {} /\ n.smbase = 30
<1> DEFINE z == [e EXCEPT !.hflags = {}, !.hflags2 = {"GIF"}, !.cr0 = {}, !.cr4 = {}, !.efer = {},
                          !.eflags = {}, !.iopl = 0, !.cpl = 0, !.eip = 0, !.dr7 = {},
                          !.intercept = {}, !.smbase = 30]
           real(kind) == [Attr(kind, 0) EXCEPT !.b = FALSE]
           data == Segment(NullSel, 0, real("data"))
           segs == [CS |-> Segment(Sel(15, 0), 1, real("code")), SS |-> data, DS |-> data]
           a == UpdateCr0(z, {})
<1>1. n = LoadAll(a, segs)
  BY DEF ResetCpu
<1>2. SoundSegments(segs)
  <2>1. \A k, x, y : SoundSegment(Segment(x, y, real(k)))
    BY DEF SoundSegment, Segment, Attr, NoAttr
  <2> HIDE DEF real
  <2>2. SoundSegment(segs.CS) /\ SoundSegment(segs.SS) /\ SoundSegment(segs.DS)
    BY <2>1
  <2>3. segs = [r \in SegRegs |-> segs[r]]
    BY DEF SegRegs
  <2> HIDE DEF segs
  <2> QED BY <2>2, <2>3 DEF SoundSegments, SegRegs
<1> HIDE DEF segs
<1>3. z = [segs |-> e.segs, efer |-> {}, cr0 |-> {}, cr4 |-> {}, eip |-> 0,
           eflags |-> {}, iopl |-> 0, dr7 |-> {}, cpl |-> 0,
           hflags |-> {}, hflags2 |-> {"GIF"}, smbase |-> 30,
           intercept |-> {}, virq |-> e.virq]
  <2>1. e = [segs |-> e.segs, efer |-> e.efer, cr0 |-> e.cr0, cr4 |-> e.cr4, eip |-> e.eip,
             eflags |-> e.eflags, iopl |-> e.iopl, dr7 |-> e.dr7, cpl |-> e.cpl,
             hflags |-> e.hflags, hflags2 |-> e.hflags2, smbase |-> e.smbase,
             intercept |-> e.intercept, virq |-> e.virq]
    BY CpuRecord
  <2>2. z = [e EXCEPT !.hflags = {}, !.hflags2 = {"GIF"}, !.cr0 = {}, !.cr4 = {}, !.efer = {},
                      !.eflags = {}, !.iopl = 0, !.cpl = 0, !.eip = 0, !.dr7 = {},
                      !.intercept = {}, !.smbase = 30]
    OBVIOUS
  <2> HIDE DEF z
  <2> QED BY ONLY <2>1, <2>2
<1> HIDE DEF z
<1>4. /\ z.segs = e.segs /\ z.efer = {} /\ z.cr0 = {} /\ z.cr4 = {} /\ z.eflags = {}
      /\ z.hflags = {} /\ z.hflags2 = {"GIF"} /\ z.smbase = 30 /\ z.intercept = {}
  BY <1>3
<1>5. IsCpu(z)
  BY <1>3, CpuRecord
<1>6. Cr0Effect(a, z, {})
  <2>1. ~Cr0Refused(z, {})
    BY DEF Cr0Refused, Enters
  <2> QED BY <2>1, <1>5, Cr0Updated
<1> HIDE DEF a
<1>7. /\ a.efer = {} /\ a.cr0 = {} /\ a.segs = e.segs /\ a.cr4 = {} /\ a.eflags = {}
      /\ a.hflags2 = {"GIF"} /\ a.smbase = 30 /\ a.intercept = {} /\ IsCpu(a)
  <2>1. a.efer = {}
    BY <1>4, <1>6 DEF Cr0Effect, EntersLong, Enters, LeavesLong
  <2>2. /\ a.segs = z.segs /\ a.cr4 = z.cr4 /\ a.eflags = z.eflags /\ IsCpu(a)
        /\ a.hflags2 = z.hflags2 /\ a.smbase = z.smbase /\ a.intercept = z.intercept
    BY <1>6, AltersFields DEF Cr0Effect
  <2>3. a.cr0 = {}
    BY <1>6 DEF Cr0Effect
  <2> QED BY <2>1, <2>2, <2>3, <1>4
<1>8. \A f : f \in a.hflags => f = "ADDSEG"
  BY <1>4, <1>6 DEF Cr0Effect, SameHidden, EntersLong, Enters, LeavesLong, FpuBits
<1>9. /\ Alters(n, a, {"segs", "hflags"}) /\ n.segs = segs
      /\ SameHidden(n, a, OfSegments) /\ SegmentFlags(n)
  BY <1>1, <1>2, <1>7, <1>8, AllLoaded
<1>10. /\ n.efer = {} /\ n.cr0 = {} /\ n.cr4 = {} /\ n.eflags = {}
       /\ n.hflags2 = {"GIF"} /\ n.smbase = 30 /\ n.intercept = {} /\ IsCpu(n)
  BY <1>7, <1>9, AltersFields
<1>11. SoundCpu(n)
  BY <1>2, <1>9, <1>10 DEF SoundCpu, SoundSegments
<1>12. \A f \in OfControl \cup {"SVME", "SVMI", "SMM"} : f \notin n.hflags
  BY <1>8, <1>9 DEF SameHidden, OfSegments, OfControl
<1>13. ControlFlags(n)
  BY <1>10, <1>12 DEF ControlFlags, OfControl, FpuBits
<1> QED BY <1>9, <1>10, <1>11, <1>12, <1>13 DEF Coherent

-----------------------------------------------------------------------------
(* KVM *)

\* What kvm_get_sregs computes.
LEMMA HflagsAre ==
  ASSUME NEW e, IsCpu(e), SoundSegments(e.segs)
  PROVE  /\ \A f : f \in Hflags(e) => f \in Computed
         /\ \A f \in {"PE"} \cup FpuBits : f \in Hflags(e) <=> f \in e.cr0
         /\ "OSFXSR" \in Hflags(e) <=> "OSFXSR" \in e.cr4
         /\ "LMA" \in Hflags(e) <=> "LMA" \in e.efer
         /\ "CS64" \in Hflags(e) <=> InLongCode(e)
         /\ "CS32" \in Hflags(e) <=> InLongCode(e) \/ e.segs.CS.attr.b
         /\ "SS32" \in Hflags(e) <=> InLongCode(e) \/ e.segs.SS.attr.b
         /\ "ADDSEG" \in Hflags(e) <=> ~InLongCode(e) /\ NeedsBases(e)
<1> DEFINE long == "LMA" \in e.efer /\ e.segs.CS.attr.l
           cs32 == IF e.segs.CS.attr.b THEN {"CS32"} ELSE {}
           ss32 == IF e.segs.SS.attr.b THEN {"SS32"} ELSE {}
           d == [e EXCEPT !.hflags = cs32]
           addseg == AddsSegment(d)
           of_cr == (e.cr0 \cap ({"PE"} \cup FpuBits)) \cup (e.cr4 \cap {"OSFXSR"})
                      \cup (e.efer \cap {"LMA"})
           of_segs == IF long THEN {"CS32", "SS32", "CS64"}
                      ELSE cs32 \cup ss32 \cup (IF addseg THEN {"ADDSEG"} ELSE {})
<1>1. Hflags(e) = of_cr \cup of_segs
  BY DEF Hflags
<1>2. long <=> InLongCode(e)
  BY DEF InLongCode
<1>3. addseg <=> NeedsBases(e)
  <2>1. Alters(d, e, {"hflags"}) /\ d.hflags = cs32
    <3> HIDE DEF cs32
    <3> QED BY Assigned DEF EnvFields
  <2> HIDE DEF d
  <2>2. d.segs = e.segs /\ d.cr0 = e.cr0 /\ d.eflags = e.eflags
    BY <2>1, AltersFields
  <2>3. "CS32" \in d.hflags <=> e.segs.CS.attr.b
    BY <2>1
  <2> QED BY <2>2, <2>3 DEF AddsSegment, NeedsBases
<1> HIDE DEF d, addseg, long
<1>4. \A f : f \in of_segs <=>
        \/ f = "CS64" /\ long
        \/ f = "CS32" /\ (long \/ e.segs.CS.attr.b)
        \/ f = "SS32" /\ (long \/ e.segs.SS.attr.b)
        \/ f = "ADDSEG" /\ ~long /\ addseg
  OBVIOUS
<1>5. \A f : f \in of_cr <=>
        \/ f \in {"PE", "MP", "EM", "TS"} /\ f \in e.cr0
        \/ f = "OSFXSR" /\ f \in e.cr4
        \/ f = "LMA" /\ f \in e.efer
  BY DEF FpuBits
<1> HIDE DEF of_segs, of_cr
<1>6. \A f : f \in Hflags(e) <=> f \in of_cr \/ f \in of_segs
  BY <1>1
<1>7. \A f : f \in Hflags(e) => f \in Computed
  BY <1>4, <1>5, <1>6 DEF Computed
<1>8. /\ \A f \in {"PE"} \cup FpuBits : f \in Hflags(e) <=> f \in e.cr0
      /\ "OSFXSR" \in Hflags(e) <=> "OSFXSR" \in e.cr4
      /\ "LMA" \in Hflags(e) <=> "LMA" \in e.efer
  BY <1>4, <1>5, <1>6 DEF FpuBits
<1>9. /\ "CS64" \in Hflags(e) <=> long
      /\ "CS32" \in Hflags(e) <=> long \/ e.segs.CS.attr.b
      /\ "SS32" \in Hflags(e) <=> long \/ e.segs.SS.attr.b
      /\ "ADDSEG" \in Hflags(e) <=> ~long /\ addseg
  BY <1>4, <1>5, <1>6
<1> QED BY <1>2, <1>3, <1>7, <1>8, <1>9

\* Hidden flags that are computed are right,
LEMMA ComputedRight ==
  ASSUME NEW e, IsCpu(e), SoundSegments(e.segs),
         \A f \in Computed : f \in e.hflags <=> f \in Hflags(e)
  PROVE  Coherent(e)
<1>1. Computed = OfControl \cup OfSegments
  BY DEF Computed, OfControl, OfSegments
<1>2. ControlFlags(e)
  BY <1>1, HflagsAre DEF ControlFlags, OfControl, FpuBits
<1>3. SegmentFlags(e)
  BY <1>1, HflagsAre DEF SegmentFlags, OfSegments
<1> QED BY <1>2, <1>3 DEF Coherent

\* and right ones are those that are computed, but for what is of no account.
LEMMA RightComputed ==
  ASSUME NEW e, IsCpu(e), SoundSegments(e.segs), Coherent(e)
  PROVE  LET h == Hflags(e)
             free == IF "CS64" \in h THEN {"ADDSEG", "SS32"} ELSE {"ADDSEG"}
         IN  /\ (e.hflags \cap Computed) \ free = h \ free
             /\ "ADDSEG" \in h => "ADDSEG" \in e.hflags
<1> DEFINE h == Hflags(e)
           free == IF "CS64" \in h THEN {"ADDSEG", "SS32"} ELSE {"ADDSEG"}
<1>1. \A f \in OfControl \cup {"CS64", "CS32"} : f \in e.hflags <=> f \in h
  BY HflagsAre DEF Coherent, ControlFlags, SegmentFlags, OfControl, FpuBits
<1>2. "CS64" \notin h => ("SS32" \in e.hflags <=> "SS32" \in h)
  BY HflagsAre DEF Coherent, SegmentFlags
<1>3. "ADDSEG" \in h => "ADDSEG" \in e.hflags
  BY HflagsAre DEF Coherent, SegmentFlags
<1>4. \A f : f \in h => f \in Computed
  BY HflagsAre
<1>5. \A f \in Computed : f \in OfControl \cup {"CS64", "CS32"} \/ f \in {"SS32", "ADDSEG"}
  BY DEF Computed, OfControl
<1> HIDE DEF h
<1>6. \A f : f \in (e.hflags \cap Computed) \ free <=> f \in h \ free
  BY <1>1, <1>2, <1>4, <1>5
<1>7. (e.hflags \cap Computed) \ free = h \ free
  <2> HIDE DEF free
  <2> QED BY <1>6
<1> QED BY <1>3, <1>7 DEF h

\* What makes a CPU sound.
LEMMA SoundAlike ==
  ASSUME NEW c, SoundCpu(c), NEW d, d.segs = c.segs, d.efer = c.efer, d.cr0 = c.cr0, d.cr4 = c.cr4,
         d.eflags = c.eflags
  PROVE  SoundCpu(d)
BY DEF SoundCpu

\* The registers come from KVM.
LEMMA Fetched ==
  ASSUME NEW e, IsCpu(e), NEW k, SoundCpu(k),
         NEW n, n = kvm_get_sregs(kvm_getput_regs(e, k), k)
  PROVE  /\ IsCpu(n) /\ SoundCpu(n) /\ Coherent(n)
         /\ n.hflags2 = e.hflags2 /\ n.intercept = e.intercept /\ n.virq = e.virq
         /\ SameHidden(n, e, Computed)
<1> DEFINE a == [e EXCEPT !.eip = k.eip, !.eflags = k.eflags, !.iopl = k.iopl]
           b == [a EXCEPT !.segs = k.segs, !.cr0 = k.cr0, !.cr4 = k.cr4, !.efer = k.efer]
           hidden == (b.hflags \ Computed) \cup Hflags(b)
<1>1. n = [b EXCEPT !.cpl = k.segs.CS.attr.dpl, !.hflags = hidden]
  BY DEF kvm_get_sregs, kvm_getput_regs
<1>2. e = [segs |-> e.segs, efer |-> e.efer, cr0 |-> e.cr0, cr4 |-> e.cr4, eip |-> e.eip,
           eflags |-> e.eflags, iopl |-> e.iopl, dr7 |-> e.dr7, cpl |-> e.cpl,
           hflags |-> e.hflags, hflags2 |-> e.hflags2, smbase |-> e.smbase,
           intercept |-> e.intercept, virq |-> e.virq]
  BY CpuRecord
<1>3. b = [segs |-> k.segs, efer |-> k.efer, cr0 |-> k.cr0, cr4 |-> k.cr4, eip |-> k.eip,
           eflags |-> k.eflags, iopl |-> k.iopl, dr7 |-> e.dr7, cpl |-> e.cpl,
           hflags |-> e.hflags, hflags2 |-> e.hflags2, smbase |-> e.smbase,
           intercept |-> e.intercept, virq |-> e.virq]
  <2>1. a = [e EXCEPT !.eip = k.eip, !.eflags = k.eflags, !.iopl = k.iopl]
    OBVIOUS
  <2>2. b = [a EXCEPT !.segs = k.segs, !.cr0 = k.cr0, !.cr4 = k.cr4, !.efer = k.efer]
    OBVIOUS
  <2> HIDE DEF a, b
  <2>3. a = [segs |-> e.segs, efer |-> e.efer, cr0 |-> e.cr0, cr4 |-> e.cr4, eip |-> k.eip,
           eflags |-> k.eflags, iopl |-> k.iopl, dr7 |-> e.dr7, cpl |-> e.cpl,
           hflags |-> e.hflags, hflags2 |-> e.hflags2, smbase |-> e.smbase,
           intercept |-> e.intercept, virq |-> e.virq]
    BY ONLY <2>1, <1>2
  <2> QED BY ONLY <2>2, <2>3
<1> HIDE DEF b
<1>4. /\ b.segs = k.segs /\ b.efer = k.efer /\ b.cr0 = k.cr0 /\ b.cr4 = k.cr4
      /\ b.eflags = k.eflags /\ b.hflags = e.hflags /\ b.hflags2 = e.hflags2
      /\ b.intercept = e.intercept /\ b.virq = e.virq
  BY <1>3
<1>5. IsCpu(b)
  BY <1>3, CpuRecord
<1> DEFINE cpl == k.segs.CS.attr.dpl
<1>6. n = [segs |-> b.segs, efer |-> b.efer, cr0 |-> b.cr0, cr4 |-> b.cr4, eip |-> b.eip,
           eflags |-> b.eflags, iopl |-> b.iopl, dr7 |-> b.dr7, cpl |-> cpl,
           hflags |-> hidden, hflags2 |-> b.hflags2, smbase |-> b.smbase,
           intercept |-> b.intercept, virq |-> b.virq]
  <2>1. b = [segs |-> b.segs, efer |-> b.efer, cr0 |-> b.cr0, cr4 |-> b.cr4, eip |-> b.eip,
             eflags |-> b.eflags, iopl |-> b.iopl, dr7 |-> b.dr7, cpl |-> b.cpl,
             hflags |-> b.hflags, hflags2 |-> b.hflags2, smbase |-> b.smbase,
             intercept |-> b.intercept, virq |-> b.virq]
    BY <1>5, CpuRecord
  <2> HIDE DEF hidden, cpl
  <2> QED BY ONLY <1>1, <2>1 DEF cpl
<1> HIDE DEF hidden
<1>7. /\ n.segs = b.segs /\ n.efer = b.efer /\ n.cr0 = b.cr0 /\ n.cr4 = b.cr4
      /\ n.eflags = b.eflags /\ n.hflags = hidden /\ n.hflags2 = b.hflags2
      /\ n.intercept = b.intercept /\ n.virq = b.virq
  BY <1>6
<1>8. IsCpu(n)
  BY <1>6, CpuRecord
<1>9. SoundCpu(n) /\ SoundSegments(n.segs) /\ SoundSegments(b.segs)
  <2>1. SoundCpu(n)
    BY <1>4, <1>7, SoundAlike
  <2> QED BY <2>1, <1>7 DEF SoundCpu, SoundSegments
<1>10. \A f \in Computed : f \in Hflags(b) <=> f \in Hflags(n)
  <2>1. (InLongCode(b) <=> InLongCode(n)) /\ (NeedsBases(b) <=> NeedsBases(n))
    BY <1>4, <1>7 DEF InLongCode, NeedsBases
  <2>2. \A f \in {"PE"} \cup FpuBits : f \in Hflags(b) <=> f \in Hflags(n)
    BY <1>5, <1>7, <1>8, <1>9, HflagsAre
  <2>3. \A f \in {"OSFXSR", "LMA"} : f \in Hflags(b) <=> f \in Hflags(n)
    BY <1>5, <1>7, <1>8, <1>9, HflagsAre
  <2>4. \A f \in OfSegments : f \in Hflags(b) <=> f \in Hflags(n)
    BY <2>1, <1>5, <1>7, <1>8, <1>9, HflagsAre DEF OfSegments
  <2> QED BY <2>2, <2>3, <2>4 DEF Computed, FpuBits, OfSegments
<1>11. \A f \in Computed : f \in n.hflags <=> f \in Hflags(n)
  BY <1>7, <1>10 DEF hidden
<1>12. Coherent(n)
  BY <1>8, <1>9, <1>11, ComputedRight
<1>13. SameHidden(n, e, Computed)
  <2>1. \A f : f \in Hflags(b) => f \in Computed
    BY <1>5, <1>9, HflagsAre
  <2> QED BY <2>1, <1>4, <1>7 DEF hidden, SameHidden
<1> QED BY <1>4, <1>7, <1>8, <1>9, <1>12, <1>13

\* KVM's registers.
KvmFields == {"segs", "efer", "cr0", "cr4", "eip", "eflags", "iopl"}
IsKvm(k) == k = [f \in KvmFields |-> k[f]]
LEMMA KvmRecord ==
  ASSUME NEW k
  PROVE  IsKvm(k) <=>
           k = [segs |-> k.segs, efer |-> k.efer, cr0 |-> k.cr0, cr4 |-> k.cr4, eip |-> k.eip,
                eflags |-> k.eflags, iopl |-> k.iopl]
BY DEF IsKvm, KvmFields

\* set_seg and set_v8086_seg.
LEMMA SegmentPut ==
  ASSUME NEW seg, SoundSegment(seg), NEW vm \in BOOLEAN, NEW put, put = set_seg(seg, vm)
  PROVE  SoundSegment(put) /\ (vm => put.attr.b = FALSE)
<1>1. seg = [sel |-> seg.sel, base |-> seg.base, attr |-> seg.attr]
  BY DEF SoundSegment, Segment
<1>2. /\ seg.attr.b \in BOOLEAN /\ seg.attr.l \in BOOLEAN
      /\ DOMAIN seg.attr = {"kind", "dpl", "conf", "rw", "p", "b", "l"}
  BY DEF SoundSegment, NoAttr
<1>3. CASE vm
  <2> DEFINE a == [Attr("data", 3) EXCEPT !.b = FALSE]
  <2>1. put = [seg EXCEPT !.attr = a]
    BY <1>3 DEF set_seg
  <2>2. /\ a.b = FALSE /\ a.b \in BOOLEAN /\ a.l \in BOOLEAN
        /\ DOMAIN a = {"kind", "dpl", "conf", "rw", "p", "b", "l"}
    BY DEF Attr
  <2> HIDE DEF a
  <2>3. put = [sel |-> seg.sel, base |-> seg.base, attr |-> a]
    BY ONLY <1>1, <2>1
  <2> QED BY <2>2, <2>3 DEF SoundSegment, Segment, NoAttr
<1>4. CASE ~vm
  <2> DEFINE a == [seg.attr EXCEPT !.dpl = seg.sel.rpl]
  <2>1. put = [seg EXCEPT !.attr = a]
    BY <1>4 DEF set_seg
  <2>2. /\ a.b = seg.attr.b /\ a.l = seg.attr.l
        /\ DOMAIN a = {"kind", "dpl", "conf", "rw", "p", "b", "l"}
    BY <1>2
  <2> HIDE DEF a
  <2>3. put = [sel |-> seg.sel, base |-> seg.base, attr |-> a]
    BY ONLY <1>1, <2>1
  <2> QED BY <1>2, <1>4, <2>2, <2>3 DEF SoundSegment, Segment, NoAttr
<1> QED BY <1>3, <1>4

\* The segments KVM is given.
LEMMA SegmentsPut ==
  ASSUME NEW e, SoundSegments(e.segs), NEW segs, segs = kvm_put_sregs(e)
  PROVE  SoundSegments(segs) /\ ("VM" \in e.eflags => segs.CS.attr.b = FALSE)
<1> DEFINE vm == "VM" \in e.eflags
           all == [r \in SegRegs |-> set_seg(e.segs[r], vm)]
           rpl == all.CS.sel.rpl
<1>1. \A r \in SegRegs : SoundSegment(all[r]) /\ (vm => all[r].attr.b = FALSE)
  <2> SUFFICES ASSUME NEW r \in SegRegs
               PROVE  SoundSegment(all[r]) /\ (vm => all[r].attr.b = FALSE)
    OBVIOUS
  <2>1. all[r] = set_seg(e.segs[r], vm) /\ SoundSegment(e.segs[r]) /\ vm \in BOOLEAN
    BY DEF SoundSegments
  <2> HIDE DEF all, vm
  <2> QED BY <2>1, SegmentPut
<1>2. SoundSegments(all) /\ (vm => all.CS.attr.b = FALSE)
  <2>1. all = [r \in SegRegs |-> all[r]]
    OBVIOUS
  <2> HIDE DEF all
  <2> QED BY <1>1, <2>1 DEF SoundSegments, SegRegs
<1>3. CASE vm \/ "PE" \notin e.cr0
  BY <1>2, <1>3 DEF kvm_put_sregs
<1>4. CASE ~(vm \/ "PE" \notin e.cr0)
  <2> DEFINE ss == all.SS
             sel == [ss.sel EXCEPT !.rpl = rpl]
             attr == [ss.attr EXCEPT !.dpl = rpl]
  <2>1. segs = [all EXCEPT !.SS.sel.rpl = rpl, !.SS.attr.dpl = rpl]
    BY <1>4 DEF kvm_put_sregs
  <2>2. ss = [sel |-> ss.sel, base |-> ss.base, attr |-> ss.attr] /\ SoundSegment(ss)
    BY <1>1 DEF SoundSegment, Segment, SegRegs
  <2>3. all = [CS |-> all.CS, SS |-> ss, DS |-> all.DS]
    BY DEF SegRegs
  <2> HIDE DEF all
  <2>4. segs = [CS |-> all.CS, SS |-> [sel |-> sel, base |-> ss.base, attr |-> attr],
                DS |-> all.DS]
    <3>1. ss.sel = ss.sel /\ segs.SS = [ss EXCEPT !.sel = sel, !.attr = attr]
      BY <2>1, <2>2, <2>3
    <3>2. DOMAIN segs = {"CS", "SS", "DS"} /\ segs.CS = all.CS /\ segs.DS = all.DS
          /\ segs = [r \in DOMAIN segs |-> segs[r]]
      BY <2>1, <2>3
    <3>3. segs.SS = [sel |-> sel, base |-> ss.base, attr |-> attr]
      <4> HIDE DEF ss, sel, attr
      <4> QED BY ONLY <3>1, <2>2
    <3> QED BY <3>2, <3>3
  <2>5. /\ attr.b = ss.attr.b /\ attr.l = ss.attr.l /\ DOMAIN attr = DOMAIN NoAttr
    BY <2>2 DEF SoundSegment, NoAttr
  <2> HIDE DEF sel, attr
  <2>6. SoundSegment(segs.SS)
    BY <2>2, <2>4, <2>5 DEF SoundSegment, Segment
  <2>7. SoundSegment(segs.CS) /\ SoundSegment(segs.DS) /\ segs = [r \in SegRegs |-> segs[r]]
    BY <2>4, <1>1 DEF SegRegs
  <2> QED BY <1>4, <2>6, <2>7 DEF SoundSegments, SegRegs
<1> QED BY <1>3, <1>4

\* The registers go to KVM, all of them or as many as are let through.
LEMMA PutInKvm ==
  ASSUME NEW e, SoundCpu(e), NEW k, IsKvm(k), NEW n, NEW p, p = kvm_arch_put_registers(e, k, n)
  PROVE  IsKvm(p) /\ (n = 0 => SoundCpu(p))
<1> DEFINE regs == [k EXCEPT !.eip = e.eip, !.eflags = e.eflags, !.iopl = e.iopl]
           segs == kvm_put_sregs(e)
<1>1. regs = [segs |-> k.segs, efer |-> k.efer, cr0 |-> k.cr0, cr4 |-> k.cr4,
              eip |-> e.eip, eflags |-> e.eflags, iopl |-> e.iopl]
  <2>1. regs = [k EXCEPT !.eip = e.eip, !.eflags = e.eflags, !.iopl = e.iopl]
    OBVIOUS
  <2>2. k = [segs |-> k.segs, efer |-> k.efer, cr0 |-> k.cr0, cr4 |-> k.cr4,
             eip |-> k.eip, eflags |-> k.eflags, iopl |-> k.iopl]
    BY KvmRecord
  <2> HIDE DEF regs
  <2> QED BY ONLY <2>1, <2>2
<1>2. CASE n = 1
  BY <1>2 DEF kvm_arch_put_registers
<1>3. CASE n = 2
  <2>1. p = regs
    BY <1>3 DEF kvm_arch_put_registers
  <2> HIDE DEF regs
  <2> QED BY <1>1, <1>3, <2>1, KvmRecord
<1>4. CASE n \notin {1, 2}
  <2>1. p = [regs EXCEPT !.segs = segs, !.cr0 = e.cr0, !.cr4 = e.cr4, !.efer = e.efer]
    BY <1>4 DEF kvm_arch_put_registers
  <2> HIDE DEF regs, segs
  <2>2. p = [segs |-> segs, efer |-> e.efer, cr0 |-> e.cr0, cr4 |-> e.cr4,
             eip |-> e.eip, eflags |-> e.eflags, iopl |-> e.iopl]
    BY ONLY <2>1, <1>1
  <2>3. SoundSegments(segs) /\ ("VM" \in e.eflags => segs.CS.attr.b = FALSE)
    <3>1. SoundSegments(e.segs)
      BY DEF SoundCpu, SoundSegments
    <3> QED BY <3>1, SegmentsPut DEF segs
  <2>4. SoundCpu(p)
    BY <2>2, <2>3 DEF SoundCpu, SoundSegments
  <2> QED BY <2>2, <2>4, KvmRecord
<1> QED BY <1>2, <1>3, <1>4

\* A CPU as its system software has set it up.
LEMMA BootIsRight ==
  ASSUME NEW e, SoundBoot(e)
  PROVE  /\ IsCpu(e) /\ SoundCpu(e) /\ Coherent(e)
         /\ "SVME" \in e.hflags <=> "SVME" \in e.efer
         /\ "SMM" \notin e.hflags /\ "SVMI" \notin e.hflags
         /\ IsKvm(KeptByKvm(e)) /\ SoundCpu(KeptByKvm(e))
<1>1. IsCpu(e) /\ SoundCpu(e) /\ SoundSegments(e.segs)
  BY DEF SoundBoot, IsCpu, SoundCpu, SoundSegments
<1>2. \A f : f \in Hflags(e) => f \in Computed
  BY <1>1, HflagsAre
<1>3. \A f : f \in e.hflags <=> f \in Hflags(e) \/ f \in (e.efer \cap {"SVME"})
  BY DEF SoundBoot
<1>4. \A f \in Computed : f # "SVME" /\ f # "SMM" /\ f # "SVMI"
  BY DEF Computed
<1>5. \A f \in Computed : f \in e.hflags <=> f \in Hflags(e)
  BY <1>3, <1>4
<1>6. Coherent(e)
  BY <1>1, <1>5, ComputedRight
<1>7. /\ "SVME" \in e.hflags <=> "SVME" \in e.efer
      /\ "SMM" \notin e.hflags /\ "SVMI" \notin e.hflags
  BY <1>2, <1>3, <1>4
<1> DEFINE k == KeptByKvm(e)
<1>8. k = [segs |-> e.segs, efer |-> e.efer, cr0 |-> e.cr0, cr4 |-> e.cr4,
           eip |-> e.eip, eflags |-> e.eflags, iopl |-> e.iopl]
  BY DEF KeptByKvm
<1> HIDE DEF k
<1>9. /\ k.segs = e.segs /\ k.efer = e.efer /\ k.cr0 = e.cr0 /\ k.cr4 = e.cr4
      /\ k.eflags = e.eflags
  BY <1>8
<1>10. IsKvm(k) /\ SoundCpu(k)
  BY <1>1, <1>8, <1>9, KvmRecord, SoundAlike
<1> QED BY <1>1, <1>6, <1>7, <1>10 DEF k

\* The stream of a migration has all of the CPU that is not as a reset leaves it.
LEMMA LoadedAsSaved ==
  ASSUME NEW e, IsCpu(e), SoundSegments(e.segs), NEW version \in {3, CPU_SAVE_VERSION},
         version < 5 => e.hflags2 = {"GIF"} /\ e.intercept = {} /\ e.smbase = 30
  PROVE  cpu_load(ResetCpu(e), cpu_save(e, version)) = e
<1> DEFINE z == ResetCpu(e)
           svm == IF version >= 5 THEN e ELSE z
           smbase == IF version >= 4 THEN e.smbase ELSE z.smbase
<1>1. z.hflags2 = {"GIF"} /\ z.intercept = {} /\ z.smbase = 30
  BY WasZeroed
<1> HIDE DEF z
<1>2. version \in 3 .. CPU_SAVE_VERSION
  BY DEF CPU_SAVE_VERSION
<1>3. svm.hflags2 = e.hflags2 /\ svm.intercept = e.intercept /\ smbase = e.smbase
  BY <1>1
<1>4. cpu_load(z, cpu_save(e, version))
        = [e EXCEPT !.smbase = smbase, !.hflags2 = svm.hflags2, !.intercept = svm.intercept]
  BY <1>2 DEF cpu_load, cpu_save
<1> HIDE DEF svm, smbase
<1>5. e = [segs |-> e.segs, efer |-> e.efer, cr0 |-> e.cr0, cr4 |-> e.cr4, eip |-> e.eip,
           eflags |-> e.eflags, iopl |-> e.iopl, dr7 |-> e.dr7, cpl |-> e.cpl,
           hflags |-> e.hflags, hflags2 |-> e.hflags2, smbase |-> e.smbase,
           intercept |-> e.intercept, virq |-> e.virq]
  BY CpuRecord
<1>6. e = [e EXCEPT !.smbase = smbase, !.hflags2 = svm.hflags2, !.intercept = svm.intercept]
  BY ONLY <1>3, <1>5
<1> QED BY <1>4, <1>6 DEF z

-----------------------------------------------------------------------------
(* Instructions that leave the CPU in the mode it is in *)

RightCpu(e) == IsCpu(e) /\ SoundCpu(e) /\ Coherent(e)
HasSvme(e) == "SVME" \in e.hflags <=> "SVME" \in e.efer
SameMode(m, e) ==
  /\ \A f \in ModeFlags : f \in m.hflags <=> f \in e.hflags
  /\ "VM" \in m.eflags <=> "VM" \in e.eflags
  /\ m.cpl = e.cpl /\ m.hflags2 = e.hflags2 /\ m.intercept = e.intercept
  /\ m.virq => e.virq
InPlace(m, e) == RightCpu(m) /\ (HasSvme(e) => HasSvme(m)) /\ SameMode(m, e)

\* The next instruction, or a virtual interrupt that has been taken.
LEMMA SteppedOn ==
  ASSUME NEW e, RightCpu(e), NEW f \in {"eip", "virq"}, NEW v, f = "virq" => v = FALSE
  PROVE  InPlace([e EXCEPT ![f] = v], e) /\ [e EXCEPT ![f] = v].efer = e.efer
<1> DEFINE m == [e EXCEPT ![f] = v]
<1>1. Alters(m, e, {f}) /\ m[f] = v
  BY Assigned DEF RightCpu, EnvFields
<1> HIDE DEF m
<1>2. /\ IsCpu(m) /\ m.segs = e.segs /\ m.efer = e.efer /\ m.cr0 = e.cr0 /\ m.cr4 = e.cr4
      /\ m.eflags = e.eflags /\ m.hflags = e.hflags /\ m.cpl = e.cpl /\ m.hflags2 = e.hflags2
      /\ m.intercept = e.intercept /\ (f # "virq" => m.virq = e.virq)
  BY <1>1, AltersFields
<1>3. SoundCpu(m) /\ Coherent(m)
  BY <1>2, SoundAlike, FlagsKept DEF RightCpu, Coherent
<1> QED BY <1>1, <1>2, <1>3 DEF m, InPlace, RightCpu, HasSvme, SameMode

LEMMA StepsCompose ==
  ASSUME NEW e, NEW m, NEW n, InPlace(m, e), InPlace(n, m)
  PROVE  InPlace(n, e)
<1>1. SameMode(n, e)
  BY DEF InPlace, SameMode
<1> QED BY <1>1 DEF InPlace

\* MOV to CR0, LMSW.
LEMMA Cr0Written ==
  ASSUME NEW e, RightCpu(e), NEW new, SoundCr0(e, new), NEW m, m = UpdateCr0(e, new)
  PROVE  InPlace(m, e) /\ (e.efer = {} => m.efer = {})
<1>12. CASE Cr0Refused(e, new)
  <2>1. m = e
    BY <1>12 DEF UpdateCr0
  <2> QED BY <2>1 DEF InPlace, SameMode
<1>13. SUFFICES ASSUME ~Cr0Refused(e, new)
                PROVE  InPlace(m, e) /\ (e.efer = {} => m.efer = {})
  BY <1>12
<1>1. Cr0Effect(m, e, new)
  BY <1>13, Cr0Updated DEF RightCpu
<1>2. /\ IsCpu(m) /\ m.segs = e.segs /\ m.cr4 = e.cr4 /\ m.eflags = e.eflags /\ m.cpl = e.cpl
      /\ m.hflags2 = e.hflags2 /\ m.intercept = e.intercept /\ m.virq = e.virq /\ m.cr0 = new
  BY <1>1, AltersFields DEF Cr0Effect
<1>3. \A f \in {"SMM", "SVMI", "SVME", "OSFXSR"} : f \in m.hflags <=> f \in e.hflags
  BY <1>1 DEF Cr0Effect, SameHidden
<1>4. \A f : f \in m.efer <=> IF f = "LMA" THEN EntersLong(e, new)
                                                \/ (~LeavesLong(e, new) /\ f \in e.efer)
                              ELSE f \in e.efer
  BY <1>1 DEF Cr0Effect
<1>5. "LMA" \in m.efer => "PG" \in m.cr0
  BY <1>2, <1>4 DEF EntersLong, Enters, LeavesLong, RightCpu, SoundCpu
<1>6. SoundCpu(m)
  BY <1>2, <1>4, <1>5 DEF RightCpu, SoundCpu
<1>7. SegmentFlags(m) /\ ("LMA" \in m.hflags <=> "LMA" \in m.efer)
  <2>1. m.efer = e.efer \/ ~e.segs.CS.attr.l
    BY <1>1 DEF Cr0Effect, EntersLong, Enters, LeavesLong, SoundCr0
  <2> QED BY <1>1, <2>1, Cr0Keeps DEF RightCpu, Coherent, ControlFlags
<1>8. ControlFlags(m)
  <2>1. \A f \in {"PE"} \cup FpuBits : f \in m.hflags <=> f \in m.cr0
    BY <1>1, <1>2 DEF Cr0Effect
  <2> QED BY <2>1, <1>2, <1>3, <1>7 DEF ControlFlags, RightCpu, Coherent
<1>9. RightCpu(m)
  BY <1>2, <1>6, <1>7, <1>8 DEF RightCpu, Coherent
<1>10. (HasSvme(e) => HasSvme(m)) /\ SameMode(m, e)
  BY <1>2, <1>3, <1>4 DEF HasSvme, SameMode, ModeFlags
<1>11. e.efer = {} => m.efer = {}
  BY <1>1 DEF Cr0Effect, EntersLong, Enters, LeavesLong
<1> QED BY <1>9, <1>10, <1>11 DEF InPlace

\* MOV to CR4.
LEMMA Cr4Written ==
  ASSUME NEW e, RightCpu(e), NEW new, NEW m, m = UpdateCr4(e, new)
  PROVE  InPlace(m, e) /\ (e.efer = {} => m.efer = {})
<1>1. /\ Alters(m, e, {"cr4", "hflags"}) /\ m.cr4 = new
      /\ \A f : f \in m.hflags <=> IF f = "OSFXSR" THEN f \in new ELSE f \in e.hflags
  BY Cr4Updated DEF RightCpu
<1>2. /\ IsCpu(m) /\ m.segs = e.segs /\ m.cr0 = e.cr0 /\ m.efer = e.efer /\ m.cpl = e.cpl
      /\ m.eflags = e.eflags /\ m.hflags2 = e.hflags2 /\ m.intercept = e.intercept
      /\ m.virq = e.virq
  BY <1>1, AltersFields
<1>3. SoundCpu(m)
  BY <1>1, <1>2 DEF RightCpu, SoundCpu
<1>4. ControlFlags(m) /\ SegmentFlags(m)
  BY <1>1, <1>2
     DEF RightCpu, Coherent, ControlFlags, SegmentFlags, InLongCode, NeedsBases, FpuBits
<1>5. (HasSvme(e) => HasSvme(m)) /\ SameMode(m, e)
  BY <1>1, <1>2 DEF HasSvme, SameMode, ModeFlags
<1> QED BY <1>2, <1>3, <1>4, <1>5 DEF InPlace, RightCpu, Coherent

\* WRMSR of EFER.
LEMMA EferWritten ==
  ASSUME NEW e, RightCpu(e), NEW val, "LMA" \notin val,
         NEW m, m = LoadEfer(e, val \cup (e.efer \cap {"LMA"}))
  PROVE  InPlace(m, e) /\ (e.efer = {} /\ val = {} => m.efer = {})
<1> DEFINE new == val \cup (e.efer \cap {"LMA"})
<1>1. /\ Alters(m, e, {"efer", "hflags"}) /\ m.efer = new
      /\ \A f : f \in m.hflags <=> IF f \in {"LMA", "SVME"} THEN f \in new ELSE f \in e.hflags
  BY EferLoaded DEF RightCpu
<1>2. /\ IsCpu(m) /\ m.segs = e.segs /\ m.cr0 = e.cr0 /\ m.cr4 = e.cr4 /\ m.cpl = e.cpl
      /\ m.eflags = e.eflags /\ m.hflags2 = e.hflags2 /\ m.intercept = e.intercept
      /\ m.virq = e.virq
  BY <1>1, AltersFields
<1>3. "LMA" \in m.efer <=> "LMA" \in e.efer
  BY <1>1
<1>4. SoundCpu(m)
  BY <1>2, <1>3 DEF RightCpu, SoundCpu
<1>5. ControlFlags(m) /\ SegmentFlags(m)
  BY <1>1, <1>2, <1>3
     DEF RightCpu, Coherent, ControlFlags, SegmentFlags, InLongCode, NeedsBases, FpuBits
<1>6. HasSvme(m) /\ SameMode(m, e)
  BY <1>1, <1>2 DEF HasSvme, SameMode, ModeFlags
<1>7. e.efer = {} /\ val = {} => m.efer = {}
  BY <1>1
<1> QED BY <1>2, <1>4, <1>5, <1>6, <1>7 DEF InPlace, RightCpu, Coherent

\* The instruction after this one.
LEMMA NextInstruction ==
  ASSUME NEW e, RightCpu(e)
  PROVE  LET m == Next_instruction(e) IN
         /\ InPlace(m, e) /\ m.efer = e.efer /\ m.segs = e.segs /\ m.cr0 = e.cr0
         /\ m.eflags = e.eflags /\ m.hflags = e.hflags
<1> DEFINE m == Next_instruction(e)
<1>1. m = [e EXCEPT !["eip"] = 1 - e.eip]
  BY DEF Next_instruction
<1>2. InPlace(m, e) /\ m.efer = e.efer
  <2>1. /\ InPlace([e EXCEPT !["eip"] = 1 - e.eip], e)
        /\ [e EXCEPT !["eip"] = 1 - e.eip].efer = e.efer
    BY SteppedOn
  <2> HIDE DEF m
  <2> QED BY <1>1, <2>1
<1>3. m.segs = e.segs /\ m.cr0 = e.cr0 /\ m.eflags = e.eflags /\ m.hflags = e.hflags
  BY <1>1 DEF RightCpu, IsCpu, EnvFields
<1> QED BY <1>2, <1>3

\* A segment is loaded in protected mode,
LEMMA DescriptorLoaded ==
  ASSUME NEW e, RightCpu(e), "VM" \notin e.eflags, "PE" \in e.cr0,
         NEW reg \in SegRegs, NEW seg, SoundSegment(seg), NEW m, m = LoadSaved(e, reg, seg)
  PROVE  InPlace(m, e) /\ m.efer = e.efer
<1>0. IsCpu(e) /\ SoundSegments(e.segs)
  BY DEF RightCpu, SoundCpu, SoundSegments
<1>1. /\ Alters(m, e, {"segs", "hflags"}) /\ m.segs = [e.segs EXCEPT ![reg] = seg]
      /\ SameHidden(m, e, OfSegments)
      /\ IF reg = "CS"
           THEN LET long == "LMA" \in e.hflags /\ seg.attr.l IN
                /\ "CS64" \in m.hflags <=> long
                /\ "CS32" \in m.hflags <=> long \/ seg.attr.b
           ELSE SameHidden(m, e, {"SS32", "ADDSEG"})
      /\ "SS32" \in m.hflags <=> m.segs.SS.attr.b
      /\ "CS64" \notin m.hflags /\ AddsSegment(m) => "ADDSEG" \in m.hflags
  BY <1>0, SegmentLoaded
<1>2. /\ IsCpu(m) /\ m.efer = e.efer /\ m.cr0 = e.cr0 /\ m.cr4 = e.cr4 /\ m.cpl = e.cpl
      /\ m.eflags = e.eflags /\ m.hflags2 = e.hflags2 /\ m.intercept = e.intercept
      /\ m.virq = e.virq
  BY <1>1, AltersFields
<1>3. SoundSegments(m.segs) /\ m.segs[reg] = seg
      /\ \A r \in SegRegs : r # reg => m.segs[r] = e.segs[r]
  BY <1>0, <1>1 DEF SoundSegments
<1>4. SoundCpu(m)
  BY <1>2, <1>3 DEF RightCpu, SoundCpu, SoundSegments
<1>5. ControlFlags(m)
  <2>1. \A f \in OfControl : f \in m.hflags <=> f \in e.hflags
    BY <1>1 DEF SameHidden, OfSegments, OfControl
  <2> QED BY <2>1, <1>2 DEF RightCpu, Coherent, ControlFlags, OfControl, FpuBits
<1>6. /\ "CS64" \in m.hflags <=> InLongCode(m)
      /\ "CS32" \in m.hflags <=> InLongCode(m) \/ m.segs.CS.attr.b
  <2>1. CASE reg = "CS"
    BY <2>1, <1>1, <1>2, <1>3 DEF RightCpu, Coherent, ControlFlags, InLongCode
  <2>2. CASE reg # "CS"
    <3>1. m.segs.CS = e.segs.CS
      BY <2>2, <1>3 DEF SegRegs
    <3>2. \A f \in {"CS64", "CS32"} : f \in m.hflags <=> f \in e.hflags
      BY <2>2, <1>1 DEF SameHidden
    <3> QED BY <3>1, <3>2, <1>2 DEF RightCpu, Coherent, SegmentFlags, InLongCode
  <2> QED BY <2>1, <2>2
<1>7. ~InLongCode(m) /\ NeedsBases(m) => "ADDSEG" \in m.hflags
  BY <1>1, <1>6 DEF NeedsBases, AddsSegment
<1>8. SegmentFlags(m)
  BY <1>1, <1>6, <1>7 DEF SegmentFlags
<1>9. (HasSvme(e) => HasSvme(m)) /\ SameMode(m, e)
  <2>1. \A f \in {"SMM", "SVMI", "SVME"} : f \in m.hflags <=> f \in e.hflags
    BY <1>1 DEF SameHidden, OfSegments
  <2> QED BY <2>1, <1>2 DEF HasSvme, SameMode, ModeFlags
<1> QED BY <1>2, <1>4, <1>5, <1>8, <1>9 DEF InPlace, RightCpu, Coherent

\* and in real mode and virtual 8086 mode, where only the base changes.
WithSelector(e, reg, seg) ==
  [e EXCEPT !.segs[reg].sel = seg.sel, !.segs[reg].base = seg.base]
LEMMA SelectorLoaded ==
  ASSUME NEW e, RightCpu(e), "PE" \notin e.cr0 \/ "VM" \in e.eflags,
         NEW reg \in SegRegs, NEW seg, NEW m, m = WithSelector(e, reg, seg)
  PROVE  InPlace(m, e) /\ m.efer = e.efer
<1> DEFINE old == e.segs[reg]
           sel == seg.sel
           base == seg.base
           segs == [e.segs EXCEPT ![reg].sel = sel, ![reg].base = base]
<1>1. m = [e EXCEPT !["segs"] = segs]
  BY DEF RightCpu, IsCpu, EnvFields, SoundCpu, WithSelector
<1>2. Alters(m, e, {"segs"}) /\ m.segs = segs
  <2>1. IsCpu(e) /\ "segs" \in EnvFields
    BY DEF RightCpu, EnvFields
  <2> HIDE DEF segs
  <2>2. Alters([e EXCEPT !["segs"] = segs], e, {"segs"}) /\ [e EXCEPT !["segs"] = segs].segs = segs
    BY ONLY <2>1, Assigned
  <2> QED BY ONLY <1>1, <2>2
<1>3. /\ IsCpu(m) /\ m.efer = e.efer /\ m.cr0 = e.cr0 /\ m.cr4 = e.cr4 /\ m.cpl = e.cpl
      /\ m.eflags = e.eflags /\ m.hflags2 = e.hflags2 /\ m.intercept = e.intercept
      /\ m.virq = e.virq /\ m.hflags = e.hflags
  BY <1>2, AltersFields
<1>4. /\ segs[reg] = [sel |-> sel, base |-> base, attr |-> old.attr]
      /\ segs = [r \in SegRegs |-> segs[r]] /\ \A r \in SegRegs : r # reg => segs[r] = e.segs[r]
  <2>1. old = [sel |-> old.sel, base |-> old.base, attr |-> old.attr]
    BY DEF RightCpu, SoundCpu, SoundSegment, Segment
  <2>2. DOMAIN e.segs = SegRegs
    BY DEF RightCpu, SoundCpu
  <2> QED BY <2>1, <2>2
<1> HIDE DEF segs
<1>5. \A r \in SegRegs : SoundSegment(segs[r]) /\ segs[r].attr = e.segs[r].attr
  <2>1. \A r \in SegRegs : SoundSegment(e.segs[r])
    BY DEF RightCpu, SoundCpu
  <2>2. SoundSegment(segs[reg]) /\ segs[reg].attr = old.attr
    <3> DEFINE s == segs[reg]
    <3>1. s = [sel |-> sel, base |-> base, attr |-> old.attr] /\ SoundSegment(old)
      BY <1>4, <2>1
    <3> HIDE DEF s, old
    <3> QED BY ONLY <3>1 DEF SoundSegment, Segment, s
  <2> QED BY <1>4, <2>1, <2>2
<1>6. /\ m.segs.CS.attr = e.segs.CS.attr /\ m.segs.SS.attr = e.segs.SS.attr
  BY <1>2, <1>5 DEF SegRegs
<1>7. SoundCpu(m)
  <2>1. m.segs = [r \in SegRegs |-> m.segs[r]] /\ \A r \in SegRegs : SoundSegment(m.segs[r])
    BY <1>2, <1>4, <1>5
  <2> QED BY <2>1, <1>3, <1>6 DEF RightCpu, SoundCpu
<1>8. ControlFlags(m) /\ SegmentFlags(m)
  BY <1>3, <1>6
     DEF RightCpu, Coherent, ControlFlags, SegmentFlags, InLongCode, NeedsBases
<1>9. (HasSvme(e) => HasSvme(m)) /\ SameMode(m, e)
  BY <1>3 DEF HasSvme, SameMode
<1> QED BY <1>3, <1>7, <1>8, <1>9 DEF InPlace, RightCpu, Coherent

-----------------------------------------------------------------------------
(* The invariant of the modes *)

UsesKvm == "kvm" \in ModeUse[mode_profile].means
Target64 == ModeUse[mode_profile].target64
SoundSaved(c) == IsSaved(c) /\ SoundCpu(c)

LeftShape(l) ==
  l = [smm |-> l.smm, host |-> l.host, guest |-> l.guest, lost |-> l.lost] /\ l.lost \in BOOLEAN
ModeShapes ==
  /\ mode_profile \in DOMAIN ModeBoot /\ synced \in BOOLEAN
  /\ IsCpu(env) /\ SoundSegments(env.segs) /\ IsKvm(kvm)
  /\ smram = [cpu |-> smram.cpu, smbase |-> smram.smbase]
  /\ LeftShape(left_at)

\* The registers are a processor's, in KVM while it has them, and hflags
\* follows; what KVM runs is in neither of QEMU's modes.
RegistersRight ==
  /\ ~synced => SoundCpu(env) /\ Coherent(env) /\ (~UsesKvm => HasSvme(env))
  /\ synced => UsesKvm /\ SoundCpu(kvm)
  /\ UsesKvm => ~InSmm /\ ~InGuest /\ vmcb.control.exit = <<>>
  /\ ~UsesKvm => UserInVm86(env, env.cpl)
  /\ ~Target64 => env.efer = {} /\ ~InGuest /\ ~UsesKvm

\* What is to be brought back is a processor's too, and is as it was left.
SmmRight ==
  InSmm =>
    /\ ~InGuest
    /\ SoundSaved(smram.cpu) /\ UserInVm86(smram.cpu, env.cpl) /\ smram.cpu = left_at.smm
    /\ ~Target64 => smram.cpu.efer = {}
VmcbRight(v) ==
  /\ v = [save |-> v.save, control |-> v.control]
  /\ SoundSaved(v.save.cpu) /\ UserInVm86(v.save.cpu, v.save.cpl)
HsaveRight ==
  InGuest =>
    SoundSaved(hsave) /\ "PE" \in hsave.cr0 /\ "VM" \notin hsave.eflags /\ hsave = left_at.host

ModesInv ==
  ModeShapes /\ RegistersRight /\ SmmRight /\ VmcbRight(vmcb) /\ HsaveRight /\ NestedStateGone

\* What the software that runs may do, the handler in SMM.
LEMMA UsesAre ==
  ASSUME ModesInv
  PROVE  /\ \A val \in Uses.efer : "LMA" \notin val
         /\ \A seg \in Uses.code \cup Uses.data : SoundSegment(seg)
         /\ \A p \in Uses.kvm_runs : SoundBoot(ModeBoot[p])
         /\ \A i \in Uses.vms : VmcbRight(Vmcbs[i])
         /\ Uses.target64 = Target64 /\ Target64 \in BOOLEAN
         /\ ~Target64 => Uses.efer \subseteq {{}}
         /\ "kvm" \in Uses.means => UsesKvm
         /\ UsesKvm => "smi" \notin Uses.means /\ Uses.vms = {}
<1> DEFINE own == ModeUse[mode_profile]
           handler == ModeUse["handler"]
<1>1. /\ mode_profile \in DOMAIN ModeUse /\ "handler" \in DOMAIN ModeUse
      /\ mode_profile \in DOMAIN ModeBoot
  BY ModeAssumption DEF ModesInv, ModeShapes
<1>2. SoundUse(own) /\ SoundUse(handler)
  BY <1>1, ModeAssumption
<1>3. Uses \in {own, [handler EXCEPT !.target64 = own.target64]}
  BY DEF Uses
<1>4. \A f \in UseFields \ {"target64"} : Uses[f] \in {own[f], handler[f]}
  BY <1>2, <1>3 DEF SoundUse
<1>5. Uses.target64 = Target64 /\ Target64 \in BOOLEAN
  BY <1>2, <1>3 DEF SoundUse, UseFields, Target64
<1>6. InSmm => Uses.means = handler.means
  BY <1>2 DEF SoundUse, UseFields, Uses
<1>7. ~InSmm => Uses = own
  BY DEF Uses
<1>8. /\ Uses.efer \in {own.efer, handler.efer} /\ Uses.code \in {own.code, handler.code}
      /\ Uses.data \in {own.data, handler.data} /\ Uses.vms \in {own.vms, handler.vms}
      /\ Uses.kvm_runs \in {own.kvm_runs, handler.kvm_runs}
  BY <1>4 DEF UseFields
<1>9. \A val \in Uses.efer : "LMA" \notin val
  BY <1>2, <1>8 DEF SoundUse
<1>10. \A seg \in Uses.code \cup Uses.data : SoundSegment(seg)
  BY <1>2, <1>8 DEF SoundUse
<1>11. \A p \in Uses.kvm_runs : SoundBoot(ModeBoot[p])
  BY <1>2, <1>8, ModeAssumption DEF SoundUse
<1>12. \A i \in Uses.vms : VmcbRight(Vmcbs[i])
  <2>1. \A i \in Uses.vms : SoundVmcb(Vmcbs[i])
    BY <1>2, <1>8, ModeAssumption DEF SoundUse
  <2>2. \A v : SoundVmcb(v) => VmcbRight(v)
    BY DEF SoundVmcb, VmcbRight, SoundSaved, IsSaved
  <2> QED BY <2>1, <2>2
<1>13. ~Target64 => Uses.efer \subseteq {{}}
  BY <1>1, <1>2, <1>8, ModeAssumption DEF SoundUse, Target64
<1>14. "kvm" \in Uses.means => UsesKvm
  BY <1>6, <1>7, ModeAssumption DEF UsesKvm
<1>15. UsesKvm => "smi" \notin Uses.means /\ Uses.vms = {}
  BY <1>2, <1>7 DEF UsesKvm, SoundUse, ModesInv, RegistersRight
<1> QED BY <1>5, <1>9, <1>10, <1>11, <1>12, <1>13, <1>14, <1>15

\* The invariant holds when the system software has set up the CPU.
LEMMA ModesBegin ==
  ASSUME ModesInit
  PROVE  ModesInv
<1>1. PICK p \in DOMAIN ModeBoot : mode_profile = p /\ env = ModeBoot[p]
  BY DEF ModesInit
<1>2. SoundBoot(env)
  BY <1>1, ModeAssumption
<1>3. /\ IsCpu(env) /\ SoundCpu(env) /\ Coherent(env) /\ HasSvme(env) /\ ~InSmm /\ ~InGuest
      /\ IsKvm(KeptByKvm(env))
  BY <1>2, BootIsRight DEF HasSvme, InSmm, InGuest
<1>4. /\ smram = SaveStateMap(env) /\ vmcb = Vmcbs[1] /\ kvm = KeptByKvm(env) /\ synced = FALSE
      /\ left_at = [smm |-> Forgotten, host |-> Forgotten, guest |-> Forgotten, lost |-> FALSE]
  BY DEF ModesInit
<1>5. ModeShapes
  BY <1>1, <1>3, <1>4 DEF ModeShapes, LeftShape, SaveStateMap, SoundCpu, SoundSegments
<1>6. SoundVmcb(vmcb)
  BY <1>4, ModeAssumption
<1>7. VmcbRight(vmcb) /\ vmcb.control.exit = <<>>
  BY <1>6 DEF SoundVmcb, VmcbRight, SoundSaved, IsSaved
<1>8. RegistersRight
  <2>1. ~Target64 => env.efer = {} /\ ~UsesKvm
    <3>1. mode_profile \in DOMAIN ModeUse
      BY <1>1, ModeAssumption
    <3> QED BY <1>1, <3>1, ModeAssumption DEF SoundUse, Target64, UsesKvm
  <2> QED BY <2>1, <1>2, <1>3, <1>4, <1>7 DEF RegistersRight, SoundBoot
<1>9. NestedStateGone
  BY <1>2, <1>3 DEF NestedStateGone, SoundBoot
<1> QED BY <1>3, <1>5, <1>7, <1>8, <1>9 DEF ModesInv, SmmRight, HsaveRight

\* The flags are those that kvm.c would compute.
LEMMA ModesRight ==
  ASSUME ModesInv
  PROVE  HflagsCoherent /\ NestedStateGone
<1>1. SUFFICES ASSUME ~synced
               PROVE  /\ LET h == Hflags(env)
                             free == IF "CS64" \in h THEN {"ADDSEG", "SS32"} ELSE {"ADDSEG"}
                         IN  /\ (env.hflags \cap Computed) \ free = h \ free
                             /\ "ADDSEG" \in h => "ADDSEG" \in env.hflags
                      /\ "kvm" \notin Uses.means => HasSvme(env)
  BY DEF HflagsCoherent, HasSvme, ModesInv
<1>2. /\ IsCpu(env) /\ SoundSegments(env.segs) /\ Coherent(env) /\ (~UsesKvm => HasSvme(env))
      /\ UsesKvm => ~InSmm
  BY <1>1 DEF ModesInv, ModeShapes, RegistersRight
<1>3. "kvm" \notin Uses.means => ~UsesKvm
  BY <1>2 DEF Uses, UsesKvm
<1>4. LET h == Hflags(env)
          free == IF "CS64" \in h THEN {"ADDSEG", "SS32"} ELSE {"ADDSEG"}
      IN  /\ (env.hflags \cap Computed) \ free = h \ free
          /\ "ADDSEG" \in h => "ADDSEG" \in env.hflags
  BY <1>2, RightComputed
<1> QED BY <1>2, <1>3, <1>4

\* What is brought back, mode by mode.
LEMMA BringsBack ==
  ASSUME InSmm /\ ~InSmm' => WasReset \/ Saved(env)' = left_at.smm,
         InGuest /\ ~InGuest' => WasReset \/ Saved(env)' = left_at.host,
         ~InGuest /\ InGuest' => Saved(env)' = left_at'.guest /\ Saved(env)' = vmcb'.save.cpu
  PROVE  BroughtBackFromModes
BY DEF BroughtBackFromModes, BroughtBackFrom

\* A step that leaves the CPU in its mode.
LEMMA StaysInMode ==
  ASSUME ModesInv, ~synced, InPlace(env', env), ~Target64 => env'.efer = {},
         UNCHANGED <<mode_profile, smram, hsave, vmcb, kvm, synced, left_at>>
  PROVE  ModesInv' /\ BroughtBackFromModes
<1>1. (InSmm' <=> InSmm) /\ (InGuest' <=> InGuest)
  BY DEF InPlace, SameMode, ModeFlags, InSmm, InGuest
<1>2. (Target64' <=> Target64) /\ (UsesKvm' <=> UsesKvm)
  BY DEF Target64, UsesKvm
<1>3. ModeShapes'
  BY DEF ModesInv, ModeShapes, InPlace, RightCpu, SoundCpu, SoundSegments
<1>4. RegistersRight'
  <2>1. UserInVm86(env, env.cpl) => UserInVm86(env, env.cpl)'
    BY DEF UserInVm86, InPlace, SameMode
  <2>2. HasSvme(env) => HasSvme(env)'
    BY DEF InPlace, HasSvme
  <2> QED BY <1>1, <1>2, <2>1, <2>2 DEF ModesInv, RegistersRight, InPlace, RightCpu
<1>5. SmmRight'
  BY <1>1, <1>2 DEF ModesInv, SmmRight, InPlace, SameMode
<1>6. VmcbRight(vmcb)' /\ HsaveRight'
  BY <1>1 DEF ModesInv, VmcbRight, HsaveRight
<1>7. NestedStateGone'
  BY <1>1 DEF ModesInv, NestedStateGone, InPlace, SameMode
<1>8. BroughtBackFromModes
  BY <1>1, BringsBack
<1> QED BY <1>3, <1>4, <1>5, <1>6, <1>7, <1>8 DEF ModesInv

\* helper_vmexit.
LEMMA GoesToHost ==
  ASSUME ModesInv, InGuest, NEW code, Vmexit(code), ~left_at'.lost
  PROVE  ModesInv' /\ BroughtBackFromModes
<1>1. ~UsesKvm /\ ~synced /\ Target64 /\ ~InSmm
  BY UsesAre DEF ModesInv, RegistersRight, SmmRight
<1>2. RightCpu(env) /\ SoundSaved(hsave) /\ "PE" \in hsave.cr0 /\ "VM" \notin hsave.eflags
      /\ hsave = left_at.host
  BY <1>1 DEF ModesInv, ModeShapes, RegistersRight, HsaveRight, RightCpu
<1>5. /\ UNCHANGED <<mode_profile, smram, kvm, synced>>
      /\ LeftShape(left_at') /\ ~Cr0Refused(env, hsave.cr0)
  <2> DEFINE refused == Cr0Refused(env, hsave.cr0)
             saved == Saved(env)
             forgotten == Forgotten
  <2>1. UNCHANGED <<mode_profile, smram, kvm, synced>>
        /\ left_at' = [left_at EXCEPT !.guest = saved, !.host = forgotten, !.lost = @ \/ refused]
    BY DEF Vmexit
  <2>2. refused \in BOOLEAN
    BY DEF Cr0Refused
  <2> HIDE DEF refused, saved, forgotten
  <2>3. LeftShape(left_at') /\ ~refused
    BY <2>1, <2>2 DEF ModesInv, ModeShapes, LeftShape
  <2> QED BY <2>1, <2>3 DEF refused
<1>3. /\ IsCpu(env') /\ Saved(env') = hsave /\ SoundCpu(env') /\ Coherent(env')
      /\ HasSvme(env') /\ "SVMI" \notin env'.hflags
      /\ "SMM" \in env'.hflags <=> "SMM" \in env.hflags
      /\ env'.intercept = {} /\ ~env'.virq /\ {"HIF", "VINTR"} \cap env'.hflags2 = {}
  <2>1. env' = HostAfter(env, hsave)
    BY DEF Vmexit
  <2>2. /\ IsCpu(env) /\ SoundCpu(env) /\ IsSaved(hsave) /\ SoundCpu(hsave)
        /\ "PE" \in hsave.cr0 /\ "VM" \notin hsave.eflags
    BY <1>2 DEF RightCpu, SoundSaved
  <2>3. ~Cr0Refused(env, hsave.cr0)
    BY <1>5
  <2> QED BY <2>1, <2>2, <2>3, Left DEF HasSvme
<1>4. ~InSmm' /\ ~InGuest'
  BY <1>1, <1>3 DEF InSmm, InGuest
<1>6. ModeShapes'
  BY <1>3, <1>5 DEF ModesInv, ModeShapes, SoundCpu, SoundSegments
<1>7. VmcbRight(vmcb')
  <2>1. vmcb' = [vmcb EXCEPT !.save = VmcbSave(env), !.control.virq = env.virq,
                             !.control.exit = code]
    BY DEF Vmexit, VmcbAfter
  <2>2. vmcb = [save |-> vmcb.save, control |-> vmcb.control]
    BY DEF ModesInv, VmcbRight
  <2>3. vmcb'.save = VmcbSave(env) /\ vmcb' = [save |-> vmcb'.save, control |-> vmcb'.control]
    BY ONLY <2>1, <2>2
  <2>4. SoundSaved(Saved(env)) /\ Saved(env).eflags = env.eflags
    BY <1>2, SavedFieldsOf DEF SoundSaved, RightCpu
  <2>5. UserInVm86(Saved(env), env.cpl)
    BY <1>1, <2>4 DEF ModesInv, RegistersRight, UserInVm86
  <2> QED BY <2>3, <2>4, <2>5 DEF VmcbRight, VmcbSave
<1>8. RegistersRight'
  <2>1. env'.eflags = hsave.eflags
    BY <1>3, SavedFieldsOf
  <2>2. ~UsesKvm' /\ Target64' /\ ~synced'
    BY <1>1, <1>5 DEF UsesKvm, Target64
  <2>3. UserInVm86(env', env'.cpl)
    BY <1>2, <2>1 DEF UserInVm86
  <2> QED BY <1>3, <2>2, <2>3 DEF RegistersRight, UserInVm86, HasSvme
<1>9. NestedStateGone'
  BY <1>3, <1>4 DEF NestedStateGone
<1>10. BroughtBackFromModes
  BY <1>1, <1>2, <1>3, <1>4, BringsBack
<1> QED BY <1>4, <1>6, <1>7, <1>8, <1>9, <1>10 DEF ModesInv, SmmRight, HsaveRight, VmcbRight

\* helper_vmrun, of a new machine or of the last.
LEMMA GoesToGuest ==
  ASSUME ModesInv, ~UsesKvm, NEW v, VmcbRight(v), NEW fresh, Vmrun(v, fresh), ~left_at'.lost
  PROVE  ModesInv' /\ BroughtBackFromModes
<1>1. /\ env.cpl = 0 /\ "PE" \in env.cr0 /\ "SVME" \in env.efer /\ ~InGuest /\ ~InSmm /\ ~synced
      /\ vmcb' = v /\ env' = helper_vmrun(env, v)
      /\ hsave' = Hsave(env, Next_instruction(env).eip)
      /\ left_at' = [left_at EXCEPT !.host = Hsave(env, Next_instruction(env).eip),
                                    !.guest = v.save.cpu,
                                    !.lost = @ \/ Cr0Refused(env, v.save.cpu.cr0)]
      /\ UNCHANGED <<mode_profile, smram, kvm, synced>>
  BY DEF Vmrun
<1>6. /\ left_at'.host = hsave' /\ left_at'.guest = v.save.cpu
      /\ LeftShape(left_at') /\ ~Cr0Refused(env, v.save.cpu.cr0)
  <2> DEFINE refused == Cr0Refused(env, v.save.cpu.cr0)
  <2>1. left_at' = [left_at EXCEPT !.host = hsave', !.guest = v.save.cpu, !.lost = @ \/ refused]
    BY <1>1
  <2>2. refused \in BOOLEAN
    BY DEF Cr0Refused
  <2> HIDE DEF refused
  <2>3. left_at'.host = hsave' /\ left_at'.guest = v.save.cpu /\ LeftShape(left_at') /\ ~refused
    BY <2>1, <2>2 DEF ModesInv, ModeShapes, LeftShape
  <2> QED BY <2>3 DEF refused
<1>2. RightCpu(env) /\ "VM" \notin env.eflags /\ Target64
  BY <1>1, UsesAre DEF ModesInv, ModeShapes, RegistersRight, RightCpu, UserInVm86
<1>3. /\ IsCpu(env') /\ Saved(env') = v.save.cpu /\ SoundCpu(env') /\ Coherent(env')
      /\ HasSvme(env') /\ "SVMI" \in env'.hflags
      /\ "SMM" \in env'.hflags <=> "SMM" \in env.hflags
      /\ env'.cpl = v.save.cpl /\ env'.intercept = v.control.intercept
      /\ "VINTR" \in env'.hflags2 => ("HIF" \in env'.hflags2 <=> "IF" \in env.eflags)
  BY <1>1, <1>2, <1>6, Entered DEF RightCpu, VmcbRight, SoundSaved, HasSvme
<1>4. ~InSmm' /\ InGuest'
  BY <1>1, <1>3 DEF InSmm, InGuest
<1>5. /\ SoundSaved(hsave') /\ hsave'.cr0 = env.cr0 /\ hsave'.eflags = env.eflags
  <2> DEFINE s == Saved(env)
             x == Next_instruction(env).eip
  <2>1. hsave' = [s EXCEPT !.eip = x]
    BY <1>1 DEF Hsave
  <2>2. /\ s = [f \in SavedFields |-> s[f]] /\ SoundCpu(s)
        /\ s.cr0 = env.cr0 /\ s.eflags = env.eflags
    BY <1>2, SavedFieldsOf DEF IsSaved, RightCpu
  <2> HIDE DEF s, x
  <2>3. /\ hsave' = [f \in SavedFields |-> hsave'[f]] /\ hsave'.segs = s.segs
        /\ hsave'.efer = s.efer /\ hsave'.cr0 = s.cr0 /\ hsave'.cr4 = s.cr4
        /\ hsave'.eflags = s.eflags
    BY <2>1, <2>2 DEF SavedFields
  <2>4. SoundCpu(hsave')
    BY <2>2, <2>3, SoundAlike
  <2> QED BY <2>2, <2>3, <2>4 DEF SoundSaved, IsSaved
<1>7. ModeShapes'
  BY <1>1, <1>3, <1>6 DEF ModesInv, ModeShapes, SoundCpu, SoundSegments
<1>8. RegistersRight'
  <2>1. env'.eflags = v.save.cpu.eflags
    BY <1>3, SavedFieldsOf
  <2>2. ~UsesKvm' /\ Target64' /\ ~synced'
    BY <1>1, <1>2 DEF UsesKvm, Target64
  <2>3. UserInVm86(env', env'.cpl)
    BY <1>3, <2>1 DEF VmcbRight, UserInVm86
  <2> QED BY <1>3, <2>2, <2>3 DEF RegistersRight, UserInVm86, HasSvme
<1>9. HsaveRight'
  BY <1>1, <1>2, <1>5, <1>6 DEF HsaveRight, SoundSaved, IsSaved, SoundCpu
<1>10. NestedStateGone'
  BY <1>1, <1>3, <1>4, <1>5 DEF NestedStateGone
<1>11. BroughtBackFromModes
  BY <1>1, <1>3, <1>4, <1>6, BringsBack
<1> QED BY <1>1, <1>4, <1>7, <1>8, <1>9, <1>10, <1>11 DEF ModesInv, SmmRight, VmcbRight

\* do_smm_enter.
LEMMA GoesToSmm ==
  ASSUME ModesInv, Smi
  PROVE  ModesInv' /\ BroughtBackFromModes
<1>1. ~InSmm /\ ~InGuest /\ ~UsesKvm /\ ~synced /\ Uses.target64 = Target64 /\ Target64 \in BOOLEAN
  BY UsesAre DEF Smi, ModesInv, RegistersRight
<1>2. /\ smram' = SaveStateMap(env) /\ env' = SmmStart(env, Target64)
      /\ left_at' = [left_at EXCEPT !.smm = Saved(env)]
      /\ UNCHANGED <<mode_profile, hsave, vmcb, event, kvm, synced>>
  BY <1>1 DEF Smi
<1>3. RightCpu(env) /\ HasSvme(env) /\ (~Target64 => env.efer = {}) /\ UserInVm86(env, env.cpl)
  BY <1>1 DEF ModesInv, ModeShapes, RegistersRight, RightCpu
<1>4. /\ Alters(env', env, Core) /\ SoundCpu(env') /\ Coherent(env')
      /\ env'.efer = {} /\ env'.eflags = {} /\ "SVME" \notin env'.hflags
      /\ "SMM" \in env'.hflags
      /\ "SVMI" \in env'.hflags <=> "SVMI" \in env.hflags
  BY <1>1, <1>2, <1>3, SmmStarted DEF RightCpu, HasSvme
<1>5. /\ IsCpu(env') /\ env'.cpl = env.cpl /\ env'.hflags2 = env.hflags2
      /\ env'.intercept = env.intercept /\ env'.virq = env.virq
  BY <1>4, AltersFields, AltersCore
<1>6. InSmm' /\ ~InGuest' /\ ~UsesKvm' /\ (Target64' <=> Target64)
  BY <1>1, <1>2, <1>4 DEF InSmm, InGuest, UsesKvm, Target64
<1>7. /\ SoundSaved(Saved(env)) /\ Saved(env).eflags = env.eflags /\ Saved(env).efer = env.efer
  BY <1>3, SavedFieldsOf DEF SoundSaved, RightCpu
<1>8. /\ left_at'.smm = Saved(env)
      /\ LeftShape(left_at')
  BY <1>2 DEF ModesInv, ModeShapes, LeftShape
<1>9. ModeShapes'
  BY <1>2, <1>4, <1>5, <1>8 DEF ModesInv, ModeShapes, SaveStateMap, SoundCpu, SoundSegments
<1>10. RegistersRight'
  BY <1>1, <1>2, <1>4, <1>6 DEF RegistersRight, UserInVm86, HasSvme
<1>11. SmmRight'
  <2>1. smram'.cpu = Saved(env)
    BY <1>2 DEF SaveStateMap
  <2>2. UserInVm86(Saved(env), env.cpl)
    BY <1>3, <1>7 DEF UserInVm86
  <2> QED BY <1>3, <1>5, <1>6, <1>7, <1>8, <2>1, <2>2 DEF SmmRight
<1>12. NestedStateGone'
  BY <1>1, <1>5, <1>6 DEF ModesInv, NestedStateGone
<1>13. BroughtBackFromModes
  BY <1>1, <1>6, BringsBack
<1> QED BY <1>2, <1>6, <1>9, <1>10, <1>11, <1>12, <1>13 DEF ModesInv, HsaveRight, VmcbRight

\* helper_rsm.
LEMMA ComesFromSmm ==
  ASSUME ModesInv, NEW base, Rsm(base), ~left_at'.lost
  PROVE  ModesInv' /\ BroughtBackFromModes
<1> DEFINE m == [smram EXCEPT !.smbase = base]
<1>1. InSmm /\ ~InGuest /\ ~UsesKvm /\ ~synced /\ Uses.target64 = Target64 /\ Target64 \in BOOLEAN
  BY UsesAre DEF Rsm, ModesInv, RegistersRight, SmmRight
<1>2. /\ env' = IF Target64 THEN helper_rsm64(env, m) ELSE helper_rsm32(env, m)
      /\ smram' = SaveStateMap(ModeBoot[mode_profile])
      /\ left_at' = [left_at EXCEPT !.smm = Forgotten, !.lost = @ \/ LostByRsm]
      /\ UNCHANGED <<mode_profile, hsave, vmcb, event, kvm, synced>>
  BY <1>1 DEF Rsm
<1>10. LeftShape(left_at') /\ ~LostByRsm
  <2> DEFINE lost == LostByRsm
             forgotten == Forgotten
  <2>1. left_at' = [left_at EXCEPT !.smm = forgotten, !.lost = @ \/ lost]
    BY <1>2
  <2>2. lost \in BOOLEAN
    BY DEF LostByRsm
  <2> HIDE DEF lost, forgotten
  <2>3. LeftShape(left_at') /\ ~lost
    BY <2>1, <2>2 DEF ModesInv, ModeShapes, LeftShape
  <2> QED BY <2>3 DEF lost
<1>3. RightCpu(env) /\ HasSvme(env) /\ (~Target64 => env.efer = {})
  BY <1>1 DEF ModesInv, ModeShapes, RegistersRight, RightCpu
<1>4. m.cpu = smram.cpu
  BY DEF ModesInv, ModeShapes
<1> HIDE DEF m
<1>5. /\ IsSaved(m.cpu) /\ SoundCpu(m.cpu) /\ (~Target64 => m.cpu.efer = {})
      /\ m.cpu = left_at.smm /\ UserInVm86(m.cpu, env.cpl)
  BY <1>1, <1>4 DEF ModesInv, SmmRight, SoundSaved
<1>6. Resumed(env', env, m)
  <2>1. CASE Target64
    <3>1. Enters([env EXCEPT !.efer = m.cpu.efer], m.cpu.cr0)
            => "PAE" \in m.cpu.cr4 /\ "LMA" \in m.cpu.efer
      BY <2>1, <1>1, <1>4, <1>10 DEF LostByRsm
    <3> QED BY <2>1, <3>1, <1>2, <1>3, <1>5, Resumed64 DEF RightCpu
  <2>2. CASE ~Target64
    BY <2>2, <1>2, <1>3, <1>5, Resumed32 DEF RightCpu, HasSvme
  <2> QED BY <2>1, <2>2
<1>7. /\ IsCpu(env') /\ env'.cpl = env.cpl /\ env'.hflags2 = env.hflags2
      /\ env'.intercept = env.intercept /\ env'.virq = env.virq
  BY <1>6, AltersFields, AltersCore DEF Resumed
<1>8. ~InSmm' /\ ~InGuest' /\ ~UsesKvm' /\ (Target64' <=> Target64)
  BY <1>1, <1>2, <1>6 DEF InSmm, InGuest, UsesKvm, Target64, Resumed
<1>9. Saved(env') = left_at.smm /\ env'.eflags = m.cpu.eflags /\ env'.efer = m.cpu.efer
  BY <1>5, <1>6, SavedFieldsOf DEF Resumed
<1>11. ModeShapes'
  BY <1>2, <1>6, <1>7, <1>10
     DEF ModesInv, ModeShapes, SaveStateMap, SoundCpu, SoundSegments, Resumed
<1>12. RegistersRight'
  BY <1>1, <1>2, <1>5, <1>6, <1>7, <1>8, <1>9
     DEF RegistersRight, UserInVm86, HasSvme, Resumed
<1>13. NestedStateGone'
  BY <1>1, <1>7, <1>8 DEF ModesInv, NestedStateGone
<1>14. BroughtBackFromModes
  BY <1>1, <1>8, <1>9, BringsBack
<1> QED BY <1>2, <1>8, <1>11, <1>12, <1>13, <1>14
        DEF ModesInv, HsaveRight, VmcbRight, SmmRight

\* cpu_reset.
LEMMA IsReset ==
  ASSUME ModesInv, ResetMachine
  PROVE  ModesInv' /\ BroughtBackFromModes
<1> DEFINE z == ResetCpu(env)
<1>1. /\ ~synced /\ env' = do_cpu_init(env)
      /\ UNCHANGED <<mode_profile, smram, hsave, vmcb, kvm, synced, left_at>>
  BY DEF ResetMachine
<1>2. /\ IsCpu(z) /\ SoundCpu(z) /\ Coherent(z) /\ z.efer = {} /\ z.eflags = {}
      /\ {"SVME", "SVMI", "SMM"} \cap z.hflags = {} /\ z.hflags2 = {"GIF"} /\ z.intercept = {}
  BY WasZeroed DEF ModesInv, ModeShapes
<1>3. env' = [z EXCEPT !["virq"] = FALSE]
  BY <1>1 DEF do_cpu_init
<1> HIDE DEF z
<1>4. /\ Alters(env', z, {"virq"}) /\ ~env'.virq
  BY <1>2, <1>3, Assigned DEF EnvFields
<1>5. /\ IsCpu(env') /\ env'.segs = z.segs /\ env'.efer = {} /\ env'.cr0 = z.cr0
      /\ env'.cr4 = z.cr4 /\ env'.eflags = {} /\ env'.hflags = z.hflags
      /\ env'.hflags2 = {"GIF"} /\ env'.intercept = {}
  BY <1>2, <1>4, AltersFields
<1>6. SoundCpu(env') /\ Coherent(env') /\ SoundSegments(env'.segs)
  <2>1. SoundCpu(env')
    BY <1>2, <1>5, SoundAlike
  <2>2. Coherent(env')
    BY <1>2, <1>5, FlagsKept DEF Coherent
  <2> QED BY <2>1, <2>2 DEF SoundCpu, SoundSegments
<1>7. ~InSmm' /\ ~InGuest' /\ (UsesKvm' <=> UsesKvm) /\ (Target64' <=> Target64)
  BY <1>1, <1>2, <1>5 DEF InSmm, InGuest, UsesKvm, Target64
<1>8. ModeShapes'
  BY <1>1, <1>5, <1>6 DEF ModesInv, ModeShapes
<1>9. RegistersRight'
  BY <1>1, <1>2, <1>5, <1>6, <1>7 DEF ModesInv, RegistersRight, UserInVm86, HasSvme
<1>10. NestedStateGone'
  BY <1>4, <1>5, <1>7 DEF NestedStateGone
<1>11. BroughtBackFromModes
  BY <1>1, <1>7, BringsBack DEF WasReset
<1> QED BY <1>1, <1>7, <1>8, <1>9, <1>10, <1>11
        DEF ModesInv, SmmRight, HsaveRight, VmcbRight

\* The registers that come back from KVM, as many as are let through.
LEMMA GottenFromKvm ==
  ASSUME NEW e, IsCpu(e), SoundSegments(e.segs), NEW k, SoundCpu(k), NEW n \in 0 .. 2,
         NEW m, m = kvm_arch_get_registers(e, k, n)
  PROVE  /\ IsCpu(m) /\ SoundSegments(m.segs)
         /\ \A f \in ModeFlags : f \in m.hflags <=> f \in e.hflags
         /\ m.hflags2 = e.hflags2 /\ m.intercept = e.intercept /\ m.virq = e.virq
         /\ n = 0 => SoundCpu(m) /\ Coherent(m)
<1>1. CASE n = 0
  <2>1. m = kvm_get_sregs(kvm_getput_regs(e, k), k)
    BY <1>1 DEF kvm_arch_get_registers
  <2>2. /\ IsCpu(m) /\ SoundCpu(m) /\ Coherent(m) /\ SameHidden(m, e, Computed)
        /\ m.hflags2 = e.hflags2 /\ m.intercept = e.intercept /\ m.virq = e.virq
    BY <2>1, Fetched
  <2> QED BY <2>2 DEF SoundCpu, SoundSegments, SameHidden, ModeFlags, Computed
<1>2. CASE n = 1
  BY <1>2 DEF kvm_arch_get_registers
<1>3. CASE n = 2
  <2>1. m = [e EXCEPT !.eip = k.eip, !.eflags = k.eflags, !.iopl = k.iopl]
    BY <1>3 DEF kvm_arch_get_registers, kvm_getput_regs
  <2>2. e = [segs |-> e.segs, efer |-> e.efer, cr0 |-> e.cr0, cr4 |-> e.cr4, eip |-> e.eip,
             eflags |-> e.eflags, iopl |-> e.iopl, dr7 |-> e.dr7, cpl |-> e.cpl,
             hflags |-> e.hflags, hflags2 |-> e.hflags2, smbase |-> e.smbase,
             intercept |-> e.intercept, virq |-> e.virq]
    BY CpuRecord
  <2>3. m = [segs |-> e.segs, efer |-> e.efer, cr0 |-> e.cr0, cr4 |-> e.cr4, eip |-> k.eip,
             eflags |-> k.eflags, iopl |-> k.iopl, dr7 |-> e.dr7, cpl |-> e.cpl,
             hflags |-> e.hflags, hflags2 |-> e.hflags2, smbase |-> e.smbase,
             intercept |-> e.intercept, virq |-> e.virq]
    BY ONLY <2>1, <2>2
  <2>4. /\ m.segs = e.segs /\ m.hflags = e.hflags /\ m.hflags2 = e.hflags2
        /\ m.intercept = e.intercept /\ m.virq = e.virq
    BY <2>3
  <2> QED BY <1>3, <2>3, <2>4, CpuRecord
<1> QED BY <1>1, <1>2, <1>3

\* The registers go to KVM,
LEMMA KvmIsGiven ==
  ASSUME ModesInv, NEW n, PutRegisters(n)
  PROVE  ModesInv' /\ BroughtBackFromModes
<1>1. /\ UsesKvm /\ ~InSmm /\ ~InGuest /\ ~synced /\ kvm' = kvm_arch_put_registers(env, kvm, n)
      /\ synced' = (n = 0) /\ UNCHANGED <<env, mode_profile, smram, hsave, vmcb, event, left_at>>
  BY UsesAre DEF PutRegisters, ModesInv, RegistersRight
<1>2. IsKvm(kvm') /\ (n = 0 => SoundCpu(kvm'))
  BY <1>1, PutInKvm DEF ModesInv, ModeShapes, RegistersRight
<1>3. ~InSmm' /\ ~InGuest' /\ UsesKvm' /\ (Target64' <=> Target64)
  BY <1>1 DEF InSmm, InGuest, UsesKvm, Target64
<1>4. ModeShapes'
  BY <1>1, <1>2 DEF ModesInv, ModeShapes
<1>5. RegistersRight'
  BY <1>1, <1>2, <1>3 DEF ModesInv, RegistersRight
<1>6. NestedStateGone'
  BY <1>1, <1>3 DEF ModesInv, NestedStateGone
<1>7. BroughtBackFromModes
  BY <1>1, <1>3, BringsBack
<1> QED BY <1>1, <1>3, <1>4, <1>5, <1>6, <1>7 DEF ModesInv, SmmRight, HsaveRight, VmcbRight

\* run there,
LEMMA KvmGoesOn ==
  ASSUME ModesInv, NEW p \in Uses.kvm_runs, KvmRuns(ModeBoot[p])
  PROVE  ModesInv' /\ BroughtBackFromModes
<1>1. /\ synced /\ UsesKvm /\ ~InSmm /\ ~InGuest /\ kvm' = KeptByKvm(ModeBoot[p])
      /\ UNCHANGED <<env, mode_profile, smram, hsave, vmcb, event, synced, left_at>>
  BY DEF KvmRuns, ModesInv, RegistersRight
<1>2. IsKvm(kvm') /\ SoundCpu(kvm')
  BY <1>1, UsesAre, BootIsRight
<1>3. ~InSmm' /\ ~InGuest' /\ UsesKvm' /\ (Target64' <=> Target64)
  BY <1>1 DEF InSmm, InGuest, UsesKvm, Target64
<1>4. ModeShapes'
  BY <1>1, <1>2 DEF ModesInv, ModeShapes
<1>5. RegistersRight'
  BY <1>1, <1>2, <1>3 DEF ModesInv, RegistersRight
<1>6. NestedStateGone'
  BY <1>1, <1>3 DEF ModesInv, NestedStateGone
<1>7. BroughtBackFromModes
  BY <1>1, <1>3, BringsBack
<1> QED BY <1>1, <1>3, <1>4, <1>5, <1>6, <1>7 DEF ModesInv, SmmRight, HsaveRight, VmcbRight

\* and come back.
LEMMA KvmIsAsked ==
  ASSUME ModesInv, NEW n \in 0 .. 2, GetRegisters(n)
  PROVE  ModesInv' /\ BroughtBackFromModes
<1>1. /\ synced /\ UsesKvm /\ SoundCpu(kvm) /\ ~InSmm /\ ~InGuest
      /\ env' = kvm_arch_get_registers(env, kvm, n) /\ synced' = (n # 0)
      /\ UNCHANGED <<mode_profile, smram, hsave, vmcb, event, kvm, left_at>>
  BY DEF GetRegisters, ModesInv, RegistersRight
<1>2. /\ IsCpu(env') /\ SoundSegments(env'.segs)
      /\ \A f \in ModeFlags : f \in env'.hflags <=> f \in env.hflags
      /\ env'.hflags2 = env.hflags2 /\ env'.intercept = env.intercept /\ env'.virq = env.virq
      /\ n = 0 => SoundCpu(env') /\ Coherent(env')
  BY <1>1, GottenFromKvm DEF ModesInv, ModeShapes
<1>3. ~InSmm' /\ ~InGuest' /\ UsesKvm' /\ Target64 /\ Target64'
  <2>1. Target64
    BY <1>1, UsesAre DEF ModesInv, RegistersRight
  <2> QED BY <2>1, <1>1, <1>2 DEF InSmm, InGuest, UsesKvm, Target64, ModeFlags
<1>4. ModeShapes'
  BY <1>1, <1>2 DEF ModesInv, ModeShapes
<1>5. RegistersRight'
  BY <1>1, <1>2, <1>3 DEF ModesInv, RegistersRight
<1>6. NestedStateGone'
  BY <1>1, <1>2, <1>3 DEF ModesInv, NestedStateGone
<1>7. BroughtBackFromModes
  BY <1>1, <1>3, BringsBack
<1> QED BY <1>1, <1>3, <1>4, <1>5, <1>6, <1>7 DEF ModesInv, SmmRight, HsaveRight, VmcbRight

\* A privileged instruction, here or in the hypervisor's care.
LEMMA PrivilegedSteps ==
  ASSUME ModesInv, NEW ev, NEW m, Privileged(ev, m), ~left_at'.lost,
         ~synced => InPlace(m, env) /\ (~Target64 => m.efer = {})
  PROVE  ModesInv' /\ BroughtBackFromModes
<1>1. ~synced
  BY DEF Privileged
<1>2. CASE Intercepted(env, vmcb, ev)
  <2>1. InGuest /\ Vmexit(ev)
    BY <1>2 DEF Privileged, Intercepted, InGuest
  <2> QED BY <2>1, GoesToHost
<1>3. CASE ~Intercepted(env, vmcb, ev)
  <2>1. env' = Next_instruction(m) /\ Unchanged_but_env
    BY <1>3 DEF Privileged
  <2>2. InPlace(env', env) /\ (~Target64 => env'.efer = {})
    <3>1. InPlace(m, env) /\ RightCpu(m) /\ (~Target64 => m.efer = {})
      BY <1>1 DEF InPlace
    <3>2. InPlace(Next_instruction(m), m) /\ Next_instruction(m).efer = m.efer
      BY <3>1, NextInstruction
    <3> QED BY <2>1, <3>1, <3>2, StepsCompose
  <2> QED BY <1>1, <2>1, <2>2, StaysInMode DEF Unchanged_but_env
<1> QED BY <1>2, <1>3

\* Loads of segments.
LEMMA SegmentSteps ==
  ASSUME ModesInv, NEW reg \in SegRegs, NEW seg, SoundSegment(seg), LoadSegment(reg, seg)
  PROVE  ModesInv' /\ BroughtBackFromModes
<1> DEFINE e == Next_instruction(env)
           m == LoadSaved(env, reg, seg)
<1>1. ~synced /\ RightCpu(env) /\ (~Target64 => env.efer = {}) /\ Unchanged_but_env
  BY DEF LoadSegment, ModesInv, ModeShapes, RegistersRight, RightCpu
<1>2. /\ InPlace(e, env) /\ RightCpu(e) /\ e.efer = env.efer /\ e.cr0 = env.cr0
      /\ e.eflags = env.eflags
  BY <1>1, NextInstruction DEF InPlace
<1>3. InPlace(env', env) /\ env'.efer = env.efer
  <2>1. CASE "PE" \in env.cr0 /\ "VM" \notin env.eflags
    <3>1. env' = Next_instruction(m)
      BY <2>1 DEF LoadSegment
    <3>2. InPlace(m, env) /\ m.efer = env.efer
      BY <2>1, <1>1, DescriptorLoaded
    <3> HIDE DEF m
    <3>3. InPlace(env', m) /\ env'.efer = m.efer
      BY <3>1, <3>2, NextInstruction DEF InPlace
    <3> QED BY <3>2, <3>3, StepsCompose
  <2>2. CASE ~("PE" \in env.cr0 /\ "VM" \notin env.eflags)
    <3>1. env' = WithSelector(e, reg, seg)
      BY <2>2 DEF LoadSegment, WithSelector
    <3>2. "PE" \notin e.cr0 \/ "VM" \in e.eflags
      BY <2>2, <1>2
    <3> HIDE DEF e
    <3>3. InPlace(env', e) /\ env'.efer = e.efer
      BY <1>2, <3>1, <3>2, SelectorLoaded
    <3> QED BY <1>2, <3>3, StepsCompose
  <2> QED BY <2>1, <2>2
<1> QED BY <1>1, <1>3, StaysInMode DEF Unchanged_but_env

\* A step of other variables than these.
LEMMA NothingHappens ==
  ASSUME ModesInv, UNCHANGED <<env, mode_profile, smram, hsave, vmcb, kvm, synced, left_at>>
  PROVE  ModesInv' /\ BroughtBackFromModes
<1>1. (InSmm' <=> InSmm) /\ (InGuest' <=> InGuest)
  BY DEF InSmm, InGuest
<1>2. (Target64' <=> Target64) /\ (UsesKvm' <=> UsesKvm)
  BY DEF Target64, UsesKvm
<1>3. ModeShapes' /\ SmmRight' /\ VmcbRight(vmcb)' /\ HsaveRight'
  BY <1>1, <1>2 DEF ModesInv, ModeShapes, SmmRight, VmcbRight, HsaveRight
<1>4. RegistersRight'
  BY <1>1, <1>2 DEF ModesInv, RegistersRight
<1>5. NestedStateGone'
  BY <1>1 DEF ModesInv, NestedStateGone
<1> QED BY <1>1, <1>3, <1>4, <1>5, BringsBack DEF ModesInv

\* The machine goes on in another process.
LEMMA MigrationKeeps ==
  ASSUME ModesInv, NEW version \in {3, CPU_SAVE_VERSION}, Migrate(version)
  PROVE  ModesInv' /\ BroughtBackFromModes
<1>1. Unchanged_but_env /\ (version < 5 => env.hflags2 = {"GIF"} /\ ~InGuest /\ env.smbase = 30)
      /\ env' = cpu_load(ResetCpu(env), cpu_save(env, version))
  BY DEF Migrate
<1>2. IsCpu(env) /\ SoundSegments(env.segs) /\ (~InGuest => env.intercept = {})
  BY DEF ModesInv, ModeShapes, NestedStateGone
<1>3. env' = env
  BY <1>1, <1>2, LoadedAsSaved
<1>4. UNCHANGED <<env, mode_profile, smram, hsave, vmcb, kvm, synced, left_at>>
  BY <1>1, <1>3 DEF Unchanged_but_env
<1> QED BY <1>4, NothingHappens

\* Every step keeps the invariant, and brings back what it should, but those
\* that lose what they should bring back.
LEMMA ModesStep ==
  ASSUME ModesInv, ModesNext, ~left_at'.lost
  PROVE  ModesInv' /\ BroughtBackFromModes
<1>1. ~synced => RightCpu(env) /\ (~Target64 => env.efer = {})
  BY DEF ModesInv, ModeShapes, RegistersRight, RightCpu
<1>2. ASSUME NEW new, SoundCr0(env, new), Privileged(<<"CR0">>, UpdateCr0(env, new))
      PROVE  ModesInv' /\ BroughtBackFromModes
  BY <1>1, <1>2, Cr0Written, PrivilegedSteps
<1>3. ASSUME NEW new, WriteCr4(new)
      PROVE  ModesInv' /\ BroughtBackFromModes
  <2>1. ~synced => InPlace(UpdateCr4(env, new), env)
                   /\ (~Target64 => UpdateCr4(env, new).efer = {})
    BY <1>1, <1>3, Cr4Written DEF WriteCr4
  <2> QED BY <1>3, <2>1, PrivilegedSteps DEF WriteCr4
<1>4. ASSUME NEW val \in Uses.efer, WriteEfer(val)
      PROVE  ModesInv' /\ BroughtBackFromModes
  <2> DEFINE m == LoadEfer(env, val \cup (env.efer \cap {"LMA"}))
  <2>1. "LMA" \notin val /\ (~Target64 => val = {})
    BY UsesAre
  <2>2. ~synced => InPlace(m, env) /\ (~Target64 => m.efer = {})
    BY <1>1, <1>4, <2>1, EferWritten DEF WriteEfer
  <2> QED BY <1>4, <2>2, PrivilegedSteps DEF WriteEfer
<1>5. ASSUME NEW seg \in Uses.code \cup Uses.data, NEW reg \in SegRegs, LoadSegment(reg, seg)
      PROVE  ModesInv' /\ BroughtBackFromModes
  BY <1>5, UsesAre, SegmentSteps
<1>6. ASSUME NEW i \in Uses.vms, Vmrun(Vmcbs[i], TRUE)
      PROVE  ModesInv' /\ BroughtBackFromModes
  BY <1>6, UsesAre, GoesToGuest
<1>7. ASSUME Resume
      PROVE  ModesInv' /\ BroughtBackFromModes
  <2>1. ~UsesKvm /\ VmcbRight(vmcb)
    BY <1>7 DEF Resume, ModesInv, RegistersRight
  <2> QED BY <1>7, <2>1, GoesToGuest DEF Resume
<1>8. ASSUME Preempt
      PROVE  ModesInv' /\ BroughtBackFromModes
  BY <1>8, GoesToHost DEF Preempt
<1>9. ASSUME InjectedIsDelivered
      PROVE  ModesInv' /\ BroughtBackFromModes
  BY <1>9, NothingHappens DEF InjectedIsDelivered
<1>10. ASSUME VirtualInterrupt
       PROVE  ModesInv' /\ BroughtBackFromModes
  <2>1. ~synced /\ Unchanged_but_env /\ env' = [env EXCEPT !["virq"] = FALSE]
    BY <1>10 DEF VirtualInterrupt, ModesInv, RegistersRight
  <2>2. InPlace(env', env) /\ env'.efer = env.efer
    BY <1>1, <2>1, SteppedOn
  <2> QED BY <1>1, <2>1, <2>2, StaysInMode DEF Unchanged_but_env
<1>11. CASE (\E v \in Uses.cr0 : WriteCr0(v)) \/ (\E v \in Uses.low : helper_lmsw(v))
  BY <1>2, <1>11 DEF WriteCr0, helper_lmsw
<1>12. CASE (\E v \in Uses.cr4 : WriteCr4(v)) \/ (\E v \in Uses.efer : WriteEfer(v))
  BY <1>3, <1>4, <1>12
<1>13. CASE \/ \E seg \in Uses.code : FarLoad(seg)
            \/ \E seg \in Uses.data : LoadSegment("DS", seg) \/ LoadSegment("SS", seg)
  BY <1>5, <1>13 DEF FarLoad, SegRegs
<1>14. CASE (\E i \in Uses.vms : Vmrun(Vmcbs[i], TRUE)) \/ Resume \/ Preempt
  BY <1>6, <1>7, <1>8, <1>14
<1>15. CASE InjectedIsDelivered \/ VirtualInterrupt
  BY <1>9, <1>10, <1>15
<1>16. CASE Smi \/ (\E base \in {30, 40} : Rsm(base)) \/ ResetMachine
  BY <1>16, GoesToSmm, ComesFromSmm, IsReset
<1>17. CASE \E v \in {3, CPU_SAVE_VERSION} : Migrate(v)
  BY <1>17, MigrationKeeps
<1>18. CASE \/ \E n \in 0 .. 2 : PutRegisters(n) \/ GetRegisters(n)
            \/ \E p \in Uses.kvm_runs : KvmRuns(ModeBoot[p])
  BY <1>18, KvmIsGiven, KvmIsAsked, KvmGoesOn
<1> QED BY <1>11, <1>12, <1>13, <1>14, <1>15, <1>16, <1>17, <1>18 DEF ModesNext

\* What has been lost does not come back: nothing is said of the CPU from there on.
ModesKept == LeftShape(left_at) /\ (~left_at.lost => ModesInv)
LEMMA LostStays ==
  ASSUME LeftShape(left_at), ModesNext
  PROVE  LeftShape(left_at') /\ (left_at.lost => left_at'.lost)
<1>1. ASSUME NEW code, Vmexit(code)
      PROVE  LeftShape(left_at') /\ (left_at.lost => left_at'.lost)
  BY <1>1 DEF Vmexit, LeftShape, Cr0Refused
<1>2. ASSUME NEW v, NEW fresh, Vmrun(v, fresh)
      PROVE  LeftShape(left_at') /\ (left_at.lost => left_at'.lost)
  BY <1>2 DEF Vmrun, LeftShape, Cr0Refused
<1>3. ASSUME NEW base, Rsm(base)
      PROVE  LeftShape(left_at') /\ (left_at.lost => left_at'.lost)
  BY <1>3 DEF Rsm, LeftShape, LostByRsm
<1>4. ASSUME Smi
      PROVE  LeftShape(left_at') /\ (left_at.lost => left_at'.lost)
  BY <1>4 DEF Smi, LeftShape
<1>5. ASSUME UNCHANGED left_at
      PROVE  LeftShape(left_at') /\ (left_at.lost => left_at'.lost)
  BY <1>5
<1>6. ASSUME NEW ev, NEW m, Privileged(ev, m)
      PROVE  LeftShape(left_at') /\ (left_at.lost => left_at'.lost)
  <2>1. Vmexit(ev) \/ UNCHANGED left_at
    BY <1>6 DEF Privileged, Unchanged_but_env
  <2> QED BY <2>1, <1>1, <1>5
<1>7. CASE \/ \E v \in Uses.cr0 : WriteCr0(v)
           \/ \E v \in Uses.cr4 : WriteCr4(v)
           \/ \E v \in Uses.efer : WriteEfer(v)
           \/ \E v \in Uses.low : helper_lmsw(v)
  BY <1>6, <1>7 DEF WriteCr0, WriteCr4, WriteEfer, helper_lmsw
<1>8. CASE \/ \E seg \in Uses.code : FarLoad(seg)
           \/ \E seg \in Uses.data : LoadSegment("DS", seg) \/ LoadSegment("SS", seg)
  BY <1>5, <1>8 DEF FarLoad, LoadSegment, Unchanged_but_env
<1>9. CASE (\E i \in Uses.vms : Vmrun(Vmcbs[i], TRUE)) \/ Resume \/ Preempt
  BY <1>1, <1>2, <1>9 DEF Resume, Preempt
<1>10. CASE InjectedIsDelivered \/ VirtualInterrupt \/ ResetMachine
  BY <1>5, <1>10 DEF InjectedIsDelivered, VirtualInterrupt, ResetMachine, Unchanged_but_env
<1>11. CASE Smi \/ \E base \in {30, 40} : Rsm(base)
  BY <1>3, <1>4, <1>11
<1>12. CASE \E v \in {3, CPU_SAVE_VERSION} : Migrate(v)
  BY <1>5, <1>12 DEF Migrate, Unchanged_but_env
<1>13. CASE \/ \E n \in 0 .. 2 : PutRegisters(n) \/ GetRegisters(n)
            \/ \E p \in Uses.kvm_runs : KvmRuns(ModeBoot[p])
  BY <1>5, <1>13 DEF PutRegisters, GetRegisters, KvmRuns
<1> QED BY <1>7, <1>8, <1>9, <1>10, <1>11, <1>12, <1>13 DEF ModesNext

LEMMA ModesStepKept ==
  ASSUME ModesKept, ModesNext
  PROVE  ModesKept' /\ (~left_at'.lost => BroughtBackFromModes)
<1>1. LeftShape(left_at') /\ (left_at.lost => left_at'.lost)
  BY LostStays DEF ModesKept
<1>2. ~left_at'.lost => ModesInv' /\ BroughtBackFromModes
  BY <1>1, ModesStep DEF ModesKept
<1> QED BY <1>1, <1>2 DEF ModesKept
=============================================================================
