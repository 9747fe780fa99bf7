------------------------------ MODULE MmuHelper ------------------------------
(***************************************************************************)
(* The guest's page tables and the TLB that caches them: the page walk of  *)
(* cpu_x86_handle_mmu_fault, the register writes that flush the TLB, and   *)
(* the second walk, cpu_get_phys_page_debug (target-i386/helper.c).        *)
(*                                                                         *)
(* A page is the tuple of its indexes in the tables, highest level first;  *)
(* a walk of n levels uses the last n.  A frame is a number whose parity   *)
(* is address bit 20, and holds a table or data.  In this module env has   *)
(* cr0, cr3, cr4, efer, hflags, a20 and cr2.                               *)
(***************************************************************************)
EXTENDS CpuState

CONSTANTS
  Pages,
  MmuBoot,      \* profile -> the CPU and its tables before paging is turned on
  MmuUse        \* profile -> the values its software writes

VARIABLES
  mmu_profile,
  tables,    \* <<frame, index>> -> the entry there
  tlb,    \* mmu_idx -> page -> what is cached of it
  fault,  \* the outcome of the last walk
  stale   \* (history) pages whose tables, or what NX means in them, were written since

Indexes == 1 .. 2
Users == {"kernel", "user"}  \* mmu_idx
AccessKinds == {"read", "write", "fetch"}
NotCached == [paddr |-> <<>>, prot |-> {}, large |-> FALSE]
Empty == [u \in Users |-> [v \in Pages |-> NotCached]]

\* An entry of a table: its flags, and the frame it points to.
Entry(flags, to) == [flags |-> flags, to |-> to]
EntryFlags == {"P", "RW", "US", "PS", "NX", "A", "D"}
Wp(e) == "WP" \in e.cr0

\* The memory of a guest: the frames its tables and data lie in.
MmuFrames(p) == {loc[1] : loc \in DOMAIN MmuBoot[p].mem}
MmuEntries(p) == [flags : SUBSET EntryFlags, to : MmuFrames(p)]
MmuTables(p) == [MmuFrames(p) \X Indexes -> MmuEntries(p)]
CpuFlags == {"PE", "MP", "EM", "TS", "WP", "PG", "PSE", "PAE", "PGE", "OSFXSR", "LME", "LMA", "NXE",
             "PF", "CS64", "ADDSEG"}
MmuCpus(p) ==
  [cr0 : SUBSET CpuFlags, cr3 : MmuFrames(p), cr4 : SUBSET CpuFlags, efer : SUBSET CpuFlags,
   a20 : BOOLEAN, cr2 : Pages \cup {<<>>}, eflags : SUBSET CpuFlags, hflags : SUBSET CpuFlags,
   intercept : SUBSET CpuFlags]

\* Guests: CR3 and every entry name frames that are there, with A20 off too.
ASSUME MmuAssumption ==
  /\ Pages \subseteq Indexes \X Indexes \X Indexes \X Indexes
  /\ \A p \in DOMAIN MmuBoot :
       LET use == MmuUse[p] IN
       /\ MmuFrames(p) \subseteq Nat
       /\ \A f \in MmuFrames(p) : 2 * (f \div 2) \in MmuFrames(p)
       /\ "LMA" \in MmuBoot[p].cpu.hflags <=> "LMA" \in MmuBoot[p].cpu.efer
       /\ MmuBoot[p].cpu \in MmuCpus(p) /\ MmuBoot[p].mem \in MmuTables(p)
       /\ use.pages \subseteq Pages /\ use.cr3 \subseteq MmuFrames(p) /\ use.a20 \cup use.nxe \subseteq BOOLEAN
       /\ use.cr0 \cup use.cr4 \subseteq SUBSET CpuFlags
       /\ \A loc \in DOMAIN use.entries : use.entries[loc] \subseteq MmuEntries(p)

-----------------------------------------------------------------------------
(* The walk *)

Mask(e, frame) == IF e.a20 THEN frame ELSE 2 * (frame \div 2)

Pae(e) == "PAE" \in e.cr4
LongPaging(e) == Pae(e) /\ "LMA" \in e.hflags
Levels(e) == IF LongPaging(e) THEN 4 ELSE IF Pae(e) THEN 3 ELSE 2
\* A page directory pointer of legacy PAE has neither rights nor A and D.
IsPdpt(e, l) == Levels(e) = 3 /\ l = 3

\* Where the entry of each level is, the page's own being level 1.
Path(e, m, page) ==
  LET loc[l \in 1 .. Levels(e)] ==
        <<Mask(e, IF l = Levels(e) THEN e.cr3 ELSE m[loc[l + 1]].to), page[5 - l]>>
  IN  SubSeq(loc, 1, Levels(e))

Large(e, m, path) == "PS" \in m[path[2]].flags /\ (Pae(e) \/ "PSE" \in e.cr4)
LeafLevel(e, m, path) == IF Large(e, m, path) THEN 2 ELSE 1

\* The levels at which a walk ends early, and with which error.
Reserved(e, m, path, l) ==
  Pae(e) /\ "NX" \in m[path[l]].flags /\ "NXE" \notin e.efer /\ ~IsPdpt(e, l)
Stops(e, m, path) ==
  {l \in LeafLevel(e, m, path) .. Levels(e) :
     "P" \notin m[path[l]].flags \/ Reserved(e, m, path, l)}
StopCode(e, m, path, l) == IF "P" \notin m[path[l]].flags THEN {} ELSE {"RSVD"}

\* The rights all levels agree on.
Rights(e, m, path) ==
  LET ls == {l \in LeafLevel(e, m, path) .. Levels(e) : ~IsPdpt(e, l)} IN
  (IF \A l \in ls : "RW" \in m[path[l]].flags THEN {"RW"} ELSE {})
    \cup (IF \A l \in ls : "US" \in m[path[l]].flags THEN {"US"} ELSE {})
    \cup (IF Pae(e) /\ \E l \in ls : "NX" \in m[path[l]].flags THEN {"NX"} ELSE {})

Denied(e, rights, access, user) ==
  \/ access = "fetch" /\ "NX" \in rights
  \/ user = "user" /\ "US" \notin rights
  \/ access = "write" /\ "RW" \notin rights /\ (user = "user" \/ Wp(e))

\* The accessed bits of the levels above lowest, and what is set at the leaf.
Mark(e, m, path, ls, bits) ==
  [loc \in DOMAIN m |->
     IF \E l \in ls : path[l] = loc /\ ~IsPdpt(e, l)
       THEN [m[loc] EXCEPT !.flags = @ \cup bits] ELSE m[loc]]

Paddr(e, m, path, page) ==
  LET leaf == LeafLevel(e, m, path) IN
  <<Mask(e, m[path[leaf]].to), IF leaf = 2 THEN page[4] ELSE 0>>

\* What the TLB may let through: a page that is not dirty only reads, so that
\* the first write comes back here.
PageProt(e, rights, dirty, user) ==
  {"read"} \cup (IF "NX" \in rights THEN {} ELSE {"fetch"})
    \cup (IF dirty /\ ("RW" \in rights \/ (user = "kernel" /\ ~Wp(e))) THEN {"write"} ELSE {})

ErrorCode(e, code, access, user) ==
  code \cup (IF access = "write" THEN {"W"} ELSE {}) \cup (IF user = "user" THEN {"U"} ELSE {})
    \cup (IF access = "fetch" /\ "NXE" \in e.efer /\ Pae(e) THEN {"I_D"} ELSE {})

NoFault == [vector |-> -1, code |-> {}]
PageFault(e, m, code, access, user) ==
  [mem |-> m, fill |-> NotCached,
   fault |-> [vector |-> PF, code |-> ErrorCode(e, code, access, user)]]
Filled(m, paddr, prot, large) ==
  [mem |-> m, fill |-> [paddr |-> paddr, prot |-> prot, large |-> large], fault |-> NoFault]

\* Index 2 at the top stands for an address that is not sign-extended.
Canonical(page) == page[1] # 2
Unpaged(e, page) == <<Mask(e, page[4]), 0>>

\* cpu_x86_handle_mmu_fault
handle_mmu_fault(e, m, page, access, user) ==
  LET path == Path(e, m, page)
      leaf == LeafLevel(e, m, path)
      stops == Stops(e, m, path)
      first == CHOOSE l \in stops : \A k \in stops : k <= l
      rights == Rights(e, m, path)
      above == Mark(e, m, path, leaf + 1 .. Levels(e), {"A"})
      marked == Mark(e, above, path, {leaf}, {"A"} \cup IF access = "write" THEN {"D"} ELSE {})
  IN  IF "PG" \notin e.cr0 THEN Filled(m, Unpaged(e, page), AccessKinds, FALSE)
      ELSE IF LongPaging(e) /\ ~Canonical(page)
        THEN [mem |-> m, fill |-> NotCached, fault |-> [vector |-> GP, code |-> {}]]
      ELSE IF stops # {}
        THEN PageFault(e, Mark(e, m, path, first + 1 .. Levels(e), {"A"}),
                       StopCode(e, m, path, first), access, user)
      ELSE IF Denied(e, rights, access, user) THEN PageFault(e, above, {"P"}, access, user)
      ELSE Filled(marked, Paddr(e, marked, path, page),
                  PageProt(e, rights, "D" \in marked[path[leaf]].flags, user), leaf = 2)

\* The levels of the way to a page whose entry has the no-execute bit.
NoExecute(e, m, path) ==
  {l \in LeafLevel(e, m, path) .. Levels(e) : Pae(e) /\ "NX" \in m[path[l]].flags}

\* cpu_get_phys_page_debug: no rights, no marks; <<>> stands for -1.  It masks
\* the low bits of an entry only: the no-execute bit stays in the address, as
\* bit 63.  A table at such an address is outside the guest's memory, where no
\* entry is present; that of the page itself comes back with the bit.
get_phys_page_debug(e, m, page) ==
  LET path == Path(e, m, page)
      leaf == LeafLevel(e, m, path)
      paddr == Paddr([e EXCEPT !.a20 = e.a20 \/ Pae(e)], m, path, page)
  IN  IF ~Pae(e) /\ "PG" \notin e.cr0 THEN Unpaged(e, page)
      ELSE IF LongPaging(e) /\ ~Canonical(page) THEN <<>>
      ELSE IF \/ \E l \in leaf .. Levels(e) : "P" \notin m[path[l]].flags
              \/ NoExecute(e, m, path) \ {leaf} # {}
        THEN <<>>
      ELSE IF leaf \in NoExecute(e, m, path) THEN Append(paddr, "NX")
      ELSE paddr

-----------------------------------------------------------------------------
(* What the guest does *)

MmuInit ==
  \E p \in DOMAIN MmuBoot :
    /\ mmu_profile = p /\ env = MmuBoot[p].cpu /\ tables = MmuBoot[p].mem
    /\ tlb = Empty /\ fault = NoFault /\ stale = {}

\* The TLB serves an access it can; any other comes to the walk.  A fault
\* that a hypervisor intercepts leaves CR2 alone.
MemAccess(page, access, user) ==
  LET r == handle_mmu_fault(env, tables, page, access, user) IN
  /\ access \notin tlb[user][page].prot
  /\ tables' = r.mem /\ fault' = r.fault
  /\ tlb' = IF r.fault = NoFault THEN [tlb EXCEPT ![user][page] = r.fill] ELSE tlb
  /\ stale' = IF r.fault = NoFault /\ tlb[CHOOSE u \in Users : u # user][page] = NotCached
                THEN stale \ {page} ELSE stale
  /\ env' = IF r.fault.vector = PF /\ "PF" \notin env.intercept
              THEN [env EXCEPT !.cr2 = page] ELSE env
  /\ UNCHANGED mmu_profile

\* tlb_flush
Flush(cond) ==
  /\ tlb' = IF cond THEN Empty ELSE tlb
  /\ stale' = IF cond THEN {} ELSE stale
  /\ UNCHANGED <<mmu_profile, tables, fault>>
Differ(old, new, bits) == old \cap bits # new \cap bits

FlushingCr0_PgOnly == {"PG", "PE"}
FlushingCr0 == {"PG", "WP", "PE"}
FlushingCr4 == {"PGE", "PAE", "PSE"}

\* cpu_x86_update_cr0
MmuCr0(new) == new # env.cr0
  /\ Flush(Differ(env.cr0, new, FlushingCr0)) /\ env' = UpdateCr0(env, new)
\* cpu_x86_update_cr4, with paging on too: the tables are then of another format.
MmuCr4(new) ==
  /\ new # env.cr4
  /\ Flush(Differ(env.cr4, new, FlushingCr4)) /\ env' = UpdateCr4(env, new)
\* cpu_x86_update_cr3
MmuCr3(new) == env' = [env EXCEPT !.cr3 = new]
  /\ Flush("PG" \in env.cr0)

\* helper_wrmsr of EFER.NXE, which flushes nothing: a page whose entries have
\* the bit that is now defined, or reserved, stays cached as it was.
MmuNxe(on) ==
  /\ on # ("NXE" \in env.efer)
  /\ env' = LoadEfer(env, With(env.efer, "NXE", on))
  /\ stale' = stale \cup {v \in Pages :
                  /\ \E l \in 1 .. Levels(env) : "NX" \in tables[Path(env, tables, v)[l]].flags
                  /\ \E u \in Users : tlb[u][v] # NotCached}
  /\ UNCHANGED <<mmu_profile, tables, tlb, fault>>

\* cpu_x86_set_a20
set_a20(on) == env' = [env EXCEPT !.a20 = on] /\ Flush(on # env.a20)

\* helper_invlpg; tlb_flush_page drops everything when a large page is hit.
InLargePage(page) ==
  \E u \in Users, v \in Pages : tlb[u][v].large /\ v[3] = page[3]
helper_invlpg(page) ==
  /\ tlb' = IF InLargePage(page) THEN Empty ELSE [u \in Users |-> [tlb[u] EXCEPT ![page] = NotCached]]
  /\ stale' = IF InLargePage(page) THEN {} ELSE stale \ {page}
  /\ UNCHANGED <<env, mmu_profile, tables, fault>>

\* The guest writes an entry of its tables.
WriteEntry(loc, entry) ==
  /\ tables' = [tables EXCEPT ![loc] = entry]
  /\ stale' = stale \cup {v \in Pages : \E l \in 1 .. Levels(env) : Path(env, tables, v)[l] = loc
                            /\ \E u \in Users : tlb[u][v] # NotCached}
  /\ UNCHANGED <<env, mmu_profile, tlb, fault>>

MmuNext ==
  LET use == MmuUse[mmu_profile] IN
  \/ \E v \in use.pages, a \in AccessKinds, u \in Users : MemAccess(v, a, u)
  \/ \E c \in use.cr0 : MmuCr0(c)
  \/ \E c \in use.cr4 : MmuCr4(c)
  \/ \E f \in use.cr3 : MmuCr3(f)
  \/ \E on \in use.nxe : MmuNxe(on)
  \/ \E on \in use.a20 : set_a20(on)
  \/ \E v \in use.pages : helper_invlpg(v)
  \/ \E loc \in DOMAIN use.entries : \E entry \in use.entries[loc] : WriteEntry(loc, entry)
-----------------------------------------------------------------------------
(* Properties *)

\* A page the guest did not touch the tables of is cached as a walk would
\* find it now, whatever was written to CR0, CR3, CR4 and A20 since: the same
\* frame, no right the tables and CR0.WP refuse, and no write to a page that is
\* not marked dirty.  After a write of EFER.NXE that holds of the pages whose
\* entries are free of the bit, and only of ways that are free of it does
\* cpu_get_phys_page_debug find the frame too.
TlbFaithful ==
  \A u \in Users, v \in Pages :
    LET c == tlb[u][v]
        path == Path(env, tables, v)
        leaf == tables[path[LeafLevel(env, tables, path)]].flags
    IN  c # NotCached /\ v \notin stale =>
          IF "PG" \notin env.cr0 THEN c.paddr = Unpaged(env, v)
          ELSE /\ Stops(env, tables, path) = {} /\ c.paddr = Paddr(env, tables, path, v)
               /\ \A a \in c.prot : ~Denied(env, Rights(env, tables, path), a, u)
               /\ "A" \in leaf /\ ("write" \in c.prot => "D" \in leaf)
               /\ env.a20 /\ NoExecute(env, tables, path) = {} =>
                    c.paddr = get_phys_page_debug(env, tables, v)

\* A walk that finds no fault lets the access through: it is not repeated.
FillsResolve ==
  \A v \in MmuUse[mmu_profile].pages, a \in AccessKinds, u \in Users :
    LET r == handle_mmu_fault(env, tables, v, a, u) IN r.fault = NoFault => a \in r.fill.prot
=============================================================================
