------------------------------ MODULE MemBlocks ------------------------------
(***************************************************************************)
(* The memory blocks of a virtual machine (HAXM_VM.h): which buffers of    *)
(* the host process are the guest's RAM and where, the two requests to the *)
(* driver that say so, and the translation of addresses both ways, which   *)
(* every host-side page table and frame database access goes through.      *)
(*                                                                         *)
(* Addresses and sizes are in units of a page.  The driver is external.    *)
(***************************************************************************)
EXTENDS Integers

CONSTANTS
  Buffers,     \* buffers of the process: records [hva, size]
  GuestPages   \* guest physical addresses: 0 .. GuestPages - 1

\* VirtualAlloc returns disjoint buffers and never address 0.
BuffersAssumption ==
  /\ Buffers \subseteq [hva : Nat \ {0}, size : Nat \ {0}]
  /\ \A a, b \in Buffers : a # b => a.hva + a.size <= b.hva \/ b.hva + b.size <= a.hva
  /\ GuestPages \in Nat

Gpa == 0 .. GuestPages - 1

VARIABLES
  m_mem_blocks,  \* records [hva, gpa, size]
  driver,        \* RAM the driver maps: records [hva, gpa, size]
  set,           \* (history) buffers for which a call to set has succeeded
  failed         \* a call has failed: main breaks out of its loop

vars == <<m_mem_blocks, driver, set, failed>>

Init == m_mem_blocks = {} /\ driver = {} /\ set = {} /\ failed = FALSE

-----------------------------------------------------------------------------
Covers(b, field, addr) == addr >= b[field] /\ addr < b[field] + b.size

\* The first block, in the order of the map's keys, that covers the address.
FirstCovering(field, addr) ==
  {b \in m_mem_blocks :
     /\ Covers(b, field, addr)
     /\ \A c \in m_mem_blocks : c.hva < b.hva => ~Covers(c, field, addr)}

gpa_to_hva(gpa) ==
  LET F == FirstCovering("gpa", gpa)
  IN  IF F = {} THEN 0
      ELSE LET b == CHOOSE b \in F : TRUE IN b.hva + (gpa - b.gpa)

hva_to_gpa(hva) ==
  LET F == FirstCovering("hva", hva)
  IN  IF F = {} THEN 0
      ELSE LET b == CHOOSE b \in F : TRUE IN b.gpa + (hva - b.hva)

-----------------------------------------------------------------------------
Populated(hva) == \E b \in m_mem_blocks : b.hva = hva

\* hax_populate_ram: refused for a key that is there.
hax_populate_ram(buf) ==
  /\ \E ok \in BOOLEAN :
       IF ~Populated(buf.hva) /\ ok
       THEN m_mem_blocks' = m_mem_blocks \cup {[hva |-> buf.hva, gpa |-> 0, size |-> buf.size]}
            /\ UNCHANGED failed
       ELSE failed' = TRUE /\ UNCHANGED m_mem_blocks
  /\ UNCHANGED <<driver, set>>

\* hax_set_phys_mem: refused for a block that is not there or whose guest
\* address is not 0 any more.
hax_set_phys_mem(gpa, buf) ==
  /\ \E ok \in BOOLEAN :
       IF ok /\ \E b \in m_mem_blocks : b.hva = buf.hva /\ b.gpa = 0
       THEN /\ driver' = driver \cup {[hva |-> buf.hva, gpa |-> gpa, size |-> buf.size]}
            /\ m_mem_blocks' =
                 {IF b.hva = buf.hva THEN [b EXCEPT !.gpa = gpa] ELSE b : b \in m_mem_blocks}
            /\ set' = set \cup {buf} /\ UNCHANGED failed
       ELSE failed' = TRUE /\ UNCHANGED <<driver, m_mem_blocks, set>>

-----------------------------------------------------------------------------
\* Guest ranges that the driver has not been given yet.
FreeRange(gpa, size) ==
  /\ gpa + size <= GuestPages
  /\ \A b \in driver : gpa + size <= b.gpa \/ b.gpa + b.size <= gpa

\* The callers' order, that of main: a buffer is populated and then set,
\* once, before the next one; a failure ends it.
Pending == {buf \in Buffers : Populated(buf.hva)} \ set
Next ==
  /\ ~failed
  /\ \/ Pending = {} /\ \E buf \in Buffers : hax_populate_ram(buf)
     \/ \E buf \in Pending, gpa \in Gpa :
          FreeRange(gpa, buf.size) /\ hax_set_phys_mem(gpa, buf)

Spec == Init /\ [][Next]_vars

-----------------------------------------------------------------------------
(* Properties *)

TypeOK ==
  /\ m_mem_blocks \subseteq [hva : Nat, gpa : Nat, size : Nat]
  /\ driver \subseteq [hva : Nat, gpa : Nat, size : Nat]
  /\ set \subseteq Buffers /\ failed \in BOOLEAN
  /\ \A b, c \in m_mem_blocks : b.hva = c.hva => b = c

\* When no buffer is between its two calls, the host finds a guest address
\* exactly where the driver shows it to the guest, and nowhere when the
\* driver does not: what the host writes as page tables, the guest walks.
\* The other translation leads back.
TranslationIsTheDrivers ==
  Pending = {} =>
    \A gpa \in 0 .. GuestPages + 1 :
      /\ gpa_to_hva(gpa) # 0 => hva_to_gpa(gpa_to_hva(gpa)) = gpa
      /\ gpa_to_hva(gpa) =
        IF \E b \in driver : Covers(b, "gpa", gpa)
        THEN LET b == CHOOSE b \in driver : Covers(b, "gpa", gpa) IN b.hva + (gpa - b.gpa)
        ELSE 0
=============================================================================
