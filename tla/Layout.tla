------------------------------- MODULE Layout -------------------------------
(***************************************************************************)
(* The memory layout that Boot and GuestOS share (GuestOS/os.h, paging.h,  *)
(* Shellcode.h, gdt.h).  Addresses are page numbers: the code only adds    *)
(* PAGE_SIZE to aligned addresses, so the low 12 bits never matter.  Names *)
(* are the header's, with _P for _PHYSICAL_ADDR, _V for _VIRTUAL_ADDR and  *)
(* _N for a size in pages.                                                 *)
(***************************************************************************)
EXTENDS Integers

CONSTANTS
  EPT,              \* entries of a page table or page directory (1024)
  BOOT_CODE_N,      \* the identity-mapped low memory
  BOOT_STACK_V,     \* the page below BOOT_CODE_STACK
  KERNEL_STACK_P, KERNEL_STACK_V, KERNEL_STACK_N,
  FRAME_DB_P, FRAME_DB_V, FRAME_DB_N,
  VIDEO_BUF_P, VIDEO_BUF_V, VIDEO_BUF_N,
  PAGE_TABLE_P, PAGE_TABLE_V,
  PAGE_DIR_P,
  OS_CODE_P, OS_CODE_V, OS_CODE_N,
  KERNEL_MEM_N,     \* frames that init_frame_database marks as used
  RAM_N,            \* frames of the machine
  SHELLCODE_BUF_P, SHELLCODE_BUF_V, SHELLCODE_BUF_N,
  USER_LIMIT,       \* pages below the limit of GDT_USER_CODE / GDT_USER_DATA
  KERNEL_FS_V       \* the page of GDT_KERNEL_FS, a DPL 3 segment

PAGE_TABLE_N == EPT                    \* PAGE_TABLE_SIZE, one page per PDE

PDE_INDEX(v) == v \div EPT
PTE_INDEX(v) == v % EPT

VPage == 0 .. (EPT * EPT - 1)
Frame == 0 .. (RAM_N - 1)

\* The page numbers of a range of n pages from a on.
Pages(a, n) == a .. (a + n - 1)

Disjoint(a, n, b, m) == a + n <= b \/ b + m <= a

(***************************************************************************)
(* What os.h promises about its own constants.  The comment on             *)
(* PAGE_DIR_PHYSICAL_ADDR is LayoutSelfMap: the directory is the            *)
(* table that maps the page table window.                                  *)
(***************************************************************************)
LayoutTypes ==
  /\ EPT \in Nat \ {0}
  /\ BOOT_CODE_N \in Nat /\ BOOT_STACK_V \in Nat
  /\ KERNEL_STACK_P \in Nat /\ KERNEL_STACK_V \in Nat /\ KERNEL_STACK_N \in Nat \ {0}
  /\ FRAME_DB_P \in Nat /\ FRAME_DB_V \in Nat /\ FRAME_DB_N \in Nat \ {0}
  /\ VIDEO_BUF_P \in Nat /\ VIDEO_BUF_V \in Nat /\ VIDEO_BUF_N \in Nat \ {0}
  /\ PAGE_TABLE_P \in Nat /\ PAGE_TABLE_V \in Nat /\ PAGE_DIR_P \in Nat
  /\ OS_CODE_P \in Nat /\ OS_CODE_V \in Nat /\ OS_CODE_N \in Nat \ {0}
  /\ KERNEL_MEM_N \in Nat /\ RAM_N \in Nat
  /\ SHELLCODE_BUF_P \in Nat /\ SHELLCODE_BUF_V \in Nat
  /\ SHELLCODE_BUF_N \in Nat \ {0}
  /\ USER_LIMIT \in Nat /\ KERNEL_FS_V \in Nat

\* Low memory and the shellcode buffer lie in user space, everything else of
\* the kernel above it, and no two virtual ranges overlap.  FRAME_DB_P is also
\* the size that kernel.cpp passes to unmap_pages: it covers the low memory.
LayoutVirtual ==
  /\ BOOT_STACK_V < BOOT_CODE_N
  /\ BOOT_CODE_N <= FRAME_DB_P
  /\ FRAME_DB_P <= SHELLCODE_BUF_V
  /\ SHELLCODE_BUF_V + SHELLCODE_BUF_N <= USER_LIMIT
  /\ USER_LIMIT <= OS_CODE_V
  /\ OS_CODE_V + OS_CODE_N <= PAGE_TABLE_V
  /\ PAGE_TABLE_V + EPT <= FRAME_DB_V
  /\ FRAME_DB_V + FRAME_DB_N <= VIDEO_BUF_V
  /\ VIDEO_BUF_V + VIDEO_BUF_N <= KERNEL_STACK_V
  /\ KERNEL_STACK_V + KERNEL_STACK_N <= KERNEL_FS_V
  /\ KERNEL_FS_V < EPT * EPT

\* Kernel data lies in the frames the database marks as used; the shellcode
\* buffer lies above them, in memory.
LayoutPhysical ==
  /\ BOOT_CODE_N <= KERNEL_MEM_N
  /\ KERNEL_STACK_P + KERNEL_STACK_N <= KERNEL_MEM_N
  /\ FRAME_DB_P + FRAME_DB_N <= KERNEL_MEM_N
  /\ VIDEO_BUF_P + VIDEO_BUF_N <= KERNEL_MEM_N
  /\ PAGE_TABLE_P + EPT <= KERNEL_MEM_N
  /\ OS_CODE_P + OS_CODE_N <= KERNEL_MEM_N
  /\ KERNEL_MEM_N <= SHELLCODE_BUF_P
  /\ SHELLCODE_BUF_P + SHELLCODE_BUF_N <= RAM_N
  /\ Disjoint(PAGE_TABLE_P, EPT, KERNEL_STACK_P, KERNEL_STACK_N)
  /\ Disjoint(PAGE_TABLE_P, EPT, FRAME_DB_P, FRAME_DB_N)
  /\ Disjoint(PAGE_TABLE_P, EPT, VIDEO_BUF_P, VIDEO_BUF_N)
  /\ Disjoint(PAGE_TABLE_P, EPT, OS_CODE_P, OS_CODE_N)

LayoutSelfMap ==
  /\ PDE_INDEX(PAGE_TABLE_V) < EPT
  /\ PAGE_TABLE_V = PDE_INDEX(PAGE_TABLE_V) * EPT
  /\ PAGE_DIR_P = PAGE_TABLE_P + PDE_INDEX(PAGE_TABLE_V)

LayoutOK == LayoutTypes /\ LayoutVirtual /\ LayoutPhysical /\ LayoutSelfMap
=============================================================================
