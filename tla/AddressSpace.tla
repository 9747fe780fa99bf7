---------------------------- MODULE AddressSpace ----------------------------
(***************************************************************************)
(* What paging promises its users: a map from pages to translations that   *)
(* is turned on once with the boot layout in place, and of which later     *)
(* only user-space pages are edited, each edit changing no other page.     *)
(***************************************************************************)
EXTENDS Layout

VARIABLES as, on

Absent == [frame |-> 0, present |-> FALSE, writable |-> FALSE, user |-> FALSE]
Region(v, p, va, n) ==
  IF v \in Pages(va, n)
  THEN {[frame |-> p + (v - va), present |-> TRUE, writable |-> TRUE, user |-> TRUE]}
  ELSE {}

\* The translations of page v that the layout of os.h asks for: at most one.
Wanted(v) ==
  Region(v, 0, 0, BOOT_CODE_N)
    \cup Region(v, KERNEL_STACK_P, KERNEL_STACK_V, KERNEL_STACK_N)
    \cup Region(v, FRAME_DB_P, FRAME_DB_V, FRAME_DB_N)
    \cup Region(v, VIDEO_BUF_P, VIDEO_BUF_V, VIDEO_BUF_N)
    \cup Region(v, PAGE_TABLE_P, PAGE_TABLE_V, PAGE_TABLE_N)
    \cup Region(v, OS_CODE_P, OS_CODE_V, OS_CODE_N)

Init == on = FALSE /\ as = [v \in VPage |-> Absent]

TurnOn ==
  /\ ~on /\ on' = TRUE
  /\ DOMAIN as' = VPage
  /\ \A v \in VPage : as'[v] \in IF Wanted(v) = {} THEN {Absent} ELSE Wanted(v)

EditUserPage(v) ==
  /\ on /\ on' = TRUE
  /\ v < USER_LIMIT
  /\ DOMAIN as' = VPage
  /\ \A w \in VPage : w # v => as'[w] = as[w]

Next == TurnOn \/ \E v \in VPage : EditUserPage(v)

Spec == Init /\ [][Next]_<<as, on>>
=============================================================================
