----------------------------- MODULE HandleTree -----------------------------
(***************************************************************************)
(* What the users of the HAX driver owe to it: a handle is opened under an *)
(* owned parent (device, then virtual machine, then virtual processor) and *)
(* is given up only when no child of it is owned any more.  Giving up is   *)
(* closing, or abandoning a handle that CloseHandle refused or that nobody *)
(* closes.  Abstract specification; HaxHost and LegacyVm implement it.     *)
(***************************************************************************)
CONSTANTS
  Handles,
  Parent     \* the parent of each handle; the root is its own parent

VARIABLE owned

Init == owned = {}

Open(h) ==
  /\ h \notin owned
  /\ Parent[h] \in owned \cup {h}
  /\ owned' = owned \cup {h}

GiveUp(h) ==
  /\ h \in owned
  /\ \A c \in owned \ {h} : Parent[c] # h
  /\ owned' = owned \ {h}

Next == \E h \in Handles : Open(h) \/ GiveUp(h)

Spec == Init /\ [][Next]_owned
=============================================================================
