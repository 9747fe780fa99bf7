------------------------------ MODULE FramePool ------------------------------
(***************************************************************************)
(* What a physical page allocator promises to its callers: it hands out    *)
(* contiguous runs of frames nobody owns, outside a reserved region, and   *)
(* takes back frames that are owned.  It may also fail, which is a         *)
(* stuttering step.  Abstract specification; HostFrames implements it.     *)
(***************************************************************************)
EXTENDS Naturals

CONSTANTS Frames, Reserved, MaxRun

VARIABLE owned

Init == owned = {}

HandOut(f, n) ==
  LET run == f .. f + n - 1
  IN  /\ run \subseteq Frames \ (owned \cup Reserved)
      /\ owned' = owned \cup run

TakeBack(f) == f \in owned /\ owned' = owned \ {f}

TakeBackRun(f, n) ==
  /\ (f .. f + n - 1) \subseteq owned
  /\ owned' = owned \ (f .. f + n - 1)

Next ==
  \E f \in Frames :
    \/ TakeBack(f)
    \/ \E n \in 1 .. MaxRun : HandOut(f, n) \/ TakeBackRun(f, n)

Spec == Init /\ [][Next]_owned
=============================================================================
