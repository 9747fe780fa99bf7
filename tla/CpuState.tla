------------------------------ MODULE CpuState ------------------------------
(***************************************************************************)
(* The part of CPUX86State that decides what the emulator may do           *)
(* (target-i386/cpu.h): control registers, EFER, EFLAGS, the segment       *)
(* caches and hflags, the word in which the translator caches what it      *)
(* needs of all the others.  hflags is updated by every helper on its own; *)
(* what it should be is computed from the registers where the state comes  *)
(* from elsewhere (kvm.c, hax-all.c).                                      *)
(*                                                                         *)
(* Flag words are sets of names.  DS stands for ES, DS, FS and GS, which   *)
(* the code treats alike.  A segment base is 0 or 1 (not zero), offsets    *)
(* are small numbers.                                                      *)
(***************************************************************************)
EXTENDS Integers, Sequences, FiniteSets

VARIABLE env  \* CPUX86State

SegRegs == {"CS", "SS", "DS"}

\* A selector: table indicator, index, requested privilege level.
Sel(idx, rpl) == [ti |-> FALSE, idx |-> idx, rpl |-> rpl]
NullSel == Sel(0, 0)
IsNull(sel) == ~sel.ti /\ sel.idx = 0

\* The attributes of a segment, second word of its descriptor.
Attr(kind, dpl) == [kind |-> kind, dpl |-> dpl, conf |-> FALSE, rw |-> TRUE,
                    p |-> TRUE, b |-> TRUE, l |-> FALSE]
NoAttr == [kind |-> "none", dpl |-> 0, conf |-> FALSE, rw |-> FALSE,
           p |-> FALSE, b |-> FALSE, l |-> FALSE]
IsS(a) == a.kind \in {"code", "data"}
WritableData(a) == a.kind = "data" /\ a.rw

Segment(sel, base, attr) == [sel |-> sel, base |-> base, attr |-> attr]

With(S, bit, cond) == IF cond THEN S \cup {bit} ELSE S \ {bit}

\* cpu_x86_load_seg_cache: the segment, then the hidden flags that depend on it.
AddsSegment(e) ==
  \/ "PE" \notin e.cr0 \/ "VM" \in e.eflags \/ "CS32" \notin e.hflags
  \/ \E r \in {"DS", "SS"} : e.segs[r].base # 0

LoadSegCache(e, reg, sel, base, attr) ==
  LET e1 == [e EXCEPT !.segs[reg] = Segment(sel, base, attr)]
      long == "LMA" \in e.hflags /\ attr.l
      h1 == IF reg # "CS" THEN e.hflags
            ELSE IF long THEN (e.hflags \ {"ADDSEG"}) \cup {"CS32", "SS32", "CS64"}
            ELSE With(e.hflags, "CS32", attr.b) \ {"CS64"}
      e2 == [e1 EXCEPT !.hflags = With(h1, "SS32", e1.segs["SS"].attr.b)]
  IN  [e2 EXCEPT !.hflags = With(@, "ADDSEG", "CS64" \notin h1 /\ AddsSegment(e2))]

\* load_seg_vm
LoadSegVm(e, reg, sel) ==
  LoadSegCache(e, reg, sel, IF IsNull(sel) THEN 0 ELSE 1, NoAttr)

\* cpu_x86_set_cpl
SetCpl(e, cpl) == [e EXCEPT !.cpl = cpl]

\* cpu_load_eflags: the flags of the mask; IOPL is a field of its own.
LoadEflags(e, new, mask) ==
  [e EXCEPT !.eflags = (@ \ mask) \cup (new.eflags \cap mask),
            !.iopl = IF "IOPL" \in mask THEN new.iopl ELSE @]

\* cpu_load_efer: hflags has a copy of LMA and of SVME.
LoadEfer(e, val) ==
  [e EXCEPT !.efer = val,
            !.hflags = With(With(@, "LMA", "LMA" \in val), "SVME", "SVME" \in val)]

\* cpu_x86_update_cr0: without PAE nothing is written where long mode would be
\* entered.
FpuBits == {"MP", "EM", "TS"}
Enters(e, new) == "PG" \notin e.cr0 /\ "PG" \in new /\ "LME" \in e.efer
Cr0Refused(e, new) == Enters(e, new) /\ "PAE" \notin e.cr4
UpdateCr0(e, new) ==
  LET enter == Enters(e, new)
      leave == "PG" \in e.cr0 /\ "PG" \notin new /\ "LMA" \in e.efer
      mode == IF enter
                THEN [e EXCEPT !.efer = @ \cup {"LMA"}, !.hflags = @ \cup {"LMA"}]
              ELSE IF leave
                THEN [e EXCEPT !.efer = @ \ {"LMA"}, !.hflags = @ \ {"LMA", "CS64"}]
              ELSE e
      pe == With(mode.hflags, "PE", "PE" \in new)
      addseg == IF "PE" \in new THEN pe ELSE pe \cup {"ADDSEG"}
  IN  IF Cr0Refused(e, new) THEN e
      ELSE [mode EXCEPT !.cr0 = new,
                        !.hflags = (addseg \ FpuBits) \cup (new \cap FpuBits)]

\* cpu_x86_update_cr4, on a processor with SSE.
UpdateCr4(e, new) ==
  [e EXCEPT !.cr4 = new, !.hflags = With(@, "OSFXSR", "OSFXSR" \in new)]

-----------------------------------------------------------------------------
(* Exceptions: excp_helper.c *)

DE == 0  DB == 1  UD == 6  DF == 8  TS == 10  NP == 11  SSF == 12  GP == 13  PF == 14
HLT == 256   \* EXCP_HLT: the machine is to be reset
NoExc == [intno |-> -1, is_int |-> FALSE, next_eip |-> 0]

Contributory(n) == n = DE \/ n \in TS .. GP

\* check_exception: the vector that is raised in place of intno.
check_exception(old, intno) ==
  IF old = DF THEN HLT
  ELSE IF \/ Contributory(old) /\ Contributory(intno)
          \/ old = PF /\ (Contributory(intno) \/ intno = PF)
    THEN DF
  ELSE intno

OldException_Forgotten(old, intno) == old
\* What it remembers of it.
OldException(old, intno) ==
  LET n == check_exception(old, intno) IN
  IF old # DF /\ (Contributory(intno) \/ n \in {PF, DF}) THEN n ELSE old
=============================================================================
