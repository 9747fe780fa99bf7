------------------------------ MODULE StringOps ------------------------------
(***************************************************************************)
(* Repeated string instructions (target-i386/translate.c).  One execution  *)
(* of the translated block is one repetition: it tests ECX, accesses       *)
(* memory and perhaps a port, moves the pointers, and jumps back to        *)
(* itself, so that an interrupt or a page fault is taken between two       *)
(* repetitions and the instruction goes on after it.  What a repetition    *)
(* has done when its access faults it will do again.                       *)
(*                                                                         *)
(* Each element of memory is on a page of its own.                         *)
(***************************************************************************)
EXTENDS Integers, Sequences, FiniteSets

CONSTANTS Length,     \* elements of the source and of the destination
          Elements,   \* their values; 0 is what INS writes first
          MaxFaults   \* bound on page faults

\* Registers ecx, esi, edi, al, the direction, ZF; the two strings, the pages
\* that are mapped, what the device will give and what it was sent.
VARIABLE rep

ASSUME StringAssumption == Length \in Nat

Positions == 1 .. Length
\* What the device gives, from port to port.
Inputs == [k \in Positions |-> 2 - (k % 2)]
Compares == {"SCAS", "CMPS"}
StringInsns == Compares \cup {"MOVS", "STOS", "LODS", "INS", "OUTS"}

\* gen_movs to gen_outs: the accesses, in the order they are made.  S is at
\* ESI, D at EDI.
Access(kind, at) == [kind |-> kind, at |-> at]
gen_ins_PortFirst == <<Access("in", "port"), Access("store", "D")>>
gen_ins == <<Access("zero", "D"), Access("in", "port"), Access("store", "D")>>
Sequel(op) ==
  CASE op = "MOVS" -> <<Access("load", "S"), Access("store", "D")>>
    [] op = "STOS" -> <<Access("store", "D")>>
    [] op = "LODS" -> <<Access("load", "S")>>
    [] op = "SCAS" -> <<Access("load", "D")>>
    [] op = "CMPS" -> <<Access("load", "S"), Access("compare", "D")>>
    [] op = "INS" -> gen_ins
    [] op = "OUTS" -> <<Access("load", "S"), Access("out", "port")>>

Where(r, at) == IF at = "S" THEN r.esi ELSE r.edi
Faults(r, a) == a.at # "port" /\ <<a.at, Where(r, a.at)>> \notin r.mapped

\* One access, t being T0.
Perform(r, a) ==
  LET i == Where(r, a.at) IN
  CASE a.kind = "load" -> [r EXCEPT !.t = r.mem[a.at][i]]
    [] a.kind = "compare" -> [r EXCEPT !.t = IF @ = r.mem.D[i] THEN r.al ELSE -1]
    [] a.kind = "zero" -> [r EXCEPT !.mem.D[i] = 0]
    [] a.kind = "store" -> [r EXCEPT !.mem.D[i] = r.t]
    [] a.kind = "in" -> [r EXCEPT !.t = Head(r.port), !.port = Tail(@)]
    [] a.kind = "out" -> [r EXCEPT !.sent = Append(@, r.t)]

\* All of them, or those before the one that faults.
Performed(r) ==
  LET todo == Sequel(r.op)
      upto[k \in 0 .. Len(todo)] ==
        IF k = 0 THEN [r |-> [r EXCEPT !.t = r.al], fault |-> <<>>]
        ELSE IF upto[k - 1].fault # <<>> THEN upto[k - 1]
        ELSE IF Faults(upto[k - 1].r, todo[k])
          THEN [r |-> upto[k - 1].r, fault |-> <<todo[k].at, Where(r, todo[k].at)>>]
        ELSE [r |-> Perform(upto[k - 1].r, todo[k]), fault |-> <<>>]
  IN  upto[Len(todo)]

\* gen_op_movl_T0_Dshift and the additions; LODS loads AL.
Moves(r) ==
  LET by(regs) == IF r.op \in regs THEN r.dir ELSE 0 IN
  [r EXCEPT !.esi = @ + by({"MOVS", "LODS", "CMPS", "OUTS"}),
            !.edi = @ + by({"MOVS", "STOS", "SCAS", "CMPS", "INS"}),
            !.al = IF r.op = "LODS" THEN r.t ELSE @,
            !.zf = IF r.op \in Compares THEN r.t = r.al ELSE @,
            !.ecx = @ - 1]

\* The block jumps to the next instruction, or to itself.  A traced block
\* raises the debug exception when it is left.
Leaves(r, done) == [r EXCEPT !.done = done, !.traps = IF r.traced THEN @ + 1 ELSE @]

\* gen_jz_ecx_string
gen_jz_ecx_string == ~rep.done /\ rep.ecx = 0 /\ rep' = Leaves(rep, TRUE)

\* GEN_REPZ, GEN_REPZ2: not chained, the block looks at ECX again itself.
RepStops(r) == (r.op \in Compares /\ r.zf = r.nz) \/ (r.traced /\ r.ecx = 0)
gen_repz ==
  LET p == Performed(rep) IN
  /\ ~rep.done /\ rep.ecx > 0 /\ p.fault = <<>>
  /\ rep' = Leaves(Moves(p.r), RepStops(Moves(p.r)))

\* The guest's page fault handler maps the page and returns; it may have to
\* take another one away.
RepFault ==
  LET p == Performed(rep) IN
  /\ ~rep.done /\ rep.ecx > 0 /\ p.fault # <<>> /\ rep.faults < MaxFaults
  /\ \E out \in {{}} \cup {{m} : m \in rep.mapped} :
       rep' = [p.r EXCEPT !.mapped = (@ \ out) \cup {p.fault}, !.faults = @ + 1, !.t = 0]

RepInit ==
  \E op \in StringInsns, n \in 0 .. Length, up \in BOOLEAN, traced \in BOOLEAN,
     s \in [Positions -> Elements], mapped \in SUBSET ({"S", "D"} \X {1, 2}) :
  \E nz \in IF op \in Compares THEN BOOLEAN ELSE {FALSE} :
    LET start == IF up THEN 1 ELSE Length IN
    rep = [op |-> op, nz |-> nz, ecx |-> n, esi |-> start, edi |-> start,
           dir |-> IF up THEN 1 ELSE -1, al |-> 1, t |-> 0, zf |-> FALSE,
           mem |-> [S |-> s, D |-> [i \in Positions |-> 2]], port |-> Inputs, sent |-> <<>>,
           mapped |-> mapped \cup ({"S", "D"} \X (3 .. Length)), done |-> FALSE, faults |-> 0,
           traced |-> traced, traps |-> 0, was |-> n]
RepNext == gen_jz_ecx_string \/ gen_repz \/ RepFault
-----------------------------------------------------------------------------
(* Properties *)

\* A repeated instruction that is done has done each element once, in order,
\* whatever faulted under it: nothing read from the port is lost and nothing
\* is sent twice; comparisons stopped at the first element they look for,
\* with ECX and ZF telling which; and a traced instruction trapped once for
\* each repetition, not once more for finding that ECX is zero.
Times(r) == r.was - r.ecx
Visited(r, k) == IF r.dir = 1 THEN k ELSE Length + 1 - k
Equal(r, k) ==
  LET i == Visited(r, k) IN
  r.mem.D[i] = (IF r.op = "CMPS" THEN r.mem.S[i] ELSE 1)
StringsOnce ==
  LET r == rep  n == Times(r)  i(k) == Visited(r, k) IN
  r.done =>
    /\ r.op \notin Compares => n = r.was
    /\ r.op \in Compares =>
         /\ \A k \in 1 .. n - 1 : Equal(r, k) # r.nz
         /\ n > 0 => r.zf = Equal(r, n)
         /\ n < r.was => r.zf = r.nz
    /\ \A k \in 1 .. n :
         /\ r.op = "MOVS" => r.mem.D[i(k)] = r.mem.S[i(k)]
         /\ r.op = "STOS" => r.mem.D[i(k)] = 1
         /\ r.op = "INS" => r.mem.D[i(k)] = Inputs[k]
         /\ r.op = "OUTS" => r.sent[k] = r.mem.S[i(k)]
    /\ r.op = "LODS" /\ n > 0 => r.al = r.mem.S[i(n)]
    /\ Len(r.sent) = (IF r.op = "OUTS" THEN n ELSE 0)
    /\ Len(r.port) = Length - (IF r.op = "INS" THEN n ELSE 0)
    /\ r.esi - i(1) \in {0, r.dir * n} /\ r.edi - i(1) \in {0, r.dir * n}
    /\ r.traced => r.traps = (IF n = 0 THEN 1 ELSE n)
=============================================================================
