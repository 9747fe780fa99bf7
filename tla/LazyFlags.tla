------------------------------ MODULE LazyFlags ------------------------------
(***************************************************************************)
(* Arithmetic flags of the emulated processor.  An instruction leaves the  *)
(* operation (CC_OP) and two of its operands (CC_SRC, CC_DST) behind, and  *)
(* whoever wants a flag computes it from them (cc_helper.c).  The          *)
(* translator knows CC_OP of its own block and stores it in the processor  *)
(* state only when it must, drops what the next CC_OP does not use, and    *)
(* computes the common flags and conditions itself (translate.c).          *)
(*                                                                         *)
(* Operations are on bytes; a register of the host has 16 bits, the upper  *)
(* ones of an operand being whatever they are.                             *)
(***************************************************************************)
EXTENDS IntHelper

CONSTANTS Operands,   \* pairs T0, T1 of instructions
          FlagWords,  \* EFLAGS before the first instruction
          MaxInsns    \* bound on instructions

\* env: op, src and dst.  DisasContext: known and dirty.  What a processor
\* that computes the flags at once has: eager, but for those in undef.  lost:
\* what has left CC_OP and CC_SRC apart, if anything.
VARIABLE cc

Reg == 65536
Low(x) == x % 256
FlagPos == [C |-> 0, P |-> 2, A |-> 4, Z |-> 6, S |-> 7, O |-> 11]
FlagNames == DOMAIN FlagPos
FlagsOf(w) == {f \in FlagNames : Bit(w, FlagPos[f]) = 1}
EflagsWord(S) ==
  LET b(f) == IF f \in S THEN 2 ^ FlagPos[f] ELSE 0
  IN  b("C") + b("P") + b("A") + b("Z") + b("S") + b("O")
Num(b) == IF b THEN 1 ELSE 0

parity_table(x) == Cardinality({n \in 0 .. 7 : Bit(x, n) = 1}) % 2 = 0

-----------------------------------------------------------------------------
(* cc_helper.c *)

\* The operands of the operation, from its result and one of them.
Sources(op, src, dst) ==
  CASE op = "ADD" -> <<src, (dst - src) % Reg>>
    [] op = "ADC" -> <<src, (dst - src - 1) % Reg>>
    [] op = "SUB" -> <<(dst + src) % Reg, src>>
    [] op = "SBB" -> <<(dst + src + 1) % Reg, src>>
    [] op = "INC" -> <<(dst - 1) % Reg, 1>>
    [] op = "DEC" -> <<(dst + 1) % Reg, 1>>
    [] OTHER -> <<0, 0>>

Carry(op, src, dst) ==
  LET s == Sources(op, src, dst) IN
  CASE op = "ADD" -> Low(dst) < Low(src)
    [] op = "ADC" -> Low(dst) <= Low(src)
    [] op = "SUB" -> Low(s[1]) < Low(src)
    [] op = "SBB" -> Low(s[1]) <= Low(src)
    [] op = "LOGIC" -> FALSE
    [] op \in {"INC", "DEC"} -> src % 2 = 1
    [] op = "SHL" -> Bit(src, 7) = 1
    [] op = "SAR" -> src % 2 = 1
    [] op = "MUL" -> src # 0

HalfCarry(op, src, dst) ==
  LET s == Sources(op, src, dst) IN
  /\ op \in {"ADD", "ADC", "SUB", "SBB", "INC", "DEC"}
  /\ (Bit(dst, 4) + Bit(s[1], 4) + Bit(s[2], 4)) % 2 = 1

Overflows(op, src, dst) ==
  LET s == Sources(op, src, dst)
      top(x) == Bit(x, 7)
  IN CASE op \in {"ADD", "ADC"} -> top(s[1]) = top(s[2]) /\ top(s[1]) # top(dst)
       [] op \in {"SUB", "SBB"} -> top(s[1]) # top(s[2]) /\ top(s[1]) # top(dst)
       [] op = "INC" -> Low(dst) = 128
       [] op = "DEC" -> Low(dst) = 127
       [] op \in {"SHL", "SAR"} -> top(src) # top(dst)
       [] op = "MUL" -> src # 0
       [] op = "LOGIC" -> FALSE

\* Flags a result always has, with these three.
ResultFlags(c, a, o, dst) ==
  {f \in FlagNames :
     CASE f = "C" -> c [] f = "A" -> a [] f = "O" -> o
       [] f = "P" -> parity_table(dst) [] f = "Z" -> Low(dst) = 0
       [] f = "S" -> Bit(dst, 7) = 1}

helper_cc_compute_all(op, src, dst) ==
  IF op = "EFLAGS" THEN FlagsOf(src)
  ELSE ResultFlags(Carry(op, src, dst), HalfCarry(op, src, dst), Overflows(op, src, dst), dst)
helper_cc_compute_c(op, src, dst) ==
  IF op = "EFLAGS" THEN src % 2 = 1 ELSE Carry(op, src, dst)

-----------------------------------------------------------------------------
(* translate.c: what the translator knows *)

cc_op_live(op) ==
  CASE op = "EFLAGS" -> {"src"} [] op = "LOGIC" -> {"dst"} [] OTHER -> {"src", "dst"}

\* junk: what a discarded register is found to hold.
set_cc_op(f, op, junk) ==
  LET dead == cc_op_live(f.known) \ cc_op_live(op) IN
  IF f.known = op THEN f
  ELSE [f EXCEPT !.known = op, !.dirty = (op # "DYNAMIC"),
                 !.dst = IF "dst" \in dead THEN junk ELSE @,
                 !.src = IF "src" \in dead THEN junk ELSE @]

gen_update_cc_op(f) == IF f.dirty THEN [f EXCEPT !.op = f.known, !.dirty = FALSE] ELSE f

gen_compute_eflags(f, junk) ==
  LET g == gen_update_cc_op(f) IN
  IF f.known = "EFLAGS" THEN f
  ELSE [set_cc_op(g, "EFLAGS", junk) EXCEPT
          !.src = EflagsWord(helper_cc_compute_all(g.op, g.src, g.dst))]

\* C, as the translator computes it.
gen_compute_eflags_c(f) ==
  LET s == Low(f.src) IN
  CASE f.known = "SUB" -> Low(f.dst + f.src) < s
    [] f.known = "ADD" -> Low(f.dst) < s
    [] f.known = "SBB" -> Low(f.dst + f.src + 1) <= s
    [] f.known = "ADC" -> Low(f.dst) <= s
    [] f.known = "LOGIC" -> FALSE
    [] f.known \in {"INC", "DEC"} -> f.src = 1
    [] f.known = "SHL" -> Bit(f.src, 7) = 1
    [] f.known = "MUL" -> f.src # 0
    [] f.known \in {"EFLAGS", "SAR"} -> f.src % 2 = 1
    [] f.known = "DYNAMIC" -> helper_cc_compute_c(f.op, f.src, f.dst)

FlagIn(f, x) == x \in FlagsOf(gen_compute_eflags(f, 0).src)
\* gen_compute_eflags_p, _o; _s and _z have a shorter way from a result.
gen_compute_eflags_s(f) ==
  IF f.known \in {"DYNAMIC", "EFLAGS"} THEN FlagIn(f, "S") ELSE Signed(Low(f.dst), 8) < 0
gen_compute_eflags_z(f) ==
  IF f.known \in {"DYNAMIC", "EFLAGS"} THEN FlagIn(f, "Z") ELSE Low(f.dst) = 0

Conditions == {"O", "B", "Z", "BE", "S", "P", "L", "LE"}
gen_setcc_slow(f, j) ==
  CASE j = "O" -> FlagIn(f, "O")
    [] j = "B" -> gen_compute_eflags_c(f)
    [] j = "Z" -> gen_compute_eflags_z(f)
    [] j = "BE" -> FlagIn(f, "Z") \/ FlagIn(f, "C")
    [] j = "S" -> gen_compute_eflags_s(f)
    [] j = "P" -> FlagIn(f, "P")
    [] j = "L" -> FlagIn(f, "O") # FlagIn(f, "S")
    [] j = "LE" -> (FlagIn(f, "O") # FlagIn(f, "S")) \/ FlagIn(f, "Z")

is_fast_jcc_case(f, j) ==
  \/ f.known = "SUB" /\ j \notin {"O", "P"}
  \/ f.known \in {"ADD", "LOGIC", "INC", "DEC", "SHL"} /\ j \in {"Z", "S"}

gen_jcc1(f, j) ==
  LET first == f.dst + f.src
      signed(x) == Signed(Low(x), 8)
  IN  IF j = "Z" /\ f.known \notin {"DYNAMIC", "EFLAGS", "MUL"} THEN Low(f.dst) = 0
      ELSE IF j = "S" /\ f.known \notin {"DYNAMIC", "EFLAGS", "MUL"} THEN signed(f.dst) < 0
      ELSE IF f.known = "SUB" /\ j \in {"B", "BE", "L", "LE"}
        THEN CASE j = "B" -> Low(first) < Low(f.src)
               [] j = "BE" -> Low(first) <= Low(f.src)
               [] j = "L" -> signed(first) < signed(f.src)
               [] j = "LE" -> signed(first) <= signed(f.src)
      ELSE gen_setcc_slow(f, j)

gen_setcc(f, j) == IF is_fast_jcc_case(f, j) THEN gen_jcc1(f, j) ELSE gen_setcc_slow(f, j)
\* The slow way may leave the flags computed.
AfterSetcc(f, j, junk) ==
  IF \/ is_fast_jcc_case(f, j) \/ j = "B"
     \/ j \in {"Z", "S"} /\ f.known # "DYNAMIC"
    THEN f
  ELSE gen_compute_eflags(f, junk)

-----------------------------------------------------------------------------
(* Instructions: the processor's flags and what the translator knows after   *)
(* them.  a is T0, b is T1.                                                   *)

Bits(x) == {n \in 0 .. 15 : Bit(x, n) = 1}
Number(S) ==
  LET sum[n \in 0 .. 16] == IF n = 0 THEN 0 ELSE sum[n - 1] + (IF n - 1 \in S THEN 2 ^ (n - 1) ELSE 0)
  IN  sum[16]
Logic(i, a, b) ==
  CASE i = "AND" -> Number(Bits(a) \cap Bits(b))
    [] i = "OR" -> Number(Bits(a) \cup Bits(b))
    [] i = "XOR" -> Number((Bits(a) \cup Bits(b)) \ (Bits(a) \cap Bits(b)))

Leave(f, op, src, dst) == [f EXCEPT !.known = op, !.dirty = TRUE, !.src = src, !.dst = dst]

\* gen_op: with carry, CC_OP depends on the carry and is not known.
gen_op(f, i, a, b, junk) ==
  LET c == Num(gen_compute_eflags_c(f))
      r == CASE i = "ADC" -> a + b + c [] i = "SBB" -> a - b - c
             [] i = "ADD" -> a + b [] i \in {"SUB", "CMP"} -> a - b
             [] OTHER -> Logic(i, a, b)
  IN  IF i \in {"ADC", "SBB"}
        THEN [f EXCEPT !.known = "DYNAMIC", !.dirty = FALSE, !.src = b, !.dst = r % Reg,
                       !.op = IF i = "ADC" THEN <<"ADD", "ADC">>[c + 1] ELSE <<"SUB", "SBB">>[c + 1]]
      ELSE IF i \in {"AND", "OR", "XOR"} THEN set_cc_op([f EXCEPT !.dst = r], "LOGIC", junk)
      ELSE Leave(f, IF i = "ADD" THEN "ADD" ELSE "SUB", b, r % Reg)

\* NEG; INC and DEC, which keep C; MUL and IMUL of bytes
gen_op_update_neg_cc(f, a) == Leave(f, "SUB", a, (-a) % Reg)
gen_inc(f, i, a) ==
  Leave(f, i, Num(gen_compute_eflags_c(f)), (IF i = "INC" THEN a + 1 ELSE a - 1) % Reg)
gen_mul(f, i, a, b) ==
  LET p == IF i = "MUL" THEN Low(a) * Low(b)
           ELSE (Signed(Low(a), 8) * Signed(Low(b), 8)) % Reg
  IN  Leave(f, "MUL", IF i = "MUL" THEN p - Low(p) ELSE (p - Signed(Low(p), 8)) % Reg, p)

\* What a shift leaves: its operand shifted by one less, and shifted.
Shifted(i, a, n) ==
  CASE i = "SHL" -> IF n > 15 THEN 0 ELSE (a * 2 ^ n) % Reg
    [] i = "SHR" -> Low(a) \div 2 ^ n
    [] i = "SAR" -> (Signed(Low(a), 8) \div 2 ^ n) % Reg
ShiftOp(i) == IF i = "SHL" THEN "SHL" ELSE "SAR"
\* gen_shift_rm_T1: by CL, perhaps by zero; gen_shift_rm_im: by a constant.
gen_shift_rm_T1(f, i, a, n) ==
  LET g == gen_update_cc_op(f) IN
  [g EXCEPT !.known = "DYNAMIC", !.dirty = FALSE,
            !.op = IF n = 0 THEN @ ELSE ShiftOp(i),
            !.src = IF n = 0 THEN @ ELSE Shifted(i, a, n - 1),
            !.dst = IF n = 0 THEN @ ELSE Shifted(i, a, n)]
gen_shift_rm_im(f, i, a, n) ==
  IF n = 0 THEN f ELSE Leave(f, ShiftOp(i), Shifted(i, a, n - 1), Shifted(i, a, n))

\* The carry of a rotation is the bit that crossed the end.
Rotated(i, x, n) ==
  LET s == n % 8 IN
  IF i = "ROL" THEN x * 2 ^ s + x \div 2 ^ (8 - s) ELSE x \div 2 ^ s + x * 2 ^ (8 - s)
WithCO(word, c, o) == EflagsWord((FlagsOf(word) \ {"C", "O"}) \cup {x \in {"C"} : c} \cup {x \in {"O"} : o})
gen_rot(f, i, a, n, junk) ==
  LET r == Rotated(i, Low(a), n)
      g == gen_compute_eflags(f, junk)
  IN  IF n = 0 THEN g
      ELSE [g EXCEPT !.src = WithCO(@, Bit(r, IF i = "ROL" THEN 0 ELSE 7) = 1,
                                    Bit(a, 7) # Bit(r, 7))]
gen_rot_rm_T1(f, i, a, n, junk) == gen_rot(f, i, a, n, junk)
gen_rot_rm_im(f, i, a, n, junk) == IF n = 0 THEN f ELSE gen_rot(f, i, a, n, junk)

\* The helper takes the carry from, and leaves it in, the computed flags.
gen_rotc_rm_T1(f, i, a, n, junk) ==
  LET g == [gen_compute_eflags(f, junk) EXCEPT !.dst = junk]
      r == IF i = "RCL" THEN helper_rcl(Low(a), g.src % 2, n, 8) ELSE helper_rcr(Low(a), g.src % 2, n, 8)
  IN  IF Count(n, 8) = 0 THEN g
      ELSE [g EXCEPT !.src = WithCO(@, r[2] = 1, Bit(a, 7) # Bit(r[1], 7))]

\* CMC, CLC, STC
gen_carry(f, i, junk) ==
  LET g == gen_compute_eflags(f, junk)
      c == IF i = "CMC" THEN g.src % 2 = 0 ELSE i = "STC"
  IN  [g EXCEPT !.src = g.src - (g.src % 2) + Num(c)]

Arith == {"ADD", "ADC", "SUB", "SBB", "CMP", "AND", "OR", "XOR"}
Shifts == {"SHL", "SHR", "SAR"}
Rotates == {"ROL", "ROR"}
Carries == {"CMC", "CLC", "STC"}
Insns == Arith \cup {"NEG", "INC", "DEC", "MUL", "IMUL", "RCL", "RCR"} \cup Shifts \cup Rotates
         \cup Carries
\* gen_shift, gen_shifti and the opcodes of disas_insn.
Translate(f, i, a, b, im, junk) ==
  LET n == b % 32 IN
  CASE i \in Arith -> gen_op(f, i, a, b, junk)
    [] i = "NEG" -> gen_op_update_neg_cc(f, a)
    [] i \in {"INC", "DEC"} -> gen_inc(f, i, a)
    [] i \in {"MUL", "IMUL"} -> gen_mul(f, i, a, b)
    [] i \in Shifts -> IF im THEN gen_shift_rm_im(f, i, a, n) ELSE gen_shift_rm_T1(f, i, a, n)
    [] i \in Rotates -> IF im THEN gen_rot_rm_im(f, i, a, n, junk) ELSE gen_rot_rm_T1(f, i, a, n, junk)
    [] i \in {"RCL", "RCR"} -> gen_rotc_rm_T1(f, i, a, n, junk)
    [] i \in Carries -> gen_carry(f, i, junk)

-----------------------------------------------------------------------------
(* The flags of the processor itself *)

\* [flags, undef] after the instruction.
Result(c, a, o, r, undef) == [flags |-> ResultFlags(c, a, o, r), undef |-> undef]
Processor(F, i, a, b) ==
  LET x == Low(a)  y == Low(b)  n == b % 32
      sx == Signed(x, 8)  sy == Signed(y, 8)
      c == Num("C" \in F)
      Wide(s) == s \notin -128 .. 127
      in == IF i \in {"ADC", "SBB"} THEN c ELSE 0
      keep(C, O, u) == [flags |-> (F \ {"C", "O"}) \cup {f \in {"C"} : C} \cup {f \in {"O"} : O},
                        undef |-> u]
      many == IF n = 1 THEN {} ELSE {"O"}
  IN
  CASE i \in {"ADD", "ADC"} ->
         Result(x + y + in > 255, AddAf(x, y, in), Wide(sx + sy + in), x + y + in, {})
    [] i \in {"SUB", "SBB", "CMP"} ->
         Result(x < y + in, SubAf(x, y, in), Wide(sx - sy - in), (x - y - in) % 256, {})
    [] i \in {"AND", "OR", "XOR"} -> Result(FALSE, FALSE, FALSE, Logic(i, x, y), {"A"})
    [] i = "NEG" -> Result(x # 0, SubAf(0, x, 0), Wide(-sx), (-x) % 256, {})
    [] i = "INC" -> Result(c = 1, AddAf(x, 1, 0), Wide(sx + 1), x + 1, {})
    [] i = "DEC" -> Result(c = 1, SubAf(x, 1, 0), Wide(sx - 1), (x - 1) % 256, {})
    [] i = "MUL" -> Result(x * y > 255, FALSE, x * y > 255, 0, {"A", "P", "Z", "S"})
    [] i = "IMUL" -> Result(Wide(sx * sy), FALSE, Wide(sx * sy), 0, {"A", "P", "Z", "S"})
    [] i \in Shifts /\ n > 0 ->
         LET last == Shifted(i, x, n - 1)
             r == Shifted(i, x, n)
         IN  Result(IF i = "SHL" THEN Bit(last, 7) = 1 ELSE last % 2 = 1, FALSE,
                    Bit(x, 7) # Bit(r, 7), r,
                    {"A"} \cup many \cup (IF n > 8 /\ i # "SAR" THEN {"C"} ELSE {}))
    [] i \in Rotates /\ n > 0 ->
         LET r == Low(Rotated(i, x, n)) IN
         keep(Bit(r, IF i = "ROL" THEN 0 ELSE 7) = 1, Bit(x, 7) # Bit(r, 7), many)
    [] i \in {"RCL", "RCR"} /\ Count(n, 8) > 0 ->
         LET r == IF i = "RCL" THEN helper_rcl(x, c, n, 8) ELSE helper_rcr(x, c, n, 8)
         IN  keep(r[2] = 1, Bit(x, 7) # Bit(r[1], 7), many)
    [] i \in Carries -> keep(i = "STC" \/ (i = "CMC" /\ c = 0), "O" \in F, {})
    [] OTHER -> [flags |-> F, undef |-> {}]

NeedsC == {"ADC", "SBB", "INC", "DEC", "RCL", "RCR", "CMC"}
AfterInsn(f, g, i, a, b) ==
  LET p == Processor(f.eager, i, a, b)
      stays == CASE i \in {"INC", "DEC"} -> f.undef \cap {"C"}
                 [] i \in {"RCL", "RCR"} /\ Count(b % 32, 8) = 0 -> f.undef
                 [] i \in Shifts \cup Rotates /\ b % 32 = 0 -> f.undef
                 [] i \in {"RCL", "RCR", "ROL", "ROR"} -> f.undef \ {"C", "O"}
                 [] i \in Carries -> f.undef \ {"C"}
                 [] OTHER -> {}
  IN  [g EXCEPT !.eager = p.flags, !.undef = p.undef \cup stays, !.insns = f.insns + 1]

-----------------------------------------------------------------------------
(* Steps *)

FlagsInit ==
  \E w \in FlagWords :
    cc = [op |-> "EFLAGS", src |-> w, dst |-> 0, known |-> "DYNAMIC", dirty |-> FALSE,
          eager |-> FlagsOf(w), undef |-> {}, lost |-> "no", insns |-> 0]

Instruction(i, p, im, junk) ==
  /\ cc.insns < MaxInsns
  /\ i \in NeedsC => "C" \notin cc.undef
  /\ cc' = AfterInsn(cc, Translate(cc, i, p[1], p[2], im, junk), i, p[1], p[2])

Setcc(j, junk) == cc' = [AfterSetcc(cc, j, junk) EXCEPT !.insns = cc.insns + 1] /\ cc.insns < MaxInsns

\* The block ends: by a jump, or by a conditional jump that is compiled to a
\* new value of EIP (no jmp_opt), or by one that is chained to both targets.
NewBlock(f) == [f EXCEPT !.known = "DYNAMIC", !.dirty = FALSE]
EndBlock == cc.known # "DYNAMIC" /\ cc' = NewBlock(gen_update_cc_op(cc))
Jcc(j, junk) == cc' = NewBlock(gen_update_cc_op(AfterSetcc(cc, j, junk)))
JccChained(j, junk) == cc' = NewBlock(AfterSetcc(gen_update_cc_op(cc), j, junk))
\* LOOPZ with ECX at its end jumps over the computation of Z, whose CC_OP is stored
\* behind the jump all the same.
LoopEnds ==
  LET g == gen_update_cc_op(AfterSetcc(cc, "Z", 0)) IN
  cc' = NewBlock([cc EXCEPT !.op = g.op, !.lost = IF cc.known = "DYNAMIC" THEN "loop" ELSE @])

\* The store of an instruction faults: what has been computed before it has
\* happened; the fault is taken with the CC_OP of before the instruction.
BeforeStore(f, i, a, b, junk) ==
  CASE i \in {"INC", "DEC"} -> [f EXCEPT !.src = Num(gen_compute_eflags_c(f))]
    [] i \in {"RCL", "RCR"} -> gen_rotc_rm_T1(f, i, a, b % 32, junk)
    [] OTHER -> f
restore_state_to_opc_OpKept(f, g) == NewBlock(g)
restore_state_to_opc(f, g) ==
  NewBlock([g EXCEPT !.op = IF f.known # "DYNAMIC" THEN f.known ELSE @])
SourceFirst == {"INC", "DEC", "RCL", "RCR"}
StoreFirst == {"ADD", "ADC", "SBB", "XOR", "NEG", "SHL", "ROR"}
Fault(i, p, junk) ==
  /\ cc.insns < MaxInsns
  /\ cc' = [restore_state_to_opc(cc, BeforeStore(cc, i, p[1], p[2], junk)) EXCEPT
               !.insns = @ + 1, !.lost = IF i \in SourceFirst THEN "fault" ELSE @]

Junk == {0, 255}
FlagsNext ==
  \/ \E i \in Insns, p \in Operands, im \in BOOLEAN, junk \in Junk : Instruction(i, p, im, junk)
  \/ \E j \in Conditions, junk \in Junk : Setcc(j, junk)
  \/ \E i \in StoreFirst \cup SourceFirst, p \in Operands : Fault(i, p, 0)
  \/ EndBlock \/ LoopEnds
  \/ \E j \in Conditions, junk \in Junk : Jcc(j, junk)

\* As it is when blocks are chained.
Chained == \E j \in Conditions : JccChained(j, 0)
-----------------------------------------------------------------------------
(* Properties *)

\* Whoever asks for the flags, by any of the ways there are, is told what a
\* processor that computes them at once has: all of them, C alone, and every
\* condition of a jump or of SETcc.
Needs(j) ==
  CASE j = "O" -> {"O"} [] j = "B" -> {"C"} [] j = "Z" -> {"Z"} [] j = "BE" -> {"C", "Z"}
    [] j = "S" -> {"S"} [] j = "P" -> {"P"} [] j = "L" -> {"S", "O"} [] j = "LE" -> {"S", "O", "Z"}
Holds(j, F) ==
  CASE j = "O" -> "O" \in F [] j = "B" -> "C" \in F [] j = "Z" -> "Z" \in F
    [] j = "BE" -> F \cap {"C", "Z"} # {} [] j = "S" -> "S" \in F [] j = "P" -> "P" \in F
    [] j = "L" -> ("S" \in F) # ("O" \in F)
    [] j = "LE" -> ("S" \in F) # ("O" \in F) \/ "Z" \in F
FlagsRight ==
  /\ FlagsOf(gen_compute_eflags(cc, 0).src) \ cc.undef = cc.eager \ cc.undef
  /\ "C" \notin cc.undef => gen_compute_eflags_c(cc) = ("C" \in cc.eager)
  /\ \A j \in Conditions :
       Needs(j) \cap cc.undef = {} =>
         gen_jcc1(cc, j) = Holds(j, cc.eager) /\ gen_setcc(cc, j) = Holds(j, cc.eager)
\* So it is at any point, until the store of an instruction that changes CC_SRC
\* before it stores faults (gen_inc, gen_rotc_rm_T1), or a LOOPZ that does not know
\* CC_OP ends with ECX at zero: both leave CC_OP and CC_SRC apart.
FlagsAsEager == cc.lost = "no" => FlagsRight
=============================================================================
