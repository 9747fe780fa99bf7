---- MODULE MCGuestTasks ----
EXTENDS GuestTasks, TLC
Sys(dpl) == [NoAttr EXCEPT !.dpl = dpl, !.p = TRUE, !.b = TRUE, !.kind = "system"]
L(a) == [a EXCEPT !.l = TRUE, !.b = FALSE]
Code(dpl) == CodeOrData(Attr("code", dpl))
Data(dpl) == CodeOrData(Attr("data", dpl))
Code64(dpl) == CodeOrData(L(Attr("code", dpl)))
Conf == CodeOrData([Attr("code", 0) EXCEPT !.conf = TRUE])
NpData == CodeOrData([Attr("data", 3) EXCEPT !.p = FALSE])
MCGdt ==
  << Code(0), Data(0), Code(3), Data(3), Code64(3), Data(3),
     Code64(0), Data(0), Code(3), Data(3), Code64(3), Data(3),
     System("tss", Sys(3), NullSel), System("tss", Sys(0), NullSel),
     System("callgate", Sys(3), Sel(1, 0)), System("taskgate", Sys(3), Sel(14, 0)),
     Conf, NpData, System("ldt", Sys(0), NullSel), 
     System("callgate", [Sys(3) EXCEPT !.p = FALSE], Sel(1, 0)),
     CodeOrData([Attr("code", 3) EXCEPT !.rw = FALSE]),
     System("callgate", Sys(3), Sel(17, 0)) >>
MCLdt == << NoDesc, Data(3) >>
Gate(sys, dpl, sel) == [sys |-> sys, attr |-> Sys(dpl), target |-> sel, ist |-> 0]
K32 == Sel(1, 0)
K64 == Sel(7, 0)
\* vectors: GP, NP, TS, DF, UD, 32 hw int, 33 hw task, 48 soft
Idt32(gp, df) ==
  [v \in {GP, NP, TS, SSF, DF, 32, 33, 48} |->
     CASE v = DF -> IF df THEN Gate("intgate", 0, K32) ELSE [Gate("intgate", 0, K32) EXCEPT !.attr.p = FALSE]
       [] v = 33 -> Gate("taskgate", 0, Sel(14, 0))
       [] v = 48 -> Gate("trapgate", 3, K32)
       [] v \in {GP, NP} /\ ~gp -> Gate("none", 0, K32)
       [] OTHER -> Gate("intgate", 0, K32)]
MCIdts ==
  [sound |-> Idt32(TRUE, TRUE), nogp |-> Idt32(FALSE, TRUE), none |-> Idt32(FALSE, FALSE),
   long |-> [v \in {GP, NP, DF, SSF, UD, 32, 48} |->
      IF v = DF THEN [Gate("intgate", 0, K64) EXCEPT !.ist = 1]
      ELSE IF v = 48 THEN Gate("trapgate", 3, K64) ELSE Gate("intgate", 0, K64)],
   real |-> [v \in {32, 48} |-> Gate("none", 0, Sel(40, 0))]]
Esp(st) == [stack |-> st, depth |-> 0]
MCTss ==
  [t \in {13, 14} |->
    [ss |-> [l \in {0} |-> IF t = 13 THEN Sel(2, 0) ELSE Sel(2, 0)],
     esp |-> [l \in {0} |-> Esp(IF t = 13 THEN "kA" ELSE "kB")],
     ist |-> [i \in {1} |-> Esp("ist")]]]
Env(cs, ss, ds, cpl, eflags, iopl, cr0, efer, esp, idt) ==
  [segs |-> [CS |-> cs, SS |-> ss, DS |-> ds], cpl |-> cpl, eflags |-> eflags, iopl |-> iopl,
   cr0 |-> cr0, cr4 |-> {}, efer |-> efer, eip |-> 0, esp |-> esp,
   tr |-> Sel(13, 0), ldt |-> NullSel, idt |-> idt, old_exception |-> -1,
   hflags |-> (IF "PE" \in cr0 THEN {"PE"} ELSE {})
      \cup (IF "LMA" \in efer THEN {"LMA", "CS64", "CS32"} ELSE {})
      \cup (IF "PE" \notin cr0 \/ "VM" \in eflags THEN {"ADDSEG"} ELSE {})
      \cup (IF "VM" \notin eflags /\ "PE" \in cr0 THEN {"CS32", "SS32"} ELSE {})]
S(sel, d) == Segment(sel, 0, d.attr)
LdtData == [ti |-> TRUE, idx |-> 2, rpl |-> 3]
Mem == [stack |-> [s \in {"uA", "uB", "kA", "kB", "ist"} |-> <<>>], busy |-> {13},
  regs |-> [eip |-> 0, eflags |-> {}, iopl |-> 0],
  tss |-> [t \in {13, 14} |-> [layout |-> Gdt[t].attr.b, link |-> 0,
    ctx |-> [eip |-> 0, eflags |-> {"IF"}, iopl |-> 0, esp |-> Esp("uB"),
       ldt |-> IF t = 14 THEN Sel(19, 0) ELSE NullSel,
       segs |-> [CS |-> Sel(3, 3), SS |-> Sel(4, 3), DS |-> IF t = 14 THEN LdtData ELSE Sel(4, 3)]]]]]
Prot(idt) == [mem |-> Mem, env |->
  Env(S(Sel(3, 3), Code(3)), S(Sel(4, 3), Data(3)), S(Sel(4, 3), Data(3)), 3, {"IF"}, 0,
      {"PE", "PG"}, {"SCE"}, Esp("uA"), idt)]
R(i) == Segment(Sel(i, 0), 1, [Attr("data", 0) EXCEPT !.b = FALSE])
V(i) == Segment(Sel(i, 3), 1, NoAttr)
Real == [mem |-> Mem, env |-> Env(R(40), R(41), R(41), 0, {"IF"}, 0, {}, {}, Esp("uA"), "real")]
Vm86 == [mem |-> Mem, env |-> Env(V(40), V(41), V(42), 3, {"IF", "VM"}, 3, {"PE", "PG"}, {}, Esp("uA"), "sound")]
LongM(cs, ss) == [mem |-> Mem, env |->
  Env(S(cs, Code64(3)), S(ss, Data(3)), S(ss, Data(3)), 3, {"IF"}, 0,
      {"PE", "PG"}, {"SCE", "LME", "LMA"}, Esp("uA"), "long")]
Common == [soft |-> 48, irqs |-> {32}, far |-> {}, data |-> {}, ldts |-> {}, tasks |-> {},
  star |-> K32, star_user |-> Sel(3, 3), sysenter |-> K32, user |-> Sel(3, 3), syscalls |-> {}]
MCLayout ==
  [tasks |-> [Common EXCEPT !.irqs = {32, 33}, !.far = {Sel(13, 0), Sel(14, 0), Sel(16, 3)}],
   faults |-> [Common EXCEPT !.far = {Sel(20, 3)}, !.data = {Sel(18, 3)}],
   nofaults |-> [Common EXCEPT !.far = {Sel(20, 3)}, !.data = {Sel(18, 3)}],
   gates |-> [Common EXCEPT !.far = {Sel(1, 0), Sel(3, 3), Sel(15, 3), Sel(17, 3)}, !.tasks = {Sel(13, 0)}],
   conform |-> [Common EXCEPT !.far = {Sel(22, 3)}],
   segs |-> [Common EXCEPT !.data = {NullSel, Sel(2, 0), Sel(4, 3), Sel(21, 3), LdtData}, !.ldts = {NullSel, Sel(19, 0)},
               !.syscalls = {"syscall", "sysenter"}],
   vm86 |-> Common, vm86low |-> Common,
   long |-> [Common EXCEPT !.far = {Sel(5, 3), Sel(7, 0)}, !.data = {NullSel, Sel(4, 3)},
      !.star = K64, !.sysenter = K64, !.user = Sel(5, 3), !.syscalls = {"syscall"}],
   enter64 |-> [Common EXCEPT !.sysenter = K64, !.user = Sel(11, 3), !.syscalls = {"sysenter"}],
   real |-> [Common EXCEPT !.far = {Sel(50, 0)}]]
MCBoot == [tasks |-> Prot("sound"), faults |-> Prot("nogp"), nofaults |-> Prot("none"), gates |-> Prot("sound"), conform |-> Prot("sound"),
  segs |-> Prot("sound"), vm86 |-> Vm86, vm86low |-> [Vm86 EXCEPT !.env.iopl = 0], long |-> LongM(Sel(5, 3), Sel(4, 3)), enter64 |-> LongM(Sel(11, 3), Sel(12, 3)), real |-> Real]
====
