------------------------------ MODULE MCDebug ------------------------------
(* Guests that use their debug registers, and a gdb, for TLC.               *)
EXTENDS DebugRegs
Dr7(local, global, f0, f1, f2, f3) ==
  [local |-> local, global |-> global,
   field |-> [f \in 0 .. 7 |-> IF f > 3 THEN 2 ELSE <<f0, f1, f2, f3>>[f + 1]]]
Off == Dr7({}, {}, 0, 0, 2, 0)
MCDr7s ==
  [tasks |-> {Off, Dr7({0}, {}, 0, 0, 2, 0), Dr7({0, 1}, {1}, 0, 0, 2, 2), Dr7({0}, {1}, 1, 0, 0, 0),
            Dr7({}, {0, 1}, 0, 0, 0, 0)},
   watch |-> {Off, Dr7({}, {0}, 1, 3, 2, 0), Dr7({}, {1}, 3, 1, 0, 0), Dr7({}, {}, 1, 3, 3, 0)},
   gdb |-> {}]
Ask(type, addr, len) == [type |-> type, addr |-> addr, len |-> len]
MCGdbAsks ==
  [tasks |-> {}, watch |-> {},
   gdb |-> {Ask("insn", 4, 0), Ask("write", 4, 4), Ask("access", 4, 2), Ask("write", 6, 2),
            Ask("access", 8, 8), Ask("write", 2, 8)}]
MCDebugAddrs == {0, 2, 6}
=============================================================================
