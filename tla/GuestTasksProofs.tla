--------------------------- MODULE GuestTasksProofs ---------------------------
(***************************************************************************)
(* Lemmas about what seg_helper.c does for a guest's system software, for  *)
(* all descriptor tables, gates and TSSs that are sound and any nesting of *)
(* transfers: whatever a helper is called with, it leaves the privilege    *)
(* level the same in the four places that hold it, or raises an exception  *)
(* that is graver than the one it was delivering.                          *)
(*                                                                         *)
(* The helpers are followed assignment by assignment: Changes says which   *)
(* CPU fields an assignment touches, Mid what holds on the way through a   *)
(* helper, Goes and Fails where it ends.  TasksInv is the invariant.       *)
(***************************************************************************)
EXTENDS GuestTasks, WellFoundedInduction, TLAPS

-----------------------------------------------------------------------------
(* Fields of the CPU, segments and stacks *)

IsEnv(e) == e = [f \in TaskFields |-> e[f]]
IsMachine(s) == s = [env |-> s.env, mem |-> s.mem, exc |-> s.exc]

\* m is the CPU e with other values in the fields F only.
Changes(m, e, F) == IsEnv(m) /\ \A f \in TaskFields \ F : m[f] = e[f]

\* What a change of some fields leaves alone.
LEMMA ChangesFields ==
  ASSUME NEW e, NEW m, NEW F, Changes(m, e, F)
  PROVE  /\ IsEnv(m)
         /\ "segs" \notin F => m.segs = e.segs
         /\ "cpl" \notin F => m.cpl = e.cpl
         /\ "eflags" \notin F => m.eflags = e.eflags
         /\ "cr0" \notin F => m.cr0 = e.cr0
         /\ "idt" \notin F => m.idt = e.idt
         /\ "old_exception" \notin F => m.old_exception = e.old_exception
BY DEF Changes, TaskFields

\* Two changes, one after the other.
LEMMA ChangesTwice ==
  ASSUME NEW e, NEW m, NEW n, NEW F, NEW G, Changes(m, e, F), Changes(n, m, G)
  PROVE  Changes(n, e, F \cup G)
BY DEF Changes

\* One assignment.
LEMMA FieldSet ==
  ASSUME NEW e, IsEnv(e), NEW f \in TaskFields, NEW v
  PROVE  Changes([e EXCEPT ![f] = v], e, {f}) /\ [e EXCEPT ![f] = v][f] = v
BY DEF Changes, IsEnv

PutSeg(segs, reg, sel, base, attr) == [segs EXCEPT ![reg] = Segment(sel, base, attr)]
SetEnv(s, e) == [s EXCEPT !.env = e]

\* cpu_x86_load_seg_cache.
LEMMA CacheLoaded ==
  ASSUME NEW e, IsEnv(e), NEW reg, NEW sel, NEW base, NEW attr,
         NEW m, m = LoadSegCache(e, reg, sel, base, attr)
  PROVE  /\ Changes(m, e, {"segs", "hflags"})
         /\ m.segs = PutSeg(e.segs, reg, sel, base, attr)
<1> DEFINE segs == [e.segs EXCEPT ![reg] = Segment(sel, base, attr)]
           e1 == [e EXCEPT !.segs[reg] = Segment(sel, base, attr)]
           long == "LMA" \in e.hflags /\ attr.l
           h1 == IF reg # "CS" THEN e.hflags
                 ELSE IF long THEN (e.hflags \ {"ADDSEG"}) \cup {"CS32", "SS32", "CS64"}
                 ELSE With(e.hflags, "CS32", attr.b) \ {"CS64"}
           h2 == With(h1, "SS32", e1.segs["SS"].attr.b)
           e2 == [e1 EXCEPT !.hflags = h2]
           h3 == With(e2.hflags, "ADDSEG", "CS64" \notin h1 /\ AddsSegment(e2))
<1>1. m = [e2 EXCEPT !.hflags = h3]
  BY DEF LoadSegCache
<1>2. e1 = [e EXCEPT !.segs = segs]
  OBVIOUS
<1> HIDE DEF segs, e1, h2, h3
<1>3. "segs" \in TaskFields /\ "hflags" \in TaskFields
  BY DEF TaskFields
<1>4. Changes(e1, e, {"segs"}) /\ e1.segs = segs
  BY <1>2, <1>3, FieldSet
<1>5. IsEnv(e1)
  BY <1>4, ChangesFields
<1>6. Changes(e2, e1, {"hflags"})
  BY <1>3, <1>5, FieldSet
<1> HIDE DEF e2
<1>7. IsEnv(e2)
  BY <1>6, ChangesFields
<1>8. Changes(m, e2, {"hflags"})
  <2>1. Changes([e2 EXCEPT !.hflags = h3], e2, {"hflags"})
    BY <1>3, <1>7, FieldSet
  <2> QED BY <1>1, <2>1
<1>9. Changes(m, e, ({"segs"} \cup {"hflags"}) \cup {"hflags"})
  BY <1>4, <1>6, <1>8, ChangesTwice
<1>10. ({"segs"} \cup {"hflags"}) \cup {"hflags"} = {"segs", "hflags"}
  OBVIOUS
<1>11. m.segs = segs
  BY <1>4, <1>6, <1>8, ChangesFields
<1> QED BY <1>9, <1>10, <1>11 DEF segs, PutSeg

\* A machine whose CPU alone is changed.
LEMMA OtherEnv ==
  ASSUME NEW s, IsMachine(s), NEW e, NEW t, t = SetEnv(s, e)
  PROVE  IsMachine(t) /\ t.env = e /\ t.mem = s.mem /\ t.exc = s.exc
<1>1. t = [env |-> e, mem |-> s.mem, exc |-> s.exc]
  BY DEF IsMachine, SetEnv
<1> QED BY <1>1 DEF IsMachine

Good(s) == IsMachine(s) /\ IsEnv(s.env)
Sets(t, s, F) == Good(t) /\ Changes(t.env, s.env, F)

\* A segment register is loaded.
LEMMA Loaded ==
  ASSUME NEW s, Good(s), NEW reg, NEW sel, NEW base, NEW attr,
         NEW t, t = SetEnv(s, LoadSegCache(s.env, reg, sel, base, attr))
  PROVE  /\ Sets(t, s, {"segs", "hflags"}) /\ t.mem = s.mem /\ t.exc = s.exc
         /\ t.env.segs = PutSeg(s.env.segs, reg, sel, base, attr)
<1> DEFINE e == LoadSegCache(s.env, reg, sel, base, attr)
<1>1. t = SetEnv(s, e)
  OBVIOUS
<1>2. Changes(e, s.env, {"segs", "hflags"})
      /\ e.segs = PutSeg(s.env.segs, reg, sel, base, attr)
  <2> HIDE DEF e
  <2>1. \A x : x = LoadSegCache(s.env, reg, sel, base, attr) =>
               /\ Changes(x, s.env, {"segs", "hflags"})
               /\ x.segs = PutSeg(s.env.segs, reg, sel, base, attr)
    <3>1. IsEnv(s.env)
      BY DEF Good
    <3> QED BY ONLY <3>1, CacheLoaded
  <2> QED BY <2>1 DEF e
<1> HIDE DEF e
<1>3. IsEnv(e)
  BY <1>2, ChangesFields
<1>4. IsMachine(t) /\ t.env = e /\ t.mem = s.mem /\ t.exc = s.exc
  <2>1. IsMachine(s)
    BY DEF Good
  <2> QED BY ONLY <1>1, <2>1, OtherEnv
<1> QED BY <1>2, <1>3, <1>4 DEF Sets, Good

\* A field of the CPU is set.
LEMMA FieldIsSet ==
  ASSUME NEW s, Good(s), NEW f \in TaskFields, NEW v,
         NEW t, t = SetEnv(s, [s.env EXCEPT ![f] = v])
  PROVE  Sets(t, s, {f}) /\ t.mem = s.mem /\ t.exc = s.exc /\ t.env[f] = v
<1> DEFINE e == [s.env EXCEPT ![f] = v]
<1>1. Changes(e, s.env, {f}) /\ e[f] = v
  BY FieldSet DEF Good
<1>2. IsEnv(e)
  BY <1>1, ChangesFields
<1>3. t = SetEnv(s, e)
  OBVIOUS
<1> HIDE DEF e
<1>4. IsMachine(t) /\ t.env = e /\ t.mem = s.mem /\ t.exc = s.exc
  <2>1. IsMachine(s)
    BY DEF Good
  <2> QED BY ONLY <1>3, <2>1, OtherEnv
<1> QED BY <1>1, <1>2, <1>4 DEF Sets, Good

Framed(f) == f.cs.rpl \in Rings /\ SoundFlags(f.eflags)

\* Whatever a stack pointer points at, it is a frame or zeros.
LEMMA HeldIs ==
  ASSUME NEW s, SoundMem(s.mem), NEW name, NEW depth
  PROVE  Framed(Held(s, name, depth))
<1>1. Framed(Zeros)
  BY DEF Framed, Zeros, NullSel, Sel, Rings, SoundFlags
<1> QED BY <1>1 DEF Held, SoundMem, Framed

\* A stack is written.
LEMMA StackSet ==
  ASSUME NEW m, SoundMem(m), NEW name, NEW g, \A n \in DOMAIN g : Framed(g[n]),
         NEW w, w = [m EXCEPT !.stack[name] = g]
  PROVE  SoundMem(w)
<1> DEFINE st == [m.stack EXCEPT ![name] = g]
<1>1. m = [stack |-> m.stack, busy |-> m.busy, regs |-> m.regs, tss |-> m.tss]
  BY DEF SoundMem
<1>2. w = [stack |-> st, busy |-> m.busy, regs |-> m.regs, tss |-> m.tss]
  BY ONLY <1>1, w = [m EXCEPT !.stack[name] = g]
<1>3. \A k \in DOMAIN m.stack : \A n \in DOMAIN m.stack[k] : Framed(m.stack[k][n])
  BY DEF SoundMem, Framed
<1>4. \A k \in DOMAIN st : \A n \in DOMAIN st[k] : Framed(st[k][n])
  BY <1>3
<1> HIDE DEF st
<1> QED BY <1>2, <1>4 DEF SoundMem, Framed

\* Push, of a frame.
LEMMA Pushed ==
  ASSUME NEW s, Good(s), SoundMem(s.mem), NEW esp, NEW frame, Framed(frame),
         NEW t, t = Push(s, esp, frame)
  PROVE  Sets(t, s, {"esp"}) /\ SoundMem(t.mem) /\ t.exc = s.exc
<1> DEFINE g == [n \in 1 .. esp.depth + 1 |->
                   IF n <= esp.depth THEN Held(s, esp.stack, n) ELSE frame]
           m == [s.mem EXCEPT !.stack[esp.stack] = g]
           e == [s.env EXCEPT !["esp"] = [esp EXCEPT !.depth = @ + 1]]
<1>1. t = [s EXCEPT !.mem = m, !.env = e]
  BY DEF Push
<1>2. \A n \in DOMAIN g : Framed(g[n])
  BY HeldIs
<1>3. SoundMem(m)
  <2> HIDE DEF g
  <2> QED BY <1>2, StackSet
<1>4. Changes(e, s.env, {"esp"})
  <2>1. "esp" \in TaskFields
    BY DEF TaskFields
  <2> QED BY <2>1, FieldSet DEF Good
<1>5. IsEnv(e)
  BY <1>4, ChangesFields
<1> HIDE DEF m, e
<1>6. t = [env |-> e, mem |-> m, exc |-> s.exc]
  BY <1>1 DEF Good, IsMachine
<1> QED BY <1>3, <1>4, <1>5, <1>6 DEF Sets, Good, IsMachine

\* Pop.
LEMMA Popped ==
  ASSUME NEW s, Good(s), SoundMem(s.mem), NEW t, t = Pop(s)
  PROVE  Sets(t, s, {"esp"}) /\ SoundMem(t.mem) /\ t.exc = s.exc
<1> DEFINE esp == s.env.esp
           g == [n \in 1 .. esp.depth - 1 |-> Held(s, esp.stack, n)]
           m == [s.mem EXCEPT !.stack[esp.stack] = g]
           e == [s.env EXCEPT !["esp"] = [esp EXCEPT !.depth = @ - 1]]
<1>1. t = [s EXCEPT !.mem = m, !.env = e]
  BY DEF Pop
<1>2. \A n \in DOMAIN g : Framed(g[n])
  BY HeldIs
<1>3. SoundMem(m)
  <2> HIDE DEF g
  <2> QED BY <1>2, StackSet
<1>4. Changes(e, s.env, {"esp"})
  <2>1. "esp" \in TaskFields
    BY DEF TaskFields
  <2> QED BY <2>1, FieldSet DEF Good
<1>5. IsEnv(e)
  BY <1>4, ChangesFields
<1> HIDE DEF m, e
<1>6. t = [env |-> e, mem |-> m, exc |-> s.exc]
  BY <1>1 DEF Good, IsMachine
<1> QED BY <1>3, <1>4, <1>5, <1>6 DEF Sets, Good, IsMachine

\* A set of numbers that has an element has a least one.
LEMMA LowestOf ==
  ASSUME NEW S \in SUBSET Nat, S # {}
  PROVE  \E j \in S : \A k \in S : j <= k
<1> DEFINE R == OpToRel(<, Nat)
<1>1. IsWellFoundedOn(R, Nat)
  BY NatLessThanWellFounded
<1>2. \A j, k \in Nat : j < k => <<j, k>> \in R
  BY DEF OpToRel
<1> HIDE DEF R
<1>3. PICK j \in S : \A k \in S : ~(<<k, j>> \in R)
  BY <1>1, WFMin
<1>4. \A k \in S : ~(k < j)
  BY <1>2, <1>3
<1> QED BY <1>4

\* What the descriptors' tests raise.
Vectors == {TS, NP, SSF, GP}
\* An exception is raised in the processor's state s.
Faulted(s, vec) ==
  [s EXCEPT !.exc = [NoExc EXCEPT !.intno = check_exception(s.env.old_exception, vec)],
            !.env.old_exception = OldException(s.env.old_exception, vec)]

\* The tests of a helper: one of them fails, or it goes on.
LEMMA TestsOf ==
  ASSUME NEW s, NEW tests, NEW n \in Nat, DOMAIN tests = 1 .. n,
         NEW done
  PROVE  \/ Checked(s, tests, done) = done /\ \A i \in 1 .. n : ~tests[i][1]
         \/ \E i \in 1 .. n : Checked(s, tests, done) = Faulted(s, tests[i][2])
<1> DEFINE failed == {i \in 1 .. n : tests[i][1]}
           first == CHOOSE i \in failed : \A j \in failed : i <= j
<1>1. CASE failed = {}
  BY <1>1 DEF Checked
<1>2. CASE failed # {}
  <2>1. failed \in SUBSET Nat
    OBVIOUS
  <2>2. \E i \in failed : \A j \in failed : i <= j
    <3> HIDE DEF failed
    <3> QED BY <1>2, <2>1, LowestOf
  <2>3. first \in failed
    <3> HIDE DEF failed
    <3> QED BY <2>2
  <2>4. Checked(s, tests, done) = Faulted(s, tests[first][2])
    BY <1>2 DEF Checked, Faulted
  <2>5. first \in 1 .. n
    BY <2>3
  <2> HIDE DEF first
  <2> QED BY <2>4, <2>5
<1> QED BY <1>1, <1>2

-----------------------------------------------------------------------------
\* A machine whose parts are as the guest's programs may find them.
Well(s) == IsMachine(s) /\ SoundEnv(s.env) /\ SoundMem(s.mem)

\* In protected mode the stack segment is of the current level or of level 0,
\* a task that could not be entered having none yet; all levels agree once no
\* exception is pending.  Not so where a far call has lowered the level.
StackLevel(e) ==
  InProtected(e) /\ ~lowered =>
    IsNull(WithRpl(e.segs["SS"].sel, 0)) \/ e.segs["SS"].attr.dpl \in {e.cpl, 0}
Settled(e) == InProtected(e) /\ ~lowered => LevelsAgree(e)

\* What a helper is called with, ...
Ready(s) == Well(s) /\ StackLevel(s.env) /\ s.exc = NoExc

\* ... and what it leaves, old being the exception that it delivers, if any.
RaisedBy(t, old) ==
  \E vec \in Vectors : /\ t.exc = [NoExc EXCEPT !.intno = check_exception(old, vec)]
                       /\ t.env.old_exception = OldException(old, vec)
Fails(old, t) == Well(t) /\ StackLevel(t.env) /\ RaisedBy(t, old)
Goes(old, t) == Well(t) /\ Settled(t.env) /\ t.exc = NoExc /\ t.env.old_exception = old
Outcome(old, t) == Fails(old, t) \/ Goes(old, t)

\* A fault changes nothing but what it says.
LEMMA FaultIs ==
  ASSUME NEW s, Ready(s), NEW vec, NEW old, old = s.env.old_exception,
         NEW t, t = Faulted(s, vec)
  PROVE  /\ Well(t) /\ StackLevel(t.env)
         /\ t.exc = [NoExc EXCEPT !.intno = check_exception(old, vec)]
         /\ t.env.old_exception = OldException(old, vec)
<1> DEFINE x == [NoExc EXCEPT !.intno = check_exception(s.env.old_exception, vec)]
           o == OldException(s.env.old_exception, vec)
           e == [s.env EXCEPT !["old_exception"] = o]
<1>1. t = [s EXCEPT !.exc = x, !.env = e]
  BY DEF Faulted
<1>2. IsEnv(s.env) /\ IsMachine(s)
  BY DEF Ready, Well, SoundEnv, IsEnv
<1>3. Changes(e, s.env, {"old_exception"}) /\ e["old_exception"] = o
  <2>1. "old_exception" \in TaskFields
    BY DEF TaskFields
  <2> HIDE DEF o
  <2> QED BY <1>2, <2>1, FieldSet
<1> HIDE DEF x, e
<1>4. t = [env |-> e, mem |-> s.mem, exc |-> x]
  BY <1>1, <1>2 DEF IsMachine
<1>5. /\ IsEnv(e) /\ e.segs = s.env.segs /\ e.cpl = s.env.cpl /\ e.eflags = s.env.eflags
      /\ e.cr0 = s.env.cr0 /\ e.idt = s.env.idt
  BY <1>3, ChangesFields
<1>6. SoundEnv(e) /\ StackLevel(e)
  BY <1>5 DEF Ready, Well, SoundEnv, IsEnv, StackLevel, InProtected
<1>7. Well(t) /\ StackLevel(t.env)
  BY <1>4, <1>6 DEF Ready, Well, IsMachine
<1> QED BY <1>3, <1>4, <1>7 DEF x, o

\* A fault that the tests may raise.
LEMMA TestFaults ==
  ASSUME NEW s, Ready(s), NEW vec \in Vectors
  PROVE  Fails(s.env.old_exception, Faulted(s, vec))
<1> DEFINE old == s.env.old_exception
           t == Faulted(s, vec)
<1>1. /\ Well(t) /\ StackLevel(t.env)
      /\ t.exc = [NoExc EXCEPT !.intno = check_exception(old, vec)]
      /\ t.env.old_exception = OldException(old, vec)
  BY FaultIs
<1> HIDE DEF t, old
<1>2. Fails(old, t)
  BY ONLY <1>1, vec \in Vectors DEF Fails, RaisedBy
<1> QED BY <1>2 DEF t, old

\* The tests of a helper: one of them fails, or it goes on.
LEMMA Tested ==
  ASSUME NEW s, Ready(s), NEW tests, NEW n \in Nat, DOMAIN tests = 1 .. n,
         \A i \in 1 .. n : tests[i][2] \in Vectors, NEW done, NEW t, t = Checked(s, tests, done)
  PROVE  (t = done /\ \A i \in 1 .. n : ~tests[i][1]) \/ Fails(s.env.old_exception, t)
<1>1. CASE t = done /\ \A i \in 1 .. n : ~tests[i][1]
  BY <1>1
<1>2. CASE \E vec \in Vectors : t = Faulted(s, vec)
  BY <1>2, TestFaults
<1>3. \/ t = done /\ \A i \in 1 .. n : ~tests[i][1]
      \/ \E vec \in Vectors : t = Faulted(s, vec)
  <2>1. \/ t = done /\ \A i \in 1 .. n : ~tests[i][1]
        \/ \E i \in 1 .. n : t = Faulted(s, tests[i][2])
    BY ONLY n \in Nat, DOMAIN tests = 1 .. n, t = Checked(s, tests, done), TestsOf
  <2> QED BY <2>1
<1> QED BY <1>1, <1>2, <1>3

\* raise_exception_err.
LEMMA ErrorRaised ==
  ASSUME NEW s, Ready(s), NEW vec \in Vectors, NEW t, t = raise_exception_err(s, vec)
  PROVE  Fails(s.env.old_exception, t)
<1> DEFINE tests == << <<TRUE, vec>> >>
<1>1. DOMAIN tests = 1 .. 1 /\ tests[1][1] /\ tests[1][2] = vec
  OBVIOUS
<1>2. t = Checked(s, tests, s)
  BY DEF raise_exception_err
<1> HIDE DEF tests
<1>3. /\ \A i \in 1 .. 1 : tests[i][2] \in Vectors
      /\ ~\A i \in 1 .. 1 : ~tests[i][1]
  BY <1>1
<1> QED BY <1>1, <1>2, <1>3, Tested

\* Helpers with one test, ...
LEMMA Tests1 ==
  ASSUME NEW s, Ready(s), NEW tests, DOMAIN tests = 1 .. 1,
         tests[1][2] \in Vectors,
         NEW done, NEW t, t = Checked(s, tests, done)
  PROVE  (t = done /\ ~tests[1][1]) \/ Fails(s.env.old_exception, t)
<1> DEFINE n == 1
<1>1. n \in Nat /\ DOMAIN tests = 1 .. n /\ \A i \in 1 .. n : tests[i][2] \in Vectors
  OBVIOUS
<1>2. (\A i \in 1 .. n : ~tests[i][1]) => ~tests[1][1]
  OBVIOUS
<1> HIDE DEF n
<1>3. (t = done /\ \A i \in 1 .. n : ~tests[i][1]) \/ Fails(s.env.old_exception, t)
  BY ONLY <1>1, Ready(s), t = Checked(s, tests, done), Tested
<1> QED BY <1>2, <1>3

\* The same, of two tests, ...
LEMMA Tests2 ==
  ASSUME NEW s, Ready(s), NEW tests, DOMAIN tests = 1 .. 2,
         tests[1][2] \in Vectors /\ tests[2][2] \in Vectors,
         NEW done, NEW t, t = Checked(s, tests, done)
  PROVE  (t = done /\ ~tests[1][1] /\ ~tests[2][1]) \/ Fails(s.env.old_exception, t)
<1> DEFINE n == 2
<1>1. n \in Nat /\ DOMAIN tests = 1 .. n /\ \A i \in 1 .. n : tests[i][2] \in Vectors
  OBVIOUS
<1>2. (\A i \in 1 .. n : ~tests[i][1]) => ~tests[1][1] /\ ~tests[2][1]
  OBVIOUS
<1> HIDE DEF n
<1>3. (t = done /\ \A i \in 1 .. n : ~tests[i][1]) \/ Fails(s.env.old_exception, t)
  BY ONLY <1>1, Ready(s), t = Checked(s, tests, done), Tested
<1> QED BY <1>2, <1>3

\* ... three, ...
LEMMA Tests3 ==
  ASSUME NEW s, Ready(s), NEW tests, DOMAIN tests = 1 .. 3,
         /\ tests[1][2] \in Vectors /\ tests[2][2] \in Vectors /\ tests[3][2] \in Vectors,
         NEW done, NEW t, t = Checked(s, tests, done)
  PROVE  \/ t = done /\ ~tests[1][1] /\ ~tests[2][1] /\ ~tests[3][1]
         \/ Fails(s.env.old_exception, t)
<1> DEFINE n == 3
<1>1. n \in Nat /\ DOMAIN tests = 1 .. n /\ \A i \in 1 .. n : tests[i][2] \in Vectors
  OBVIOUS
<1>2. (\A i \in 1 .. n : ~tests[i][1]) => ~tests[1][1] /\ ~tests[2][1] /\ ~tests[3][1]
  OBVIOUS
<1> HIDE DEF n
<1>3. (t = done /\ \A i \in 1 .. n : ~tests[i][1]) \/ Fails(s.env.old_exception, t)
  BY ONLY <1>1, Ready(s), t = Checked(s, tests, done), Tested
<1> QED BY <1>2, <1>3

\* ... four, ...
LEMMA Tests4 ==
  ASSUME NEW s, Ready(s), NEW tests, DOMAIN tests = 1 .. 4,
         /\ tests[1][2] \in Vectors /\ tests[2][2] \in Vectors /\ tests[3][2] \in Vectors
         /\ tests[4][2] \in Vectors,
         NEW done, NEW t, t = Checked(s, tests, done)
  PROVE  \/ t = done /\ ~tests[1][1] /\ ~tests[2][1] /\ ~tests[3][1] /\ ~tests[4][1]
         \/ Fails(s.env.old_exception, t)
<1> DEFINE n == 4
<1>1. n \in Nat /\ DOMAIN tests = 1 .. n /\ \A i \in 1 .. n : tests[i][2] \in Vectors
  OBVIOUS
<1>2. (\A i \in 1 .. n : ~tests[i][1]) =>
        ~tests[1][1] /\ ~tests[2][1] /\ ~tests[3][1] /\ ~tests[4][1]
  OBVIOUS
<1> HIDE DEF n
<1>3. (t = done /\ \A i \in 1 .. n : ~tests[i][1]) \/ Fails(s.env.old_exception, t)
  BY ONLY <1>1, Ready(s), t = Checked(s, tests, done), Tested
<1> QED BY <1>2, <1>3

\* ... and seven.
LEMMA Tests7 ==
  ASSUME NEW s, Ready(s), NEW tests, DOMAIN tests = 1 .. 7,
         /\ tests[1][2] \in Vectors /\ tests[2][2] \in Vectors /\ tests[3][2] \in Vectors
         /\ tests[4][2] \in Vectors /\ tests[5][2] \in Vectors /\ tests[6][2] \in Vectors
         /\ tests[7][2] \in Vectors,
         NEW done, NEW t, t = Checked(s, tests, done)
  PROVE  \/ t = done /\ ~tests[1][1] /\ ~tests[2][1] /\ ~tests[3][1] /\ ~tests[4][1]
                    /\ ~tests[5][1] /\ ~tests[6][1] /\ ~tests[7][1]
         \/ Fails(s.env.old_exception, t)
<1> DEFINE n == 7
<1>1. n \in Nat /\ DOMAIN tests = 1 .. n /\ \A i \in 1 .. n : tests[i][2] \in Vectors
  OBVIOUS
<1>2. (\A i \in 1 .. n : ~tests[i][1]) =>
        /\ ~tests[1][1] /\ ~tests[2][1] /\ ~tests[3][1] /\ ~tests[4][1]
        /\ ~tests[5][1] /\ ~tests[6][1] /\ ~tests[7][1]
  OBVIOUS
<1> HIDE DEF n
<1>3. (t = done /\ \A i \in 1 .. n : ~tests[i][1]) \/ Fails(s.env.old_exception, t)
  BY ONLY <1>1, Ready(s), t = Checked(s, tests, done), Tested
<1> QED BY <1>2, <1>3

\* A segment register is given a value.
LEMMA SegsSet ==
  ASSUME NEW segs, SoundSegs(segs), NEW reg \in SegRegs, NEW sel, NEW base, NEW attr,
         reg = "CS" => sel.rpl \in Rings,
         NEW new, new = PutSeg(segs, reg, sel, base, attr)
  PROVE  /\ SoundSegs(new) /\ new[reg].sel = sel /\ new[reg].attr = attr
         /\ \A r \in SegRegs \ {reg} : new[r] = segs[r]
<1>1. new = [r \in SegRegs |-> IF r = reg THEN Segment(sel, base, attr) ELSE segs[r]]
  BY DEF SoundSegs, PutSeg
<1>2. \A r \in SegRegs : segs[r] = Segment(segs[r].sel, segs[r].base, segs[r].attr)
  BY DEF SoundSegs
<1>3. \A r \in SegRegs : new[r] = Segment(new[r].sel, new[r].base, new[r].attr)
  BY <1>1, <1>2 DEF Segment
<1>4. new[reg].sel = sel /\ new[reg].attr = attr
  BY <1>1 DEF Segment
<1>5. new["CS"].sel.rpl \in Rings
  BY <1>1, <1>4 DEF SoundSegs, SegRegs
<1> QED BY <1>1, <1>3, <1>4, <1>5 DEF SoundSegs

\* Level, offset and flags behind a gate.
LEMMA StartIs ==
  ASSUME NEW e, IsEnv(e), NEW cpl, NEW cleared, NEW m, m = StartAt(e, cpl, cleared)
  PROVE  Changes(m, e, {"cpl", "eip", "eflags"}) /\ m.cpl = cpl /\ m.eflags = e.eflags \ cleared
BY DEF StartAt, SetCpl, Changes, IsEnv, TaskFields

\* cpu_load_eflags.
LEMMA FlagsLoaded ==
  ASSUME NEW e, IsEnv(e), NEW new, NEW mask, NEW m, m = LoadEflags(e, new, mask)
  PROVE  /\ Changes(m, e, {"eflags", "iopl"})
         /\ "VM" \in m.eflags <=> "VM" \in IF "VM" \in mask THEN new.eflags ELSE e.eflags
BY DEF LoadEflags, Changes, IsEnv, TaskFields

\* Ready to be changed, one thing after the other.
LEMMA ReadyIs ==
  ASSUME NEW s, Well(s)
  PROVE  Good(s) /\ IsEnv(s.env) /\ SoundSegs(s.env.segs) /\ SoundMem(s.mem)
BY DEF Well, SoundEnv, Good, IsEnv

\* A load of a segment register keeps what is sound.
LEMMA LoadIs ==
  ASSUME NEW s, Good(s), SoundSegs(s.env.segs), NEW reg \in SegRegs, NEW sel, NEW d,
         reg = "CS" => sel.rpl \in Rings, NEW t, t = Load(s, reg, sel, d)
  PROVE  /\ Good(t) /\ t.mem = s.mem /\ t.exc = s.exc /\ SoundSegs(t.env.segs)
         /\ t.env.segs[reg].sel = sel /\ t.env.segs[reg].attr = d.attr
         /\ \A r \in SegRegs \ {reg} : t.env.segs[r] = s.env.segs[r]
         /\ t.env.cpl = s.env.cpl /\ t.env.eflags = s.env.eflags /\ t.env.cr0 = s.env.cr0
         /\ t.env.idt = s.env.idt /\ t.env.old_exception = s.env.old_exception
<1>1. t = SetEnv(s, LoadSegCache(s.env, reg, sel, d.base, d.attr))
  BY DEF Load, SetEnv
<1>2. /\ Sets(t, s, {"segs", "hflags"}) /\ t.mem = s.mem /\ t.exc = s.exc
      /\ t.env.segs = PutSeg(s.env.segs, reg, sel, d.base, d.attr)
  BY ONLY <1>1, Good(s), Loaded
<1>3. /\ SoundSegs(t.env.segs) /\ t.env.segs[reg].sel = sel /\ t.env.segs[reg].attr = d.attr
      /\ \A r \in SegRegs \ {reg} : t.env.segs[r] = s.env.segs[r]
  BY <1>2, SegsSet
<1> QED BY <1>2, <1>3, ChangesFields DEF Sets

\* x is on the way from s to where a transfer leads.
Mid(x, s) ==
  /\ Good(x) /\ SoundMem(x.mem) /\ SoundSegs(x.env.segs) /\ x.exc = NoExc
  /\ x.env.idt = s.env.idt /\ x.env.old_exception = s.env.old_exception
  /\ "PE" \in x.env.cr0 <=> "PE" \in s.env.cr0

\* There it starts, ...
LEMMA MidStarts ==
  ASSUME NEW s, Ready(s)
  PROVE  Mid(s, s)
BY ReadyIs DEF Ready, Mid

\* ... loads segments, ...
LEMMA MidLoad ==
  ASSUME NEW s, NEW x, Mid(x, s), NEW reg \in SegRegs, NEW sel, NEW d,
         reg = "CS" => sel.rpl \in Rings, NEW y, y = Load(x, reg, sel, d)
  PROVE  /\ Mid(y, s) /\ y.env.segs[reg].sel = sel /\ y.env.segs[reg].attr = d.attr
         /\ \A r \in SegRegs \ {reg} : y.env.segs[r] = x.env.segs[r]
         /\ y.env.cpl = x.env.cpl /\ y.env.eflags = x.env.eflags
BY LoadIs DEF Mid

\* ... pushes and pops frames, ...
LEMMA MidPush ==
  ASSUME NEW s, NEW x, Mid(x, s), NEW esp, NEW frame, Framed(frame), NEW y, y = Push(x, esp, frame)
  PROVE  Mid(y, s) /\ y.env.segs = x.env.segs /\ y.env.cpl = x.env.cpl
         /\ y.env.eflags = x.env.eflags
<1>1. Sets(y, x, {"esp"}) /\ SoundMem(y.mem) /\ y.exc = x.exc
  BY ONLY Mid(x, s), Framed(frame), y = Push(x, esp, frame), Pushed DEF Mid
<1> QED BY <1>1, ChangesFields DEF Sets, Mid

\* ... and gives frames back, ...
LEMMA MidPop ==
  ASSUME NEW s, NEW x, Mid(x, s), NEW y, y = Pop(x)
  PROVE  Mid(y, s) /\ y.env.segs = x.env.segs /\ y.env.cpl = x.env.cpl
         /\ y.env.eflags = x.env.eflags
<1>1. Sets(y, x, {"esp"}) /\ SoundMem(y.mem) /\ y.exc = x.exc
  BY ONLY Mid(x, s), y = Pop(x), Popped DEF Mid
<1> QED BY <1>1, ChangesFields DEF Sets, Mid

\* ... and sets other fields.
LEMMA MidEnv ==
  ASSUME NEW s, NEW x, Mid(x, s), NEW m, NEW F, Changes(m, x.env, F),
         F \cap {"segs", "cr0", "idt", "old_exception"} = {}, NEW y, y = SetEnv(x, m)
  PROVE  Mid(y, s) /\ y.env = m /\ y.env.segs = x.env.segs
<1>1. /\ IsEnv(m) /\ m.segs = x.env.segs /\ m.cr0 = x.env.cr0 /\ m.idt = x.env.idt
      /\ m.old_exception = x.env.old_exception
  BY ChangesFields
<1>2. IsMachine(x)
  BY DEF Mid, Good
<1>3. IsMachine(y) /\ y.env = m /\ y.mem = x.mem /\ y.exc = x.exc
  BY <1>2, OtherEnv
<1> QED BY <1>1, <1>3 DEF Mid, Good

\* RealCs
LEMMA MidReal ==
  ASSUME NEW s, NEW x, Mid(x, s), NEW sel, sel.rpl \in Rings, NEW y, y = RealCs(x, sel)
  PROVE  /\ Mid(y, s) /\ y.env.segs["SS"] = x.env.segs["SS"]
         /\ y.env.cpl = x.env.cpl /\ y.env.eflags = x.env.eflags
<1> DEFINE base == IF IsNull(sel) THEN 0 ELSE 1
           attr == x.env.segs["CS"].attr
           new == PutSeg(x.env.segs, "CS", sel, base, attr)
           e == [x.env EXCEPT !["segs"] = new]
<1>1. y = SetEnv(x, e)
  <2> HIDE DEF base
  <2>1. y = [x EXCEPT !.env.segs["CS"] = Segment(sel, base, attr)]
    BY DEF RealCs, base
  <2> QED BY <2>1 DEF SetEnv, PutSeg
<1>2. SoundSegs(new) /\ new["SS"] = x.env.segs["SS"]
  <2>1. "CS" \in SegRegs /\ "SS" \in SegRegs \ {"CS"}
    BY DEF SegRegs
  <2> HIDE DEF new, base, attr
  <2> QED BY <2>1, SegsSet DEF Mid, new
<1>3. Changes(e, x.env, {"segs"}) /\ e.segs = new
  <2>1. "segs" \in TaskFields /\ IsEnv(x.env)
    BY DEF TaskFields, Mid, Good
  <2> HIDE DEF new
  <2> QED BY <2>1, FieldSet
<1> HIDE DEF e, new
<1>4. /\ IsEnv(e) /\ e.cpl = x.env.cpl /\ e.eflags = x.env.eflags /\ e.cr0 = x.env.cr0
      /\ e.idt = x.env.idt /\ e.old_exception = x.env.old_exception
  BY <1>3, ChangesFields
<1>5. IsMachine(y) /\ y.env = e /\ y.mem = x.mem /\ y.exc = x.exc
  <2>1. IsMachine(x)
    BY DEF Mid, Good
  <2> QED BY ONLY <1>1, <2>1, OtherEnv
<1> QED BY <1>2, <1>3, <1>4, <1>5 DEF Mid, Good

\* It arrives, ...
LEMMA MidWell ==
  ASSUME NEW s, Ready(s), NEW t, Mid(t, s), t.env.cpl \in Rings, SoundFlags(t.env.eflags),
         "VM" \in t.env.eflags => t.env.cpl = 3
  PROVE  Well(t)
<1>1. SoundEnv(t.env)
  BY DEF Mid, Good, SoundEnv, IsEnv, Ready, Well
<1> QED BY <1>1 DEF Well, Good, Mid

\* ... at a level that is everywhere the same.
LEMMA MidGoes ==
  ASSUME NEW s, Ready(s), NEW t, Mid(t, s), t.env.cpl \in Rings, SoundFlags(t.env.eflags),
         "VM" \in t.env.eflags => t.env.cpl = 3, Settled(t.env)
  PROVE  Goes(s.env.old_exception, t)
BY MidWell DEF Goes, Mid

\* To a handler at level 0, on a stack of that level.
LEMMA HandlerEntered ==
  ASSUME NEW s, Ready(s), NEW gate, gate.target \in Selectors, NEW d,
         d.attr.kind = "code", ~d.attr.conf, d.attr.dpl = 0,
         NEW esp, NEW frame, Framed(frame), NEW ss,
         lowered \/ IF ss.new THEN IsNull(WithRpl(WithRpl(ss.sel, 0), 0)) \/ ss.desc.attr.dpl = 0
         ELSE IsNull(WithRpl(s.env.segs["SS"].sel, 0)) \/ s.env.segs["SS"].attr.dpl = 0,
         NEW t, t = EnterHandler(s, gate, d, 0, esp, frame, ss)
  PROVE  Goes(s.env.old_exception, t)
<1> DEFINE s1 == Push(s, esp, frame)
           s2 == IF frame.data = NullSel THEN s1 ELSE Load(s1, "DS", NullSel, NoDesc)
           s3 == IF ss.new THEN Load(s2, "SS", WithRpl(ss.sel, 0), ss.desc) ELSE s2
           s4 == Load(s3, "CS", WithRpl(gate.target, 0), d)
           At0(x) == lowered \/ IsNull(WithRpl(x.env.segs["SS"].sel, 0)) \/ x.env.segs["SS"].attr.dpl = 0
<1>0. /\ "CS" \in SegRegs /\ "SS" \in SegRegs /\ "DS" \in SegRegs
      /\ WithRpl(gate.target, 0).rpl = 0 /\ 0 \in Rings
  BY DEF SegRegs, WithRpl, Selectors, Rings
<1>1. Mid(s1, s) /\ s1.env.segs = s.env.segs /\ s1.env.eflags = s.env.eflags
  BY MidStarts, MidPush
<1> HIDE DEF s1
<1>2. Mid(s2, s) /\ s2.env.segs["SS"] = s1.env.segs["SS"] /\ s2.env.eflags = s.env.eflags
  <2>1. CASE frame.data = NullSel
    BY <1>1, <2>1
  <2>2. CASE frame.data # NullSel
    <3>1. s2 = Load(s1, "DS", NullSel, NoDesc)
      BY <2>2
    <3> HIDE DEF s2
    <3> QED BY <1>0, <1>1, <3>1, MidLoad
  <2> QED BY <2>1, <2>2
<1> HIDE DEF s2
<1>3. Mid(s3, s) /\ At0(s3) /\ s3.env.eflags = s.env.eflags
  <2>1. CASE ~ss.new
    <3>1. s3 = s2
      BY <2>1
    <3> HIDE DEF s3
    <3> QED BY <1>1, <1>2, <2>1, <3>1
  <2>2. CASE ss.new
    <3>1. s3 = Load(s2, "SS", WithRpl(ss.sel, 0), ss.desc)
      BY <2>2
    <3> HIDE DEF s3
    <3> QED BY <1>0, <1>2, <2>2, <3>1, MidLoad
  <2> QED BY <2>1, <2>2
<1> HIDE DEF s3
<1>4. /\ Mid(s4, s) /\ s4.env.segs["CS"].sel.rpl = 0 /\ s4.env.segs["CS"].attr = d.attr
      /\ At0(s4) /\ s4.env.eflags = s.env.eflags
  <2>1. s4 = Load(s3, "CS", WithRpl(gate.target, 0), d)
    OBVIOUS
  <2> HIDE DEF s4
  <2> QED BY <1>0, <1>3, <2>1, MidLoad
<1> DEFINE e == StartAt(s4.env, 0, GateClears(gate))
<1>5. t = SetEnv(s4, e)
  BY DEF EnterHandler, SetEnv, s1, s2, s3
<1> HIDE DEF s4, e
<1>6. Changes(e, s4.env, {"cpl", "eip", "eflags"}) /\ e.cpl = 0
      /\ e.eflags = s4.env.eflags \ GateClears(gate)
  <2>1. IsEnv(s4.env)
    BY <1>4 DEF Mid, Good
  <2> QED BY ONLY <2>1, StartIs DEF e
<1>7. Mid(t, s) /\ t.env = e /\ t.env.segs = s4.env.segs
  BY <1>4, <1>5, <1>6, MidEnv
<1>8. "VM" \notin t.env.eflags
  BY <1>6, <1>7 DEF GateClears
<1>9. Settled(t.env)
  BY <1>4, <1>6, <1>7 DEF Settled, LevelsAgree
<1> QED BY <1>0, <1>6, <1>7, <1>8, <1>9, MidGoes DEF SoundFlags

\* What the tables give.
LEMMA DescriptorIs ==
  ASSUME NEW s, NEW sel, NEW d, d = load_segment(s, sel)
  PROVE  /\ d.attr \in Attrs /\ (d = NoDesc \/ d = Descriptor(sel))
         /\ d.sys = "callgate" => d.target \in Selectors
         /\ d.sys = "tss" /\ ~sel.ti => sel.idx \in DOMAIN Tss /\ (AllWide => d.attr.b)
<1> DEFINE table == IF ~sel.ti THEN Gdt ELSE IF IsNull(s.env.ldt) THEN <<>> ELSE Ldt
<1>1. NoDesc.attr \in Attrs /\ NoDesc.sys = "none" /\ NoDesc.attr.conf = FALSE
  BY DEF NoDesc, NoAttr, Attrs, Rings
<1>2. \A x : load_segment(s, x) = NoDesc \/ load_segment(s, x) = Descriptor(x)
  BY DEF load_segment, Descriptor
<1>3. CASE d = NoDesc
  BY <1>1, <1>3
<1>4. CASE d # NoDesc
  <2>1. \/ ~sel.ti /\ sel.idx \in DOMAIN Gdt /\ d = Gdt[sel.idx]
        \/ sel.ti /\ sel.idx \in DOMAIN Ldt /\ d = Ldt[sel.idx]
    BY <1>4 DEF load_segment
  <2>2. SoundDescriptor(d)
    BY <2>1, TablesAssumption
  <2>3. d.sys = "callgate" => d.target \in Selectors
    BY <2>2 DEF SoundDescriptor
  <2>4. d.sys = "tss" /\ ~sel.ti => sel.idx \in DOMAIN Tss /\ (AllWide => d.attr.b)
    BY <2>1, TablesAssumption DEF AllWide
  <2> QED BY <1>2, <2>2, <2>3, <2>4 DEF SoundDescriptor
<1> QED BY <1>3, <1>4

\* Where a gate of the IDT leads.
LEMMA HandlerIs ==
  ASSUME NEW s, SoundEnv(s.env), NEW intno \in DOMAIN Idts[s.env.idt],
         NEW gate, gate = Idts[s.env.idt][intno], NEW d, d = load_segment(s, gate.target)
  PROVE  /\ gate.target \in Selectors
         /\ gate.sys \in {"intgate", "trapgate"} /\ d.attr.kind = "code" =>
              ~d.attr.conf /\ d.attr.dpl = 0
<1>1. SoundGate(gate)
  BY TablesAssumption DEF SoundEnv
<1>2. d = NoDesc \/ d = Descriptor(gate.target)
  BY DescriptorIs
<1>3. NoDesc.attr.kind # "code"
  BY DEF NoDesc, NoAttr
<1> QED BY <1>1, <1>2, <1>3 DEF SoundGate

\* What is pushed is a frame.
LEMMA FrameIs ==
  ASSUME NEW s, SoundEnv(s.env), NEW shift, NEW eip, NEW outer, NEW vm
  PROVE  Framed(Frame(s, shift, eip, outer, vm))
BY DEF Frame, Framed, SoundEnv, SoundSegs

\* An interrupt in protected mode, through a gate that is no task gate.
LEMMA ProtectedInterrupt ==
  ASSUME NEW s, Ready(s), "PE" \in s.env.cr0, NEW intno, NEW is_int, NEW old_eip,
         intno \notin DOMAIN Idts[s.env.idt] \/ Idts[s.env.idt][intno].sys # "taskgate",
         NEW t, t = do_interrupt_protected(s, intno, is_int, old_eip)
  PROVE  Outcome(s.env.old_exception, t)
<1> DEFINE e == s.env
           gate == Idts[e.idt][intno]
           d == load_segment(s, gate.target)
           vm == "VM" \in e.eflags
           inner == ~d.attr.conf /\ d.attr.dpl < e.cpl
           dpl == IF inner THEN d.attr.dpl ELSE e.cpl
           tss == Tss[e.tr.idx]
           frame == Frame(s, IF gate.attr.b THEN 1 ELSE 0, old_eip, inner, inner /\ vm)
           ss == [new |-> inner, sel |-> tss.ss[dpl], desc |-> load_segment(s, tss.ss[dpl])]
           a1 == gate.sys \notin {"intgate", "trapgate"}
           a2 == is_int /\ gate.attr.dpl < e.cpl
           a3 == ~gate.attr.p
           a4 == TargetBad(s, gate.target)
           a5 == ~d.attr.p
           a6 == inner /\ InnerStackBad(s, dpl)
           a7 == ~inner /\ vm
           esp == IF inner THEN tss.esp[dpl] ELSE e.esp
           done == EnterHandler(s, gate, d, dpl, esp, frame, ss)
<1>0. Ready(s) /\ GP \in Vectors /\ NP \in Vectors /\ TS \in Vectors
  BY DEF Vectors
<1>1. CASE intno \notin DOMAIN Idts[e.idt]
  <2>1. t = raise_exception_err(s, GP)
    BY <1>1 DEF do_interrupt_protected
  <2> QED BY ONLY <1>0, <2>1, ErrorRaised DEF Outcome
<1>2. CASE intno \in DOMAIN Idts[e.idt]
  <2>1. t = Checked(s, << <<a1, GP>>, <<a2, GP>>, <<a3, NP>>, <<a4, GP>>, <<a5, NP>>, <<a6, TS>>,
                          <<a7, GP>> >>, done)
    BY <1>2 DEF do_interrupt_protected
  <2>2. ASSUME ~a1, ~a4, ~a6
        PROVE  Goes(e.old_exception, done)
    <3>1. /\ gate.sys \in {"intgate", "trapgate"} /\ ~TargetBad(s, gate.target)
          /\ inner => ~InnerStackBad(s, dpl)
      BY <2>2
    <3>2. SoundEnv(e) /\ e.cpl \in Rings /\ ("VM" \in e.eflags => e.cpl = 3)
      BY DEF Ready, Well, SoundEnv
    <3> HIDE DEF done, a1, a2, a3, a4, a5, a6, a7
    <3>3. d.attr.kind = "code"
      BY <3>1 DEF TargetBad
    <3>4. gate.target \in Selectors /\ ~d.attr.conf /\ d.attr.dpl = 0
      BY <1>2, <3>1, <3>2, <3>3, HandlerIs
    <3>5. dpl = 0 /\ (inner <=> e.cpl # 0)
      <4>1. e.cpl \in 0 .. 3
        BY ONLY <3>2 DEF Rings
      <4> HIDE DEF d, e
      <4> QED BY ONLY <3>4, <4>1
    <3>6. Framed(frame)
      BY <3>2, FrameIs
    <3>7. lowered \/ IF inner THEN d.attr.dpl = 0 /\ load_segment(s, tss.ss[0]).attr.dpl = 0
          ELSE IsNull(WithRpl(e.segs["SS"].sel, 0)) \/ e.segs["SS"].attr.dpl = 0
      <4>1. CASE inner
        BY <3>1, <3>4, <3>5, <4>1 DEF InnerStackBad
      <4>2. CASE ~inner
        <5> HIDE DEF inner, e
        <5>1. e.cpl = 0 /\ "VM" \notin e.eflags
          BY <3>2, <3>5, <4>2
        <5> QED BY <4>2, <5>1 DEF Ready, StackLevel, InProtected, e
      <4> QED BY <4>1, <4>2
    <3>8. done = EnterHandler(s, gate, d, 0, esp, frame, ss)
      BY <3>5 DEF done
    <3>9. ss.new = inner /\ ss.desc = load_segment(s, tss.ss[dpl])
      OBVIOUS
    <3> HIDE DEF gate, d, frame, ss, esp, inner, dpl, tss, vm
    <3>10. lowered \/ IF ss.new THEN IsNull(WithRpl(WithRpl(ss.sel, 0), 0)) \/ ss.desc.attr.dpl = 0
           ELSE IsNull(WithRpl(s.env.segs["SS"].sel, 0)) \/ s.env.segs["SS"].attr.dpl = 0
      BY <3>5, <3>7, <3>9
    <3> QED BY <3>3, <3>4, <3>6, <3>8, <3>10, HandlerEntered
  <2> HIDE DEF a1, a2, a3, a4, a5, a6, a7, done, e
  <2>3. (t = done /\ ~a1 /\ ~a4 /\ ~a6) \/ Fails(s.env.old_exception, t)
    <3> DEFINE tests == << <<a1, GP>>, <<a2, GP>>, <<a3, NP>>, <<a4, GP>>, <<a5, NP>>, <<a6, TS>>,
                           <<a7, GP>> >>
    <3>1. DOMAIN tests = 1 .. 7
      OBVIOUS
    <3>2. tests[1][1] = a1 /\ tests[4][1] = a4 /\ tests[6][1] = a6
      OBVIOUS
    <3>3. /\ tests[1][2] = GP /\ tests[2][2] = GP /\ tests[3][2] = NP /\ tests[4][2] = GP
          /\ tests[5][2] = NP /\ tests[6][2] = TS /\ tests[7][2] = GP
      OBVIOUS
    <3>4. t = Checked(s, tests, done)
      BY <2>1
    <3> HIDE DEF tests
    <3> QED BY ONLY <1>0, <3>1, <3>2, <3>3, <3>4, Tests7
  <2> QED BY <2>2, <2>3 DEF Outcome, e
<1> QED BY <1>1, <1>2

\* An interrupt in long mode.
LEMMA LongInterrupt ==
  ASSUME NEW s, Ready(s), "PE" \in s.env.cr0, NEW intno, NEW is_int, NEW old_eip,
         NEW t, t = do_interrupt64(s, intno, is_int, old_eip)
  PROVE  Outcome(s.env.old_exception, t)
<1> DEFINE e == s.env
           gate == Idts[e.idt][intno]
           d == load_segment(s, gate.target)
           lower == ~d.attr.conf /\ d.attr.dpl < e.cpl
           inner == lower \/ gate.ist # 0
           dpl == IF inner THEN d.attr.dpl ELSE e.cpl
           tss == Tss[e.tr.idx]
           esp == IF gate.ist # 0 THEN tss.ist[gate.ist] ELSE IF inner THEN tss.esp[dpl] ELSE e.esp
           frame == Frame(s, 2, old_eip, TRUE, FALSE)
           ss == [new |-> inner, sel |-> NullSel, desc |-> NoDesc]
           a1 == gate.sys \notin {"intgate", "trapgate"}
           a2 == is_int /\ gate.attr.dpl < e.cpl
           a3 == ~gate.attr.p
           a4 == TargetBad(s, gate.target)
           a5 == ~d.attr.p
           a6 == ~d.attr.l \/ d.attr.b
           a7 == ~inner /\ "VM" \in e.eflags
           done == EnterHandler(s, gate, d, dpl, esp, frame, ss)
<1>0. Ready(s) /\ GP \in Vectors /\ NP \in Vectors /\ TS \in Vectors
  BY DEF Vectors
<1>1. CASE intno \notin DOMAIN Idts[e.idt]
  <2>1. t = raise_exception_err(s, GP)
    BY <1>1 DEF do_interrupt64
  <2> QED BY ONLY <1>0, <2>1, ErrorRaised DEF Outcome
<1>2. CASE intno \in DOMAIN Idts[e.idt]
  <2>1. t = Checked(s, << <<a1, GP>>, <<a2, GP>>, <<a3, NP>>, <<a4, GP>>, <<a5, NP>>, <<a6, GP>>,
                          <<a7, GP>> >>, done)
    BY <1>2 DEF do_interrupt64
  <2>2. ASSUME ~a1, ~a4
        PROVE  Goes(e.old_exception, done)
    <3>1. gate.sys \in {"intgate", "trapgate"} /\ ~TargetBad(s, gate.target)
      BY <2>2
    <3>2. SoundEnv(e) /\ e.cpl \in Rings /\ ("VM" \in e.eflags => e.cpl = 3)
      BY DEF Ready, Well, SoundEnv
    <3> HIDE DEF done, a1, a2, a3, a4, a5, a6, a7
    <3>3. d.attr.kind = "code"
      BY <3>1 DEF TargetBad
    <3>4. gate.target \in Selectors /\ ~d.attr.conf /\ d.attr.dpl = 0
      BY <1>2, <3>1, <3>2, <3>3, HandlerIs
    <3>5. dpl = 0 /\ (e.cpl # 0 => inner)
      <4>1. e.cpl \in 0 .. 3
        BY ONLY <3>2 DEF Rings
      <4> HIDE DEF d, e
      <4> QED BY ONLY <3>4, <4>1
    <3>6. Framed(frame)
      BY <3>2, FrameIs
    <3>7. ~inner => lowered \/ IsNull(WithRpl(e.segs["SS"].sel, 0)) \/ e.segs["SS"].attr.dpl = 0
      <4> SUFFICES ASSUME ~inner
                   PROVE  lowered \/ IsNull(WithRpl(e.segs["SS"].sel, 0)) \/ e.segs["SS"].attr.dpl = 0
        OBVIOUS
      <4> HIDE DEF inner, e
      <4>1. e.cpl = 0 /\ "VM" \notin e.eflags
        BY <3>2, <3>5
      <4> QED BY <4>1 DEF Ready, StackLevel, InProtected, e
    <3>8. done = EnterHandler(s, gate, d, 0, esp, frame, ss)
      BY <3>5 DEF done
    <3>9. ss.new = inner /\ IsNull(WithRpl(WithRpl(ss.sel, 0), 0))
      BY DEF IsNull, WithRpl, NullSel, Sel
    <3> HIDE DEF gate, d, frame, ss, esp, inner, dpl, tss, lower
    <3> QED BY <3>3, <3>4, <3>6, <3>7, <3>8, <3>9, HandlerEntered
  <2> HIDE DEF a1, a2, a3, a4, a5, a6, a7, done, e
  <2>3. (t = done /\ ~a1 /\ ~a4) \/ Fails(s.env.old_exception, t)
    <3> DEFINE tests == << <<a1, GP>>, <<a2, GP>>, <<a3, NP>>, <<a4, GP>>, <<a5, NP>>, <<a6, GP>>,
                           <<a7, GP>> >>
    <3>1. DOMAIN tests = 1 .. 7
      OBVIOUS
    <3>2. tests[1][1] = a1 /\ tests[4][1] = a4
      OBVIOUS
    <3>3. /\ tests[1][2] = GP /\ tests[2][2] = GP /\ tests[3][2] = NP /\ tests[4][2] = GP
          /\ tests[5][2] = NP /\ tests[6][2] = GP /\ tests[7][2] = GP
      OBVIOUS
    <3>4. t = Checked(s, tests, done)
      BY <2>1
    <3> HIDE DEF tests
    <3> QED BY ONLY <1>0, <3>1, <3>2, <3>3, <3>4, Tests7
  <2> QED BY <2>2, <2>3 DEF Outcome, e
<1> QED BY <1>1, <1>2

\* A far transfer of real mode, to a frame's place or to a vector's.
LEMMA RealArrives ==
  ASSUME NEW s, Ready(s), ~InProtected(s.env), NEW x, Mid(x, s), x.env.cpl = s.env.cpl,
         x.env.eflags = s.env.eflags, NEW sel, sel.rpl \in Rings, NEW F, NEW m,
         Changes(m, RealCs(x, sel).env, F), F \subseteq {"eip", "eflags", "iopl"},
         "VM" \in m.eflags <=> "VM" \in s.env.eflags, NEW t, t = SetEnv(RealCs(x, sel), m)
  PROVE  Goes(s.env.old_exception, t)
<1> DEFINE y == RealCs(x, sel)
<1>1. Mid(y, s) /\ y.env.cpl = s.env.cpl /\ y.env.eflags = s.env.eflags
  BY MidReal
<1> HIDE DEF y
<1>2. Changes(m, y.env, F) /\ t = SetEnv(y, m)
  BY DEF y
<1>3. Mid(t, s) /\ t.env = m
  BY <1>1, <1>2, MidEnv
<1>4. m.cpl = y.env.cpl
  BY <1>2, ChangesFields
<1>5. s.env.cpl \in Rings /\ SoundFlags(s.env.eflags) /\ ("VM" \in s.env.eflags => s.env.cpl = 3)
  BY DEF Ready, Well, SoundEnv
<1>6. Settled(t.env)
  BY <1>3 DEF Mid, Settled, InProtected
<1> QED BY <1>1, <1>3, <1>4, <1>5, <1>6, MidGoes DEF SoundFlags

\* An interrupt in real mode.
LEMMA RealInterrupt ==
  ASSUME NEW s, Ready(s), "PE" \notin s.env.cr0, NEW intno, NEW old_eip,
         NEW t, t = do_interrupt_real(s, intno, old_eip)
  PROVE  Outcome(s.env.old_exception, t)
<1>0. Ready(s) /\ GP \in Vectors /\ SoundEnv(s.env)
  BY DEF Vectors, Ready, Well
<1>1. CASE intno \notin DOMAIN Idts[s.env.idt]
  <2>1. t = raise_exception_err(s, GP)
    BY <1>1 DEF do_interrupt_real
  <2> QED BY ONLY <1>0, <2>1, ErrorRaised DEF Outcome
<1>2. CASE intno \in DOMAIN Idts[s.env.idt]
  <2> DEFINE frame == Frame(s, 0, old_eip, FALSE, FALSE)
             x == Push(s, s.env.esp, frame)
             sel == Idts[s.env.idt][intno].target
             y == RealCs(x, sel)
             e1 == [y.env EXCEPT !.eip = 0]
             m == [e1 EXCEPT !.eflags = @ \ {"IF", "TF", "AC", "RF"}]
  <2>1. t = SetEnv(y, m)
    BY <1>2 DEF do_interrupt_real, SetEnv
  <2>2. Framed(frame)
    BY <1>0, FrameIs
  <2> HIDE DEF frame
  <2>3. Mid(x, s) /\ x.env.cpl = s.env.cpl /\ x.env.eflags = s.env.eflags
    BY <2>2, MidStarts, MidPush
  <2>4. sel.rpl \in Rings
    BY <1>0, <1>2, HandlerIs DEF Selectors
  <2> HIDE DEF x, sel
  <2>5. Mid(y, s) /\ y.env.eflags = s.env.eflags
    BY <2>3, <2>4, MidReal
  <2>6. Changes(m, y.env, {"eip", "eflags"}) /\ ("VM" \in m.eflags <=> "VM" \in s.env.eflags)
    <3>1. IsEnv(y.env)
      BY <2>5 DEF Mid, Good
    <3> HIDE DEF y
    <3> QED BY <2>5, <3>1 DEF Changes, IsEnv, TaskFields
  <2> HIDE DEF m
  <2>7. ~InProtected(s.env)
    BY DEF InProtected
  <2>8. Goes(s.env.old_exception, t)
    BY <2>1, <2>3, <2>4, <2>6, <2>7, RealArrives
  <2> QED BY <2>8 DEF Outcome
<1> QED BY <1>1, <1>2

\* Task switches: a segment is loaded with what its selector refers to.
LEMMA TaskSegLoaded ==
  ASSUME NEW s, Ready(s), NEW reg \in SegRegs, NEW sel, reg = "CS" => sel.rpl \in Rings,
         NEW t, t = tss_load_seg(s, reg, sel)
  PROVE  \/ Fails(s.env.old_exception, t)
         \/ /\ Ready(t) /\ t.env.old_exception = s.env.old_exception
            /\ t.env.cpl = s.env.cpl /\ t.env.eflags = s.env.eflags
            /\ \A r \in SegRegs \ {reg} : t.env.segs[r] = s.env.segs[r]
            /\ reg = "CS" => /\ t.env.segs["CS"].sel = sel /\ t.env.segs["CS"].attr.kind = "code"
                             /\ t.env.segs["CS"].attr.dpl = sel.rpl
            /\ reg = "SS" => t.env.segs["SS"].attr.dpl = s.env.cpl
<1> DEFINE d == load_segment(s, sel)
           a == d.attr
           cpl == s.env.cpl
           bad == CASE reg = "CS" -> a.kind # "code" \/ a.dpl # sel.rpl
                    [] reg = "SS" -> ~WritableData(a) \/ a.dpl # cpl \/ a.dpl # sel.rpl
                    [] OTHER -> \/ a.kind = "code" /\ ~a.rw
                                \/ ~(a.kind = "code" /\ a.conf) /\ (a.dpl < cpl \/ a.dpl < sel.rpl)
           a0 == reg # "DS"
           a1 == ~IsS(a) \/ bad
           a2 == ~a.p
           done == Load(s, reg, sel, d)
<1>0. Ready(s) /\ NP \in Vectors /\ TS \in Vectors
  BY DEF Vectors
<1>1. CASE IsNull(sel)
  <2>1. t = Checked(s, << <<a0, TS>> >>, s)
    BY <1>1 DEF tss_load_seg
  <2> HIDE DEF a0
  <2>2. (t = s /\ ~a0) \/ Fails(s.env.old_exception, t)
    <3> DEFINE tests == << <<a0, TS>> >>
    <3>1. DOMAIN tests = 1 .. 1 /\ tests[1][1] = a0 /\ tests[1][2] = TS
      OBVIOUS
    <3>2. t = Checked(s, tests, s)
      BY <2>1
    <3> HIDE DEF tests
    <3> QED BY ONLY <1>0, <3>1, <3>2, Tests1
  <2> QED BY <2>2 DEF a0
<1>2. CASE ~IsNull(sel)
  <2>1. t = Checked(s, << <<a1, TS>>, <<a2, NP>> >>, done)
    BY <1>2 DEF tss_load_seg
  <2>2. ASSUME ~a1
        PROVE  /\ Ready(done) /\ done.env.old_exception = s.env.old_exception
               /\ done.env.cpl = s.env.cpl /\ done.env.eflags = s.env.eflags
               /\ \A r \in SegRegs \ {reg} : done.env.segs[r] = s.env.segs[r]
               /\ reg = "CS" => /\ done.env.segs["CS"].sel = sel
                                /\ done.env.segs["CS"].attr.kind = "code"
                                /\ done.env.segs["CS"].attr.dpl = sel.rpl
               /\ reg = "SS" => done.env.segs["SS"].attr.dpl = s.env.cpl
    <3>1. /\ reg = "CS" => a.kind = "code" /\ a.dpl = sel.rpl
          /\ reg = "SS" => a.dpl = cpl
      BY <2>2
    <3> DEFINE x == done
    <3>2. x = Load(s, reg, sel, d)
      OBVIOUS
    <3> HIDE DEF a1, bad, done, d, x
    <3>3. /\ Mid(x, s) /\ x.env.segs[reg].sel = sel /\ x.env.segs[reg].attr = d.attr
          /\ \A r \in SegRegs \ {reg} : x.env.segs[r] = s.env.segs[r]
          /\ x.env.cpl = s.env.cpl /\ x.env.eflags = s.env.eflags
      BY <1>0, <3>2, MidStarts, MidLoad
    <3>4. Well(x)
      <4>1. cpl \in Rings /\ SoundFlags(s.env.eflags) /\ ("VM" \in s.env.eflags => cpl = 3)
        BY DEF Ready, Well, SoundEnv
      <4> QED BY <3>3, <4>1, MidWell
    <3>5. StackLevel(x.env)
      <4>1. CASE reg = "SS"
        BY <3>1, <3>3, <4>1 DEF StackLevel
      <4>2. CASE reg # "SS"
        BY <3>3, <4>2 DEF StackLevel, Ready, Mid, InProtected, SegRegs
      <4> QED BY <4>1, <4>2
    <3> QED BY <3>1, <3>3, <3>4, <3>5 DEF Ready, Mid, x
  <2> HIDE DEF a1, a2, done, d, bad
  <2>3. (t = done /\ ~a1) \/ Fails(s.env.old_exception, t)
    <3> DEFINE tests == << <<a1, TS>>, <<a2, NP>> >>
    <3>1. DOMAIN tests = 1 .. 2 /\ tests[1][1] = a1 /\ tests[1][2] = TS /\ tests[2][2] = NP
      OBVIOUS
    <3>2. t = Checked(s, tests, done)
      BY <2>1
    <3> HIDE DEF tests
    <3> QED BY ONLY <1>0, <3>1, <3>2, Tests2
  <2> QED BY <2>2, <2>3
<1> QED BY <1>1, <1>2

\* A selector is loaded, without what it refers to.
LEMMA SegSelectorLoaded ==
  ASSUME NEW e, IsEnv(e), SoundSegs(e.segs), NEW vm, NEW reg \in SegRegs, NEW sel,
         reg = "CS" => sel.rpl \in Rings, NEW m, m = load_selector(e, vm, reg, sel)
  PROVE  /\ Changes(m, e, {"segs", "hflags"}) /\ SoundSegs(m.segs)
         /\ m.segs[reg].sel = sel /\ m.segs[reg].attr = NoAttr
         /\ \A r \in SegRegs \ {reg} : m.segs[r] = e.segs[r]
<1>1. PICK base : m = LoadSegCache(e, reg, sel, base, NoAttr)
  BY DEF load_selector, LoadSegVm
<1>2. Changes(m, e, {"segs", "hflags"}) /\ m.segs = PutSeg(e.segs, reg, sel, base, NoAttr)
  BY ONLY <1>1, IsEnv(e), CacheLoaded
<1> QED BY <1>2, SegsSet

\* What the registers hold before the descriptors are looked at.
LEMMA RegistersLoaded ==
  ASSUME NEW e, SoundEnv(e), NEW new, NEW d, AllWide => d.attr.b, NEW saved,
         saved.segs["CS"].rpl \in Rings, NEW eflags, SoundFlags(eflags),
         NEW m, m = load_registers(e, new, d, saved, eflags)
  PROVE  /\ SoundEnv(m) /\ m.old_exception = e.old_exception
         /\ "VM" \in m.eflags <=> "VM" \in eflags
         /\ "VM" \notin eflags => m.cpl = saved.segs["CS"].rpl
         /\ m.segs["SS"].attr.dpl = 0
<1> DEFINE vm == "VM" \in eflags
           e0 == [e EXCEPT !.cr0 = @ \cup {"TS"}, !.hflags = @ \cup {"TS"}, !.ldt = NullSel,
                           !.tr = Sel(new, 0), !.eip = saved.eip, !.esp = saved.esp]
           mask == IF d.attr.b THEN TaskFlags ELSE TaskFlags \ {"VM", "RF"}
           from == [eflags |-> eflags, iopl |-> saved.iopl]
           e1 == LoadEflags(e0, from, mask)
           m1 == load_selector(e1, vm, "DS", saved.segs["DS"])
           m2 == load_selector(m1, vm, "CS", saved.segs["CS"])
           m3 == load_selector(m2, vm, "SS", saved.segs["SS"])
           level == IF vm THEN 3 ELSE saved.segs["CS"].rpl
           On(x) == /\ IsEnv(x) /\ SoundSegs(x.segs) /\ x.idt = e.idt
                    /\ x.old_exception = e.old_exception
<1>0. IsEnv(e) /\ SoundSegs(e.segs) /\ "CS" \in SegRegs /\ "SS" \in SegRegs /\ "DS" \in SegRegs
  BY DEF SoundEnv, IsEnv, SegRegs
<1>1. m = SetCpl(m3, level)
  BY DEF load_registers
<1>2. On(e0) /\ e0.eflags = e.eflags
  <2>1. Changes(e0, e, {"cr0", "hflags", "ldt", "tr", "eip", "esp"})
    BY <1>0 DEF Changes, IsEnv, TaskFields
  <2> HIDE DEF e0
  <2> QED BY <1>0, <2>1, ChangesFields
<1> HIDE DEF e0
<1>3. On(e1) /\ ("VM" \in e1.eflags <=> vm)
  <2>1. Changes(e1, e0, {"eflags", "iopl"})
        /\ ("VM" \in e1.eflags <=> "VM" \in IF "VM" \in mask THEN from.eflags ELSE e0.eflags)
    BY <1>2, FlagsLoaded
  <2>2. "VM" \in mask \/ ("VM" \notin e.eflags /\ ~vm)
    <3>1. AllWide \/ ("VM" \notin e.eflags /\ ~vm)
      <4>1. SoundFlags(e.eflags) /\ SoundFlags(eflags)
        BY DEF SoundEnv
      <4> QED BY ONLY <4>1 DEF SoundFlags
    <3>2. AllWide => mask = TaskFlags
      OBVIOUS
    <3> HIDE DEF mask
    <3> QED BY <3>1, <3>2 DEF TaskFlags
  <2> HIDE DEF e1, mask
  <2> QED BY <1>2, <2>1, <2>2, ChangesFields
<1> HIDE DEF e1
<1>4. On(m1) /\ m1.eflags = e1.eflags
  <2>1. Changes(m1, e1, {"segs", "hflags"}) /\ SoundSegs(m1.segs)
    BY <1>0, <1>3, SegSelectorLoaded
  <2> HIDE DEF m1
  <2> QED BY <1>3, <2>1, ChangesFields
<1> HIDE DEF m1
<1>5. On(m2) /\ m2.eflags = e1.eflags
  <2>1. Changes(m2, m1, {"segs", "hflags"}) /\ SoundSegs(m2.segs)
    BY <1>0, <1>4, SegSelectorLoaded
  <2> HIDE DEF m2
  <2> QED BY <1>4, <2>1, ChangesFields
<1> HIDE DEF m2
<1>6. On(m3) /\ m3.eflags = e1.eflags /\ m3.segs["SS"].attr = NoAttr
  <2>1. Changes(m3, m2, {"segs", "hflags"}) /\ SoundSegs(m3.segs) /\ m3.segs["SS"].attr = NoAttr
    BY <1>0, <1>5, SegSelectorLoaded
  <2> HIDE DEF m3
  <2> QED BY <1>5, <2>1, ChangesFields
<1> HIDE DEF m3
<1>7. On(m) /\ m.eflags = e1.eflags /\ m.segs = m3.segs /\ m.cpl = level
  <2> HIDE DEF level
  <2>1. Changes(m, m3, {"cpl"}) /\ m.cpl = level
    BY <1>1, <1>6 DEF SetCpl, Changes, IsEnv, TaskFields
  <2> QED BY <1>6, <2>1, ChangesFields
<1>8. level \in Rings /\ (vm => level = 3) /\ NoAttr.dpl = 0
  BY DEF Rings, NoAttr
<1>9. SoundEnv(m)
  BY <1>3, <1>7, <1>8 DEF SoundEnv, IsEnv, SoundFlags
<1> QED BY <1>3, <1>6, <1>7, <1>8, <1>9

\* An exception ends a task switch.
LEMMA FailedIs ==
  ASSUME NEW old, NEW t, Fails(old, t)
  PROVE  t.exc # NoExc
<1>1. PICK vec \in Vectors : t.exc = [NoExc EXCEPT !.intno = check_exception(old, vec)]
  BY DEF Fails, RaisedBy
<1>2. t.exc.intno = check_exception(old, vec) /\ NoExc.intno = -1
  BY <1>1 DEF NoExc
<1>3. check_exception(old, vec) # -1
  BY DEF check_exception, Vectors, HLT, DF, UD, TS, NP, SSF, GP
<1> QED BY <1>2, <1>3

\* The LDT's selector, and the offset.
LEMMA OtherFieldLoaded ==
  ASSUME NEW s, Ready(s), NEW saved, NEW field \in {"LDT", "EIP"},
         NEW t, t = load_field(s, saved, field)
  PROVE  \/ Fails(s.env.old_exception, t)
         \/ /\ Ready(t) /\ t.env.old_exception = s.env.old_exception
            /\ t.env.cpl = s.env.cpl /\ t.env.eflags = s.env.eflags /\ t.env.segs = s.env.segs
<1> DEFINE ldt == load_segment(s, saved.ldt)
           a1 == saved.ldt.ti \/ ldt.sys # "ldt" \/ ~ldt.attr.p
           done == [s EXCEPT !.env.ldt = saved.ldt]
           b1 == saved.eip > Limit
<1>0. s.exc = NoExc /\ TS \in Vectors /\ GP \in Vectors
  BY DEF Ready, Vectors
<1>1. CASE field = "EIP"
  <2>1. t = Checked(s, << <<b1, GP>> >>, s)
    BY <1>0, <1>1 DEF load_field
  <2> HIDE DEF b1
  <2>2. t = s \/ Fails(s.env.old_exception, t)
    <3> DEFINE tests == << <<b1, GP>> >>
    <3>1. DOMAIN tests = 1 .. 1 /\ tests[1][2] = GP
      OBVIOUS
    <3>2. t = Checked(s, tests, s)
      BY <2>1
    <3> HIDE DEF tests
    <3> QED BY ONLY Ready(s), <1>0, <3>1, <3>2, Tests1
  <2> QED BY <2>2
<1>2. CASE field = "LDT" /\ IsNull(saved.ldt)
  BY <1>0, <1>2 DEF load_field
<1>3. CASE field = "LDT" /\ ~IsNull(saved.ldt)
  <2>1. t = Checked(s, << <<a1, TS>> >>, done)
    BY <1>0, <1>3 DEF load_field
  <2>2. /\ Ready(done) /\ done.env.old_exception = s.env.old_exception
        /\ done.env.cpl = s.env.cpl /\ done.env.eflags = s.env.eflags
        /\ done.env.segs = s.env.segs
    <3> DEFINE m == [s.env EXCEPT !["ldt"] = saved.ldt]
               x == done
    <3>1. x = SetEnv(s, m)
      BY DEF SetEnv
    <3>2. Changes(m, s.env, {"ldt"})
      <4>1. IsEnv(s.env) /\ "ldt" \in TaskFields
        BY ReadyIs DEF Ready, TaskFields
      <4> QED BY <4>1, FieldSet
    <3> HIDE DEF m, done, x
    <3>3. Mid(x, s) /\ x.env = m /\ x.env.segs = s.env.segs
      BY <3>1, <3>2, MidStarts, MidEnv
    <3>4. m.cpl = s.env.cpl /\ m.eflags = s.env.eflags
      BY <3>2, ChangesFields
    <3>5. /\ s.env.cpl \in Rings /\ SoundFlags(s.env.eflags)
          /\ "VM" \in s.env.eflags => s.env.cpl = 3
      BY DEF Ready, Well, SoundEnv
    <3>6. Well(x)
      BY <3>3, <3>4, <3>5, MidWell
    <3>7. StackLevel(x.env)
      BY <3>3, <3>4 DEF StackLevel, Ready, Mid, InProtected
    <3> QED BY <3>3, <3>4, <3>6, <3>7 DEF Ready, Mid, x
  <2> HIDE DEF a1, done
  <2>3. t = done \/ Fails(s.env.old_exception, t)
    <3> DEFINE tests == << <<a1, TS>> >>
    <3>1. DOMAIN tests = 1 .. 1 /\ tests[1][2] = TS
      OBVIOUS
    <3>2. t = Checked(s, tests, done)
      BY <2>1
    <3> HIDE DEF tests
    <3> QED BY ONLY Ready(s), <1>0, <3>1, <3>2, Tests1
  <2> QED BY <2>2, <2>3
<1> QED BY <1>1, <1>2, <1>3

\* Once a load has failed, nothing else is loaded.
LEMMA FieldSkipped ==
  ASSUME NEW old, NEW s, Fails(old, s), NEW saved, NEW field
  PROVE  load_field(s, saved, field) = s
BY FailedIs DEF load_field

\* The recursive function that load_fields gives the last value of.
Loads(s, saved, fields) ==
  CHOOSE loaded : loaded = [n \in 0 .. Len(fields) |->
        IF n = 0 THEN s ELSE load_field(loaded[n - 1], saved, fields[n])]

\* It has a solution for the numbers of fields there are, so that its values
\* follow from one another.
LEMMA LoadsUnfold ==
  ASSUME NEW s, NEW saved, NEW fields, Len(fields) \in {2, 5}
  PROVE  /\ Loads(s, saved, fields)[0] = s
         /\ \A k \in 1 .. Len(fields) :
              Loads(s, saved, fields)[k]
                = load_field(Loads(s, saved, fields)[k - 1], saved, fields[k])
<1> DEFINE n == Len(fields)
           Later(x, k) == load_field(x, saved, fields[k])
           Is(l) == l = [k \in 0 .. n |-> IF k = 0 THEN s ELSE Later(l[k - 1], k)]
           x1 == Later(s, 1)
           x2 == Later(x1, 2)
           x3 == Later(x2, 3)
           x4 == Later(x3, 4)
           x5 == Later(x4, 5)
           value(k) == IF k = 0 THEN s ELSE IF k = 1 THEN x1 ELSE IF k = 2 THEN x2
                       ELSE IF k = 3 THEN x3 ELSE IF k = 4 THEN x4 ELSE x5
           g == [k \in 0 .. n |-> value(k)]
<1>1. \E l : Is(l)
  <2>1. n \in {2, 5}
    OBVIOUS
  <2> HIDE DEF n, Later
  <2>2. /\ x1 = Later(s, 1) /\ x2 = Later(x1, 2) /\ x3 = Later(x2, 3)
        /\ x4 = Later(x3, 4) /\ x5 = Later(x4, 5)
    OBVIOUS
  <2> HIDE DEF x1, x2, x3, x4, x5
  <2>3. /\ value(0) = s /\ value(1) = x1 /\ value(2) = x2
        /\ value(3) = x3 /\ value(4) = x4 /\ value(5) = x5
    OBVIOUS
  <2> HIDE DEF value
  <2>4. \A k \in 0 .. n : k \in {0, 1, 2, 3, 4, 5} /\ (k # 0 => k - 1 \in 0 .. n)
    BY <2>1
  <2>5. \A k \in 0 .. n : g[k] = value(k)
    OBVIOUS
  <2>6. \A k \in 0 .. n : value(k) = (IF k = 0 THEN s ELSE Later(g[k - 1], k))
    <3> SUFFICES ASSUME NEW k \in 0 .. n
                 PROVE  value(k) = (IF k = 0 THEN s ELSE Later(g[k - 1], k))
      OBVIOUS
    <3>1. k # 0 => g[k - 1] = value(k - 1)
      BY <2>4, <2>5
    <3>2. k \in {0, 1, 2, 3, 4, 5}
      BY <2>4
    <3> HIDE DEF g
    <3> QED BY ONLY <2>2, <2>3, <3>1, <3>2
  <2>7. g = [k \in 0 .. n |-> IF k = 0 THEN s ELSE Later(g[k - 1], k)]
    BY <2>6
  <2>8. Is(g)
    <3> HIDE DEF g
    <3> QED BY <2>7
  <2> HIDE DEF g, Is
  <2> QED BY <2>8
<1>2. Loads(s, saved, fields) = CHOOSE l : Is(l)
  BY DEF Loads
<1>3. Is(Loads(s, saved, fields))
  <2> HIDE DEF Is
  <2> QED BY <1>1, <1>2
<1> DEFINE l == Loads(s, saved, fields)
<1>4. l = [k \in 0 .. n |-> IF k = 0 THEN s ELSE Later(l[k - 1], k)]
  BY <1>3
<1>5. 0 \in 0 .. n /\ \A k \in 1 .. n : k \in 0 .. n /\ k # 0
  OBVIOUS
<1>6. l[0] = s /\ \A k \in 1 .. n : l[k] = Later(l[k - 1], k)
  <2> HIDE DEF n, Later, l
  <2> QED BY <1>4, <1>5
<1> QED BY <1>6

\* The fields of a task in the order of the code: with segments, and in virtual
\* 8086 mode without.
LEMMA FieldsAre ==
  ASSUME NEW s, NEW saved,
         NEW s1, s1 = load_field(s, saved, "LDT"), NEW s2, s2 = load_field(s1, saved, "CS"),
         NEW s3, s3 = load_field(s2, saved, "SS"), NEW s4, s4 = load_field(s3, saved, "DS")
  PROVE  /\ load_fields(s, saved, <<"LDT", "EIP">>) = load_field(s1, saved, "EIP")
         /\ load_fields(s, saved, <<"LDT", "CS", "SS", "DS", "EIP">>) = load_field(s4, saved, "EIP")
<1>1. ASSUME NEW fields
      PROVE  load_fields(s, saved, fields) = Loads(s, saved, fields)[Len(fields)]
  BY DEF load_fields, Loads
<1>2. load_fields(s, saved, <<"LDT", "EIP">>) = load_field(s1, saved, "EIP")
  <2> DEFINE fields == <<"LDT", "EIP">>
             l == Loads(s, saved, fields)
  <2>1. Len(fields) = 2 /\ fields[1] = "LDT" /\ fields[2] = "EIP"
    OBVIOUS
  <2> HIDE DEF fields
  <2>2. l[0] = s /\ \A k \in 1 .. Len(fields) : l[k] = load_field(l[k - 1], saved, fields[k])
    <3>1. Len(fields) \in {2, 5}
      BY ONLY <2>1
    <3> QED BY ONLY <3>1, LoadsUnfold
  <2> HIDE DEF l
  <2>3. l[1] = load_field(l[0], saved, fields[1]) /\ l[2] = load_field(l[1], saved, fields[2])
    BY ONLY <2>1, <2>2
  <2>4. l[2] = load_field(s1, saved, "EIP")
    BY ONLY <2>1, <2>2, <2>3, s1 = load_field(s, saved, "LDT")
  <2> QED BY <1>1, <2>1, <2>4 DEF l, fields
<1>3. load_fields(s, saved, <<"LDT", "CS", "SS", "DS", "EIP">>) = load_field(s4, saved, "EIP")
  <2> DEFINE fields == <<"LDT", "CS", "SS", "DS", "EIP">>
             l == Loads(s, saved, fields)
  <2>1. /\ Len(fields) = 5 /\ fields[1] = "LDT" /\ fields[2] = "CS" /\ fields[3] = "SS"
        /\ fields[4] = "DS" /\ fields[5] = "EIP"
    OBVIOUS
  <2> HIDE DEF fields
  <2>2. l[0] = s /\ \A k \in 1 .. Len(fields) : l[k] = load_field(l[k - 1], saved, fields[k])
    <3>1. Len(fields) \in {2, 5}
      BY ONLY <2>1
    <3> QED BY ONLY <3>1, LoadsUnfold
  <2> HIDE DEF l
  <2>3. /\ l[1] = load_field(l[0], saved, fields[1]) /\ l[2] = load_field(l[1], saved, fields[2])
        /\ l[3] = load_field(l[2], saved, fields[3]) /\ l[4] = load_field(l[3], saved, fields[4])
        /\ l[5] = load_field(l[4], saved, fields[5])
    BY ONLY <2>1, <2>2
  <2>4. l[1] = s1 /\ l[2] = s2 /\ l[3] = s3 /\ l[4] = s4
    BY ONLY <2>1, <2>2, <2>3, s1 = load_field(s, saved, "LDT"), s2 = load_field(s1, saved, "CS"),
            s3 = load_field(s2, saved, "SS"), s4 = load_field(s3, saved, "DS")
  <2>5. l[5] = load_field(s4, saved, "EIP")
    BY ONLY <2>1, <2>3, <2>4
  <2> QED BY <1>1, <2>1, <2>5 DEF l, fields
<1> QED BY <1>2, <1>3

\* A task is loaded: its segments are all of its level, or the switch faults.
LEMMA TaskLoaded ==
  ASSUME NEW s, Ready(s), NEW new, NEW d, AllWide => d.attr.b, NEW saved,
         saved.segs["CS"].rpl \in Rings, NEW eflags, SoundFlags(eflags),
         NEW t, t = LoadTask(s, new, d, saved, eflags)
  PROVE  Outcome(s.env.old_exception, t)
<1> DEFINE old == s.env.old_exception
           e == load_registers(s.env, new, d, saved, eflags)
           s0 == SetEnv(s, e)
           s1 == load_field(s0, saved, "LDT")
           s2 == load_field(s1, saved, "CS")
           s3 == load_field(s2, saved, "SS")
           s4 == load_field(s3, saved, "DS")
           s5 == IF "VM" \in eflags THEN s1 ELSE s4
           level == saved.segs["CS"].rpl
           On(x) == Ready(x) /\ x.env.old_exception = old
           Virtual(x) == "VM" \in x.env.eflags
           Level(x) == "VM" \notin x.env.eflags /\ x.env.cpl = level
           Code(x) == LET cs == x.env.segs["CS"] IN
                      cs.sel.rpl = level /\ cs.attr.kind = "code" /\ cs.attr.dpl = level
           Stack(x) == x.env.segs["SS"].attr.dpl = level
<1>0. "CS" \in SegRegs /\ "SS" \in SegRegs /\ "DS" \in SegRegs
  BY DEF SegRegs
<1>1. t = load_field(s5, saved, "EIP")
  <2>1. t = load_fields(s0, saved, IF "VM" \in eflags THEN <<"LDT", "EIP">>
                                   ELSE <<"LDT", "CS", "SS", "DS", "EIP">>)
    BY DEF LoadTask, SetEnv
  <2>2. /\ load_fields(s0, saved, <<"LDT", "EIP">>) = load_field(s1, saved, "EIP")
        /\ load_fields(s0, saved, <<"LDT", "CS", "SS", "DS", "EIP">>) = load_field(s4, saved, "EIP")
    <3>1. /\ s1 = load_field(s0, saved, "LDT") /\ s2 = load_field(s1, saved, "CS")
          /\ s3 = load_field(s2, saved, "SS") /\ s4 = load_field(s3, saved, "DS")
      OBVIOUS
    <3> HIDE DEF s0, s1, s2, s3, s4
    <3> QED BY ONLY <3>1, FieldsAre
  <2> HIDE DEF s0, s1, s4
  <2> QED BY <2>1, <2>2
<1>2. On(s0) /\ (Virtual(s0) <=> "VM" \in eflags) /\ ("VM" \notin eflags => Level(s0))
  <2>1. IsMachine(s) /\ SoundEnv(s.env) /\ SoundMem(s.mem) /\ s.exc = NoExc
    BY DEF Ready, Well
  <2> HIDE DEF e
  <2>2. /\ SoundEnv(e) /\ e.old_exception = old
        /\ "VM" \in e.eflags <=> "VM" \in eflags
        /\ "VM" \notin eflags => e.cpl = level
        /\ e.segs["SS"].attr.dpl = 0
    BY <2>1, RegistersLoaded DEF e
  <2>3. IsMachine(s0) /\ s0.env = e /\ s0.mem = s.mem /\ s0.exc = s.exc
    BY <2>1, OtherEnv
  <2> HIDE DEF s0
  <2>4. StackLevel(e) /\ Well(s0)
    BY <2>1, <2>2, <2>3 DEF StackLevel, Well
  <2>5. On(s0)
    BY <2>1, <2>2, <2>3, <2>4 DEF Ready
  <2> QED BY <2>2, <2>3, <2>5
<1> HIDE DEF s0
<1>3. \/ Fails(old, s1)
      \/ On(s1) /\ (Virtual(s1) <=> "VM" \in eflags) /\ ("VM" \notin eflags => Level(s1))
  BY <1>2, OtherFieldLoaded
<1> HIDE DEF s1
<1>4. "VM" \notin eflags => Fails(old, s2) \/ (On(s2) /\ Level(s2) /\ Code(s2))
  <2> SUFFICES ASSUME "VM" \notin eflags
               PROVE  Fails(old, s2) \/ (On(s2) /\ Level(s2) /\ Code(s2))
    OBVIOUS
  <2>1. CASE Fails(old, s1)
    BY <2>1, FieldSkipped
  <2>2. CASE On(s1) /\ Level(s1)
    <3> DEFINE sel == saved.segs["CS"]
    <3>1. s2 = tss_load_seg(s1, "CS", sel)
      BY <2>2 DEF load_field, Ready
    <3>2. Ready(s1) /\ sel.rpl \in Rings
      BY <2>2
    <3> HIDE DEF sel, s2
    <3>3. \/ Fails(s1.env.old_exception, s2)
          \/ /\ Ready(s2) /\ s2.env.old_exception = s1.env.old_exception
             /\ s2.env.cpl = s1.env.cpl /\ s2.env.eflags = s1.env.eflags
             /\ s2.env.segs["CS"].sel = sel /\ s2.env.segs["CS"].attr.kind = "code"
             /\ s2.env.segs["CS"].attr.dpl = sel.rpl
      BY ONLY <1>0, <3>1, <3>2, TaskSegLoaded
    <3> QED BY <2>2, <3>3 DEF sel
  <2> QED BY <1>3, <2>1, <2>2
<1> HIDE DEF s2
<1>5. "VM" \notin eflags => Fails(old, s3) \/ (On(s3) /\ Level(s3) /\ Code(s3) /\ Stack(s3))
  <2> SUFFICES ASSUME "VM" \notin eflags
               PROVE  Fails(old, s3) \/ (On(s3) /\ Level(s3) /\ Code(s3) /\ Stack(s3))
    OBVIOUS
  <2>1. CASE Fails(old, s2)
    BY <2>1, FieldSkipped
  <2>2. CASE On(s2) /\ Level(s2) /\ Code(s2)
    <3> DEFINE sel == saved.segs["SS"]
    <3>1. s3 = tss_load_seg(s2, "SS", sel)
      BY <2>2 DEF load_field, Ready
    <3>2. Ready(s2)
      BY <2>2
    <3> HIDE DEF sel, s3
    <3>3. \/ Fails(s2.env.old_exception, s3)
          \/ /\ Ready(s3) /\ s3.env.old_exception = s2.env.old_exception
             /\ s3.env.cpl = s2.env.cpl /\ s3.env.eflags = s2.env.eflags
             /\ s3.env.segs["CS"] = s2.env.segs["CS"] /\ s3.env.segs["SS"].attr.dpl = s2.env.cpl
      BY ONLY <1>0, <3>1, <3>2, TaskSegLoaded
    <3> QED BY <2>2, <3>3
  <2> QED BY <1>4, <2>1, <2>2
<1> HIDE DEF s3
<1>6. "VM" \notin eflags => Fails(old, s4) \/ (On(s4) /\ Level(s4) /\ Code(s4) /\ Stack(s4))
  <2> SUFFICES ASSUME "VM" \notin eflags
               PROVE  Fails(old, s4) \/ (On(s4) /\ Level(s4) /\ Code(s4) /\ Stack(s4))
    OBVIOUS
  <2>1. CASE Fails(old, s3)
    BY <2>1, FieldSkipped
  <2>2. CASE On(s3) /\ Level(s3) /\ Code(s3) /\ Stack(s3)
    <3> DEFINE sel == saved.segs["DS"]
    <3>1. s4 = tss_load_seg(s3, "DS", sel)
      BY <2>2 DEF load_field, Ready
    <3>2. Ready(s3)
      BY <2>2
    <3> HIDE DEF sel, s4
    <3>3. \/ Fails(s3.env.old_exception, s4)
          \/ /\ Ready(s4) /\ s4.env.old_exception = s3.env.old_exception
             /\ s4.env.cpl = s3.env.cpl /\ s4.env.eflags = s3.env.eflags
             /\ s4.env.segs["CS"] = s3.env.segs["CS"] /\ s4.env.segs["SS"] = s3.env.segs["SS"]
      BY ONLY <1>0, <3>1, <3>2, TaskSegLoaded
    <3> QED BY <2>2, <3>3
  <2> QED BY <1>5, <2>1, <2>2
<1> HIDE DEF s4
<1>7. Fails(old, s5) \/ (On(s5) /\ (Virtual(s5) \/ (Level(s5) /\ Code(s5) /\ Stack(s5))))
  BY <1>3, <1>6
<1> HIDE DEF s5
<1>8. Fails(old, t) \/ (On(t) /\ (Virtual(t) \/ (Level(t) /\ Code(t) /\ Stack(t))))
  <2>1. CASE Fails(old, s5)
    BY <1>1, <2>1, FieldSkipped
  <2>2. CASE On(s5) /\ (Virtual(s5) \/ (Level(s5) /\ Code(s5) /\ Stack(s5)))
    BY <1>1, <2>2, OtherFieldLoaded
  <2> QED BY <1>7, <2>1, <2>2
<1>9. ASSUME Virtual(t) \/ (Level(t) /\ Code(t) /\ Stack(t))
      PROVE  Settled(t.env)
  <2>1. CASE Virtual(t)
    BY <2>1 DEF Settled, InProtected
  <2>2. CASE Level(t) /\ Code(t) /\ Stack(t)
    <3>1. level <= level
      BY DEF Rings
    <3> HIDE DEF level
    <3> QED BY <2>2, <3>1 DEF Settled, LevelsAgree
  <2> QED BY <1>9, <2>1, <2>2
<1> QED BY <1>8, <1>9 DEF Outcome, Goes, Ready

\* A TSS is written.
LEMMA TssWritten ==
  ASSUME NEW m, SoundMem(m), NEW b, NEW i, NEW r,
         i \in DOMAIN Tss => /\ r = [layout |-> r.layout, link |-> r.link, ctx |-> r.ctx]
                             /\ SoundContext(r.ctx),
         NEW w, w = [m EXCEPT !.busy = b, !.tss[i] = r]
  PROVE  SoundMem(w)
<1> DEFINE T == [m.tss EXCEPT ![i] = r]
<1>1. m = [stack |-> m.stack, busy |-> m.busy, regs |-> m.regs, tss |-> m.tss]
  BY DEF SoundMem
<1>2. w = [stack |-> m.stack, busy |-> b, regs |-> m.regs, tss |-> T]
  BY ONLY <1>1, w = [m EXCEPT !.busy = b, !.tss[i] = r]
<1>3. /\ m.tss = [t \in DOMAIN Tss |->
                    [layout |-> m.tss[t].layout, link |-> m.tss[t].link, ctx |-> m.tss[t].ctx]]
      /\ \A t \in DOMAIN Tss : SoundContext(m.tss[t].ctx)
  BY DEF SoundMem
<1>4. T = [t \in DOMAIN Tss |-> IF t = i THEN r ELSE m.tss[t]]
  BY <1>3
<1>5. \A t \in DOMAIN Tss : T[t] = [layout |-> T[t].layout, link |-> T[t].link, ctx |-> T[t].ctx]
  BY <1>3, <1>4
<1>6. T = [t \in DOMAIN Tss |-> [layout |-> T[t].layout, link |-> T[t].link, ctx |-> T[t].ctx]]
  BY <1>4, <1>5
<1>7. \A t \in DOMAIN Tss : SoundContext(T[t].ctx)
  BY <1>3, <1>4
<1> HIDE DEF T
<1>8. /\ w = [stack |-> w.stack, busy |-> w.busy, regs |-> w.regs, tss |-> w.tss]
      /\ w.stack = m.stack /\ w.regs = m.regs /\ w.tss = T
  BY ONLY <1>2
<1>9. /\ \A name \in DOMAIN m.stack : \A n \in DOMAIN m.stack[name] :
           m.stack[name][n].cs.rpl \in Rings /\ SoundFlags(m.stack[name][n].eflags)
      /\ SoundFlags(m.regs.eflags)
  BY DEF SoundMem
<1> QED BY ONLY <1>6, <1>7, <1>8, <1>9 DEF SoundMem

\* The old task is saved.
LEMMA TaskSaved ==
  ASSUME NEW s, Ready(s), NEW source, NEW is386, NEW next_eip,
         NEW t, t = SaveTask(s, source, is386, next_eip)
  PROVE  IsMachine(t) /\ t.env = s.env /\ t.exc = s.exc /\ SoundMem(t.mem)
<1> DEFINE old == s.env.tr.idx
           flags == IF source = "iret" THEN s.env.eflags \ {"NT"} ELSE s.env.eflags
           b == IF source = "call" THEN s.mem.busy ELSE s.mem.busy \ {old}
           c == Context(s, next_eip, flags)
           r == [s.mem.tss[old] EXCEPT !.layout = is386, !.ctx = c]
           m == [s.mem EXCEPT !.busy = b, !.tss[old] = r]
<1>1. IsMachine(s) /\ SoundMem(s.mem)
  BY DEF Ready, Well
<1>2. t = [s EXCEPT !.mem = m]
  BY DEF SaveTask
<1>3. old \in DOMAIN Tss => SoundContext(c)
  <2>0. old \in DOMAIN Tss => {"segs", "eflags"} \subseteq DOMAIN s.mem.tss[old].ctx
    BY <1>1 DEF SoundMem, SoundContext
  <2>1. s.env.segs["CS"].sel.rpl \in Rings /\ SoundFlags(s.env.eflags)
    BY DEF Ready, Well, SoundEnv, SoundSegs
  <2>2. SoundFlags(flags)
    BY <2>1 DEF SoundFlags
  <2> HIDE DEF flags
  <2> QED BY <2>0, <2>1, <2>2 DEF SoundContext, Context, SegRegs
<1>4. old \in DOMAIN Tss =>
        r = [layout |-> r.layout, link |-> r.link, ctx |-> r.ctx] /\ r.ctx = c
  <2>1. old \in DOMAIN Tss =>
          s.mem.tss[old] = [layout |-> s.mem.tss[old].layout, link |-> s.mem.tss[old].link,
                            ctx |-> s.mem.tss[old].ctx]
    BY <1>1 DEF SoundMem
  <2> DEFINE x == s.mem.tss[old]
  <2> HIDE DEF c, x
  <2>2. ASSUME x = [layout |-> x.layout, link |-> x.link, ctx |-> x.ctx],
               NEW y, y = [x EXCEPT !.layout = is386, !.ctx = c]
        PROVE  y = [layout |-> y.layout, link |-> y.link, ctx |-> y.ctx] /\ y.ctx = c
    BY ONLY <2>2
  <2> QED BY <2>1, <2>2 DEF x
<1> HIDE DEF b, r, c, old
<1>5. SoundMem(m)
  BY <1>1, <1>3, <1>4, TssWritten
<1> HIDE DEF m
<1>6. t = [env |-> s.env, mem |-> m, exc |-> s.exc]
  BY <1>1, <1>2 DEF IsMachine
<1> QED BY <1>5, <1>6 DEF IsMachine

\* The new one is linked to it.
LEMMA TaskLinked ==
  ASSUME NEW s, IsMachine(s), SoundMem(s.mem), NEW source, NEW i \in DOMAIN Tss,
         NEW t, t = LinkTask(s, source, i)
  PROVE  IsMachine(t) /\ t.env = s.env /\ t.exc = s.exc /\ SoundMem(t.mem)
<1> DEFINE r == [s.mem.tss[i] EXCEPT !.link = IF source = "call" THEN s.env.tr.idx ELSE @]
           b == IF source = "iret" THEN s.mem.busy ELSE s.mem.busy \cup {i}
           m == [s.mem EXCEPT !.busy = b, !.tss[i] = r]
<1>1. t = [s EXCEPT !.mem = m]
  <2> DEFINE l == IF source = "call" THEN s.env.tr.idx ELSE s.mem.tss[i].link
  <2>1. t = [s EXCEPT !.mem.busy = b, !.mem.tss[i] = [@ EXCEPT !.link = l]]
    BY DEF LinkTask
  <2>2. r = [s.mem.tss[i] EXCEPT !.link = l]
    OBVIOUS
  <2> HIDE DEF b, l, r
  <2> QED BY <2>1, <2>2
<1>2. r = [layout |-> r.layout, link |-> r.link, ctx |-> r.ctx] /\ SoundContext(r.ctx)
  <2> DEFINE x == s.mem.tss[i]
             l == IF source = "call" THEN s.env.tr.idx ELSE x.link
  <2>1. x = [layout |-> x.layout, link |-> x.link, ctx |-> x.ctx] /\ SoundContext(x.ctx)
    <3>1. /\ s.mem.tss = [k \in DOMAIN Tss |->
                            [layout |-> s.mem.tss[k].layout, link |-> s.mem.tss[k].link,
                             ctx |-> s.mem.tss[k].ctx]]
          /\ \A k \in DOMAIN Tss : SoundContext(s.mem.tss[k].ctx)
      BY DEF SoundMem
    <3> QED BY ONLY <3>1, i \in DOMAIN Tss DEF x
  <2>2. r = [x EXCEPT !.link = l]
    OBVIOUS
  <2> HIDE DEF x, l, r
  <2>3. r = [layout |-> r.layout, link |-> r.link, ctx |-> r.ctx] /\ r.ctx = x.ctx
    BY ONLY <2>1, <2>2
  <2> QED BY <2>1, <2>3
<1> HIDE DEF r, b
<1>3. SoundMem(m)
  BY <1>2, TssWritten
<1> HIDE DEF m
<1>4. t = [env |-> s.env, mem |-> m, exc |-> s.exc]
  BY <1>1 DEF IsMachine
<1> QED BY <1>3, <1>4 DEF IsMachine

\* What a TSS gives back.
LEMMA SavedInIs ==
  ASSUME NEW s, SoundMem(s.mem), NEW idx \in DOMAIN Tss, NEW is386,
         NEW saved, saved = SavedIn(s, idx, is386)
  PROVE  saved.segs["CS"].rpl \in Rings /\ SoundFlags(saved.eflags)
<1> DEFINE ctx == s.mem.tss[idx].ctx
<1>1. SoundContext(ctx)
  BY DEF SoundMem
<1>2. saved = ctx \/ saved = [ctx EXCEPT !.eip = Limit + 1]
  BY DEF SavedIn
<1> HIDE DEF ctx
<1>3. saved.segs = ctx.segs /\ saved.eflags = ctx.eflags
  BY <1>1, <1>2 DEF SoundContext
<1> QED BY <1>1, <1>3 DEF SoundContext

\* switch_tss
LEMMA Switched ==
  ASSUME NEW s, Ready(s), NEW sel, NEW desc,
         desc.sys = "taskgate" \/ (desc.sys = "tss" /\ desc = load_segment(s, sel)),
         NEW source, NEW next_eip, NEW t, t = switch_tss(s, sel, desc, source, next_eip)
  PROVE  Outcome(s.env.old_exception, t)
<1> DEFINE gate == desc.sys = "taskgate"
           new == IF gate THEN desc.target ELSE sel
           d == load_segment(s, new)
           saved == SavedIn(s, new.idx, d.attr.b)
           s1 == SaveTask(s, source, d.attr.b, next_eip)
           s2 == LinkTask(s1, source, new.idx)
           eflags == saved.eflags \cup (IF source = "call" THEN {"NT"} ELSE {})
           a1 == gate /\ ~desc.attr.p
           a2 == new.ti
           a3 == gate /\ (d.sys # "tss" \/ Busy(s, new.idx))
           a4 == ~d.attr.p
           done == LoadTask(s2, new.idx, d, saved, eflags)
<1>0. Ready(s) /\ NP \in Vectors /\ TS \in Vectors /\ GP \in Vectors
  BY DEF Vectors
<1>1. t = Checked(s, << <<a1, NP>>, <<a2, TS>>, <<a3, GP>>, <<a4, NP>> >>, done)
  BY DEF switch_tss
<1>2. ASSUME ~a2, ~a3
      PROVE  Outcome(s.env.old_exception, done)
  <2>1. ~new.ti /\ d.sys = "tss"
    <3>1. CASE gate
      BY <1>2, <3>1
    <3>2. CASE ~gate
      BY <1>2, <3>2
    <3> QED BY <3>1, <3>2
  <2>2. done = LoadTask(s2, new.idx, d, saved, eflags)
    OBVIOUS
  <2> HIDE DEF gate, new, done, a1, a2, a3, a4
  <2>3. new.idx \in DOMAIN Tss /\ (AllWide => d.attr.b)
    BY <2>1, DescriptorIs
  <2>4. SoundMem(s.mem) /\ SoundEnv(s.env) /\ s.exc = NoExc /\ StackLevel(s.env)
    BY DEF Ready, Well
  <2> HIDE DEF d
  <2>5. saved.segs["CS"].rpl \in Rings /\ SoundFlags(saved.eflags)
    BY <2>3, <2>4, SavedInIs
  <2> HIDE DEF saved
  <2>6. SoundFlags(eflags)
    BY <2>5 DEF SoundFlags
  <2>7. IsMachine(s1) /\ s1.env = s.env /\ s1.exc = s.exc /\ SoundMem(s1.mem)
    BY TaskSaved
  <2> HIDE DEF s1, eflags
  <2>8. IsMachine(s2) /\ s2.env = s.env /\ s2.exc = s.exc /\ SoundMem(s2.mem)
    BY <2>3, <2>7, TaskLinked
  <2> HIDE DEF s2
  <2>9. Ready(s2)
    BY <2>4, <2>8 DEF Ready, Well
  <2> QED BY <2>2, <2>3, <2>5, <2>6, <2>8, <2>9, TaskLoaded
<1> HIDE DEF a1, a2, a3, a4, done
<1>3. (t = done /\ ~a2 /\ ~a3) \/ Fails(s.env.old_exception, t)
  <2> DEFINE tests == << <<a1, NP>>, <<a2, TS>>, <<a3, GP>>, <<a4, NP>> >>
  <2>1. /\ DOMAIN tests = 1 .. 4 /\ tests[2][1] = a2 /\ tests[3][1] = a3
        /\ tests[1][2] = NP /\ tests[2][2] = TS /\ tests[3][2] = GP /\ tests[4][2] = NP
    OBVIOUS
  <2>2. t = Checked(s, tests, done)
    BY <1>1
  <2> HIDE DEF tests
  <2> QED BY ONLY <1>0, <2>1, <2>2, Tests4
<1> QED BY <1>2, <1>3 DEF Outcome

\* do_interrupt_all
LEMMA Interrupted ==
  ASSUME NEW s, Ready(s), NEW intno, NEW is_int, NEW next_eip,
         NEW t, t = do_interrupt_all(s, intno, is_int, next_eip)
  PROVE  Outcome(s.env.old_exception, t)
<1> DEFINE old_eip == IF is_int THEN next_eip ELSE s.env.eip
           gate == Idts[s.env.idt][intno]
<1>1. CASE "PE" \notin s.env.cr0
  <2>1. t = do_interrupt_real(s, intno, old_eip)
    BY <1>1 DEF do_interrupt_all
  <2> HIDE DEF old_eip
  <2> QED BY ONLY Ready(s), <1>1, <2>1, RealInterrupt
<1>2. CASE "PE" \in s.env.cr0 /\ "LMA" \in s.env.hflags
  <2>1. t = do_interrupt64(s, intno, is_int, old_eip)
    BY <1>2 DEF do_interrupt_all
  <2> HIDE DEF old_eip
  <2> QED BY ONLY Ready(s), <1>2, <2>1, LongInterrupt
<1>3. CASE "PE" \in s.env.cr0 /\ "LMA" \notin s.env.hflags
  <2>1. t = do_interrupt_protected(s, intno, is_int, old_eip)
    BY <1>3 DEF do_interrupt_all
  <2> HIDE DEF old_eip
  <2>2. CASE intno \in DOMAIN Idts[s.env.idt] /\ gate.sys = "taskgate"
    <3>1. t = switch_tss(s, NullSel, gate, "call", old_eip)
      BY <2>1, <2>2 DEF do_interrupt_protected
    <3> HIDE DEF gate
    <3> QED BY ONLY Ready(s), <2>2, <3>1, Switched
  <2>3. CASE ~(intno \in DOMAIN Idts[s.env.idt] /\ gate.sys = "taskgate")
    BY <1>3, <2>1, <2>3, ProtectedInterrupt
  <2> QED BY <2>2, <2>3
<1> QED BY <1>1, <1>2, <1>3

\* How grave the next exception is: what is raised during its delivery is graver.
Pending(x, old) ==
  \/ x.is_int /\ old = -1
  \/ x.intno = UD /\ old = -1
  \/ x.intno \in {TS, NP, SSF, GP} /\ old = x.intno
  \/ x.intno = DF /\ old = DF
  \/ x.intno = HLT /\ ~x.is_int

\* What is raised, with or without an exception being delivered.
LEMMA RaisedIs ==
  ASSUME NEW t, NEW old, RaisedBy(t, old), old \in {-1, TS, NP, SSF, GP, DF}
  PROVE  /\ Pending(t.exc, t.env.old_exception) /\ t.exc # NoExc
         /\ old = -1 => t.exc.intno \in Vectors
         /\ old \in {TS, NP, SSF, GP} => t.exc.intno = DF
         /\ old = DF => t.exc.intno = HLT
<1>1. PICK vec \in Vectors :
        /\ t.exc = [NoExc EXCEPT !.intno = check_exception(old, vec)]
        /\ t.env.old_exception = OldException(old, vec)
  BY DEF RaisedBy
<1> DEFINE n == check_exception(old, vec)
<1>2. t.exc.intno = n /\ t.exc.is_int = FALSE /\ NoExc.intno = -1
  BY <1>1 DEF NoExc
<1>3. \/ old = -1 /\ n = vec /\ OldException(old, vec) = vec
      \/ old \in {TS, NP, SSF, GP} /\ n = DF /\ OldException(old, vec) = DF
      \/ old = DF /\ n = HLT
  BY DEF check_exception, OldException, Contributory, Vectors, DE, UD, DF, TS, NP, SSF, GP, PF, HLT
<1> HIDE DEF n
<1>4. n # -1
  BY <1>3 DEF Vectors, DF, TS, NP, SSF, GP, HLT
<1>5. t.exc # NoExc /\ ~t.exc.is_int
  BY <1>2, <1>4
<1>6. CASE old = -1 /\ n = vec /\ OldException(old, vec) = vec
  <2>1. Pending(t.exc, t.env.old_exception)
    BY <1>1, <1>2, <1>6 DEF Pending, Vectors
  <2> QED BY <1>2, <1>5, <1>6, <2>1 DEF DF, TS, NP, SSF, GP
<1>7. CASE old \in {TS, NP, SSF, GP} /\ n = DF /\ OldException(old, vec) = DF
  <2>1. Pending(t.exc, t.env.old_exception)
    BY <1>1, <1>2, <1>7 DEF Pending
  <2> QED BY <1>2, <1>5, <1>7, <2>1 DEF DF, TS, NP, SSF, GP
<1>8. CASE old = DF /\ n = HLT
  <2>1. Pending(t.exc, t.env.old_exception)
    BY <1>2, <1>5, <1>8 DEF Pending
  <2> QED BY <1>2, <1>5, <1>8, <2>1 DEF DF, TS, NP, SSF, GP
<1> QED BY <1>3, <1>6, <1>7, <1>8

\* Another code segment of the current level.
LEMMA CodeLoaded ==
  ASSUME NEW s, Ready(s), InProtected(s.env), Settled(s.env),
         NEW x, Mid(x, s), x.env.segs = s.env.segs, x.env.cpl = s.env.cpl,
         x.env.eflags = s.env.eflags, NEW sel \in Selectors, NEW d,
         d.attr.kind = "code",
         IF d.attr.conf THEN d.attr.dpl <= s.env.cpl ELSE d.attr.dpl = s.env.cpl,
         NEW eip, NEW t, t = ToCode(x, sel, d, eip)
  PROVE  Goes(s.env.old_exception, t)
<1> DEFINE to == WithRpl(sel, x.env.cpl)
           y == Load(x, "CS", to, d)
           m == [y.env EXCEPT !["eip"] = eip]
<1>1. t = SetEnv(y, m)
  BY DEF ToCode, SetEnv
<1>2. s.env.cpl \in Rings /\ SoundFlags(s.env.eflags) /\ ("VM" \in s.env.eflags => s.env.cpl = 3)
  BY DEF Ready, Well, SoundEnv
<1>3. to.rpl = s.env.cpl /\ "CS" \in SegRegs /\ "SS" \in SegRegs \ {"CS"}
  BY DEF WithRpl, Selectors, SegRegs
<1> HIDE DEF to
<1>4. /\ Mid(y, s) /\ y.env.segs["CS"].sel = to /\ y.env.segs["CS"].attr = d.attr
      /\ y.env.segs["SS"] = s.env.segs["SS"]
      /\ y.env.cpl = s.env.cpl /\ y.env.eflags = s.env.eflags
  BY <1>2, <1>3, MidLoad
<1> HIDE DEF y
<1>5. Changes(m, y.env, {"eip"})
  <2>1. IsEnv(y.env) /\ "eip" \in TaskFields
    BY <1>4 DEF Mid, Good, TaskFields
  <2> QED BY <2>1, FieldSet
<1> HIDE DEF m
<1>6. Mid(t, s) /\ t.env = m /\ t.env.segs = y.env.segs
  BY <1>1, <1>4, <1>5, MidEnv
<1>7. m.cpl = s.env.cpl /\ m.eflags = s.env.eflags
  BY <1>4, <1>5, ChangesFields
<1>8. Settled(t.env)
  <2>1. ~lowered => LevelsAgree(s.env)
    BY DEF Settled
  <2> QED BY <1>3, <1>4, <1>6, <1>7, <2>1 DEF Settled, LevelsAgree
<1> QED BY <1>2, <1>6, <1>7, <1>8, MidGoes

\* What DirectBad lets through.
LEMMA DirectIs ==
  ASSUME NEW s, SoundEnv(s.env), NEW sel, NEW d, ~DirectBad(s, sel, d), d.attr \in Attrs
  PROVE  /\ d.attr.kind = "code"
         /\ IF d.attr.conf THEN d.attr.dpl <= s.env.cpl ELSE d.attr.dpl = s.env.cpl
<1>1. s.env.cpl \in 0 .. 3 /\ d.attr.dpl \in 0 .. 3
  BY DEF SoundEnv, Attrs, Rings
<1>2. /\ d.attr.kind = "code"
      /\ d.attr.conf => ~(d.attr.dpl > s.env.cpl)
      /\ ~d.attr.conf => d.attr.dpl = s.env.cpl
  BY DEF DirectBad
<1> QED BY ONLY <1>1, <1>2

\* A far jump.
LEMMA Jumped ==
  ASSUME NEW s, Ready(s), InProtected(s.env), Settled(s.env), NEW sel \in Selectors, NEW eip,
         NEW t, t = helper_ljmp_protected(s, sel, eip)
  PROVE  Outcome(s.env.old_exception, t)
<1> DEFINE d == load_segment(s, sel)
           cs == load_segment(s, d.target)
           wide == "LMA" \in s.env.hflags \/ d.attr.l
           a1 == DirectBad(s, sel, d)
           a2 == ~d.attr.p
           a3 == eip > Limit /\ ~wide
           b1 == GateBad(s, sel, d)
           c1 == d.sys # "callgate" \/ GateBad(s, sel, d)
           c3 == DirectBad(s, WithRpl(d.target, 0), cs) \/ ~cs.attr.p
           direct == ToCode(s, sel, d, eip)
           task == switch_tss(s, sel, d, "jmp", Next_eip(s))
           gate == ToCode(s, d.target, cs, 0)
<1>0. Ready(s) /\ NP \in Vectors /\ TS \in Vectors /\ GP \in Vectors
  BY DEF Vectors
<1>1. /\ d.attr \in Attrs /\ cs.attr \in Attrs /\ Mid(s, s) /\ SoundEnv(s.env)
      /\ d.sys = "callgate" => d.target \in Selectors
  BY <1>0, DescriptorIs, MidStarts DEF Ready, Well
<1>2. CASE NotFound(s, sel)
  <2>1. t = raise_exception_err(s, GP)
    BY <1>2 DEF helper_ljmp_protected
  <2> QED BY ONLY <1>0, <2>1, ErrorRaised DEF Outcome
<1>3. CASE ~NotFound(s, sel) /\ IsS(d.attr)
  <2>1. t = Checked(s, << <<a1, GP>>, <<a2, NP>>, <<a3, GP>> >>, direct)
    BY <1>3 DEF helper_ljmp_protected
  <2>2. ASSUME ~a1
        PROVE  Goes(s.env.old_exception, direct)
    <3> HIDE DEF d
    <3>1. /\ d.attr.kind = "code"
          /\ IF d.attr.conf THEN d.attr.dpl <= s.env.cpl ELSE d.attr.dpl = s.env.cpl
      BY <1>1, <2>2, DirectIs
    <3> QED BY <1>1, <3>1, CodeLoaded
  <2> HIDE DEF a1, a2, a3, direct
  <2>3. (t = direct /\ ~a1) \/ Fails(s.env.old_exception, t)
    <3> DEFINE tests == << <<a1, GP>>, <<a2, NP>>, <<a3, GP>> >>
    <3>1. /\ DOMAIN tests = 1 .. 3 /\ tests[1][1] = a1
          /\ tests[1][2] = GP /\ tests[2][2] = NP /\ tests[3][2] = GP
      OBVIOUS
    <3>2. t = Checked(s, tests, direct)
      BY <2>1
    <3> HIDE DEF tests
    <3> QED BY ONLY <1>0, <3>1, <3>2, Tests3
  <2> QED BY <2>2, <2>3 DEF Outcome
<1>4. CASE ~NotFound(s, sel) /\ ~IsS(d.attr) /\ IsTask(s, sel, d)
  <2>1. t = Checked(s, << <<b1, GP>> >>, task)
    BY <1>4 DEF helper_ljmp_protected
  <2>2. Outcome(s.env.old_exception, task)
    <3>1. d.sys = "taskgate" \/ (d.sys = "tss" /\ d = load_segment(s, sel))
      BY <1>4 DEF IsTask
    <3> HIDE DEF d
    <3> QED BY <3>1, Switched
  <2> HIDE DEF b1, task
  <2>3. t = task \/ Fails(s.env.old_exception, t)
    <3> DEFINE tests == << <<b1, GP>> >>
    <3>1. DOMAIN tests = 1 .. 1 /\ tests[1][2] = GP
      OBVIOUS
    <3>2. t = Checked(s, tests, task)
      BY <2>1
    <3> HIDE DEF tests
    <3> QED BY ONLY <1>0, <3>1, <3>2, Tests1
  <2> QED BY <2>2, <2>3 DEF Outcome
<1>5. CASE ~NotFound(s, sel) /\ ~IsS(d.attr) /\ ~IsTask(s, sel, d)
  <2>1. t = Checked(s, << <<c1, GP>>, <<a2, NP>>, <<c3, GP>> >>, gate)
    BY <1>5 DEF helper_ljmp_protected
  <2>2. ASSUME ~c1, ~c3
        PROVE  Goes(s.env.old_exception, gate)
    <3>1. d.sys = "callgate" /\ ~DirectBad(s, WithRpl(d.target, 0), cs)
      BY <2>2
    <3> HIDE DEF cs, d
    <3>2. /\ cs.attr.kind = "code"
          /\ IF cs.attr.conf THEN cs.attr.dpl <= s.env.cpl ELSE cs.attr.dpl = s.env.cpl
      BY <1>1, <3>1, DirectIs
    <3> QED BY <1>1, <3>1, <3>2, CodeLoaded
  <2> HIDE DEF c1, a2, c3, gate
  <2>3. (t = gate /\ ~c1 /\ ~c3) \/ Fails(s.env.old_exception, t)
    <3> DEFINE tests == << <<c1, GP>>, <<a2, NP>>, <<c3, GP>> >>
    <3>1. /\ DOMAIN tests = 1 .. 3 /\ tests[1][1] = c1 /\ tests[3][1] = c3
          /\ tests[1][2] = GP /\ tests[2][2] = NP /\ tests[3][2] = GP
      OBVIOUS
    <3>2. t = Checked(s, tests, gate)
      BY <2>1
    <3> HIDE DEF tests
    <3> QED BY ONLY <1>0, <3>1, <3>2, Tests3
  <2> QED BY <2>2, <2>3 DEF Outcome
<1> QED BY <1>2, <1>3, <1>4, <1>5

\* What TargetBad lets through.
LEMMA TargetIs ==
  ASSUME NEW s, SoundEnv(s.env), NEW sel, ~TargetBad(s, sel)
  PROVE  LET a == load_segment(s, sel).attr
         IN  a.kind = "code" /\ a.dpl \in Rings /\ s.env.cpl \in Rings /\ a.dpl <= s.env.cpl
<1> DEFINE a == load_segment(s, sel).attr
<1>1. s.env.cpl \in 0 .. 3 /\ a.dpl \in 0 .. 3
  <2>1. a \in Attrs
    BY DescriptorIs
  <2> QED BY <2>1 DEF SoundEnv, Attrs, Rings
<1>2. a.kind = "code" /\ ~(a.dpl > s.env.cpl)
  BY DEF TargetBad
<1> HIDE DEF a
<1>3. a.kind = "code" /\ a.dpl \in 0 .. 3 /\ s.env.cpl \in 0 .. 3 /\ a.dpl <= s.env.cpl
  BY ONLY <1>1, <1>2
<1> QED BY <1>3 DEF a, Rings

\* The call gate to conforming code that lowers the level.
GoesDown(s, t) ==
  /\ Well(t) /\ t.exc = NoExc /\ t.env.old_exception = s.env.old_exception
  /\ t.env.segs["CS"].attr.conf /\ t.env.cpl < s.env.cpl /\ t.env.segs["SS"] = s.env.segs["SS"]

\* A call gate.
LEMMA ThroughGate ==
  ASSUME NEW s, Ready(s), InProtected(s.env), Settled(s.env), NEW gate, gate.target \in Selectors,
         NEW t, t = CallThroughGate(s, gate)
  PROVE  Outcome(s.env.old_exception, t) \/ GoesDown(s, t)
<1> DEFINE e == s.env
           d == load_segment(s, gate.target)
           dpl == d.attr.dpl
           inner == ~d.attr.conf /\ dpl < e.cpl
           ss == Tss[e.tr.idx].ss[dpl]
           esp == IF inner THEN Tss[e.tr.idx].esp[dpl] ELSE e.esp
           frame == Frame(s, IF gate.attr.b THEN 1 ELSE 0, Next_eip(s), inner, FALSE)
           s1 == Push(s, esp, frame)
           s2 == IF inner THEN Load(s1, "SS", WithRpl(ss, dpl), load_segment(s, ss)) ELSE s1
           s3 == Load(s2, "CS", WithRpl(gate.target, dpl), d)
           m == StartAt(s3.env, dpl, {})
           done == [s3 EXCEPT !.env = StartAt(@, dpl, {})]
           a1 == TargetBad(s, gate.target)
           a2 == ~d.attr.p
           a3 == inner /\ InnerStackBad(s, dpl)
           down == d.attr.conf /\ dpl # e.cpl
           At(x) == \/ lowered \/ IsNull(WithRpl(x.env.segs["SS"].sel, 0))
                    \/ x.env.segs["SS"].attr.dpl = dpl
           Keeps(x) == IF down THEN x.env.segs["SS"] = e.segs["SS"] ELSE At(x)
<1>0. Ready(s) /\ NP \in Vectors /\ TS \in Vectors /\ GP \in Vectors
  BY DEF Vectors
<1>1. t = Checked(s, << <<a1, GP>>, <<a2, NP>>, <<a3, TS>> >>, done)
  BY DEF CallThroughGate
<1>2. ASSUME ~a1, ~a3
      PROVE  Goes(s.env.old_exception, done) \/ GoesDown(s, done)
  <2>1. SoundEnv(e) /\ SoundFlags(e.eflags) /\ ("VM" \in e.eflags => e.cpl = 3)
        /\ "CS" \in SegRegs /\ "SS" \in SegRegs
    BY DEF Ready, Well, SoundEnv, SegRegs
  <2>2. /\ ~TargetBad(s, gate.target)
        /\ inner => ~InnerStackBad(s, dpl)
        /\ done = SetEnv(s3, m)
    BY <1>2 DEF SetEnv
  <2> HIDE DEF a1, a2, a3, done
  <2>3. d.attr.kind = "code" /\ dpl \in Rings /\ e.cpl \in Rings /\ dpl <= e.cpl
    <3>1. SoundEnv(s.env) /\ ~TargetBad(s, gate.target)
      <4> HIDE DEF d, dpl, inner
      <4> QED BY <2>1, <2>2
    <3> QED BY ONLY <3>1, TargetIs DEF dpl, d, e
  <2>4. /\ inner \/ down \/ dpl = e.cpl
        /\ down => ~inner /\ dpl < e.cpl
    BY <2>3 DEF Rings
  <2>5. inner => load_segment(s, ss).attr.dpl = dpl
    <3>1. ~InnerStackBad(s, dpl) => load_segment(s, ss).attr.dpl = dpl
      <4> HIDE DEF dpl
      <4> QED BY ONLY InnerStackBad(s, dpl) \in BOOLEAN DEF InnerStackBad, ss, e
    <3> HIDE DEF inner, dpl, d, ss
    <3> QED BY <2>2, <3>1
  <2>6. Framed(frame)
    BY <2>1, FrameIs
  <2>7. (~lowered => LevelsAgree(e)) /\ "VM" \notin e.eflags
    BY DEF Settled, InProtected
  <2>8. WithRpl(gate.target, dpl).rpl = dpl
    BY DEF WithRpl, Selectors
  <2> HIDE DEF frame, esp
  <2>9. Mid(s1, s) /\ s1.env.segs = e.segs /\ s1.env.eflags = e.eflags
    BY <2>6, MidStarts, MidPush
  <2> HIDE DEF s1
  <2>10. Mid(s2, s) /\ Keeps(s2) /\ s2.env.eflags = e.eflags
    <3>1. CASE ~inner
      <4>1. s2 = s1 /\ (down \/ dpl = e.cpl)
        BY <2>4, <3>1
      <4> HIDE DEF s2, dpl, down, d
      <4> QED BY <2>7, <2>9, <4>1 DEF LevelsAgree
    <3>2. CASE inner
      <4>1. s2 = Load(s1, "SS", WithRpl(ss, dpl), load_segment(s, ss))
        BY <3>2
      <4> DEFINE at == load_segment(s, ss)
                 top == WithRpl(ss, dpl)
      <4>2. s2 = Load(s1, "SS", top, at) /\ at.attr.dpl = dpl
        <5> HIDE DEF inner, dpl, s2, ss, d
        <5> QED BY ONLY <2>5, <3>2, <4>1
      <4> HIDE DEF s2, at, top, dpl, d, ss
      <4>3. /\ Mid(s2, s) /\ s2.env.segs["SS"].attr = at.attr /\ s2.env.eflags = s1.env.eflags
        BY ONLY <2>1, <2>9, <4>2, MidLoad
      <4>4. ~down
        BY <2>4, <3>2
      <4> HIDE DEF down
      <4> QED BY ONLY <2>9, <4>2, <4>3, <4>4
    <3> QED BY <3>1, <3>2
  <2> HIDE DEF s2, inner, ss
  <2>11. /\ Mid(s3, s) /\ Keeps(s3) /\ s3.env.segs["CS"].sel.rpl = dpl
         /\ s3.env.segs["CS"].attr = d.attr /\ s3.env.eflags = e.eflags
    <3>1. s3 = Load(s2, "CS", WithRpl(gate.target, dpl), d)
      OBVIOUS
    <3>2. "SS" \in SegRegs \ {"CS"}
      BY <2>1
    <3> HIDE DEF s3, dpl, d, down
    <3> QED BY <2>1, <2>3, <2>8, <2>10, <3>1, <3>2, MidLoad
  <2> HIDE DEF s3
  <2>12. Changes(m, s3.env, {"cpl", "eip", "eflags"}) /\ m.cpl = dpl /\ m.eflags = s3.env.eflags
    <3>1. IsEnv(s3.env)
      BY <2>11 DEF Mid, Good
    <3> HIDE DEF dpl
    <3> QED BY ONLY <3>1 DEF m, StartAt, SetCpl, Changes, IsEnv, TaskFields
  <2> HIDE DEF m
  <2>13. Mid(done, s) /\ done.env = m /\ done.env.segs = s3.env.segs
    BY <2>2, <2>11, <2>12, MidEnv
  <2>14. m.eflags = e.eflags
    BY <2>11, <2>12
  <2>15. CASE ~down
    <3>1. Settled(done.env)
      <4>1. IF d.attr.conf THEN d.attr.dpl = dpl ELSE d.attr.dpl = dpl
        OBVIOUS
      <4> HIDE DEF dpl, down, d
      <4> QED BY ONLY <2>3, <2>11, <2>12, <2>13, <2>15, <4>1 DEF Settled, LevelsAgree, Rings
    <3> HIDE DEF dpl, d, down
    <3> QED BY <2>1, <2>3, <2>7, <2>12, <2>13, <2>14, <3>1, MidGoes
  <2>16. CASE down
    <3>1. d.attr.conf /\ dpl < e.cpl
      BY <2>4, <2>16
    <3> HIDE DEF dpl, d, down
    <3>2. Well(done)
      BY <2>1, <2>3, <2>7, <2>12, <2>13, <2>14, MidWell
    <3> QED BY <2>11, <2>12, <2>13, <2>16, <3>1, <3>2 DEF GoesDown, Mid
  <2> QED BY <2>15, <2>16
<1> HIDE DEF a1, a2, a3, done
<1>3. (t = done /\ ~a1 /\ ~a3) \/ Fails(s.env.old_exception, t)
  <2> DEFINE tests == << <<a1, GP>>, <<a2, NP>>, <<a3, TS>> >>
  <2>1. /\ DOMAIN tests = 1 .. 3 /\ tests[1][1] = a1 /\ tests[3][1] = a3
        /\ tests[1][2] = GP /\ tests[2][2] = NP /\ tests[3][2] = TS
    OBVIOUS
  <2>2. t = Checked(s, tests, done)
    BY <1>1
  <2> HIDE DEF tests
  <2> QED BY ONLY <1>0, <2>1, <2>2, Tests3
<1> QED BY <1>2, <1>3 DEF Outcome

\* A far call.
LEMMA Called ==
  ASSUME NEW s, Ready(s), InProtected(s.env), Settled(s.env), NEW sel \in Selectors, NEW eip,
         NEW shift, NEW t, t = helper_lcall_protected(s, sel, eip, shift)
  PROVE  Outcome(s.env.old_exception, t) \/ GoesDown(s, t)
<1> DEFINE d == load_segment(s, sel)
           frame == Frame(s, shift, Next_eip(s), FALSE, FALSE)
           x == Push(s, s.env.esp, frame)
           a1 == DirectBad(s, sel, d)
           a2 == ~d.attr.p
           a3 == eip > Limit /\ shift # 2
           b1 == GateBad(s, sel, d)
           c1 == d.sys # "callgate" \/ GateBad(s, sel, d)
           direct == ToCode(x, sel, d, eip)
           task == switch_tss(s, sel, d, "call", Next_eip(s))
           gate == CallThroughGate(s, d)
<1>0. Ready(s) /\ NP \in Vectors /\ TS \in Vectors /\ GP \in Vectors
  BY DEF Vectors
<1>1. /\ d.attr \in Attrs /\ SoundEnv(s.env)
      /\ d.sys = "callgate" => d.target \in Selectors
  BY <1>0, DescriptorIs DEF Ready, Well
<1>2. CASE NotFound(s, sel)
  <2>1. t = raise_exception_err(s, GP)
    BY <1>2 DEF helper_lcall_protected
  <2> QED BY ONLY <1>0, <2>1, ErrorRaised DEF Outcome
<1>3. CASE ~NotFound(s, sel) /\ IsS(d.attr)
  <2>1. t = Checked(s, << <<a1, GP>>, <<a2, NP>>, <<a3, GP>> >>, direct)
    BY <1>3 DEF helper_lcall_protected
  <2>2. ASSUME ~a1
        PROVE  Goes(s.env.old_exception, direct)
    <3>1. Framed(frame)
      BY <1>1, FrameIs
    <3> HIDE DEF d, frame
    <3>2. /\ d.attr.kind = "code"
          /\ IF d.attr.conf THEN d.attr.dpl <= s.env.cpl ELSE d.attr.dpl = s.env.cpl
      BY <1>1, <2>2, DirectIs
    <3>3. Mid(x, s) /\ x.env.segs = s.env.segs /\ x.env.cpl = s.env.cpl
          /\ x.env.eflags = s.env.eflags
      BY <3>1, MidStarts, MidPush
    <3> HIDE DEF x
    <3> QED BY <3>2, <3>3, CodeLoaded
  <2> HIDE DEF a1, a2, a3, direct
  <2>3. (t = direct /\ ~a1) \/ Fails(s.env.old_exception, t)
    <3> DEFINE tests == << <<a1, GP>>, <<a2, NP>>, <<a3, GP>> >>
    <3>1. /\ DOMAIN tests = 1 .. 3 /\ tests[1][1] = a1
          /\ tests[1][2] = GP /\ tests[2][2] = NP /\ tests[3][2] = GP
      OBVIOUS
    <3>2. t = Checked(s, tests, direct)
      BY <2>1
    <3> HIDE DEF tests
    <3> QED BY ONLY <1>0, <3>1, <3>2, Tests3
  <2> QED BY <2>2, <2>3 DEF Outcome
<1>4. CASE ~NotFound(s, sel) /\ ~IsS(d.attr) /\ IsTask(s, sel, d)
  <2>1. t = Checked(s, << <<b1, GP>> >>, task)
    BY <1>4 DEF helper_lcall_protected
  <2>2. Outcome(s.env.old_exception, task)
    <3>1. d.sys = "taskgate" \/ (d.sys = "tss" /\ d = load_segment(s, sel))
      BY <1>4 DEF IsTask
    <3> HIDE DEF d
    <3> QED BY <3>1, Switched
  <2> HIDE DEF b1, task
  <2>3. t = task \/ Fails(s.env.old_exception, t)
    <3> DEFINE tests == << <<b1, GP>> >>
    <3>1. DOMAIN tests = 1 .. 1 /\ tests[1][2] = GP
      OBVIOUS
    <3>2. t = Checked(s, tests, task)
      BY <2>1
    <3> HIDE DEF tests
    <3> QED BY ONLY <1>0, <3>1, <3>2, Tests1
  <2> QED BY <2>2, <2>3 DEF Outcome
<1>5. CASE ~NotFound(s, sel) /\ ~IsS(d.attr) /\ ~IsTask(s, sel, d)
  <2>1. t = Checked(s, << <<c1, GP>>, <<a2, NP>> >>, gate)
    BY <1>5 DEF helper_lcall_protected
  <2>2. ASSUME ~c1
        PROVE  Outcome(s.env.old_exception, gate) \/ GoesDown(s, gate)
    <3>1. d.sys = "callgate"
      BY <2>2
    <3> HIDE DEF d
    <3> QED BY <1>1, <3>1, ThroughGate
  <2> HIDE DEF c1, a2, gate
  <2>3. (t = gate /\ ~c1) \/ Fails(s.env.old_exception, t)
    <3> DEFINE tests == << <<c1, GP>>, <<a2, NP>> >>
    <3>1. /\ DOMAIN tests = 1 .. 2 /\ tests[1][1] = c1
          /\ tests[1][2] = GP /\ tests[2][2] = NP
      OBVIOUS
    <3>2. t = Checked(s, tests, gate)
      BY <2>1
    <3> HIDE DEF tests
    <3> QED BY ONLY <1>0, <3>1, <3>2, Tests2
  <2> QED BY <2>2, <2>3 DEF Outcome
<1> QED BY <1>2, <1>3, <1>4, <1>5

\* A far call of real mode.
LEMMA CalledReal ==
  ASSUME NEW s, Ready(s), ~InProtected(s.env), NEW sel \in Selectors, NEW eip, NEW shift,
         NEW t, t = helper_lcall_real(s, sel, eip, shift)
  PROVE  Goes(s.env.old_exception, t)
<1> DEFINE frame == Frame(s, shift, Next_eip(s), FALSE, FALSE)
           x == Push(s, s.env.esp, frame)
           y == RealCs(x, sel)
           m == [y.env EXCEPT !["eip"] = eip]
<1>1. t = SetEnv(y, m)
  BY DEF helper_lcall_real, SetEnv
<1>2. Framed(frame)
  BY FrameIs DEF Ready, Well
<1> HIDE DEF frame
<1>3. Mid(x, s) /\ x.env.cpl = s.env.cpl /\ x.env.eflags = s.env.eflags
  BY <1>2, MidStarts, MidPush
<1> HIDE DEF x
<1>4. sel.rpl \in Rings
  BY DEF Selectors
<1>5. Mid(y, s) /\ y.env.eflags = s.env.eflags
  BY <1>3, <1>4, MidReal
<1>6. Changes(m, y.env, {"eip"})
  <2>1. IsEnv(y.env) /\ "eip" \in TaskFields
    BY <1>5 DEF Mid, Good, TaskFields
  <2> HIDE DEF y
  <2> QED BY <2>1, FieldSet
<1>7. m.eflags = s.env.eflags
  BY <1>5, <1>6, ChangesFields
<1> HIDE DEF m
<1> QED BY <1>1, <1>3, <1>4, <1>6, <1>7, RealArrives

\* What is on top of the stack.
LEMMA TopIs ==
  ASSUME NEW s, Ready(s)
  PROVE  Framed(Top(s))
BY HeldIs DEF Ready, Well, Top

\* The far return of real mode.
LEMMA ReturnedReal ==
  ASSUME NEW s, Ready(s), ~InProtected(s.env), NEW f, f = Top(s),
         NEW t, t = [RealCs(Pop(s), f.cs) EXCEPT !.env.eip = f.eip]
  PROVE  Goes(s.env.old_exception, t)
<1> DEFINE x == Pop(s)
           y == RealCs(x, f.cs)
           m == [y.env EXCEPT !["eip"] = f.eip]
<1>1. t = SetEnv(y, m)
  BY DEF SetEnv
<1>2. f.cs.rpl \in Rings
  BY TopIs DEF Framed
<1>3. Mid(x, s) /\ x.env.cpl = s.env.cpl /\ x.env.eflags = s.env.eflags
  BY MidStarts, MidPop
<1> HIDE DEF x
<1>4. Mid(y, s) /\ y.env.eflags = s.env.eflags
  BY <1>2, <1>3, MidReal
<1>5. Changes(m, y.env, {"eip"})
  <2>1. IsEnv(y.env) /\ "eip" \in TaskFields
    BY <1>4 DEF Mid, Good, TaskFields
  <2> HIDE DEF y
  <2> QED BY <2>1, FieldSet
<1>6. m.eflags = s.env.eflags
  BY <1>4, <1>5, ChangesFields
<1> HIDE DEF m
<1>7. Ready(s) /\ ~InProtected(s.env)
  OBVIOUS
<1> QED BY ONLY <1>1, <1>2, <1>3, <1>5, <1>6, <1>7, RealArrives

\* An interrupt return in real mode, or in virtual 8086 mode at IOPL 3.
LEMMA IretReal ==
  ASSUME NEW s, Ready(s), ~InProtected(s.env), NEW shift, NEW t, t = helper_iret_real(s, shift)
  PROVE  Goes(s.env.old_exception, t)
<1> DEFINE f == Top(s)
           vm == "VM" \in s.env.eflags
           mask == {"TF", "AC", "ID", "IF", "NT"} \cup (IF shift = 0 THEN {} ELSE {"RF"})
                     \cup (IF vm THEN {} ELSE {"IOPL"})
           x == Pop(s)
           y == RealCs(x, f.cs)
           e == [y.env EXCEPT !["eip"] = f.eip]
           m == LoadEflags(e, f, mask)
<1>1. t = SetEnv(y, m)
  BY DEF helper_iret_real, Continue, SetEnv
<1>2. f.cs.rpl \in Rings
  BY TopIs DEF Framed
<1>3. Mid(x, s) /\ x.env.cpl = s.env.cpl /\ x.env.eflags = s.env.eflags
  BY MidStarts, MidPop
<1>4. "VM" \notin mask
  OBVIOUS
<1> HIDE DEF x, f, mask
<1>5. Mid(y, s) /\ y.env.eflags = s.env.eflags
  BY <1>2, <1>3, MidReal
<1>6. Changes(e, y.env, {"eip"})
  <2>1. IsEnv(y.env) /\ "eip" \in TaskFields
    BY <1>5 DEF Mid, Good, TaskFields
  <2> HIDE DEF y
  <2> QED BY <2>1, FieldSet
<1>7. IsEnv(e) /\ e.eflags = s.env.eflags
  BY <1>5, <1>6, ChangesFields
<1> HIDE DEF e
<1>8. /\ Changes(m, e, {"eflags", "iopl"})
      /\ "VM" \in m.eflags <=> "VM" \in s.env.eflags
  BY <1>4, <1>7, FlagsLoaded
<1> HIDE DEF m
<1>9. Changes(m, y.env, {"eip"} \cup {"eflags", "iopl"})
  BY <1>6, <1>8, ChangesTwice
<1> QED BY <1>1, <1>2, <1>3, <1>8, <1>9, RealArrives

\* An offset and a stack pointer.
LEMMA PlaceSet ==
  ASSUME NEW e, IsEnv(e), NEW eip, NEW w, w = [e EXCEPT !["eip"] = eip],
         NEW esp, NEW m, m = [w EXCEPT !["esp"] = esp]
  PROVE  Changes(m, e, {"eip", "esp"})
<1>1. "eip" \in TaskFields /\ "esp" \in TaskFields
  BY DEF TaskFields
<1>2. Changes(w, e, {"eip"})
  BY <1>1, FieldSet
<1>3. Changes(m, w, {"esp"})
  <2>1. IsEnv(w)
    BY <1>2, ChangesFields
  <2> QED BY ONLY <1>1, <2>1, m = [w EXCEPT !["esp"] = esp], FieldSet
<1>4. Changes(m, e, {"eip"} \cup {"esp"})
  BY <1>2, <1>3, ChangesTwice
<1>5. {"eip"} \cup {"esp"} = {"eip", "esp"}
  OBVIOUS
<1> QED BY <1>4, <1>5

\* To virtual 8086 mode: level 3, with segments that are selectors only.
LEMMA ReturnedToVm ==
  ASSUME NEW s, Ready(s), NEW f, Framed(f), "VM" \in f.eflags, NEW t, t = return_to_vm86(s, f)
  PROVE  Goes(s.env.old_exception, t)
<1> DEFINE mask == {"TF", "AC", "ID", "IF", "IOPL", "VM", "NT"}
           x == Pop(s)
           e1 == LoadEflags(s.env, f, mask)
           m1 == LoadSegVm(e1, "CS", f.cs)
           m2 == SetCpl(m1, 3)
           m3 == LoadSegVm(m2, "SS", f.ss)
           m4 == LoadSegVm(m3, "DS", f.data)
           m == [m4 EXCEPT !.eip = f.eip, !.esp = f.esp]
           On(e) == /\ IsEnv(e) /\ SoundSegs(e.segs) /\ e.idt = s.env.idt /\ e.cr0 = s.env.cr0
                    /\ e.old_exception = s.env.old_exception /\ "VM" \in e.eflags
<1>0. /\ IsEnv(s.env) /\ SoundSegs(s.env.segs) /\ f.cs.rpl \in Rings /\ SoundFlags(f.eflags)
      /\ "CS" \in SegRegs /\ "SS" \in SegRegs /\ "DS" \in SegRegs
  BY ReadyIs DEF Ready, Framed, SegRegs
<1>1. t = SetEnv(x, m)
  BY DEF return_to_vm86, SetEnv
<1>2. \A e, reg, sel : LoadSegVm(e, reg, sel) = load_selector(e, TRUE, reg, sel)
  BY DEF load_selector
<1>3. On(e1)
  <2>1. Changes(e1, s.env, {"eflags", "iopl"})
        /\ ("VM" \in e1.eflags <=> "VM" \in IF "VM" \in mask THEN f.eflags ELSE s.env.eflags)
    BY <1>0, FlagsLoaded
  <2> HIDE DEF e1
  <2> QED BY <1>0, <2>1, ChangesFields
<1> HIDE DEF e1, x
<1>4. On(m1)
  <2>1. Changes(m1, e1, {"segs", "hflags"}) /\ SoundSegs(m1.segs)
    BY <1>0, <1>2, <1>3, SegSelectorLoaded
  <2> HIDE DEF m1
  <2> QED BY <1>3, <2>1, ChangesFields
<1> HIDE DEF m1
<1>5. On(m2) /\ m2.cpl = 3
  <2>1. Changes(m2, m1, {"cpl"}) /\ m2.cpl = 3
    BY <1>4 DEF SetCpl, Changes, IsEnv, TaskFields
  <2> HIDE DEF m2
  <2> QED BY <1>4, <2>1, ChangesFields
<1> HIDE DEF m2
<1>6. On(m3) /\ m3.cpl = 3
  <2>1. Changes(m3, m2, {"segs", "hflags"}) /\ SoundSegs(m3.segs)
    BY <1>0, <1>2, <1>5, SegSelectorLoaded
  <2> HIDE DEF m3
  <2> QED BY <1>5, <2>1, ChangesFields
<1> HIDE DEF m3
<1>7. On(m4) /\ m4.cpl = 3
  <2>1. Changes(m4, m3, {"segs", "hflags"}) /\ SoundSegs(m4.segs)
    BY <1>0, <1>2, <1>6, SegSelectorLoaded
  <2> HIDE DEF m4
  <2> QED BY <1>6, <2>1, ChangesFields
<1> HIDE DEF m4
<1>8. On(m) /\ m.cpl = 3
  <2>1. Changes(m, m4, {"eip", "esp"})
    <3>1. IsEnv(m4)
      BY <1>7
    <3> DEFINE w == [m4 EXCEPT !["eip"] = f.eip]
               esp == f.esp
    <3>2. m = [w EXCEPT !["esp"] = esp]
      OBVIOUS
    <3> HIDE DEF m
    <3>3. \A y : y = w => Changes([y EXCEPT !["esp"] = esp], m4, {"eip", "esp"})
      <4> HIDE DEF esp
      <4> QED BY <3>1, PlaceSet
    <3> HIDE DEF w
    <3> QED BY <3>2, <3>3
  <2> HIDE DEF m
  <2> QED BY <1>7, <2>1, ChangesFields
<1> HIDE DEF m
<1>9. Mid(t, s) /\ t.env = m
  <2>1. Mid(x, s)
    BY MidStarts, MidPop DEF x
  <2>2. IsMachine(t) /\ t.env = m /\ t.mem = x.mem /\ t.exc = x.exc
    BY <1>1, <2>1, OtherEnv DEF Mid, Good
  <2> QED BY <1>8, <2>1, <2>2 DEF Mid, Good
<1>10. 3 \in Rings /\ SoundFlags(t.env.eflags) /\ Settled(t.env)
  BY <1>0, <1>8, <1>9 DEF Rings, SoundFlags, Settled, InProtected
<1> QED BY <1>8, <1>9, <1>10, MidGoes

\* The last step of a return: the offset and the flags, not VM.
LEMMA MidFlags ==
  ASSUME NEW s, NEW x, Mid(x, s), NEW f, NEW mask, "VM" \notin mask,
         NEW y, y = Continue(x, f, mask)
  PROVE  /\ Mid(y, s) /\ y.env.segs = x.env.segs /\ y.env.cpl = x.env.cpl
         /\ "VM" \in y.env.eflags <=> "VM" \in x.env.eflags
<1> DEFINE e == [x.env EXCEPT !["eip"] = f.eip]
           m == LoadEflags(e, f, mask)
<1>1. y = SetEnv(x, m)
  BY DEF Continue, SetEnv
<1>2. IsEnv(x.env) /\ "eip" \in TaskFields
  BY DEF Mid, Good, TaskFields
<1>3. Changes(e, x.env, {"eip"})
  BY ONLY <1>2, FieldSet
<1> HIDE DEF e
<1>4. IsEnv(e) /\ e.eflags = x.env.eflags /\ e.cpl = x.env.cpl
  BY ONLY <1>3, ChangesFields
<1>5. Changes(m, e, {"eflags", "iopl"}) /\ ("VM" \in m.eflags <=> "VM" \in x.env.eflags)
  <2>1. \A n : n = LoadEflags(e, f, mask) =>
          /\ Changes(n, e, {"eflags", "iopl"})
          /\ "VM" \in n.eflags <=> "VM" \in IF "VM" \in mask THEN f.eflags ELSE e.eflags
    BY ONLY <1>4, FlagsLoaded
  <2> QED BY ONLY <1>4, <2>1, "VM" \notin mask DEF m
<1> HIDE DEF m
<1>6. Changes(m, x.env, {"eip"} \cup {"eflags", "iopl"})
  BY ONLY <1>3, <1>5, ChangesTwice
<1>7. Mid(y, s) /\ y.env = m /\ y.env.segs = x.env.segs
  <2>1. ({"eip"} \cup {"eflags", "iopl"}) \cap {"segs", "cr0", "idt", "old_exception"} = {}
    OBVIOUS
  <2> QED BY ONLY <1>1, <1>6, <2>1, Mid(x, s), MidEnv
<1>8. m.cpl = x.env.cpl
  BY ONLY <1>4, <1>5, ChangesFields
<1> QED BY ONLY <1>5, <1>7, <1>8

\* cpu_x86_set_cpl, and a new stack pointer, on the way.
LEMMA MidLevel ==
  ASSUME NEW s, NEW x, Mid(x, s), NEW cpl, NEW y, y = [x EXCEPT !.env = SetCpl(@, cpl)]
  PROVE  /\ Mid(y, s) /\ y.env.segs = x.env.segs /\ y.env.cpl = cpl
         /\ y.env.eflags = x.env.eflags
<1> DEFINE m == [x.env EXCEPT !["cpl"] = cpl]
<1>1. y = SetEnv(x, m)
  BY DEF SetEnv, SetCpl
<1>2. IsEnv(x.env) /\ "cpl" \in TaskFields
  BY DEF Mid, Good, TaskFields
<1>3. Changes(m, x.env, {"cpl"}) /\ m["cpl"] = cpl
  BY ONLY <1>2, FieldSet
<1> HIDE DEF m
<1>4. Mid(y, s) /\ y.env = m /\ y.env.segs = x.env.segs
  <2>1. {"cpl"} \cap {"segs", "cr0", "idt", "old_exception"} = {}
    OBVIOUS
  <2> QED BY ONLY <1>1, <1>3, <2>1, Mid(x, s), MidEnv
<1> QED BY <1>3, <1>4, ChangesFields

SetEsp(s, esp) == [s EXCEPT !.env.esp = esp]
\* The stack pointer is set, on the way.
LEMMA MidStack ==
  ASSUME NEW s, NEW x, Mid(x, s), NEW esp, NEW y, y = SetEsp(x, esp)
  PROVE  /\ Mid(y, s) /\ y.env.segs = x.env.segs /\ y.env.cpl = x.env.cpl
         /\ y.env.eflags = x.env.eflags
<1> DEFINE m == [x.env EXCEPT !["esp"] = esp]
<1>1. y = SetEnv(x, m)
  BY DEF SetEnv, SetEsp
<1>2. IsEnv(x.env) /\ "esp" \in TaskFields
  BY DEF Mid, Good, TaskFields
<1>3. Changes(m, x.env, {"esp"})
  BY ONLY <1>2, FieldSet
<1> HIDE DEF m
<1>4. Mid(y, s) /\ y.env = m /\ y.env.segs = x.env.segs
  <2>1. {"esp"} \cap {"segs", "cr0", "idt", "old_exception"} = {}
    OBVIOUS
  <2> QED BY ONLY <1>1, <1>3, <2>1, Mid(x, s), MidEnv
<1> QED BY <1>3, <1>4, ChangesFields

\* A data segment of an inner level is taken away.
LEMMA MidValidated ==
  ASSUME NEW s, NEW x, Mid(x, s), NEW cpl, NEW y, y = validate_seg(x, "DS", cpl)
  PROVE  /\ Mid(y, s) /\ y.env.cpl = x.env.cpl /\ y.env.eflags = x.env.eflags
         /\ y.env.segs["CS"] = x.env.segs["CS"] /\ y.env.segs["SS"] = x.env.segs["SS"]
<1>1. /\ "DS" \in SegRegs /\ "DS" # "CS"
      /\ "CS" \in SegRegs \ {"DS"} /\ "SS" \in SegRegs \ {"DS"}
  BY DEF SegRegs
<1>2. y = x \/ y = Load(x, "DS", NullSel, NoDesc)
  BY DEF validate_seg
<1>3. CASE y = x
  BY <1>3
<1>4. CASE y = Load(x, "DS", NullSel, NoDesc)
  BY <1>1, <1>4, MidLoad
<1> QED BY <1>2, <1>3, <1>4

\* A return has arrived at the level and the segment of the frame f.
Arrived(b, s, f, attr) ==
  /\ Mid(b, s) /\ b.env.cpl = f.cs.rpl /\ b.env.eflags = s.env.eflags
  /\ b.env.segs["CS"].sel = f.cs /\ b.env.segs["CS"].attr = attr
  /\ lowered \/ IsNull(WithRpl(b.env.segs["SS"].sel, 0)) \/ b.env.segs["SS"].attr.dpl = f.cs.rpl

\* At the same level ...
LEMMA SameReturned ==
  ASSUME NEW s, Ready(s), ~lowered => LevelsAgree(s.env), NEW f, Framed(f), NEW d,
         f.cs.rpl = s.env.cpl,
         NEW b, b = Load(Pop(s), "CS", f.cs, d)
  PROVE  Arrived(b, s, f, d.attr)
<1> DEFINE x == Pop(s)
<1>1. "CS" \in SegRegs /\ "SS" \in SegRegs \ {"CS"} /\ f.cs.rpl \in Rings
  BY DEF SegRegs, Framed
<1>2. /\ Mid(x, s) /\ x.env.segs = s.env.segs /\ x.env.cpl = s.env.cpl
      /\ x.env.eflags = s.env.eflags
  BY MidStarts, MidPop
<1>3. b = Load(x, "CS", f.cs, d)
  OBVIOUS
<1> HIDE DEF x
<1>4. /\ Mid(b, s) /\ b.env.segs["CS"].sel = f.cs /\ b.env.segs["CS"].attr = d.attr
      /\ b.env.segs["SS"] = x.env.segs["SS"]
      /\ b.env.cpl = x.env.cpl /\ b.env.eflags = x.env.eflags
  BY ONLY <1>1, <1>2, <1>3, MidLoad
<1>5. lowered \/ IsNull(WithRpl(s.env.segs["SS"].sel, 0)) \/ s.env.segs["SS"].attr.dpl = s.env.cpl
  BY DEF LevelsAgree
<1> QED BY <1>2, <1>4, <1>5 DEF Arrived

\* ... and at an outer one, on its stack.
LEMMA OuterReturned ==
  ASSUME NEW s, Ready(s), NEW f, Framed(f), NEW d,
         IsNull(f.ss) \/ load_segment(s, f.ss).attr.dpl = f.cs.rpl,
         NEW b, b = return_outer(s, f, d)
  PROVE  Arrived(b, s, f, d.attr)
<1> DEFINE rpl == f.cs.rpl
           flat == [attr |-> Attr("data", rpl), base |-> 0]
           ss == IF IsNull(f.ss) THEN flat ELSE load_segment(s, f.ss)
           x == Pop(s)
           y1 == Load(x, "SS", f.ss, ss)
           y2 == Load(y1, "CS", f.cs, d)
           y3 == [y2 EXCEPT !.env = SetCpl(@, rpl)]
           y4 == validate_seg(y3, "DS", rpl)
           esp == f.esp
<1>0. /\ "CS" \in SegRegs /\ "SS" \in SegRegs /\ "CS" # "SS" /\ "SS" \in SegRegs \ {"CS"}
      /\ f.cs.rpl \in Rings
  BY DEF SegRegs, Framed
<1>1. b = SetEsp(y4, esp)
  BY DEF return_outer, SetEsp
<1>2. ss.attr.dpl = rpl
  BY DEF Attr
<1> HIDE DEF ss, esp
<1>3. Mid(x, s) /\ x.env.eflags = s.env.eflags
  BY MidStarts, MidPop
<1> HIDE DEF x
<1>4. Mid(y1, s) /\ y1.env.segs["SS"].attr = ss.attr /\ y1.env.eflags = x.env.eflags
  <2>1. y1 = Load(x, "SS", f.ss, ss)
    OBVIOUS
  <2> HIDE DEF y1
  <2> QED BY ONLY <1>0, <1>3, <2>1, MidLoad
<1> HIDE DEF y1
<1>5. /\ Mid(y2, s) /\ y2.env.segs["CS"].sel = f.cs /\ y2.env.segs["CS"].attr = d.attr
      /\ y2.env.segs["SS"] = y1.env.segs["SS"] /\ y2.env.eflags = y1.env.eflags
  <2>1. y2 = Load(y1, "CS", f.cs, d)
    OBVIOUS
  <2> HIDE DEF y2
  <2> QED BY ONLY <1>0, <1>4, <2>1, MidLoad
<1> HIDE DEF y2
<1>6. /\ Mid(y3, s) /\ y3.env.segs = y2.env.segs /\ y3.env.cpl = rpl
      /\ y3.env.eflags = y2.env.eflags
  <2>1. y3 = [y2 EXCEPT !.env = SetCpl(@, rpl)]
    OBVIOUS
  <2> HIDE DEF y3, rpl
  <2> QED BY ONLY <1>5, <2>1, MidLevel
<1> HIDE DEF y3
<1>7. /\ Mid(y4, s) /\ y4.env.cpl = y3.env.cpl /\ y4.env.eflags = y3.env.eflags
      /\ y4.env.segs["CS"] = y3.env.segs["CS"] /\ y4.env.segs["SS"] = y3.env.segs["SS"]
  <2>1. y4 = validate_seg(y3, "DS", rpl)
    OBVIOUS
  <2> HIDE DEF y4, rpl
  <2> QED BY ONLY <1>6, <2>1, MidValidated
<1> HIDE DEF y4
<1>8. /\ Mid(b, s) /\ b.env.segs = y4.env.segs /\ b.env.cpl = y4.env.cpl
      /\ b.env.eflags = y4.env.eflags
  BY ONLY <1>1, <1>7, MidStack
<1> QED BY ONLY <1>2, <1>3, <1>4, <1>5, <1>6, <1>7, <1>8 DEF Arrived, rpl

\* A far return or an interrupt return of protected mode.
LEMMA Returned ==
  ASSUME NEW s, Ready(s), InProtected(s.env), Settled(s.env), NEW shift, NEW is_iret,
         NEW t, t = helper_ret_protected(s, shift, is_iret)
  PROVE  Outcome(s.env.old_exception, t)
<1> DEFINE e == s.env
           f == Top(s)
           d == load_segment(s, f.cs)
           rpl == f.cs.rpl
           cs64 == "CS64" \in e.hflags
           same == rpl = e.cpl /\ (~cs64 \/ ~is_iret)
           ss == load_segment(s, f.ss)
           nullss == IsNull(f.ss)
           inner == Load(Pop(s), "CS", f.cs, d)
           outer == return_outer(s, f, d)
           back == IF same THEN inner ELSE outer
           mask == IF is_iret THEN IretMask(e, shift) ELSE {}
           done == Continue(back, f, mask)
           a1 == NotFound(s, f.cs) \/ d.attr.kind # "code" \/ rpl < e.cpl
           a2 == IF d.attr.conf THEN d.attr.dpl > rpl ELSE d.attr.dpl # rpl
           a3 == ~d.attr.p
           a4 == ~same /\ nullss /\ ("LMA" \notin e.hflags \/ rpl = 3)
           a5 == ~same /\ ~nullss /\ (f.ss.rpl # rpl \/ ~WritableData(ss.attr))
           a6 == ~same /\ ~nullss /\ ss.attr.dpl # rpl
           a7 == ~same /\ ~nullss /\ ~ss.attr.p
           vm == is_iret /\ shift = 1 /\ "VM" \in f.eflags
           checked == Checked(s, << <<a1, GP>>, <<a2, GP>>, <<a3, NP>>, <<a4, GP>>, <<a5, GP>>,
                                    <<a6, GP>>, <<a7, NP>> >>, done)
<1>0. Ready(s) /\ NP \in Vectors /\ GP \in Vectors
  BY DEF Vectors
<1>1. Framed(f)
  BY TopIs
<1>2. t = IF vm THEN return_to_vm86(s, f) ELSE checked
  BY ONLY t = helper_ret_protected(s, shift, is_iret) DEF helper_ret_protected
<1>3. vm => "VM" \in f.eflags
  OBVIOUS
<1>4. ~a1 => d.attr.kind = "code"
  OBVIOUS
<1>5. ~a2 => ~(IF d.attr.conf THEN d.attr.dpl > rpl ELSE d.attr.dpl # rpl)
  OBVIOUS
<1>6. ~a6 => same \/ nullss \/ ss.attr.dpl = rpl
  OBVIOUS
<1>7. "VM" \notin mask
  BY DEF IretMask
<1>8. same => rpl = e.cpl
  OBVIOUS
<1> HIDE DEF vm, a1, a2, a3, a4, a5, a6, a7, mask, same, f
<1>9. ASSUME ~a1, ~a2, ~a6
      PROVE  Goes(s.env.old_exception, done)
  <2>1. /\ "VM" \notin e.eflags /\ (~lowered => LevelsAgree(e))
    BY DEF Settled, InProtected
  <2>2. d.attr \in Attrs /\ rpl \in Rings
    BY <1>1, DescriptorIs DEF Framed
  <2>3. /\ d.attr.kind = "code"
        /\ IF d.attr.conf THEN d.attr.dpl <= rpl ELSE d.attr.dpl = rpl
    <3>1. d.attr.dpl \in 0 .. 3 /\ rpl \in 0 .. 3
      BY <2>2 DEF Attrs, Rings
    <3> HIDE DEF d, rpl
    <3> QED BY ONLY <1>4, <1>5, <1>9, <3>1
  <2> HIDE DEF d
  <2>4. Arrived(back, s, f, d.attr)
    <3>1. CASE same
      <4>1. f.cs.rpl = s.env.cpl /\ (~lowered => LevelsAgree(s.env))
        BY <1>8, <2>1, <3>1
      <4>2. \A b : b = inner => Arrived(b, s, f, d.attr)
        BY ONLY <1>0, <1>1, <4>1, SameReturned DEF inner
      <4>3. back = inner
        BY <3>1
      <4> HIDE DEF back, inner
      <4> QED BY ONLY <4>2, <4>3
    <3>2. CASE ~same
      <4>1. IsNull(f.ss) \/ load_segment(s, f.ss).attr.dpl = f.cs.rpl
        BY ONLY <1>6, <1>9, <3>2 DEF ss, nullss, rpl
      <4>2. \A b : b = outer => Arrived(b, s, f, d.attr)
        BY ONLY <1>0, <1>1, <4>1, OuterReturned DEF outer
      <4>3. back = outer
        BY <3>2
      <4> HIDE DEF back, outer
      <4> QED BY ONLY <4>2, <4>3
    <3> QED BY <3>1, <3>2
  <2> HIDE DEF back
  <2>5. /\ Mid(done, s) /\ done.env.segs = back.env.segs /\ done.env.cpl = back.env.cpl
        /\ "VM" \in done.env.eflags <=> "VM" \in back.env.eflags
    <3>1. Mid(back, s) /\ done = Continue(back, f, mask)
      BY <2>4 DEF Arrived
    <3> HIDE DEF done
    <3> QED BY ONLY <1>7, <3>1, MidFlags
  <2> HIDE DEF done
  <2>6. Settled(done.env) /\ "VM" \notin done.env.eflags
    BY ONLY <2>1, <2>3, <2>4, <2>5 DEF Settled, LevelsAgree, Arrived, rpl
  <2>7. done.env.cpl \in Rings /\ SoundFlags(done.env.eflags)
    BY ONLY <2>2, <2>4, <2>5, <2>6 DEF Arrived, SoundFlags, rpl
  <2> QED BY ONLY <1>0, <2>5, <2>6, <2>7, MidGoes
<1> HIDE DEF done
<1>10. CASE vm
  <2>1. t = return_to_vm86(s, f) /\ "VM" \in f.eflags
    BY <1>2, <1>3, <1>10
  <2>2. Goes(s.env.old_exception, t)
    BY ONLY <1>0, <1>1, <2>1, ReturnedToVm
  <2> QED BY <2>2 DEF Outcome
<1>11. CASE ~vm
  <2> DEFINE tests == << <<a1, GP>>, <<a2, GP>>, <<a3, NP>>, <<a4, GP>>, <<a5, GP>>,
                         <<a6, GP>>, <<a7, NP>> >>
  <2>1. /\ DOMAIN tests = 1 .. 7 /\ tests[1][1] = a1 /\ tests[2][1] = a2 /\ tests[6][1] = a6
        /\ tests[1][2] = GP /\ tests[2][2] = GP /\ tests[3][2] = NP /\ tests[4][2] = GP
        /\ tests[5][2] = GP /\ tests[6][2] = GP /\ tests[7][2] = NP
    OBVIOUS
  <2>2. t = Checked(s, tests, done)
    BY <1>2, <1>11
  <2> HIDE DEF tests
  <2>3. (t = done /\ ~a1 /\ ~a2 /\ ~a6) \/ Fails(s.env.old_exception, t)
    BY ONLY <1>0, <2>1, <2>2, Tests7
  <2> QED BY <1>9, <2>3 DEF Outcome
<1> QED BY <1>10, <1>11

\* iret: from a nested task to the one it is linked to, or from a handler.
LEMMA IretProtected ==
  ASSUME NEW s, Ready(s), InProtected(s.env), Settled(s.env), NEW shift,
         NEW t, t = helper_iret_protected(s, shift)
  PROVE  Outcome(s.env.old_exception, t)
<1> DEFINE link == Sel(s.mem.tss[s.env.tr.idx].link, 0)
           d == load_segment(s, link)
           a1 == "LMA" \in s.env.hflags
           a2 == d.sys # "tss" \/ ~Busy(s, link.idx)
           task == switch_tss(s, link, d, "iret", Next_eip(s))
<1>0. Ready(s) /\ TS \in Vectors /\ GP \in Vectors
  BY DEF Vectors
<1>1. CASE "NT" \notin s.env.eflags
  <2>1. t = helper_ret_protected(s, shift, TRUE)
    BY <1>1 DEF helper_iret_protected
  <2> QED BY ONLY <1>0, <2>1, InProtected(s.env), Settled(s.env), Returned
<1>2. CASE "NT" \in s.env.eflags
  <2>1. t = Checked(s, << <<a1, GP>>, <<a2, TS>> >>, task)
    <3> DEFINE checked == Checked(s, << <<a1, GP>>, <<a2, TS>> >>, task)
    <3>1. t = IF "NT" \notin s.env.eflags THEN helper_ret_protected(s, shift, TRUE) ELSE checked
      BY ONLY t = helper_iret_protected(s, shift), Zenon DEF helper_iret_protected
    <3> HIDE DEF checked
    <3>2. t = checked
      BY ONLY <1>2, <3>1
    <3> QED BY ONLY <3>2, Zenon DEF checked
  <2>2. ASSUME ~a2
        PROVE  Outcome(s.env.old_exception, task)
    <3>1. d.sys = "tss" /\ d = load_segment(s, link)
      BY <2>2
    <3> HIDE DEF d, link
    <3> QED BY <3>1, Switched
  <2> HIDE DEF a1, a2, task
  <2>3. (t = task /\ ~a2) \/ Fails(s.env.old_exception, t)
    <3> DEFINE tests == << <<a1, GP>>, <<a2, TS>> >>
    <3>1. /\ DOMAIN tests = 1 .. 2 /\ tests[2][1] = a2
          /\ tests[1][2] = GP /\ tests[2][2] = TS
      OBVIOUS
    <3>2. t = Checked(s, tests, task)
      BY <2>1
    <3> HIDE DEF tests
    <3> QED BY ONLY <1>0, <3>1, <3>2, Tests2
  <2> QED BY <2>2, <2>3 DEF Outcome
<1> QED BY <1>1, <1>2

\* A load of a data segment.
LEMMA DataLoaded ==
  ASSUME NEW s, Ready(s), Settled(s.env), NEW sel, NEW t, t = helper_load_seg(s, "DS", sel)
  PROVE  Outcome(s.env.old_exception, t)
<1> DEFINE d == load_segment(s, sel)
           a == d.attr
           cpl == s.env.cpl
           b1 == ~IsS(a) \/ (\/ a.kind = "code" /\ ~a.rw
                             \/ ~(a.kind = "code" /\ a.conf) /\ (a.dpl < cpl \/ a.dpl < sel.rpl))
           b2 == ~a.p
           null == Load(s, "DS", sel, NoDesc)
           data == Load(s, "DS", sel, d)
<1>0. Ready(s) /\ NP \in Vectors /\ GP \in Vectors
  BY DEF Vectors
<1>1. \A x, y : y = Load(s, "DS", sel, x) => Goes(s.env.old_exception, y)
  <2> SUFFICES ASSUME NEW x, NEW y, y = Load(s, "DS", sel, x)
               PROVE  Goes(s.env.old_exception, y)
    OBVIOUS
  <2>1. "DS" \in SegRegs /\ "DS" # "CS" /\ "CS" \in SegRegs \ {"DS"} /\ "SS" \in SegRegs \ {"DS"}
    BY DEF SegRegs
  <2>2. /\ Mid(y, s) /\ y.env.segs["CS"] = s.env.segs["CS"] /\ y.env.segs["SS"] = s.env.segs["SS"]
        /\ y.env.cpl = s.env.cpl /\ y.env.eflags = s.env.eflags
    BY ONLY <1>0, <2>1, y = Load(s, "DS", sel, x), MidStarts, MidLoad
  <2>3. /\ s.env.cpl \in Rings /\ SoundFlags(s.env.eflags)
        /\ "VM" \in s.env.eflags => s.env.cpl = 3
    BY ONLY <1>0 DEF Ready, Well, SoundEnv
  <2>4. Settled(y.env)
    BY ONLY <2>2, Settled(s.env) DEF Settled, InProtected, LevelsAgree, Mid
  <2> QED BY ONLY <1>0, <2>2, <2>3, <2>4, MidGoes
<1>2. CASE IsNull(sel)
  <2>1. t = Checked(s, << <<FALSE, GP>> >>, null)
    BY <1>2 DEF helper_load_seg
  <2> DEFINE tests == << <<FALSE, GP>> >>
  <2>2. DOMAIN tests = 1 .. 1 /\ tests[1][2] = GP
    OBVIOUS
  <2>3. t = Checked(s, tests, null)
    BY <2>1
  <2> HIDE DEF tests
  <2>4. t = null \/ Fails(s.env.old_exception, t)
    <3> HIDE DEF null
    <3> QED BY ONLY <1>0, <2>2, <2>3, Tests1
  <2> QED BY ONLY <1>1, <2>4 DEF Outcome, null
<1>3. CASE ~IsNull(sel)
  <2>1. t = Checked(s, << <<b1, GP>>, <<b2, NP>> >>, data)
    BY <1>3 DEF helper_load_seg
  <2> HIDE DEF b1, b2
  <2> DEFINE tests == << <<b1, GP>>, <<b2, NP>> >>
  <2>2. DOMAIN tests = 1 .. 2 /\ tests[1][2] = GP /\ tests[2][2] = NP
    OBVIOUS
  <2>3. t = Checked(s, tests, data)
    BY <2>1
  <2> HIDE DEF tests
  <2>4. t = data \/ Fails(s.env.old_exception, t)
    <3> HIDE DEF data
    <3> QED BY ONLY <1>0, <2>2, <2>3, Tests2
  <2> QED BY ONLY <1>1, <2>4 DEF Outcome, data
<1> QED BY <1>2, <1>3

\* A field that no property of the levels depends on.
LEMMA FieldGoes ==
  ASSUME NEW old, NEW s, Goes(old, s), NEW f \in {"eip", "ldt", "tr", "esp"}, NEW v,
         NEW e, e = [s.env EXCEPT ![f] = v],
         NEW t, IsMachine(t), t.env = e, SoundMem(t.mem), t.exc = s.exc
  PROVE  Goes(old, t)
<1>1. IsEnv(s.env) /\ IsMachine(s) /\ f \in TaskFields
  BY DEF Goes, Well, SoundEnv, IsEnv, TaskFields
<1>2. Changes(e, s.env, {f})
  BY ONLY <1>1, e = [s.env EXCEPT ![f] = v], FieldSet
<1>3. /\ IsEnv(e) /\ e.segs = s.env.segs /\ e.cpl = s.env.cpl /\ e.eflags = s.env.eflags
      /\ e.cr0 = s.env.cr0 /\ e.idt = s.env.idt /\ e.old_exception = s.env.old_exception
  BY ONLY <1>2, f \in {"eip", "ldt", "tr", "esp"}, ChangesFields
<1>4. SoundEnv(e) /\ Settled(e)
  <2>1. SoundEnv(s.env) /\ Settled(s.env)
    BY DEF Goes, Well
  <2>2. SoundEnv(e)
    BY ONLY <1>3, <2>1 DEF SoundEnv, IsEnv
  <2>3. Settled(e)
    BY ONLY <1>3, <2>1 DEF Settled, InProtected, LevelsAgree
  <2> QED BY ONLY <2>2, <2>3
<1> QED BY ONLY <1>3, <1>4, IsMachine(t), t.env = e, SoundMem(t.mem), t.exc = s.exc, Goes(old, s)
           DEF Goes, Well

\* The busy bits are written.
LEMMA BusySet ==
  ASSUME NEW m, SoundMem(m), NEW b, NEW w, w = [m EXCEPT !.busy = b]
  PROVE  SoundMem(w)
<1>1. m = [stack |-> m.stack, busy |-> m.busy, regs |-> m.regs, tss |-> m.tss]
  BY DEF SoundMem
<1>2. w = [stack |-> m.stack, busy |-> b, regs |-> m.regs, tss |-> m.tss]
  BY ONLY <1>1, w = [m EXCEPT !.busy = b]
<1>3. /\ w = [stack |-> w.stack, busy |-> w.busy, regs |-> w.regs, tss |-> w.tss]
      /\ w.stack = m.stack /\ w.regs = m.regs /\ w.tss = m.tss
  BY ONLY <1>2
<1> QED BY <1>3 DEF SoundMem

\* What a guest in protected mode goes on from.
LEMMA ItGoes ==
  ASSUME NEW s, Ready(s), Settled(s.env)
  PROVE  Goes(s.env.old_exception, s)
BY DEF Ready, Goes

\* The same, of the CPU alone.
LEMMA FieldOnly ==
  ASSUME NEW old, NEW s, Goes(old, s), NEW f \in {"eip", "ldt", "tr", "esp"}, NEW v,
         NEW e, e = [s.env EXCEPT ![f] = v], NEW t, t = SetEnv(s, e)
  PROVE  Goes(old, t)
<1>1. IsMachine(s) /\ SoundMem(s.mem)
  BY DEF Goes, Well
<1>2. IsMachine(t) /\ t.env = e /\ t.mem = s.mem /\ t.exc = s.exc
  BY ONLY <1>1, t = SetEnv(s, e), OtherEnv
<1>3. SoundMem(t.mem)
  BY <1>1, <1>2
<1> QED BY ONLY <1>2, <1>3, Goes(old, s), f \in {"eip", "ldt", "tr", "esp"},
             e = [s.env EXCEPT ![f] = v],
                FieldGoes

\* LLDT
LEMMA LdtLoaded ==
  ASSUME NEW s, Ready(s), Settled(s.env), NEW sel, NEW t, t = helper_lldt(s, sel)
  PROVE  Outcome(s.env.old_exception, t)
<1> DEFINE d == load_segment(s, sel)
           a1 == sel.ti \/ d.sys # "ldt"
           a2 == ~d.attr.p
           done == [s EXCEPT !.env.ldt = sel]
           tests == << <<a1, GP>>, <<a2, NP>> >>
<1>0. Ready(s) /\ NP \in Vectors /\ GP \in Vectors
  BY DEF Vectors
<1>1. \A v, y : y = [s EXCEPT !.env.ldt = v] => Goes(s.env.old_exception, y)
  <2> SUFFICES ASSUME NEW v, NEW y, y = [s EXCEPT !.env.ldt = v]
               PROVE  Goes(s.env.old_exception, y)
    OBVIOUS
  <2> DEFINE e == [s.env EXCEPT !["ldt"] = v]
  <2>1. y = SetEnv(s, e)
    BY DEF SetEnv
  <2>2. Goes(s.env.old_exception, s)
    BY ItGoes
  <2> QED BY ONLY <2>1, <2>2, FieldOnly DEF e
<1>2. t = IF IsNull(sel) THEN [s EXCEPT !.env.ldt = NullSel] ELSE Checked(s, tests, done)
  BY ONLY t = helper_lldt(s, sel), Zenon DEF helper_lldt
<1>3. DOMAIN tests = 1 .. 2 /\ tests[1][2] = GP /\ tests[2][2] = NP
  <2> HIDE DEF a1, a2
  <2> QED OBVIOUS
<1>4. Goes(s.env.old_exception, done)
  BY <1>1
<1> HIDE DEF done, tests
<1>5. CASE IsNull(sel)
  BY ONLY <1>1, <1>2, <1>5 DEF Outcome
<1>6. CASE ~IsNull(sel)
  <2>1. t = Checked(s, tests, done)
    BY ONLY <1>2, <1>6
  <2>2. t = done \/ Fails(s.env.old_exception, t)
    BY ONLY <1>0, <1>3, <2>1, Tests2
  <2> QED BY ONLY <1>4, <2>2 DEF Outcome
<1> QED BY <1>5, <1>6

\* LTR
LEMMA TrLoaded ==
  ASSUME NEW s, Ready(s), Settled(s.env), NEW sel, NEW t, t = helper_ltr(s, sel)
  PROVE  Outcome(s.env.old_exception, t)
<1> DEFINE d == load_segment(s, sel)
           a1 == sel.ti \/ d.sys # "tss" \/ Busy(s, sel.idx)
           a2 == ~d.attr.p
           b == s.mem.busy \cup {sel.idx}
           e == [s.env EXCEPT !["tr"] = sel]
           m == [s.mem EXCEPT !.busy = b]
           done == [s EXCEPT !.env.tr = sel, !.mem.busy = @ \cup {sel.idx}]
           null == [s EXCEPT !.env.tr = NullSel]
           tests == << <<a1, GP>>, <<a2, NP>> >>
<1>0. Ready(s) /\ NP \in Vectors /\ GP \in Vectors
  BY DEF Vectors
<1>1. t = IF IsNull(sel) THEN null ELSE Checked(s, tests, done)
  BY ONLY t = helper_ltr(s, sel), Zenon DEF helper_ltr
<1>2. DOMAIN tests = 1 .. 2 /\ tests[1][2] = GP /\ tests[2][2] = NP
  <2> HIDE DEF a1, a2
  <2> QED OBVIOUS
<1>3. Goes(s.env.old_exception, s) /\ SoundMem(s.mem)
  BY ItGoes DEF Ready, Well
<1>4. Goes(s.env.old_exception, null)
  <2> DEFINE n == [s.env EXCEPT !["tr"] = NullSel]
  <2>1. null = SetEnv(s, n)
    BY DEF SetEnv
  <2> HIDE DEF null
  <2> QED BY ONLY <1>3, <2>1, FieldOnly DEF n
<1>5. Goes(s.env.old_exception, done)
  <2>1. done = [s EXCEPT !.env = e, !.mem = m]
    OBVIOUS
  <2> HIDE DEF b
  <2>2. SoundMem(m)
    BY ONLY <1>3, BusySet
  <2> HIDE DEF done, m, e
  <2>3. IsMachine(s)
    BY DEF Ready, Well
  <2>4. done = [env |-> e, mem |-> m, exc |-> s.exc]
    BY ONLY <2>1, <2>3 DEF IsMachine
  <2>5. IsMachine(done) /\ done.env = e /\ done.mem = m /\ done.exc = s.exc
    BY ONLY <2>4 DEF IsMachine
  <2>6. SoundMem(done.mem)
    BY ONLY <2>2, <2>5
  <2> QED BY ONLY <1>3, <2>5, <2>6, FieldGoes DEF e
<1> HIDE DEF done, tests, null
<1>6. CASE IsNull(sel)
  BY ONLY <1>1, <1>4, <1>6 DEF Outcome
<1>7. CASE ~IsNull(sel)
  <2>1. t = Checked(s, tests, done)
    BY ONLY <1>1, <1>7
  <2>2. t = done \/ Fails(s.env.old_exception, t)
    BY ONLY <1>0, <1>2, <2>1, Tests2
  <2> QED BY ONLY <1>5, <2>2 DEF Outcome
<1> QED BY <1>6, <1>7

\* CS and SS are of a level.
AtLevel(x, level) ==
  LET cs == x.env.segs["CS"]  ss == x.env.segs["SS"] IN
  /\ cs.sel.rpl = level /\ cs.attr.kind = "code" /\ ~cs.attr.conf /\ cs.attr.dpl = level
  /\ ss.attr.dpl = level

\* The flat segments of a system call.
LEMMA FlatLoaded ==
  ASSUME NEW s, NEW x, Mid(x, s), NEW level \in Rings, NEW cs, cs.rpl = level, NEW ca,
         ca.kind = "code" /\ ~ca.conf /\ ca.dpl = level, NEW ss, NEW sa, sa.dpl = level,
         NEW w, w = Flat(x, "CS", cs, ca), NEW y, y = Flat(w, "SS", ss, sa)
  PROVE  Mid(y, s) /\ AtLevel(y, level) /\ y.env.cpl = x.env.cpl /\ y.env.eflags = x.env.eflags
<1> DEFINE dc == [attr |-> ca, base |-> 0]
           ds == [attr |-> sa, base |-> 0]
<1>0. "CS" \in SegRegs /\ "SS" \in SegRegs /\ "CS" # "SS" /\ "CS" \in SegRegs \ {"SS"}
  BY DEF SegRegs
<1>1. dc.attr = ca /\ ds.attr = sa
  OBVIOUS
<1>2. w = Load(x, "CS", cs, dc) /\ y = Load(w, "SS", ss, ds)
  BY DEF Load, Flat
<1> HIDE DEF dc, ds
<1>3. /\ Mid(w, s) /\ w.env.segs["CS"].sel = cs /\ w.env.segs["CS"].attr = dc.attr
      /\ w.env.cpl = x.env.cpl /\ w.env.eflags = x.env.eflags
  BY ONLY <1>0, <1>2, Mid(x, s), cs.rpl = level, level \in Rings, MidLoad
<1>4. /\ Mid(y, s) /\ y.env.segs["SS"].attr = ds.attr /\ y.env.segs["CS"] = w.env.segs["CS"]
      /\ y.env.cpl = w.env.cpl /\ y.env.eflags = w.env.eflags
  BY ONLY <1>0, <1>2, <1>3, MidLoad
<1> QED BY <1>1, <1>3, <1>4 DEF AtLevel

\* The end of a system call, at its level.
LEMMA LevelGoes ==
  ASSUME NEW s, Ready(s), NEW t, Mid(t, s), NEW level \in Rings, AtLevel(t, level),
         t.env.cpl = level, SoundFlags(t.env.eflags), "VM" \in t.env.eflags => level = 3
  PROVE  Goes(s.env.old_exception, t)
<1>1. Settled(t.env)
  BY DEF Settled, LevelsAgree, AtLevel
<1> QED BY <1>1, MidGoes

\* What is flat.
LEMMA FlatIs ==
  ASSUME NEW level \in Rings, NEW l \in BOOLEAN
  PROVE  LET ca == FlatCode(level, l)  cb == [Attr("code", level) EXCEPT !.l = l] IN
         /\ ca.kind = "code" /\ ~ca.conf /\ ca.dpl = level
         /\ cb.kind = "code" /\ ~cb.conf /\ cb.dpl = level
         /\ Attr("data", level).dpl = level
BY DEF FlatCode, Attr

\* What SYSCALL keeps.
LEMMA RegsSet ==
  ASSUME NEW m, SoundMem(m), NEW r, SoundFlags(r.eflags), NEW w, w = [m EXCEPT !.regs = r]
  PROVE  SoundMem(w)
<1>1. m = [stack |-> m.stack, busy |-> m.busy, regs |-> m.regs, tss |-> m.tss]
  BY DEF SoundMem
<1>2. w = [stack |-> m.stack, busy |-> m.busy, regs |-> r, tss |-> m.tss]
  BY ONLY <1>1, w = [m EXCEPT !.regs = r]
<1>3. /\ w = [stack |-> w.stack, busy |-> w.busy, regs |-> w.regs, tss |-> w.tss]
      /\ w.stack = m.stack /\ w.regs = r /\ w.tss = m.tss
  BY ONLY <1>2
<1> QED BY <1>3 DEF SoundMem

\* SYSCALL and SYSRET are undefined, too, where they are not enabled.
Undefined(old, t) ==
  /\ Well(t) /\ StackLevel(t.env)
  /\ t.exc = [NoExc EXCEPT !.intno = check_exception(old, UD)]
  /\ t.env.old_exception = OldException(old, UD)

\* Their tests, of which one is for being undefined.
LEMMA CallTested ==
  ASSUME NEW s, Ready(s), NEW tests, NEW n \in Nat, DOMAIN tests = 1 .. n,
         \A i \in 1 .. n : tests[i][2] \in {UD, GP},
         NEW done, NEW t, t = Checked(s, tests, done)
  PROVE  t = done \/ Fails(s.env.old_exception, t) \/ Undefined(s.env.old_exception, t)
<1>1. t = done \/ \E vec \in {UD, GP} : t = Faulted(s, vec)
  <2>1. \/ t = done
        \/ \E i \in 1 .. n : t = Faulted(s, tests[i][2])
    BY ONLY n \in Nat, DOMAIN tests = 1 .. n, t = Checked(s, tests, done), TestsOf
  <2> QED BY <2>1
<1>2. GP \in Vectors
  BY DEF Vectors
<1>3. CASE t = Faulted(s, GP)
  BY ONLY <1>2, <1>3, Ready(s), TestFaults
<1>4. CASE t = Faulted(s, UD)
  BY ONLY <1>4, Ready(s), FaultIs DEF Undefined
<1> QED BY <1>1, <1>3, <1>4

\* SYSCALL
LEMMA SyscallMade ==
  ASSUME NEW s, Ready(s), NEW star \in Selectors, NEW t, t = helper_syscall(s, star)
  PROVE  Outcome(s.env.old_exception, t) \/ Undefined(s.env.old_exception, t)
<1> DEFINE e == s.env
           long == "LMA" \in e.hflags
           cs == WithRpl(star, 0)
           ca == FlatCode(0, long)
           ss == WithRpl(After(star, 1), 0)
           sa == Attr("data", 0)
           s1 == Flat(s, "CS", cs, ca)
           s2 == Flat(s1, "SS", ss, sa)
           gone == {"IF", "RF", "VM"}
           regs == [eip |-> Next_eip(s), eflags |-> e.eflags, iopl |-> e.iopl]
           done == [s2 EXCEPT !.env = StartAt(@, 0, gone), !.mem.regs = regs]
           a1 == "SCE" \notin e.efer
           tests == << <<a1, UD>> >>
<1>0. Ready(s)
  OBVIOUS
<1>1. t = Checked(s, tests, done)
  BY ONLY t = helper_syscall(s, star), Zenon DEF helper_syscall
<1>2. 1 \in Nat /\ DOMAIN tests = 1 .. 1 /\ \A i \in 1 .. 1 : tests[i][2] \in {UD, GP}
  <2> HIDE DEF a1
  <2> QED OBVIOUS
<1>3. Goes(s.env.old_exception, done)
  <2>0. /\ 0 \in Rings /\ cs.rpl = 0 /\ ca.kind = "code" /\ ~ca.conf /\ ca.dpl = 0 /\ sa.dpl = 0
        /\ SoundFlags(regs.eflags)
    <3>1. 0 \in Rings /\ cs.rpl = 0
      BY DEF Rings, WithRpl, Selectors
    <3>2. long \in BOOLEAN
      OBVIOUS
    <3>3. ca.kind = "code" /\ ~ca.conf /\ ca.dpl = 0 /\ sa.dpl = 0
      <4> HIDE DEF long
      <4> QED BY ONLY <3>1, <3>2, FlatIs
    <3>4. SoundFlags(regs.eflags)
      BY DEF Ready, Well, SoundEnv
    <3> QED BY ONLY <3>1, <3>3, <3>4
  <2> HIDE DEF cs, ca, ss, sa, regs
  <2>1. Mid(s, s)
    BY ONLY <1>0, MidStarts
  <2>2. s1 = Flat(s, "CS", cs, ca) /\ s2 = Flat(s1, "SS", ss, sa)
    OBVIOUS
  <2> HIDE DEF s1, s2
  <2>3. Mid(s2, s) /\ AtLevel(s2, 0)
    BY ONLY <2>0, <2>1, <2>2, FlatLoaded
  <2> DEFINE m == StartAt(s2.env, 0, gone)
             mm == [s2.mem EXCEPT !.regs = regs]
             y == SetEnv(s2, m)
  <2>4. Changes(m, s2.env, {"cpl", "eip", "eflags"}) /\ m.cpl = 0 /\ "VM" \notin m.eflags
    <3>1. IsEnv(s2.env) /\ "VM" \in gone
      BY <2>3 DEF Mid, Good
    <3> HIDE DEF m, gone
    <3>2. /\ Changes(m, s2.env, {"cpl", "eip", "eflags"}) /\ m.cpl = 0
          /\ m.eflags = s2.env.eflags \ gone
      BY ONLY <3>1, StartIs DEF m
    <3> QED BY ONLY <3>1, <3>2
  <2>5. done = [s2 EXCEPT !.env = m, !.mem = mm]
    OBVIOUS
  <2> HIDE DEF m, done
  <2>6. Mid(y, s) /\ y.env = m /\ y.env.segs = s2.env.segs
    <3>1. /\ {"cpl", "eip", "eflags"} \cap {"segs", "cr0", "idt", "old_exception"} = {}
          /\ y = SetEnv(s2, m)
      OBVIOUS
    <3> HIDE DEF y
    <3> QED BY ONLY <2>3, <2>4, <3>1, MidEnv
  <2>7. SoundMem(mm)
    <3>1. SoundMem(s2.mem)
      BY <2>3 DEF Mid
    <3> HIDE DEF regs
    <3> QED BY ONLY <2>0, <3>1, RegsSet DEF mm
  <2> HIDE DEF mm
  <2>8. done = [env |-> m, mem |-> mm, exc |-> s2.exc]
    <3>1. IsMachine(s2)
      BY <2>3 DEF Mid, Good
    <3> QED BY ONLY <2>5, <3>1 DEF IsMachine
  <2>9. Mid(done, s) /\ done.env = y.env
    <3>1. IsMachine(done) /\ done.env = m /\ done.mem = mm /\ done.exc = s2.exc
      BY ONLY <2>8 DEF IsMachine
    <3>2. s2.exc = NoExc
      BY ONLY <2>3 DEF Mid
    <3> HIDE DEF y
    <3> QED BY ONLY <2>6, <2>7, <3>1, <3>2 DEF Mid, Good
  <2> HIDE DEF y
  <2>10. /\ done.env.cpl = 0 /\ AtLevel(done, 0) /\ "VM" \notin done.env.eflags
    BY ONLY <2>3, <2>4, <2>6, <2>9 DEF AtLevel
  <2> QED BY ONLY <1>0, <2>0, <2>9, <2>10, LevelGoes DEF SoundFlags
<1> HIDE DEF done, tests
<1>4. t = done \/ Fails(s.env.old_exception, t) \/ Undefined(s.env.old_exception, t)
  BY ONLY <1>0, <1>1, <1>2, CallTested
<1> QED BY <1>3, <1>4 DEF Outcome

SetPlace(s, esp, eip) == [s EXCEPT !.env.esp = esp, !.env.eip = eip]
\* A stack pointer and an offset, on the way.
LEMMA MidPlace ==
  ASSUME NEW s, NEW x, Mid(x, s), NEW esp, NEW eip, NEW y, y = SetPlace(x, esp, eip)
  PROVE  /\ Mid(y, s) /\ y.env.segs = x.env.segs /\ y.env.cpl = x.env.cpl
         /\ y.env.eflags = x.env.eflags
<1> DEFINE m1 == [x.env EXCEPT !["esp"] = esp]
           m == [m1 EXCEPT !["eip"] = eip]
<1>1. y = SetEnv(x, m)
  <2>1. y = [x EXCEPT !.env.esp = esp, !.env.eip = eip]
    BY DEF SetPlace
  <2>2. IsMachine(x)
    BY DEF Mid, Good
  <2> QED BY ONLY <2>1, <2>2 DEF SetEnv, IsMachine, m, m1
<1>2. IsEnv(x.env) /\ "esp" \in TaskFields /\ "eip" \in TaskFields
  BY DEF Mid, Good, TaskFields
<1>3. Changes(m1, x.env, {"esp"})
  BY ONLY <1>2, FieldSet
<1> HIDE DEF m1
<1>4. Changes(m, m1, {"eip"})
  <2>1. IsEnv(m1)
    BY ONLY <1>3, ChangesFields
  <2> QED BY ONLY <1>2, <2>1, FieldSet DEF m
<1> HIDE DEF m
<1>5. Changes(m, x.env, {"esp"} \cup {"eip"})
  BY ONLY <1>3, <1>4, ChangesTwice
<1>6. ({"esp"} \cup {"eip"}) \cap {"segs", "cr0", "idt", "old_exception"} = {}
  OBVIOUS
<1>7. Mid(y, s) /\ y.env = m /\ y.env.segs = x.env.segs
  BY ONLY <1>1, <1>5, <1>6, Mid(x, s), MidEnv
<1> QED BY ONLY <1>3, <1>4, <1>7, ChangesFields

\* SYSENTER
LEMMA SysenterMade ==
  ASSUME NEW s, Ready(s), NEW cs \in Selectors, NEW esp, NEW t, t = helper_sysenter(s, cs, esp)
  PROVE  Outcome(s.env.old_exception, t)
<1> DEFINE long == "LMA" \in s.env.hflags
           gone == {"VM", "IF", "RF"}
           e1 == StartAt(s.env, 0, gone)
           s1 == [s EXCEPT !.env = StartAt(@, 0, gone)]
           c == WithRpl(cs, 0)
           ca == [Attr("code", 0) EXCEPT !.l = long]
           ss == WithRpl(After(cs, 1), 0)
           sa == Attr("data", 0)
           s2 == Flat(s1, "CS", c, ca)
           s3 == Flat(s2, "SS", ss, sa)
           done == SetEsp(s3, esp)
           a1 == IsNull(cs)
           tests == << <<a1, GP>> >>
<1>0. Ready(s) /\ GP \in Vectors
  BY DEF Vectors
<1>1. t = Checked(s, tests, done)
  BY ONLY t = helper_sysenter(s, cs, esp), Zenon DEF helper_sysenter, SetEsp
<1>2. DOMAIN tests = 1 .. 1 /\ tests[1][2] = GP
  <2> HIDE DEF a1
  <2> QED OBVIOUS
<1>3. Goes(s.env.old_exception, done)
  <2>1. 0 \in Rings /\ c.rpl = 0 /\ ca.kind = "code" /\ ~ca.conf /\ ca.dpl = 0 /\ sa.dpl = 0
    <3>1. 0 \in Rings /\ c.rpl = 0
      BY DEF Rings, WithRpl, Selectors
    <3>2. long \in BOOLEAN
      OBVIOUS
    <3>3. ca.kind = "code" /\ ~ca.conf /\ ca.dpl = 0 /\ sa.dpl = 0
      <4> DEFINE level == 0
      <4>1. level \in Rings
        BY <3>1
      <4> HIDE DEF long
      <4>2. \A l \in BOOLEAN : LET cb == [Attr("code", level) EXCEPT !.l = l] IN
              /\ cb.kind = "code" /\ ~cb.conf /\ cb.dpl = level
              /\ Attr("data", level).dpl = level
        <5> HIDE DEF level
        <5> QED BY ONLY <4>1, FlatIs
      <4> QED BY ONLY <3>2, <4>2
    <3> QED BY ONLY <3>1, <3>3
  <2> HIDE DEF c, ca, ss, sa
  <2>2. Mid(s, s)
    BY ONLY <1>0, MidStarts
  <2>3. Mid(s1, s) /\ s1.env.cpl = 0 /\ "VM" \notin s1.env.eflags
    <3>1. IsEnv(s.env) /\ "VM" \in gone
      BY <2>2 DEF Mid, Good
    <3>2. s1 = SetEnv(s, e1)
      BY DEF SetEnv
    <3> HIDE DEF gone, s1
    <3>3. /\ Changes(e1, s.env, {"cpl", "eip", "eflags"})
          /\ e1.cpl = 0 /\ e1.eflags = s.env.eflags \ gone
      BY ONLY <3>1, StartIs DEF e1
    <3>4. {"cpl", "eip", "eflags"} \cap {"segs", "cr0", "idt", "old_exception"} = {}
      OBVIOUS
    <3> HIDE DEF e1
    <3>5. Mid(s1, s) /\ s1.env = e1
      BY ONLY <2>2, <3>2, <3>3, <3>4, MidEnv
    <3> QED BY ONLY <3>1, <3>3, <3>5
  <2>4. s2 = Flat(s1, "CS", c, ca) /\ s3 = Flat(s2, "SS", ss, sa)
    OBVIOUS
  <2> HIDE DEF s1, s2, s3
  <2>5. Mid(s3, s) /\ AtLevel(s3, 0) /\ s3.env.cpl = s1.env.cpl /\ s3.env.eflags = s1.env.eflags
    BY ONLY <2>1, <2>3, <2>4, FlatLoaded
  <2>6. done = SetEsp(s3, esp)
    OBVIOUS
  <2> HIDE DEF done
  <2>7. /\ Mid(done, s) /\ done.env.segs = s3.env.segs /\ done.env.cpl = s3.env.cpl
        /\ done.env.eflags = s3.env.eflags
    BY ONLY <2>5, <2>6, MidStack
  <2>8. AtLevel(done, 0) /\ done.env.cpl = 0 /\ "VM" \notin done.env.eflags
    BY ONLY <2>3, <2>5, <2>7 DEF AtLevel
  <2> QED BY ONLY <1>0, <2>1, <2>7, <2>8, LevelGoes DEF SoundFlags
<1> HIDE DEF done, tests
<1>4. t = done \/ Fails(s.env.old_exception, t)
  BY ONLY <1>0, <1>1, <1>2, Tests1
<1> QED BY <1>3, <1>4 DEF Outcome

\* SYSEXIT
LEMMA SysexitMade ==
  ASSUME NEW s, Ready(s), NEW cs \in Selectors, NEW dflag, NEW esp, NEW eip,
         NEW t, t = helper_sysexit(s, cs, dflag, esp, eip)
  PROVE  Outcome(s.env.old_exception, t)
<1> DEFINE n == IF dflag = 2 THEN 4 ELSE 2
           long == dflag = 2
           s1 == [s EXCEPT !.env = SetCpl(@, 3)]
           c == WithRpl(After(cs, n), 3)
           ca == [Attr("code", 3) EXCEPT !.l = long]
           ss == WithRpl(After(cs, n + 1), 3)
           sa == Attr("data", 3)
           s2 == Flat(s1, "CS", c, ca)
           s3 == Flat(s2, "SS", ss, sa)
           done == SetPlace(s3, esp, eip)
           a1 == IsNull(cs) \/ s.env.cpl # 0
           tests == << <<a1, GP>> >>
<1>0. Ready(s) /\ GP \in Vectors
  BY DEF Vectors
<1>1. t = Checked(s, tests, done)
  BY ONLY t = helper_sysexit(s, cs, dflag, esp, eip), Zenon DEF helper_sysexit, SetPlace
<1>2. DOMAIN tests = 1 .. 1 /\ tests[1][2] = GP
  <2> HIDE DEF a1
  <2> QED OBVIOUS
<1>3. Goes(s.env.old_exception, done)
  <2>1. 3 \in Rings /\ c.rpl = 3 /\ ca.kind = "code" /\ ~ca.conf /\ ca.dpl = 3 /\ sa.dpl = 3
    <3>1. 3 \in Rings /\ c.rpl = 3
      <4> HIDE DEF n
      <4> QED BY DEF Rings, WithRpl, Selectors, After
    <3>2. long \in BOOLEAN
      OBVIOUS
    <3>3. ca.kind = "code" /\ ~ca.conf /\ ca.dpl = 3 /\ sa.dpl = 3
      <4> DEFINE level == 3
      <4>1. level \in Rings
        BY <3>1
      <4> HIDE DEF long
      <4>2. \A l \in BOOLEAN : LET cb == [Attr("code", level) EXCEPT !.l = l] IN
              /\ cb.kind = "code" /\ ~cb.conf /\ cb.dpl = level
              /\ Attr("data", level).dpl = level
        <5> HIDE DEF level
        <5> QED BY ONLY <4>1, FlatIs
      <4> QED BY ONLY <3>2, <4>2
    <3> QED BY ONLY <3>1, <3>3
  <2>2. Mid(s, s) /\ SoundFlags(s.env.eflags)
    BY ONLY <1>0, MidStarts DEF Ready, Well, SoundEnv
  <2> HIDE DEF c, ca, ss, sa
  <2>3. Mid(s1, s) /\ s1.env.cpl = 3 /\ s1.env.eflags = s.env.eflags
    <3> DEFINE level == 3
    <3>1. s1 = [s EXCEPT !.env = SetCpl(@, level)]
      OBVIOUS
    <3> HIDE DEF s1, level
    <3>2. Mid(s1, s) /\ s1.env.cpl = level /\ s1.env.eflags = s.env.eflags
      BY ONLY <2>2, <3>1, MidLevel
    <3> QED BY <3>2 DEF level
  <2>4. s2 = Flat(s1, "CS", c, ca) /\ s3 = Flat(s2, "SS", ss, sa)
    OBVIOUS
  <2> HIDE DEF s1, s2, s3
  <2>5. Mid(s3, s) /\ AtLevel(s3, 3) /\ s3.env.cpl = s1.env.cpl /\ s3.env.eflags = s1.env.eflags
    BY ONLY <2>1, <2>3, <2>4, FlatLoaded
  <2>6. done = SetPlace(s3, esp, eip)
    OBVIOUS
  <2> HIDE DEF done
  <2>7. /\ Mid(done, s) /\ done.env.segs = s3.env.segs /\ done.env.cpl = s3.env.cpl
        /\ done.env.eflags = s3.env.eflags
    BY ONLY <2>5, <2>6, MidPlace
  <2>8. AtLevel(done, 3) /\ done.env.cpl = 3 /\ done.env.eflags = s.env.eflags
    BY ONLY <2>3, <2>5, <2>7 DEF AtLevel
  <2> QED BY ONLY <1>0, <2>1, <2>2, <2>7, <2>8, LevelGoes DEF SoundFlags
<1> HIDE DEF done, tests
<1>4. t = done \/ Fails(s.env.old_exception, t)
  BY ONLY <1>0, <1>1, <1>2, Tests1
<1> QED BY <1>3, <1>4 DEF Outcome

\* SYSRET
LEMMA SysretMade ==
  ASSUME NEW s, Ready(s), NEW user \in Selectors, NEW dflag,
         NEW t, t = helper_sysret(s, user, dflag)
  PROVE  Outcome(s.env.old_exception, t) \/ Undefined(s.env.old_exception, t)
<1> DEFINE e == s.env
           long == "LMA" \in e.hflags
           wide == long /\ dflag = 2
           cs == IF wide THEN After(user, 2) ELSE user
           c == WithRpl(cs, 3)
           ca == FlatCode(3, wide)
           ss == After(user, 1)
           sa == Attr("data", 3)
           regs == s.mem.regs
           s1 == Flat(s, "CS", c, ca)
           s2 == Flat(s1, "SS", ss, sa)
           ef == s2.env.eflags \cup {"IF"}
           e2 == [s2.env EXCEPT !["eflags"] = ef]
           e3 == IF long THEN LoadEflags(s2.env, regs, TaskFlags) ELSE e2
           eip == regs.eip
           e4 == SetCpl(e3, 3)
           e5 == [e4 EXCEPT !["eip"] = eip]
           done == SetEnv(s2, e5)
           a1 == "SCE" \notin e.efer
           a2 == "PE" \notin e.cr0 \/ e.cpl # 0
           tests == << <<a1, UD>>, <<a2, GP>> >>
<1>0. Ready(s)
  OBVIOUS
<1>1. t = Checked(s, tests, done)
  BY ONLY t = helper_sysret(s, user, dflag), Zenon DEF helper_sysret, SetEnv
<1>2. 2 \in Nat /\ DOMAIN tests = 1 .. 2 /\ \A i \in 1 .. 2 : tests[i][2] \in {UD, GP}
  <2> HIDE DEF a1, a2
  <2> QED OBVIOUS
<1>3. Goes(s.env.old_exception, done)
  <2>1. 3 \in Rings /\ c.rpl = 3 /\ ca.kind = "code" /\ ~ca.conf /\ ca.dpl = 3 /\ sa.dpl = 3
    <3>1. 3 \in Rings /\ c.rpl = 3
      <4> HIDE DEF wide
      <4> QED BY DEF Rings, WithRpl, Selectors, After
    <3>2. wide \in BOOLEAN
      OBVIOUS
    <3>3. ca.kind = "code" /\ ~ca.conf /\ ca.dpl = 3 /\ sa.dpl = 3
      <4> HIDE DEF wide
      <4> QED BY ONLY <3>1, <3>2, FlatIs
    <3> QED BY ONLY <3>1, <3>3
  <2>2. Mid(s, s) /\ SoundFlags(s.env.eflags) /\ SoundFlags(regs.eflags)
    <3>1. Mid(s, s)
      BY ONLY <1>0, MidStarts
    <3>2. SoundEnv(s.env) /\ SoundMem(s.mem)
      BY ONLY <1>0 DEF Ready, Well
    <3>3. SoundFlags(s.env.eflags)
      BY ONLY <3>2 DEF SoundEnv
    <3>4. SoundFlags(s.mem.regs.eflags)
      BY ONLY <3>2 DEF SoundMem
    <3> QED BY ONLY <3>1, <3>3, <3>4 DEF regs
  <2> HIDE DEF c, ca, ss, sa, eip, regs
  <2>3. s1 = Flat(s, "CS", c, ca) /\ s2 = Flat(s1, "SS", ss, sa)
    OBVIOUS
  <2> HIDE DEF s1, s2
  <2>4. Mid(s2, s) /\ AtLevel(s2, 3) /\ s2.env.eflags = s.env.eflags
    BY ONLY <2>1, <2>2, <2>3, FlatLoaded
  <2>5. IsEnv(s2.env) /\ {"eflags", "cpl", "eip"} \subseteq TaskFields
    BY <2>4 DEF Mid, Good, TaskFields
  <2>6. Changes(e3, s2.env, {"eflags", "iopl"}) /\ SoundFlags(e3.eflags)
    <3>1. CASE long
      <4>1. e3 = LoadEflags(s2.env, regs, TaskFlags)
        BY <3>1
      <4> HIDE DEF e3
      <4>2. /\ Changes(e3, s2.env, {"eflags", "iopl"})
            /\ "VM" \in e3.eflags
                 <=> "VM" \in IF "VM" \in TaskFlags THEN regs.eflags ELSE s2.env.eflags
        BY ONLY <2>5, <4>1, FlagsLoaded
      <4> QED BY ONLY <2>2, <2>4, <4>2 DEF SoundFlags
    <3>2. CASE ~long
      <4>1. e3 = e2
        BY <3>2
      <4>2. SoundFlags(ef)
        BY ONLY <2>2, <2>4 DEF SoundFlags, ef
      <4> HIDE DEF ef, e3
      <4>3. Changes(e2, s2.env, {"eflags"}) /\ e2["eflags"] = ef
        BY ONLY <2>5, FieldSet DEF e2
      <4> HIDE DEF e2
      <4> QED BY ONLY <4>1, <4>2, <4>3 DEF Changes
    <3> QED BY ONLY <3>1, <3>2
  <2> HIDE DEF e3
  <2>7. Changes(e4, e3, {"cpl"}) /\ e4.cpl = 3
    <3>1. IsEnv(e3)
      BY ONLY <2>6, ChangesFields
    <3> DEFINE level == 3
    <3>2. e4 = [e3 EXCEPT !["cpl"] = level]
      BY DEF SetCpl
    <3> HIDE DEF e4, level
    <3>3. Changes(e4, e3, {"cpl"}) /\ e4["cpl"] = level
      BY ONLY <2>5, <3>1, <3>2, FieldSet
    <3> QED BY <3>3 DEF level
  <2> HIDE DEF e4
  <2>8. Changes(e5, e4, {"eip"})
    <3>1. IsEnv(e4)
      BY ONLY <2>7, ChangesFields
    <3> QED BY ONLY <2>5, <3>1, FieldSet DEF e5
  <2> HIDE DEF e5
  <2>9. Changes(e5, s2.env, (({"eflags", "iopl"} \cup {"cpl"}) \cup {"eip"}))
    BY ONLY <2>6, <2>7, <2>8, ChangesTwice
  <2>10. Mid(done, s) /\ done.env = e5 /\ done.env.segs = s2.env.segs
    <3>1. /\ (({"eflags", "iopl"} \cup {"cpl"}) \cup {"eip"})
               \cap {"segs", "cr0", "idt", "old_exception"} = {}
          /\ done = SetEnv(s2, e5)
      OBVIOUS
    <3> HIDE DEF done
    <3> QED BY ONLY <2>4, <2>9, <3>1, MidEnv
  <2> HIDE DEF done
  <2>11. e5.cpl = 3 /\ SoundFlags(e5.eflags)
    BY ONLY <2>6, <2>7, <2>8, ChangesFields
  <2>12. AtLevel(done, 3)
    BY ONLY <2>4, <2>10 DEF AtLevel
  <2> QED BY ONLY <1>0, <2>1, <2>10, <2>11, <2>12, LevelGoes
<1> HIDE DEF done, tests
<1>4. t = done \/ Fails(s.env.old_exception, t) \/ Undefined(s.env.old_exception, t)
  BY ONLY <1>0, <1>1, <1>2, CallTested
<1> QED BY <1>3, <1>4 DEF Outcome

-----------------------------------------------------------------------------
(* Steps of the guest *)

\* Between two instructions nothing is being delivered and all levels agree; an
\* exception that is pending is the one that counts for what its delivery raises.
Resumable(t) ==
  /\ Well(t) /\ StackLevel(t.env)
  /\ t.exc = NoExc => t.env.old_exception = -1 /\ Settled(t.env)
  /\ t.exc # NoExc => Pending(t.exc, t.env.old_exception)
TasksInv == SoundProfile(profile) /\ Resumable(Machine)

\* Levels that agree are those of the stack, too.
LEMMA SettledStack ==
  ASSUME NEW e, Settled(e)
  PROVE  StackLevel(e)
BY DEF Settled, StackLevel, LevelsAgree

\* What a helper leaves when no exception is being delivered.
LEMMA OutcomeKept ==
  ASSUME NEW t, Outcome(-1, t)
  PROVE  Resumable(t)
<1> DEFINE old == -1
<1>1. CASE Goes(old, t)
  BY ONLY <1>1, SettledStack DEF Goes, Resumable, old
<1>2. CASE Fails(old, t)
  <2>1. old \in {-1, TS, NP, SSF, GP, DF}
    OBVIOUS
  <2> HIDE DEF old
  <2>2. Pending(t.exc, t.env.old_exception) /\ t.exc # NoExc
    BY ONLY <1>2, <2>1, RaisedIs DEF Fails
  <2> QED BY ONLY <1>2, <2>2 DEF Fails, Resumable
<1> QED BY <1>1, <1>2 DEF Outcome, old

\* What SYSCALL and SYSRET leave where they are undefined.
LEMMA UndefinedKept ==
  ASSUME NEW t, Undefined(-1, t)
  PROVE  Resumable(t)
<1>1. check_exception(-1, UD) = UD /\ OldException(-1, UD) = -1
  BY DEF check_exception, OldException, Contributory, DE, UD, DF, TS, NP, SSF, GP, PF, HLT
<1>2. t.exc.intno = UD /\ t.exc # NoExc /\ t.env.old_exception = -1
  <2>1. t.exc.intno = UD /\ NoExc.intno = -1 /\ t.env.old_exception = -1
    BY <1>1 DEF Undefined, NoExc
  <2>2. UD # -1
    BY DEF UD
  <2> QED BY ONLY <2>1, <2>2
<1> QED BY <1>2 DEF Undefined, Resumable, Pending

\* The machine of the variables, ...
LEMMA MachineIs ==
  ASSUME TasksInv, Running
  PROVE  /\ Ready(Machine) /\ Settled(Machine.env) /\ Machine.env.old_exception = -1
         /\ Machine.env = env /\ Machine.exc = exc
BY DEF TasksInv, Running, Resumable, Ready, Machine

\* ... and what it becomes.
LEMMA Becomes ==
  ASSUME TasksInv, NEW t, Resumable(t), Become(t), profile' = profile, lowered => lowered'
  PROVE  TasksInv'
<1>1. Machine' = t
  BY DEF Resumable, Well, IsMachine, Machine, Become
<1> HIDE DEF Machine
<1>2. Resumable(Machine')
  BY <1>1
<1>3. Resumable(Machine)'
  BY <1>2 DEF Resumable, StackLevel, Settled
<1> QED BY <1>3 DEF TasksInv, SoundProfile

\* Where the level has been lowered, nothing is said of the segments.
LEMMA BecomesLower ==
  ASSUME TasksInv, NEW t, Well(t), t.exc = NoExc, t.env.old_exception = -1, Become(t),
         profile' = profile, lowered'
  PROVE  TasksInv'
<1>1. Machine' = t
  BY DEF Well, IsMachine, Machine, Become
<1> HIDE DEF Machine
<1>2. Well(Machine') /\ Machine'.exc = NoExc /\ Machine'.env.old_exception = -1
  BY <1>1
<1>3. Resumable(Machine)'
  BY <1>2 DEF Resumable, StackLevel, Settled
<1> QED BY <1>3 DEF TasksInv, SoundProfile

\* A helper that is called between two instructions: what it leaves is kept.
LEMMA CalledFrom ==
  ASSUME TasksInv, Running, NEW t, Outcome(Machine.env.old_exception, t)
  PROVE  Resumable(t)
BY MachineIs, OutcomeKept

\* Transfers, returns and other instructions keep their helper's machine.
LEMMA TransferKeeps ==
  ASSUME TasksInv, NEW t, Resumable(t), NEW how, NEW shift, NEW eip, Transfer(t, how, shift, eip)
  PROVE  TasksInv'
BY Becomes DEF Transfer

\* The same of returns, ...
LEMMA ReturnKeeps ==
  ASSUME TasksInv, NEW t, Resumable(t), Return(t)
  PROVE  TasksInv'
BY Becomes DEF Return

\* ... and of what goes on to the next instruction or faults.
LEMMA AdvanceKeeps ==
  ASSUME TasksInv, NEW t, Outcome(-1, t), Advance(t)
  PROVE  TasksInv'
<1> DEFINE old == -1
           e == [t.env EXCEPT !["eip"] = 1 - @]
           u == SetEnv(t, e)
<1>1. CASE t.exc = NoExc
  <2>1. Goes(old, t)
    BY ONLY <1>1, Outcome(-1, t), FailedIs DEF Outcome, old
  <2>2. Goes(old, u)
    <3> HIDE DEF old
    <3> DEFINE v == 1 - t.env["eip"]
    <3>1. /\ "eip" \in {"eip", "ldt", "tr", "esp"}
          /\ e = [t.env EXCEPT !["eip"] = v] /\ u = SetEnv(t, e)
      OBVIOUS
    <3> HIDE DEF v, e, u
    <3> QED BY ONLY <2>1, <3>1, FieldOnly
  <2>3. Become(u) /\ profile' = profile /\ lowered' = lowered
    BY <1>1 DEF Advance, SetEnv, history
  <2> HIDE DEF u
  <2>4. Resumable(u)
    BY ONLY <2>2, OutcomeKept DEF Outcome, old
  <2> QED BY ONLY <2>3, <2>4, TasksInv, Becomes
<1>2. CASE t.exc # NoExc
  <2>1. Become(t) /\ profile' = profile /\ lowered' = lowered
    BY <1>2 DEF Advance, history
  <2>2. Resumable(t)
    BY OutcomeKept
  <2> QED BY <2>1, <2>2, Becomes
<1> QED BY <1>1, <1>2

\* raise_exception_err, where virtual 8086 mode is restricted.
LEMMA RestrictedKept ==
  ASSUME TasksInv, Running, NEW t, t = raise_exception_err(Machine, GP)
  PROVE  Resumable(t)
<1>1. Ready(Machine) /\ GP \in Vectors
  BY MachineIs DEF Vectors
<1>2. Outcome(Machine.env.old_exception, t)
  BY ONLY <1>1, t = raise_exception_err(Machine, GP), ErrorRaised DEF Outcome
<1> QED BY <1>2, CalledFrom

\* INT n keeps the invariant: it is refused in virtual 8086 mode, or pending.
LEMMA SoftIntStep ==
  ASSUME TasksInv, SoftInt
  PROVE  TasksInv'
<1>1. Running /\ profile' = profile /\ lowered' = lowered
  BY DEF SoftInt, history
<1>2. CASE Restricted
  <2>1. PICK t : t = raise_exception_err(Machine, GP) /\ Become(t)
    BY <1>2 DEF SoftInt
  <2> QED BY <1>1, <2>1, RestrictedKept, Becomes
<1>3. CASE ~Restricted
  <2> DEFINE x == [intno |-> Use.soft, is_int |-> TRUE, next_eip |-> 1 - Machine.env.eip]
             t == [Machine EXCEPT !.exc = x]
  <2>1. Become(t)
    BY <1>3 DEF SoftInt, helper_raise_interrupt
  <2>2. /\ IsMachine(t) /\ t.env = Machine.env /\ t.mem = Machine.mem /\ t.exc = x
        /\ x.is_int
    <3>1. IsMachine(Machine)
      BY DEF TasksInv, Resumable, Well
    <3>2. x.is_int
      OBVIOUS
    <3> HIDE DEF x
    <3>3. t = [env |-> Machine.env, mem |-> Machine.mem, exc |-> x]
      BY ONLY <3>1 DEF IsMachine
    <3> HIDE DEF t
    <3> QED BY ONLY <3>2, <3>3 DEF IsMachine
  <2> HIDE DEF t
  <2>3. x # NoExc
    BY DEF NoExc
  <2> HIDE DEF x
  <2>4. Resumable(t)
    BY <1>1, <2>2, <2>3, MachineIs DEF Resumable, Ready, Well, Pending
  <2> QED BY <1>1, <2>1, <2>4, Becomes
<1> QED BY <1>2, <1>3

\* An interrupt keeps it, ...
LEMMA HardIrqStep ==
  ASSUME TasksInv, NEW v, HardIrq(v)
  PROVE  TasksInv'
<1>1. PICK t : /\ t = do_interrupt_all(Machine, v, FALSE, 0) /\ Running
               /\ Transfer(t, "iret", GateShift, env.eip)
  BY DEF HardIrq, do_interrupt_x86_hardirq
<1>2. Outcome(Machine.env.old_exception, t)
  BY ONLY <1>1, TasksInv, MachineIs, Interrupted
<1> QED BY ONLY <1>1, <1>2, TasksInv, CalledFrom, TransferKeeps

\* ... and a far jump to whatever a selector of the guest's leads to, ...
LEMMA FarJumpStep ==
  ASSUME TasksInv, NEW sel \in Use.far, NEW eip, FarJump(sel, eip)
  PROVE  TasksInv'
<1>1. PICK t : /\ t = helper_ljmp_protected(Machine, sel, eip) /\ Running
               /\ InProtected(Machine.env)
               /\ Transfer(t, "jmp", 0, Next_eip(Machine))
  BY MachineIs DEF FarJump, Protected
<1>2. sel \in Selectors
  BY DEF TasksInv, SoundProfile, Use
<1>3. Outcome(Machine.env.old_exception, t)
  BY ONLY <1>1, <1>2, TasksInv, MachineIs, Jumped
<1> QED BY ONLY <1>1, <1>3, TasksInv, CalledFrom, TransferKeeps

\* ... a far call, in real mode too, ...
LEMMA FarCallStep ==
  ASSUME TasksInv, NEW sel \in Use.far, NEW eip, FarCall(sel, eip)
  PROVE  TasksInv'
<1>1. PICK t, shift :
        /\ Running /\ Transfer(t, "lret", shift, Next_eip(Machine))
        /\ t = IF InProtected(Machine.env) THEN helper_lcall_protected(Machine, sel, eip, shift)
               ELSE helper_lcall_real(Machine, sel, eip, shift)
  BY MachineIs DEF FarCall, Protected
<1>2. sel \in Selectors
  BY DEF TasksInv, SoundProfile, Use
<1>3. CASE InProtected(Machine.env)
  <2>1. t = helper_lcall_protected(Machine, sel, eip, shift)
    BY <1>1, <1>3
  <2>2. Outcome(Machine.env.old_exception, t) \/ GoesDown(Machine, t)
    BY ONLY <1>1, <1>2, <1>3, <2>1, TasksInv, MachineIs, Called
  <2>3. CASE GoesDown(Machine, t)
    <3>1. Lowers(t)
      BY <1>1, <2>3, MachineIs DEF GoesDown, Lowers
    <3>2. lowered' /\ Become(t) /\ profile' = profile
      BY <1>1, <3>1 DEF Transfer
    <3>3. Well(t) /\ t.exc = NoExc /\ t.env.old_exception = -1
      BY ONLY <1>1, <2>3, TasksInv, MachineIs DEF GoesDown
    <3> QED BY ONLY <3>2, <3>3, TasksInv, BecomesLower
  <2> QED BY ONLY <1>1, <2>2, <2>3, TasksInv, CalledFrom, TransferKeeps
<1>4. CASE ~InProtected(Machine.env)
  <2>1. t = helper_lcall_real(Machine, sel, eip, shift)
    BY <1>1, <1>4
  <2>2. Outcome(Machine.env.old_exception, t)
    BY ONLY <1>1, <1>2, <1>4, <2>1, TasksInv, MachineIs, CalledReal DEF Outcome
  <2> QED BY ONLY <1>1, <2>2, TasksInv, CalledFrom, TransferKeeps
<1> QED BY ONLY <1>3, <1>4

\* ... an IRET, to the same or an outer level, to another task, to or in
\* virtual 8086 mode, ...
LEMMA IretStep ==
  ASSUME TasksInv, Iret
  PROVE  TasksInv'
<1>1. PICK t, shift :
        /\ Running /\ Back(t)
        /\ t = IF Restricted THEN raise_exception_err(Machine, GP)
               ELSE IF InProtected(Machine.env) THEN helper_iret_protected(Machine, shift)
               ELSE helper_iret_real(Machine, shift)
  <2>1. Running /\ Machine.env = env
    BY MachineIs DEF Iret
  <2>2. CASE Protected
    <3> DEFINE shift == IF TaskEnds THEN 1 ELSE Last.shift
    <3> WITNESS IF Restricted THEN raise_exception_err(Machine, GP)
                ELSE helper_iret_protected(Machine, shift), shift
    <3> QED BY <2>1, <2>2 DEF Iret, Protected
  <2>3. CASE ~Protected
    <3> WITNESS IF Restricted THEN raise_exception_err(Machine, GP)
                ELSE helper_iret_real(Machine, Last.shift), Last.shift
    <3> QED BY <2>1, <2>3 DEF Iret, Protected
  <2> QED BY <2>2, <2>3
<1>2. Resumable(t)
  <2>1. CASE Restricted
    <3>1. t = raise_exception_err(Machine, GP)
      BY <1>1, <2>1
    <3> QED BY ONLY <1>1, <3>1, TasksInv, RestrictedKept
  <2>2. CASE ~Restricted /\ InProtected(Machine.env)
    <3>1. t = helper_iret_protected(Machine, shift)
      BY <1>1, <2>2
    <3>2. Outcome(Machine.env.old_exception, t)
      BY ONLY <1>1, <2>2, <3>1, TasksInv, MachineIs, IretProtected
    <3> QED BY ONLY <1>1, <3>2, TasksInv, CalledFrom
  <2>3. CASE ~Restricted /\ ~InProtected(Machine.env)
    <3>1. t = helper_iret_real(Machine, shift)
      BY <1>1, <2>3
    <3>2. Outcome(Machine.env.old_exception, t)
      BY ONLY <1>1, <2>3, <3>1, TasksInv, MachineIs, IretReal DEF Outcome
    <3> QED BY ONLY <1>1, <3>2, TasksInv, CalledFrom
  <2> QED BY ONLY <2>1, <2>2, <2>3
<1> QED BY ONLY <1>1, <1>2, TasksInv, ReturnKeeps, TransferKeeps DEF Back

\* ... a far return, ...
LEMMA LretStep ==
  ASSUME TasksInv, Lret
  PROVE  TasksInv'
<1>1. PICK t, shift : /\ t = helper_ret_protected(Machine, shift, FALSE) /\ Running
                      /\ InProtected(Machine.env) /\ Return(t)
  BY MachineIs DEF Lret, Protected, helper_lret_protected
<1>2. Outcome(Machine.env.old_exception, t)
  BY ONLY <1>1, TasksInv, MachineIs, Returned
<1> QED BY ONLY <1>1, <1>2, TasksInv, CalledFrom, ReturnKeeps

\* ... and the far return that is translated inline.
LEMMA LretRealStep ==
  ASSUME TasksInv, do_lret_real
  PROVE  TasksInv'
<1> DEFINE f == Top(Machine)
           t == [RealCs(Pop(Machine), f.cs) EXCEPT !.env.eip = f.eip]
<1>1. Running /\ ~InProtected(Machine.env) /\ Return(t)
  BY MachineIs DEF do_lret_real, Protected
<1>2. f = Top(Machine) /\ t = [RealCs(Pop(Machine), f.cs) EXCEPT !.env.eip = f.eip]
  OBVIOUS
<1> HIDE DEF t, f
<1>3. Outcome(Machine.env.old_exception, t)
  BY ONLY <1>1, <1>2, TasksInv, MachineIs, ReturnedReal DEF Outcome
<1> QED BY ONLY <1>1, <1>3, TasksInv, CalledFrom, ReturnKeeps

\* SYSCALL and SYSRET: or they are undefined.
LEMMA UndefinedFrom ==
  ASSUME TasksInv, Running, NEW t,
         \/ Outcome(Machine.env.old_exception, t)
         \/ Undefined(Machine.env.old_exception, t)
  PROVE  Resumable(t)
BY MachineIs, OutcomeKept, UndefinedKept

\* SYSCALL keeps the invariant, ...
LEMMA SyscallStep ==
  ASSUME TasksInv, Syscall
  PROVE  TasksInv'
<1>1. PICK t : /\ t = helper_syscall(Machine, Use.star) /\ Running
               /\ Transfer(t, "sysret", 0, Next_eip(Machine))
  BY DEF Syscall, UserCode
<1>2. Use.star \in Selectors
  BY DEF TasksInv, SoundProfile, Use
<1>3. Resumable(t)
  BY ONLY <1>1, <1>2, TasksInv, MachineIs, SyscallMade, UndefinedFrom
<1> QED BY ONLY <1>1, <1>3, TasksInv, TransferKeeps

\* ... SYSRET, ...
LEMMA SysretStep ==
  ASSUME TasksInv, Sysret
  PROVE  TasksInv'
<1>1. PICK t, dflag : t = helper_sysret(Machine, Use.star_user, dflag) /\ Running /\ Return(t)
  BY DEF Sysret
<1>2. Use.star_user \in Selectors
  BY DEF TasksInv, SoundProfile, Use
<1>3. Resumable(t)
  BY ONLY <1>1, <1>2, TasksInv, MachineIs, SysretMade, UndefinedFrom
<1> QED BY ONLY <1>1, <1>3, TasksInv, ReturnKeeps

\* ... SYSENTER ...
LEMMA SysenterStep ==
  ASSUME TasksInv, Sysenter
  PROVE  TasksInv'
<1>1. PICK t, esp : /\ t = helper_sysenter(Machine, Use.sysenter, esp) /\ Running
                    /\ Transfer(t, "sysexit", 0, Next_eip(Machine))
  BY DEF Sysenter, UserCode
<1>2. Use.sysenter \in Selectors
  BY DEF TasksInv, SoundProfile, Use
<1>3. Resumable(t)
  BY ONLY <1>1, <1>2, TasksInv, MachineIs, SysenterMade, CalledFrom
<1> QED BY ONLY <1>1, <1>3, TasksInv, TransferKeeps

\* ... and SYSEXIT.
LEMMA SysexitStep ==
  ASSUME TasksInv, Sysexit
  PROVE  TasksInv'
<1>1. PICK t, dflag, esp, eip :
        t = helper_sysexit(Machine, Use.sysenter, dflag, esp, eip) /\ Running /\ Return(t)
  BY DEF Sysexit
<1>2. Use.sysenter \in Selectors
  BY DEF TasksInv, SoundProfile, Use
<1>3. Resumable(t)
  BY ONLY <1>1, <1>2, TasksInv, MachineIs, SysexitMade, CalledFrom
<1> QED BY ONLY <1>1, <1>3, TasksInv, ReturnKeeps

\* What goes on to the next instruction.
LEMMA LoadDsStep ==
  ASSUME TasksInv, NEW sel, LoadDs(sel)
  PROVE  TasksInv'
<1>1. PICK t : t = helper_load_seg(Machine, "DS", sel) /\ Running /\ Advance(t)
  BY DEF LoadDs
<1>2. Outcome(-1, t)
  BY ONLY <1>1, TasksInv, MachineIs, DataLoaded
<1> QED BY ONLY <1>1, <1>2, TasksInv, AdvanceKeeps

\* LLDT keeps it, ...
LEMMA LldtStep ==
  ASSUME TasksInv, NEW sel, Lldt(sel)
  PROVE  TasksInv'
<1>1. PICK t : t = helper_lldt(Machine, sel) /\ Running /\ Advance(t)
  BY DEF Lldt
<1>2. Outcome(-1, t)
  BY ONLY <1>1, TasksInv, MachineIs, LdtLoaded
<1> QED BY ONLY <1>1, <1>2, TasksInv, AdvanceKeeps

\* ... LTR ...
LEMMA LtrStep ==
  ASSUME TasksInv, NEW sel, Ltr(sel)
  PROVE  TasksInv'
<1>1. PICK t : t = helper_ltr(Machine, sel) /\ Running /\ Advance(t)
  BY DEF Ltr
<1>2. Outcome(-1, t)
  BY ONLY <1>1, TasksInv, MachineIs, TrLoaded
<1> QED BY ONLY <1>1, <1>2, TasksInv, AdvanceKeeps

\* ... and any other instruction.
LEMMA PlainStep ==
  ASSUME TasksInv, Plain
  PROVE  TasksInv'
<1>1. Running /\ Advance(Machine)
  BY DEF Plain
<1>2. Outcome(-1, Machine)
  BY ONLY <1>1, TasksInv, MachineIs, ItGoes DEF Outcome
<1> QED BY ONLY <1>1, <1>2, TasksInv, AdvanceKeeps

\* What the system software has set up.
LEMMA BootKept ==
  ASSUME NEW p, SoundProfile(p), NEW t,
         t = [env |-> Boot[p].env, mem |-> Boot[p].mem, exc |-> NoExc]
  PROVE  /\ Well(t) /\ t.exc = NoExc /\ t.env.old_exception = -1
         /\ InProtected(t.env) => LevelsAgree(t.env)
<1>1. t.env = Boot[p].env /\ t.mem = Boot[p].mem /\ t.exc = NoExc /\ IsMachine(t)
  BY DEF IsMachine
<1>2. /\ SoundEnv(t.env) /\ SoundMem(t.mem) /\ t.env.old_exception = -1
      /\ InProtected(t.env) => LevelsAgree(t.env)
  BY ONLY <1>1, SoundProfile(p) DEF SoundProfile
<1> QED BY ONLY <1>1, <1>2 DEF Well

\* A reset starts the system software again.
LEMMA ResetStep ==
  ASSUME TasksInv, Reset
  PROVE  TasksInv'
<1> DEFINE t == [env |-> Boot[profile].env, mem |-> Boot[profile].mem, exc |-> NoExc]
<1>1. SoundProfile(profile)
  BY DEF TasksInv
<1>2. /\ Well(t) /\ t.exc = NoExc /\ t.env.old_exception = -1
      /\ InProtected(t.env) => LevelsAgree(t.env)
  BY <1>1, BootKept
<1>3. Become(t) /\ profile' = profile
  BY DEF Reset, Become
<1> HIDE DEF t
<1>4. Machine' = t
  BY <1>2, <1>3 DEF Well, IsMachine, Machine, Become
<1> HIDE DEF Machine
<1>5. /\ Well(Machine') /\ Machine'.exc = NoExc /\ Machine'.env.old_exception = -1
      /\ InProtected(Machine'.env) => LevelsAgree(Machine'.env)
  BY <1>2, <1>4
<1>6. Resumable(Machine)'
  BY <1>5 DEF Resumable, StackLevel, Settled, LevelsAgree
<1> QED BY <1>3, <1>6 DEF TasksInv, SoundProfile

\* A delivered exception is forgotten.
LEMMA DeliveryForgotten ==
  ASSUME NEW old, NEW s, Goes(old, s), NEW none,
         NEW e, e = [s.env EXCEPT !["old_exception"] = none], NEW t, t = SetEnv(s, e)
  PROVE  Goes(none, t)
<1>1. IsEnv(s.env) /\ IsMachine(s) /\ "old_exception" \in TaskFields
  BY DEF Goes, Well, SoundEnv, IsEnv, TaskFields
<1>2. Changes(e, s.env, {"old_exception"}) /\ e["old_exception"] = none
  <2> DEFINE f == "old_exception"
  <2>1. f \in TaskFields
    BY <1>1
  <2>2. e = [s.env EXCEPT ![f] = none]
    OBVIOUS
  <2> HIDE DEF f
  <2>3. Changes([s.env EXCEPT ![f] = none], s.env, {f}) /\ [s.env EXCEPT ![f] = none][f] = none
    BY ONLY <1>1, <2>1, FieldSet
  <2>4. Changes(e, s.env, {f}) /\ e[f] = none
    BY ONLY <2>2, <2>3
  <2> QED BY <2>4 DEF f
<1>3. /\ IsEnv(e) /\ e.segs = s.env.segs /\ e.cpl = s.env.cpl /\ e.eflags = s.env.eflags
      /\ e.cr0 = s.env.cr0 /\ e.idt = s.env.idt
  BY ONLY <1>2, ChangesFields
<1>4. SoundEnv(s.env) /\ Settled(s.env) /\ SoundMem(s.mem) /\ s.exc = NoExc
  BY DEF Goes, Well
<1>5. SoundEnv(e) /\ Settled(e)
  <2>1. SoundEnv(e)
    BY ONLY <1>3, <1>4 DEF SoundEnv, IsEnv
  <2>2. Settled(e)
    BY ONLY <1>3, <1>4 DEF Settled, InProtected, LevelsAgree
  <2> QED BY ONLY <2>1, <2>2
<1>6. IsMachine(t) /\ t.env = e /\ t.mem = s.mem /\ t.exc = s.exc
  BY ONLY <1>1, t = SetEnv(s, e), OtherEnv
<1> QED BY ONLY <1>2, <1>4, <1>5, <1>6 DEF Goes, Well

\* do_interrupt: what it delivers becomes graver, if anything is raised.
LEMMA DeliveredIs ==
  ASSUME NEW s, Resumable(s), s.exc # NoExc, s.exc.intno # HLT, NEW t, t = do_interrupt(s)
  PROVE  /\ Resumable(t)
         /\ t.exc # NoExc =>
              Gravity(t.exc.intno) > (IF s.exc.is_int THEN 0 ELSE Gravity(s.exc.intno))
<1> DEFINE x == s.exc
           old == s.env.old_exception
           r == [s EXCEPT !.exc = NoExc]
           u == do_interrupt_all(r, x.intno, x.is_int, x.next_eip)
<1>1. Ready(r) /\ r.env = s.env
  <2>1. IsMachine(s)
    BY DEF Resumable, Well
  <2>2. r = [env |-> s.env, mem |-> s.mem, exc |-> NoExc]
    BY ONLY <2>1 DEF IsMachine
  <2> HIDE DEF r
  <2>3. IsMachine(r) /\ r.env = s.env /\ r.mem = s.mem /\ r.exc = NoExc
    BY ONLY <2>2 DEF IsMachine
  <2> QED BY ONLY <2>3, Resumable(s) DEF Resumable, Ready, Well
<1>2. t = Delivered(u)
  BY DEF do_interrupt
<1>3. /\ Pending(x, old) /\ x.intno # HLT
      /\ old \in {-1, TS, NP, SSF, GP, DF}
  BY DEF Resumable, Pending
<1> HIDE DEF r
<1>4. Outcome(old, u)
  <2> DEFINE intno == x.intno
             is_int == x.is_int
             next_eip == x.next_eip
  <2>1. u = do_interrupt_all(r, intno, is_int, next_eip) /\ old = r.env.old_exception
    BY <1>1
  <2> HIDE DEF u, old, intno, is_int, next_eip
  <2> QED BY ONLY <1>1, <2>1, Interrupted
<1> HIDE DEF u, old
<1>5. CASE Goes(old, u)
  <2> DEFINE none == -1
             e == [u.env EXCEPT !["old_exception"] = none]
             v == SetEnv(u, e)
  <2>1. u.exc = NoExc
    BY ONLY <1>5 DEF Goes
  <2>2. t = v
    BY ONLY <1>2, <2>1 DEF Delivered, SetEnv
  <2>3. Goes(-1, t)
    <3>1. e = [u.env EXCEPT !["old_exception"] = none] /\ v = SetEnv(u, e)
      OBVIOUS
    <3> HIDE DEF e, v, none
    <3>2. Goes(none, v)
      BY ONLY <1>5, <3>1, DeliveryForgotten
    <3> QED BY ONLY <2>2, <3>2 DEF none
  <2>4. Resumable(t)
    BY ONLY <2>3, OutcomeKept DEF Outcome
  <2>5. t.exc = NoExc
    BY ONLY <2>3 DEF Goes
  <2> QED BY ONLY <2>4, <2>5
<1>6. CASE Fails(old, u)
  <2>1. /\ Pending(u.exc, u.env.old_exception) /\ u.exc # NoExc
        /\ old = -1 => u.exc.intno \in Vectors
        /\ old \in {TS, NP, SSF, GP} => u.exc.intno = DF
        /\ old = DF => u.exc.intno = HLT
    BY ONLY <1>3, <1>6, RaisedIs DEF Fails
  <2>2. t = u
    BY ONLY <1>2, <2>1 DEF Delivered
  <2>3. Resumable(t)
    BY ONLY <1>6, <2>1, <2>2 DEF Fails, Resumable
  <2>4. Gravity(u.exc.intno) > (IF x.is_int THEN 0 ELSE Gravity(x.intno))
    <3>1. /\ Gravity(HLT) = 4 /\ Gravity(DF) = 3 /\ Gravity(UD) = 1
          /\ \A v \in {TS, NP, SSF, GP} : Gravity(v) = 2
      BY DEF Gravity, Contributory, HLT, DF, UD, TS, NP, SSF, GP, DE
    <3>2. \/ x.is_int /\ old = -1
          \/ x.intno = UD /\ old = -1
          \/ x.intno \in {TS, NP, SSF, GP} /\ old = x.intno
          \/ x.intno = DF /\ old = DF
      BY ONLY <1>3 DEF Pending
    <3> QED BY ONLY <2>1, <3>1, <3>2 DEF Vectors
  <2> QED BY ONLY <2>1, <2>2, <2>3, <2>4
<1> QED BY ONLY <1>4, <1>5, <1>6 DEF Outcome

\* The CPU loop's delivery keeps the invariant, and escalates.
LEMMA DeliverStep ==
  ASSUME TasksInv, Deliver
  PROVE  TasksInv' /\ Escalates
<1>1. PICK t, how, shift, eip : t = do_interrupt(Machine) /\ Transfer(t, how, shift, eip)
  BY DEF Deliver
<1>2. Machine.exc = exc /\ exc # NoExc /\ exc.intno # HLT /\ Resumable(Machine)
  BY DEF Deliver, Running, Machine, TasksInv
<1>3. /\ Resumable(t)
      /\ t.exc # NoExc =>
           Gravity(t.exc.intno) > (IF exc.is_int THEN 0 ELSE Gravity(exc.intno))
  BY ONLY <1>1, <1>2, DeliveredIs
<1>4. exc' = t.exc
  BY <1>1 DEF Transfer, Become
<1> HIDE DEF TasksInv
<1>5. TasksInv'
  BY ONLY <1>1, <1>3, TasksInv, TransferKeeps
<1>6. Escalates
  BY ONLY <1>3, <1>4 DEF Escalates
<1> QED BY ONLY <1>5, <1>6

\* The guest's steps keep the invariant; only a delivery may end in a fault
\* while another one is pending.
LEMMA TasksStep ==
  ASSUME TasksInv, TasksNext
  PROVE  TasksInv' /\ Escalates
<1>1. CASE Deliver
  BY <1>1, DeliverStep
<1>2. CASE Reset
  <2>1. exc' = NoExc
    BY <1>2 DEF Reset
  <2> QED BY <1>2, <2>1, ResetStep DEF Escalates
<1>3. CASE ~Deliver /\ ~Reset
  <2>1. Running
    BY <1>3 DEF TasksNext, SoftInt, HardIrq, FarJump, FarCall, Iret, Lret, do_lret_real,
                UserCode, Syscall, Sysret, Sysenter, Sysexit, LoadDs, Lldt, Ltr, Plain
  <2>2. TasksInv'
    BY <1>3, SoftIntStep, HardIrqStep, FarJumpStep, FarCallStep, IretStep, LretStep,
       LretRealStep, SyscallStep, SysretStep, SysenterStep, SysexitStep, LoadDsStep,
       LldtStep, LtrStep, PlainStep DEF TasksNext
  <2> QED BY <2>1, <2>2 DEF Escalates
<1> QED BY <1>1, <1>2, <1>3

-----------------------------------------------------------------------------
(* What is asked before a load *)

\* What helper_load_seg does not load.
Unfit(s, reg, sel, a) ==
  LET cpl == s.env.cpl IN
  IF reg = "SS" THEN ~WritableData(a) \/ sel.rpl # cpl \/ a.dpl # cpl
  ELSE \/ a.kind = "code" /\ ~a.rw
       \/ ~(a.kind = "code" /\ a.conf) /\ (a.dpl < cpl \/ a.dpl < sel.rpl)

\* helper_load_seg, of a selector that is not null: it goes on if what is
\* loaded is right for the register, and present.
LEMMA LoadsIf ==
  ASSUME NEW s, Ready(s), NEW reg \in {"DS", "SS"}, NEW sel, ~IsNull(sel),
         NEW d, d = load_segment(s, sel)
  PROVE  helper_load_seg(s, reg, sel).exc = NoExc
           <=> IsS(d.attr) /\ ~Unfit(s, reg, sel, d.attr) /\ d.attr.p
<1> DEFINE a1 == ~IsS(d.attr) \/ Unfit(s, reg, sel, d.attr)
           a2 == ~d.attr.p
           vec == IF reg = "SS" THEN SSF ELSE NP
           tests == << <<a1, GP>>, <<a2, vec>> >>
           done == Load(s, reg, sel, d)
           t == helper_load_seg(s, reg, sel)
<1>1. t = Checked(s, tests, done)
  BY ONLY ~IsNull(sel), d = load_segment(s, sel), Zenon DEF helper_load_seg, Unfit
<1>2. /\ DOMAIN tests = 1 .. 2 /\ tests[1][2] = GP /\ tests[2][2] = vec
      /\ tests[1][1] = a1 /\ tests[2][1] = a2
  <2> HIDE DEF a1, a2, vec
  <2> QED OBVIOUS
<1>3. GP \in Vectors /\ vec \in Vectors
  BY DEF Vectors
<1>4. done.exc = NoExc
  <2>1. Good(s) /\ SoundSegs(s.env.segs) /\ s.exc = NoExc
    BY ONLY Ready(s), ReadyIs DEF Ready
  <2>2. reg \in SegRegs /\ reg # "CS" /\ done = Load(s, reg, sel, d)
    BY DEF SegRegs
  <2> HIDE DEF done
  <2> QED BY ONLY <2>1, <2>2, LoadIs
<1> HIDE DEF t, tests, done, vec
<1>5. CASE a1 \/ a2
  <2>1. Fails(s.env.old_exception, t)
    <3> HIDE DEF a1, a2
    <3>1. (t = done /\ ~tests[1][1] /\ ~tests[2][1]) \/ Fails(s.env.old_exception, t)
      BY ONLY <1>1, <1>2, <1>3, Ready(s), Tests2
    <3> QED BY ONLY <1>2, <1>5, <3>1
  <2>2. t.exc # NoExc
    BY ONLY <2>1, FailedIs
  <2> QED BY ONLY <1>5, <2>2 DEF t
<1>6. CASE ~a1 /\ ~a2
  <2>1. {i \in DOMAIN tests : tests[i][1]} = {}
    <3> HIDE DEF a1, a2
    <3> QED BY ONLY <1>2, <1>6
  <2>2. t = done
    BY ONLY <1>1, <2>1 DEF Checked
  <2> QED BY ONLY <1>4, <1>6, <2>2 DEF t
<1> QED BY ONLY <1>5, <1>6

\* VERR and VERW, LSL and LAR.
LEMMA QueriesHold ==
  ASSUME TasksInv
  PROVE  QueriesAgree
<1> SUFFICES ASSUME Running, NEW sel \in Use.data \cup Use.far, ~IsNull(sel)
             PROVE  LET s == Machine
                        loads(reg) == helper_load_seg(s, reg, sel).exc = NoExc
                        present == load_segment(s, sel).attr.p
                    IN  /\ helper_verr(s, sel) /\ present <=> loads("DS")
                        /\ loads("SS") => helper_verw(s, sel)
                        /\ helper_verw(s, sel) => helper_verr(s, sel)
                        /\ helper_verr(s, sel) => helper_lsl(s, sel)
                        /\ helper_lsl(s, sel) => helper_lar(s, sel)
  BY DEF QueriesAgree
<1> DEFINE s == Machine
           d == load_segment(s, sel)
           a == d.attr
           cpl == s.env.cpl
<1>1. Ready(s)
  BY MachineIs
<1>2. sel.rpl \in Rings
  BY DEF TasksInv, SoundProfile, Use, Selectors
<1>3. cpl \in Rings
  BY ONLY <1>1 DEF Ready, Well, SoundEnv
<1>4. a \in Attrs
  BY ONLY DescriptorIs
<1> HIDE DEF s
<1>5. d = load_segment(s, sel)
  OBVIOUS
<1> HIDE DEF d
<1>6. /\ helper_load_seg(s, "DS", sel).exc = NoExc
           <=> IsS(a) /\ ~Unfit(s, "DS", sel, a) /\ a.p
      /\ helper_load_seg(s, "SS", sel).exc = NoExc
           <=> IsS(a) /\ ~Unfit(s, "SS", sel, a) /\ a.p
  BY ONLY <1>1, <1>5, ~IsNull(sel), LoadsIf
<1>7. a.dpl \in Nat /\ cpl \in Nat /\ sel.rpl \in Nat
  BY ONLY <1>2, <1>3, <1>4 DEF Rings, Attrs
<1>8. /\ helper_verr(s, sel) /\ a.p <=> IsS(a) /\ ~Unfit(s, "DS", sel, a) /\ a.p
      /\ IsS(a) /\ ~Unfit(s, "SS", sel, a) /\ a.p => helper_verw(s, sel)
      /\ helper_verw(s, sel) => helper_verr(s, sel)
      /\ helper_verr(s, sel) => helper_lsl(s, sel)
      /\ helper_lsl(s, sel) => helper_lar(s, sel)
  BY ONLY <1>5, <1>7, ~IsNull(sel)
     DEF helper_verr, helper_verw, helper_lsl, helper_lar, Visible, IsS, WritableData, Unfit
<1>9. /\ helper_verr(s, sel) /\ a.p <=> helper_load_seg(s, "DS", sel).exc = NoExc
      /\ helper_load_seg(s, "SS", sel).exc = NoExc => helper_verw(s, sel)
  BY ONLY <1>6, <1>8
<1> QED BY ONLY <1>5, <1>8, <1>9 DEF s

\* The system software starts with it.
LEMMA TasksBegin ==
  ASSUME TasksInit, SoundProfile(profile)
  PROVE  TasksInv
<1>1. Machine = [env |-> Boot[profile].env, mem |-> Boot[profile].mem, exc |-> NoExc]
  BY DEF TasksInit, Machine
<1>2. Resumable(Machine)
  BY ONLY <1>1, SoundProfile(profile), BootKept DEF Resumable, StackLevel, Settled, LevelsAgree
<1> QED BY ONLY <1>2, SoundProfile(profile) DEF TasksInv

\* What the invariant says of the privilege levels.
LEMMA LevelsHold ==
  ASSUME TasksInv
  PROVE  SegmentsAtPrivilege
<1>1. SoundEnv(env)
  BY DEF TasksInv, Resumable, Well, Machine
<1>2. Running => Settled(env)
  BY DEF TasksInv, Resumable, Machine, Running
<1> QED BY ONLY <1>1, <1>2 DEF SoundEnv, Settled, SegmentsAtPrivilege, Protected

\* Where nothing of the guest changes, the invariant stays.
LEMMA TasksRest ==
  ASSUME TasksInv, UNCHANGED <<env, mem, exc, profile, lowered>>
  PROVE  TasksInv'
<1>1. Machine' = Machine
  BY DEF Machine
<1>2. Resumable(Machine')
  BY <1>1 DEF TasksInv
<1>3. Resumable(Machine)'
  BY <1>2 DEF Resumable, StackLevel, Settled
<1> QED BY <1>3 DEF TasksInv, SoundProfile
===============================================================================
