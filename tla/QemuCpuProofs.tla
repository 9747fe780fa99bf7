---------------------------- MODULE QemuCpuProofs ----------------------------
(***************************************************************************)
(* Theorems about the parts of the emulated processor, for every value of  *)
(* the constants: external interrupts in KVM's run loop, model-specific    *)
(* registers with machine checks, breakpoints and repeated string          *)
(* instructions, the TLB and the CPU's modes (from CpuStateProofs), tasks, *)
(* gates and exceptions (from GuestTasksProofs).                           *)
(***************************************************************************)
EXTENDS MCQemuCpu, CpuStateProofs, GuestTasksProofs, SequenceTheorems, FiniteSetTheorems

(* KVM's run loop *)

\* Between two runs of the guest QEMU's copy of IF is the guest's, and the
\* guest holds no interrupt when the shared page says that it is ready for
\* one; in the guest the window has been asked for when a line is up.
LoopInv ==
  /\ at \in {"loop", "guest", "exited", "halted"}
  /\ run = [ready |-> run.ready, window |-> run.window, if_flag |-> run.if_flag,
            reason |-> run.reason]
  /\ guest = [if |-> guest.if, given |-> guest.given]
  /\ guest.if \in BOOLEAN /\ run.if_flag \in BOOLEAN /\ eflags \in BOOLEAN
  /\ pic # {} => "HARD" \in request
  /\ at = "guest" /\ pic # {} => run.window
  /\ at = "exited" => run.if_flag = guest.if
  /\ at \in {"loop", "halted"} => eflags = guest.if
  /\ at # "guest" /\ run.ready => guest.given = {}

\* The invariant of the run loop holds before the first KVM_RUN.
LEMMA LoopBegins ==
  ASSUME LoopInit
  PROVE  LoopInv
<1>1. /\ at = "loop" /\ pic = {} /\ eflags = FALSE
      /\ run = [ready |-> TRUE, window |-> FALSE, if_flag |-> FALSE, reason |-> "none"]
      /\ guest = [if |-> FALSE, given |-> {}]
  BY DEF LoopInit
<1>2. /\ run.ready = TRUE /\ run.window = FALSE /\ run.if_flag = FALSE /\ run.reason = "none"
      /\ guest.if = FALSE /\ guest.given = {}
  BY <1>1
<1> QED BY <1>1, <1>2 DEF LoopInv

\* Every step of the loop, of the guest and of the devices.
LEMMA LoopStep ==
  ASSUME LoopInv, LoopNext
  PROVE  LoopInv' /\ WhenOpen
<1>1. CASE kvm_arch_pre_run
  <2>0. at = "loop" /\ eflags = guest.if /\ (run.ready => guest.given = {})
    BY <1>1 DEF kvm_arch_pre_run, LoopInv
  <2>1. ASSUME NEW after, NEW given, EnterGuest(after, given),
               after.pic # {} => "HARD" \in after.request,
               given = guest.given \/ Window
        PROVE  LoopInv' /\ WhenOpen
    <3>1. /\ pic' = after.pic /\ request' = after.request /\ at' = "guest" /\ eflags' = eflags
          /\ run' = [ready |-> run.ready, window |-> "HARD" \in after.request,
                     if_flag |-> run.if_flag, reason |-> run.reason]
          /\ guest' = [if |-> guest.if, given |-> given]
      BY <2>1 DEF EnterGuest, LoopInv
    <3> QED BY <2>1, <3>1 DEF LoopInv, WhenOpen, Window
  <2>2. CASE ~CanInject
    BY <1>1, <2>1, <2>2 DEF kvm_arch_pre_run, LoopInv
  <2>3. CASE CanInject /\ pic = {}
    BY <1>1, <2>1, <2>3 DEF kvm_arch_pre_run
  <2>4. CASE CanInject /\ pic # {}
    <3>1. PICK irq \in pic : EnterGuest(pre_run(irq), guest.given \cup {irq})
      BY <1>1, <2>4 DEF kvm_arch_pre_run
    <3>2. Window
      BY <2>0, <2>4 DEF Window, CanInject
    <3>3. pre_run(irq).pic # {} => "HARD" \in pre_run(irq).request
      BY DEF pre_run, PicRequests
    <3> QED BY <2>1, <3>1, <3>2, <3>3
  <2> QED BY <2>2, <2>3, <2>4
<1>2. CASE GuestTakes
  BY <1>2 DEF GuestTakes, LoopInv, WhenOpen
<1>3. CASE GuestFlag
  BY <1>3 DEF GuestFlag, LoopInv, WhenOpen
<1>4. ASSUME NEW reason, GuestExits(reason)
      PROVE  LoopInv' /\ WhenOpen
  <2>1. run' = [ready |-> Window, window |-> run.window, if_flag |-> guest.if, reason |-> reason]
    BY <1>4 DEF GuestExits, LoopInv
  <2> QED BY <1>4, <2>1 DEF GuestExits, LoopInv, WhenOpen, Window
<1>5. CASE HandleExit
  BY <1>5 DEF HandleExit, LoopInv, WhenOpen
<1>6. CASE Wake
  BY <1>6 DEF Wake, LoopInv, WhenOpen
<1>7. ASSUME Kicked, eflags' = eflags, guest' = guest, pic' # {} => "HARD" \in request'
      PROVE  LoopInv' /\ WhenOpen
  <2>1. CASE at = "guest"
    <3>1. run' = [ready |-> Window, window |-> run.window, if_flag |-> guest.if, reason |-> "intr"]
      BY <1>7, <2>1 DEF Kicked, LoopInv
    <3> QED BY <1>7, <2>1, <3>1 DEF Kicked, LoopInv, WhenOpen, Window
  <2>2. CASE at # "guest"
    BY <1>7, <2>2 DEF Kicked, LoopInv, WhenOpen
  <2> QED BY <2>1, <2>2
<1>8. CASE RaiseNmi
  BY <1>7, <1>8 DEF RaiseNmi, LoopInv
<1>9. ASSUME NEW irq \in Irqs, RaiseIrq(irq)
      PROVE  LoopInv' /\ WhenOpen
  BY <1>7, <1>9 DEF RaiseIrq
<1> QED BY <1>1, <1>2, <1>3, <1>4, <1>5, <1>6, <1>8, <1>9 DEF LoopNext

-----------------------------------------------------------------------------
(* Model-specific registers and machine checks *)

BankStates == [ctl : Values, status : [flags : SUBSET {"VAL", "UC"}, over : BOOLEAN], addr : 0 .. 2]
McgStates == [status : SUBSET {"MCIP"}, ctl : Values, cr4_mce : BOOLEAN]

\* The fields, and KVM's copies of them, which agree where nothing has been written
\* since it was exchanged.
MsrInv ==
  /\ DOMAIN slots = Slots /\ DOMAIN in_kvm = Slots
  /\ slots = [s \in Slots |-> slots[s]] /\ in_kvm = [s \in Slots |-> in_kvm[s]]
  /\ InKvm => \A s \in KvmSlots(HasStar) \ differ : slots[s] = in_kvm[s]
  /\ banks \in [Banks -> BankStates] /\ mcg \in McgStates

\* The list of exchanged registers is a list of names.
LEMMA EntriesFinite ==
  ASSUME NEW star \in BOOLEAN
  PROVE  Entries(star) \in Seq(Names \cup {"TSC"}) /\ Len(Entries(star)) \in Nat
<1> DEFINE N == Names \cup {"TSC"}
<1>1. <<"SYSENTER_CS", "SYSENTER_ESP", "SYSENTER_EIP">> \in Seq(N)
  BY DEF Names
<1>2. (IF star THEN <<"STAR">> ELSE <<>>) \in Seq(N)
  <2>1. <<"STAR">> \in Seq(N) /\ <<>> \in Seq(N)
    BY DEF Names
  <2> QED BY <2>1
<1>3. <<"TSC", "CSTAR", "KERNELGSBASE", "FMASK", "LSTAR">> \in Seq(N)
  BY DEF Names
<1> HIDE DEF N
<1>4. Entries(star) \in Seq(N)
  BY <1>1, <1>2, <1>3 DEF Entries
<1> QED BY <1>4 DEF N

\* KVM keeps fields of the processor state only.
LEMMA KvmSlotsKnown ==
  ASSUME NEW star \in BOOLEAN, NEW n \in -1 .. Len(Entries(star))
  PROVE  KvmSlots(star) \subseteq Slots /\ Reached(star, n) \subseteq KvmSlots(star)
<1>1. \A x \in Names : <<x, 0>> \in Slots
  <2> SUFFICES ASSUME NEW x \in Names
               PROVE  <<x, 0>> \in Slots
    OBVIOUS
  <2>1. [name |-> x, number |-> 0] \in Msrs /\ x # "MTRR"
    BY DEF Msrs, Names
  <2>2. Slot([name |-> x, number |-> 0]) = <<x, 0>>
    BY <2>1 DEF Slot
  <2> QED BY <2>1, <2>2 DEF Slots
<1>2. <<"TSC", 0>> \in Slots
  BY DEF Slots
<1>3. Entries(star) \in Seq(Names \cup {"TSC"})
  BY EntriesFinite
<1>4. \A i \in 1 .. Len(Entries(star)) : Entries(star)[i] \in Names \cup {"TSC"}
  BY <1>3
<1>5. KvmSlots(star) \subseteq Slots
  BY <1>1, <1>2, <1>4 DEF KvmSlots, Reached
<1>6. Len(Entries(star)) \in Nat
  BY EntriesFinite
<1>7. \A i : i \in 1 .. n => i \in 1 .. Len(Entries(star))
  BY <1>6
<1>8. Reached(star, n) \subseteq KvmSlots(star)
  BY <1>7 DEF KvmSlots, Reached
<1> QED BY <1>5, <1>8

\* The five formulas map the numbers to distinct fields.
LEMMA SlotsApart ==
  ASSUME NEW m \in Msrs, NEW k \in Msrs, Slot(m) = Slot(k)
  PROVE  m = k
<1>1. \A n \in Names : n \notin {"MTRR", "mtrr_var.base", "mtrr_var.mask", "mtrr_fixed"}
  BY DEF Names
<1>2. \/ m.name \in Names /\ m = [name |-> m.name, number |-> 0]
      \/ m.name = "MTRR" /\ m.number \in Numbered /\ m = [name |-> "MTRR", number |-> m.number]
  BY DEF Msrs
<1>3. \/ k.name \in Names /\ k = [name |-> k.name, number |-> 0]
      \/ k.name = "MTRR" /\ k.number \in Numbered /\ k = [name |-> "MTRR", number |-> k.number]
  BY DEF Msrs
<1>4. \A n \in Numbered :
        \/ \E i \in 0 .. 7 : n = 512 + 2 * i
        \/ \E i \in 0 .. 7 : n = 513 + 2 * i
        \/ n = 592
        \/ n \in 600 .. 601
        \/ n \in 616 .. 623
  BY DEF Numbered, PhysBase, PhysMask, Fix64K, Fix16K, Fix4K
<1>5. CASE m.name = "MTRR" /\ k.name = "MTRR"
  <2>1. m.number \in Numbered /\ k.number \in Numbered
    BY <1>1, <1>2, <1>3, <1>5
  <2> DEFINE x == m.number
             y == k.number
             field(n) == IF n < 528 /\ n % 2 = 0 THEN <<"mtrr_var.base", (n - 512) \div 2>>
                         ELSE IF n < 528 THEN <<"mtrr_var.mask", (n - 513) \div 2>>
                         ELSE IF n = 592 THEN <<"mtrr_fixed", n - 592>>
                         ELSE IF n < 616 THEN <<"mtrr_fixed", n - 600 + 1>>
                         ELSE <<"mtrr_fixed", n - 616 + 3>>
  <2>2. Slot(m) = field(x) /\ Slot(k) = field(y)
    BY <1>5 DEF Slot, PhysBase, PhysMask, Fix64K, Fix16K, Fix4K
  <2> HIDE DEF x, y
  <2>3. ASSUME NEW a \in Numbered, NEW b \in Numbered, field(a) = field(b)
        PROVE  a = b
    <3>1. ASSUME NEW n \in Numbered
          PROVE  /\ field(n)[2] \in Int
                 /\ \/ field(n)[1] = "mtrr_var.base" /\ n = 512 + 2 * field(n)[2]
                    \/ field(n)[1] = "mtrr_var.mask" /\ n = 513 + 2 * field(n)[2]
                    \/ field(n)[1] = "mtrr_fixed" /\ field(n)[2] = 0 /\ n = 592
                    \/ field(n)[1] = "mtrr_fixed" /\ field(n)[2] \in 1 .. 2 /\ n = field(n)[2] + 599
                    \/ field(n)[1] = "mtrr_fixed" /\ field(n)[2] \in 3 .. 10 /\ n = field(n)[2] + 613
      <4>1. ASSUME NEW i \in 0 .. 7, n = 512 + 2 * i
            PROVE  field(n) = <<"mtrr_var.base", i>>
        BY <4>1
      <4>2. ASSUME NEW i \in 0 .. 7, n = 513 + 2 * i
            PROVE  field(n) = <<"mtrr_var.mask", i>>
        BY <4>2
      <4>3. n = 592 => field(n) = <<"mtrr_fixed", 0>>
        OBVIOUS
      <4>4. n \in 600 .. 601 => field(n) = <<"mtrr_fixed", n - 599>>
        OBVIOUS
      <4>5. n \in 616 .. 623 => field(n) = <<"mtrr_fixed", n - 613>>
        OBVIOUS
      <4> HIDE DEF field
      <4> QED BY <1>4, <4>1, <4>2, <4>3, <4>4, <4>5
    <3>2. field(a)[1] = field(b)[1] /\ field(a)[2] = field(b)[2]
      BY <2>3
    <3> HIDE DEF field
    <3> DEFINE kind == field(a)[1]
               f == field(a)[2]
               is(n) == \/ kind = "mtrr_var.base" /\ n = 512 + 2 * f
                        \/ kind = "mtrr_var.mask" /\ n = 513 + 2 * f
                        \/ kind = "mtrr_fixed" /\ f = 0 /\ n = 592
                        \/ kind = "mtrr_fixed" /\ f \in 1 .. 2 /\ n = f + 599
                        \/ kind = "mtrr_fixed" /\ f \in 3 .. 10 /\ n = f + 613
    <3>3. f \in Int /\ is(a) /\ is(b)
      BY <3>1, <3>2
    <3> HIDE DEF kind, f
    <3> QED BY <3>3
  <2>4. x = y
    <3> HIDE DEF field
    <3>1. x \in Numbered /\ y \in Numbered /\ field(x) = field(y)
      BY <2>1, <2>2 DEF x, y
    <3> QED BY <2>3, <3>1
  <2> QED BY <1>1, <1>2, <1>3, <1>5, <2>4 DEF x, y
<1>6. CASE m.name # "MTRR" /\ k.name # "MTRR"
  BY <1>2, <1>3, <1>6 DEF Slot
<1>7. ASSUME NEW n \in Msrs, n.name = "MTRR"
      PROVE  Slot(n)[1] \in {"mtrr_var.base", "mtrr_var.mask", "mtrr_fixed"}
  BY <1>7 DEF Slot
<1>8. ASSUME NEW n \in Msrs, n.name # "MTRR"
      PROVE  Slot(n)[1] = n.name
  BY <1>8 DEF Slot
<1> QED BY <1>1, <1>2, <1>3, <1>5, <1>6, <1>7, <1>8

\* The invariant of the registers and banks holds after reset.
LEMMA MsrBegins ==
  ASSUME MsrInit
  PROVE  MsrInv
<1>1. /\ slots = [s \in Slots |-> "Zero"] /\ in_kvm = slots
      /\ banks = [b \in Banks |-> [ctl |-> "Ones", status |-> NoError, addr |-> 0]]
      /\ mcg = [status |-> {}, ctl |-> "Ones", cr4_mce |-> FALSE]
  BY DEF MsrInit
<1>2. banks \in [Banks -> BankStates]
  BY <1>1 DEF NoError, Status, BankStates, Values
<1>3. mcg \in McgStates
  BY <1>1 DEF McgStates, Values
<1>4. HasStar \in BOOLEAN /\ KvmSlots(HasStar) \subseteq Slots
  <2>1. HasStar \in BOOLEAN /\ -1 \in -1 .. Len(Entries(HasStar))
    BY EntriesFinite DEF HasStar
  <2> QED BY <2>1, KvmSlotsKnown
<1> QED BY <1>1, <1>2, <1>3, <1>4 DEF MsrInv

\* Writing one register changes what one number reads as.
LEMMA OneRegister ==
  ASSUME MsrInv, NEW msr \in Msrs, NEW v, slots' = wrmsr(slots, msr, v)
  PROVE  Cardinality({m \in Msrs : rdmsr(slots', m) # rdmsr(slots, m)}) <= 1
<1> DEFINE changed == {m \in Msrs : rdmsr(slots', m) # rdmsr(slots, m)}
<1>1. ASSUME NEW m \in Msrs, m # msr
      PROVE  rdmsr(slots', m) = rdmsr(slots, m)
  <2>1. Slot(m) # Slot(msr) /\ Slot(m) \in Slots
    BY <1>1, SlotsApart DEF Slots
  <2> QED BY <2>1 DEF rdmsr, wrmsr, MsrInv
<1>2. changed \subseteq {msr}
  BY <1>1
<1> HIDE DEF changed
<1>3. IsFiniteSet({msr}) /\ Cardinality({msr}) = 1
  BY FS_Singleton
<1>4. IsFiniteSet(changed) /\ Cardinality(changed) <= Cardinality({msr})
  BY <1>2, <1>3, FS_Subset
<1> QED BY <1>3, <1>4 DEF changed

\* No machine check is lost in its bank.
LEMMA ErrorsStay ==
  ASSUME MsrInv, NEW b \in Banks, NEW flags, NEW addr, inject_mce(b, flags, addr)
  PROVE  ErrorsKept
<1>1. banks \in [Banks -> BankStates]
  BY DEF MsrInv
<1> SUFFICES ASSUME NEW k \in Banks,
                    Valid(banks[k].status), Valid(banks'[k].status),
                    banks'[k] # banks[k], banks'[k].ctl = banks[k].ctl
             PROVE  /\ banks'[k].status.over
                    /\ Uncorrected(banks[k].status) =>
                         /\ Uncorrected(banks'[k].status)
                         /\ banks'[k].addr # banks[k].addr =>
                              "MCIP" \notin mcg.status /\ mcg'.status = {"MCIP"}
  BY DEF ErrorsKept
<1>2. mcg \in McgStates
  BY DEF MsrInv
<1> DEFINE bank == banks[b]
<1>3. bank = [ctl |-> bank.ctl, status |-> bank.status, addr |-> bank.addr]
      /\ bank.status = [flags |-> bank.status.flags, over |-> bank.status.over]
  BY <1>1 DEF BankStates
<1>4. CASE "UC" \in flags
  <2>1. /\ banks' = [banks EXCEPT ![b] = Recorded(bank, flags, addr)]
        /\ mcg' = [mcg EXCEPT !.status = {"MCIP"}] /\ "MCIP" \notin mcg.status
    BY <1>4 DEF inject_mce
  <2>2. k = b /\ banks'[b] = Recorded(bank, flags, addr)
    BY <1>1, <2>1
  <2>3. banks'[b].status = [flags |-> flags, over |-> Valid(bank.status)]
    BY <1>3, <2>2 DEF Recorded, Status
  <2>4. mcg'.status = {"MCIP"}
    BY <1>2, <2>1 DEF McgStates
  <2>5. banks'[k].status.over = Valid(bank.status) /\ Valid(bank.status)
    BY <2>2, <2>3
  <2>6. Uncorrected(banks'[k].status)
    BY <1>4, <2>2, <2>3 DEF Uncorrected
  <2> QED BY <2>1, <2>4, <2>5, <2>6
<1>5. CASE "UC" \notin flags
  <2>1. banks' = [banks EXCEPT ![b] =
                    IF Valid(bank.status) /\ Uncorrected(bank.status)
                      THEN [bank EXCEPT !.status.over = TRUE]
                    ELSE Recorded(bank, flags, addr)]
    BY <1>5 DEF inject_mce
  <2>2. k = b /\ banks'[b] = IF Uncorrected(bank.status) THEN [bank EXCEPT !.status.over = TRUE]
                             ELSE Recorded(bank, flags, addr)
    BY <1>1, <2>1
  <2>3. CASE Uncorrected(bank.status)
    <3>1. banks'[b] = [ctl |-> bank.ctl, addr |-> bank.addr,
                       status |-> [flags |-> bank.status.flags, over |-> TRUE]]
      BY <1>3, <2>2, <2>3
    <3> QED BY <2>2, <2>3, <3>1 DEF Uncorrected
  <2>4. CASE ~Uncorrected(bank.status)
    <3>1. banks'[b].status = [flags |-> flags, over |-> Valid(bank.status)]
      BY <1>3, <2>2, <2>4 DEF Recorded, Status
    <3> QED BY <2>2, <2>4, <3>1
  <2> QED BY <2>3, <2>4
<1> QED BY <1>4, <1>5

\* What is written to a bank: its control register, ...
LEMMA CtlWritten ==
  ASSUME NEW c \in BankStates, NEW v
  PROVE  [c EXCEPT !.ctl = v] = [ctl |-> v, status |-> c.status, addr |-> c.addr]
<1>1. c = [ctl |-> c.ctl, status |-> c.status, addr |-> c.addr]
  BY DEF BankStates
<1> QED BY ONLY <1>1

\* ... its status, ...
LEMMA StatusWritten ==
  ASSUME NEW c \in BankStates, NEW v
  PROVE  [c EXCEPT !.status = v] = [ctl |-> c.ctl, status |-> v, addr |-> c.addr]
<1>1. c = [ctl |-> c.ctl, status |-> c.status, addr |-> c.addr]
  BY DEF BankStates
<1> QED BY ONLY <1>1

\* ... its overflow bit, ...
LEMMA OverSet ==
  ASSUME NEW c \in BankStates, NEW v
  PROVE  [c EXCEPT !.status.over = v] =
           [ctl |-> c.ctl, addr |-> c.addr, status |-> [flags |-> c.status.flags, over |-> v]]
<1>1. c.status = [flags |-> c.status.flags, over |-> c.status.over]
  BY DEF BankStates
<1>2. [c.status EXCEPT !.over = v] = [flags |-> c.status.flags, over |-> v]
  BY ONLY <1>1
<1>3. [c EXCEPT !.status.over = v] = [c EXCEPT !.status = [c.status EXCEPT !.over = v]]
  OBVIOUS
<1> QED BY <1>2, <1>3, StatusWritten

\* ... or an error with its address.
LEMMA ErrorWritten ==
  ASSUME NEW c \in BankStates, NEW v, NEW w
  PROVE  [c EXCEPT !.status = v, !.addr = w] = [ctl |-> c.ctl, status |-> v, addr |-> w]
<1> DEFINE d == [c EXCEPT !.status = v]
<1>1. [c EXCEPT !.status = v, !.addr = w] = [d EXCEPT !.addr = w]
  OBVIOUS
<1>2. d = [ctl |-> c.ctl, status |-> v, addr |-> c.addr]
  BY StatusWritten
<1> HIDE DEF d
<1> QED BY ONLY <1>1, <1>2

\* What the banks and the global registers are after a machine check's step.
LEMMA BanksStep ==
  ASSUME MsrInv, MachineChecks
  PROVE  banks' \in [Banks -> BankStates] /\ mcg' \in McgStates /\ ErrorsKept
<1> USE DEF MsrInv
<1>0. /\ banks \in [Banks -> BankStates] /\ mcg \in McgStates
      /\ mcg = [status |-> mcg.status, ctl |-> mcg.ctl, cr4_mce |-> mcg.cr4_mce]
      /\ mcg.status \in SUBSET {"MCIP"} /\ mcg.ctl \in Values /\ mcg.cr4_mce \in BOOLEAN
  BY DEF McgStates
<1>1. \A b \in Banks :
        /\ banks[b] = [ctl |-> banks[b].ctl, status |-> banks[b].status, addr |-> banks[b].addr]
        /\ banks[b].ctl \in Values /\ banks[b].addr \in 0 .. 2
        /\ banks[b].status = [flags |-> banks[b].status.flags, over |-> banks[b].status.over]
        /\ banks[b].status.flags \in SUBSET {"VAL", "UC"} /\ banks[b].status.over \in BOOLEAN
        /\ Valid(banks[b].status) \in BOOLEAN
  BY <1>0 DEF BankStates, Valid
<1>2. ASSUME banks' = banks
      PROVE  ErrorsKept
  BY <1>2 DEF ErrorsKept
<1>3. ASSUME NEW b \in Banks, NEW v \in Values, WriteBankCtl(b, v)
      PROVE  banks' \in [Banks -> BankStates] /\ mcg' \in McgStates /\ ErrorsKept
  <2>1. banks' = [banks EXCEPT
                     ![b] = [ctl |-> v, status |-> banks[b].status, addr |-> banks[b].addr]]
    <3>1. [banks[b] EXCEPT !.ctl = v]
            = [ctl |-> v, status |-> banks[b].status, addr |-> banks[b].addr]
      <4>1. banks[b] \in BankStates
        BY <1>0
      <4> QED BY ONLY <4>1, CtlWritten
    <3>2. banks' = [banks EXCEPT ![b] = [banks[b] EXCEPT !.ctl = v]]
      BY <1>3 DEF WriteBankCtl
    <3> QED BY <3>1, <3>2
  <2>2. banks' \in [Banks -> BankStates] /\ mcg' \in McgStates
    BY <1>0, <1>1, <1>3, <2>1 DEF WriteBankCtl, BankStates
  <2>3. \A k \in Banks : banks'[k].ctl = banks[k].ctl => banks'[k] = banks[k]
    BY <1>0, <1>1, <2>1
  <2> QED BY <2>2, <2>3 DEF ErrorsKept
<1>4. ASSUME NEW b \in Banks, ClearBank(b)
      PROVE  banks' \in [Banks -> BankStates] /\ mcg' \in McgStates /\ ErrorsKept
  <2>1. banks' = [banks EXCEPT
                     ![b] = [ctl |-> banks[b].ctl, status |-> NoError, addr |-> banks[b].addr]]
    <3>1. [banks[b] EXCEPT !.status = NoError]
            = [ctl |-> banks[b].ctl, status |-> NoError, addr |-> banks[b].addr]
      <4>1. banks[b] \in BankStates
        BY <1>0
      <4> QED BY ONLY <4>1, StatusWritten
    <3>2. banks' = [banks EXCEPT ![b] = [banks[b] EXCEPT !.status = NoError]]
      BY <1>4 DEF ClearBank
    <3> QED BY <3>1, <3>2
  <2>2. banks' \in [Banks -> BankStates] /\ mcg' \in McgStates
    <3>1. NoError = [flags |-> {}, over |-> FALSE]
      BY DEF NoError, Status
    <3>2. [ctl |-> banks[b].ctl, status |-> NoError, addr |-> banks[b].addr] \in BankStates
      BY <1>1, <3>1 DEF BankStates
    <3> HIDE DEF BankStates
    <3> QED BY <1>0, <1>4, <2>1, <3>2 DEF ClearBank
  <2>3. \A k \in Banks : Valid(banks'[k].status) => banks'[k] = banks[k]
    BY <1>0, <2>1 DEF Valid, NoError, Status
  <2> QED BY <2>2, <2>3 DEF ErrorsKept
<1>5. ASSUME NEW b \in Banks, NEW f \in {{"VAL"}, {"VAL", "UC"}, {}}, NEW addr \in 1 .. 2,
             inject_mce(b, f, addr)
      PROVE  banks' \in [Banks -> BankStates] /\ mcg' \in McgStates /\ ErrorsKept
  <2>1. Recorded(banks[b], f, addr) = [ctl |-> banks[b].ctl, addr |-> addr,
          status |-> [flags |-> f, over |-> Valid(banks[b].status)]]
    <3> DEFINE st == Status(f, Valid(banks[b].status))
    <3>1. [banks[b] EXCEPT !.status = st, !.addr = addr] =
            [ctl |-> banks[b].ctl, status |-> st, addr |-> addr]
      <4>1. banks[b] \in BankStates
        BY <1>0
      <4> HIDE DEF st
      <4> QED BY ONLY <4>1, ErrorWritten
    <3> QED BY <3>1 DEF Recorded, Status
  <2>2. Recorded(banks[b], f, addr) \in BankStates
    BY <1>1, <2>1 DEF BankStates
  <2>3. [banks[b] EXCEPT !.status.over = TRUE] = [ctl |-> banks[b].ctl, addr |-> banks[b].addr,
          status |-> [flags |-> banks[b].status.flags, over |-> TRUE]]
    <3>1. banks[b] \in BankStates
      BY <1>0
    <3> QED BY ONLY <3>1, OverSet
  <2>4. [banks[b] EXCEPT !.status.over = TRUE] \in BankStates
    <3>1. [ctl |-> banks[b].ctl, addr |-> banks[b].addr,
           status |-> [flags |-> banks[b].status.flags, over |-> TRUE]] \in BankStates
      BY <1>1 DEF BankStates
    <3> QED BY <2>3, <3>1
  <2>5. [mcg EXCEPT !.status = {"MCIP"}] \in McgStates
    BY <1>0 DEF McgStates
  <2>6. banks' \in [Banks -> BankStates] /\ mcg' \in McgStates
    BY <1>0, <1>5, <2>2, <2>4, <2>5 DEF inject_mce
  <2> QED BY <1>5, <2>6, ErrorsStay
<1>6. CASE WriteMcgStatus
  BY <1>0, <1>2, <1>6 DEF WriteMcgStatus, McgStates
<1>7. ASSUME NEW v \in Values, WriteMcgCtl(v)
      PROVE  banks' \in [Banks -> BankStates] /\ mcg' \in McgStates /\ ErrorsKept
  BY <1>0, <1>2, <1>7 DEF WriteMcgCtl, McgStates
<1>8. ASSUME NEW on \in BOOLEAN, SetCr4Mce(on)
      PROVE  banks' \in [Banks -> BankStates] /\ mcg' \in McgStates /\ ErrorsKept
  BY <1>0, <1>2, <1>8 DEF SetCr4Mce, McgStates
<1> QED BY <1>3, <1>4, <1>5, <1>6, <1>7, <1>8 DEF MachineChecks

\* Register writes, the exchange with KVM and injected machine checks keep the
\* invariant, overlap nothing and lose no error.
LEMMA MsrStep ==
  ASSUME MsrInv, MsrNext
  PROVE  MsrInv' /\ RegistersApart /\ ErrorsKept
<1>0. /\ HasStar \in BOOLEAN /\ KvmSlots(HasStar) \subseteq Slots
      /\ \A ret \in Answers : Reached(HasStar, ret) \subseteq KvmSlots(HasStar)
  <2>1. HasStar \in BOOLEAN /\ -1 \in -1 .. Len(Entries(HasStar))
    BY EntriesFinite DEF HasStar
  <2> QED BY <2>1, KvmSlotsKnown DEF Answers
<1>1. ASSUME banks' = banks, mcg' = mcg
      PROVE  banks' \in [Banks -> BankStates] /\ mcg' \in McgStates /\ ErrorsKept
  BY <1>1 DEF MsrInv, ErrorsKept
<1>2. ASSUME slots' = slots
      PROVE  Cardinality({m \in Msrs : rdmsr(slots', m) # rdmsr(slots, m)}) <= 1
  <2>1. {m \in Msrs : rdmsr(slots', m) # rdmsr(slots, m)} = {}
    BY <1>2
  <2> QED BY <2>1, FS_EmptySet
<1>3. ASSUME NEW msr \in Msrs, NEW v \in Values, TcgWrites(msr, v)
      PROVE  MsrInv' /\ RegistersApart /\ ErrorsKept
  <2>1. /\ msr_means = "tcg" /\ msr_means' = "tcg" /\ slots' = wrmsr(slots, msr, v)
        /\ UNCHANGED <<in_kvm, differ, banks, mcg>>
    BY <1>3 DEF TcgWrites, mce_vars
  <2>2. DOMAIN slots' = Slots /\ slots' = [s \in Slots |-> slots'[s]]
    BY <2>1 DEF wrmsr, MsrInv
  <2>3. RegistersApart
    BY <2>1, OneRegister DEF RegistersApart, InKvm
  <2> QED BY <1>1, <2>1, <2>2, <2>3 DEF MsrInv, InKvm
<1>4. ASSUME NEW s \in KvmSlots(HasStar), NEW v, KvmWrites(s, v)
      PROVE  MsrInv' /\ RegistersApart /\ ErrorsKept
  <2>1. /\ InKvm /\ msr_means # "tcg" /\ msr_means' = msr_means /\ differ' = differ \cup {s}
        /\ in_kvm' = [in_kvm EXCEPT ![s] = v] /\ UNCHANGED <<slots, banks, mcg>>
    BY <1>4 DEF KvmWrites, mce_vars, InKvm
  <2>2. DOMAIN in_kvm' = Slots /\ in_kvm' = [n \in Slots |-> in_kvm'[n]]
    BY <2>1 DEF MsrInv
  <2>3. \A n \in KvmSlots(HasStar) \ differ' : slots'[n] = in_kvm'[n]
    BY <1>0, <2>1 DEF MsrInv
  <2> QED BY <1>1, <2>1, <2>2, <2>3 DEF MsrInv, RegistersApart, HasStar
<1>5. ASSUME NEW ret \in Answers, kvm_get_msrs(ret)
      PROVE  MsrInv' /\ RegistersApart /\ ErrorsKept
  <2>1. /\ InKvm /\ msr_means # "tcg" /\ msr_means' = msr_means
        /\ differ' = differ \ Reached(HasStar, ret)
        /\ slots' = Copy(in_kvm, slots, Reached(HasStar, ret)) /\ UNCHANGED <<in_kvm, banks, mcg>>
    BY <1>5 DEF kvm_get_msrs, mce_vars, InKvm
  <2>2. DOMAIN slots' = Slots /\ slots' = [n \in Slots |-> slots'[n]]
    BY <2>1 DEF Copy
  <2>3. \A n \in KvmSlots(HasStar) \ differ' : slots'[n] = in_kvm'[n]
    BY <1>0, <2>1 DEF Copy, MsrInv
  <2> QED BY <1>1, <2>1, <2>2, <2>3 DEF MsrInv, RegistersApart, HasStar
<1>6. ASSUME NEW s \in KvmSlots(HasStar), NEW v, NEW ret \in Answers, kvm_put_msrs(s, v, ret)
      PROVE  MsrInv' /\ RegistersApart /\ ErrorsKept
  <2>1. /\ InKvm /\ msr_means # "tcg" /\ msr_means' = msr_means
        /\ differ' = (differ \cup {s}) \ Reached(HasStar, ret)
        /\ slots' = [slots EXCEPT ![s] = v]
        /\ in_kvm' = Copy(slots', in_kvm, Reached(HasStar, ret)) /\ UNCHANGED <<banks, mcg>>
    BY <1>6 DEF kvm_put_msrs, mce_vars, InKvm
  <2>2. /\ DOMAIN slots' = Slots /\ slots' = [n \in Slots |-> slots'[n]]
        /\ DOMAIN in_kvm' = Slots /\ in_kvm' = [n \in Slots |-> in_kvm'[n]]
    BY <1>0, <2>1 DEF Copy, MsrInv
  <2>3. \A n \in KvmSlots(HasStar) \ differ' : slots'[n] = in_kvm'[n]
    <3> SUFFICES ASSUME NEW n \in KvmSlots(HasStar), n \notin differ'
                 PROVE  slots'[n] = in_kvm'[n]
      OBVIOUS
    <3>1. CASE n \in Reached(HasStar, ret)
      BY <1>0, <2>1, <3>1 DEF Copy
    <3>2. CASE n \notin Reached(HasStar, ret)
      <4>1. n \notin differ /\ n # s
        BY <2>1, <3>2
      <4>2. slots'[n] = slots[n] /\ in_kvm'[n] = in_kvm[n]
        BY <1>0, <2>1, <3>2, <4>1 DEF Copy, MsrInv
      <4> QED BY <2>1, <4>1, <4>2 DEF MsrInv
    <3> QED BY <3>1, <3>2
  <2> QED BY <1>1, <2>1, <2>2, <2>3 DEF MsrInv, RegistersApart, HasStar
<1>7. CASE MachineChecks
  <2>1. msr_means = "mce" /\ UNCHANGED <<msr_means, slots, in_kvm, differ>>
    BY <1>7 DEF MachineChecks
  <2> QED BY <1>7, <2>1, BanksStep DEF MsrInv, RegistersApart, InKvm
<1> QED BY <1>3, <1>4, <1>5, <1>6, <1>7 DEF MsrNext

-----------------------------------------------------------------------------
(* Breakpoints of the guest *)

Armed(id, item) == [id |-> id, type |-> item.type, addr |-> item.addr, len |-> item.len]

\* The lists l hold what the registers of d in set ask for, each once and under the
\* name that the register refers to.
Listed(l, d, set) ==
  /\ set \subseteq Regs /\ l = [armed |-> l.armed, ref |-> l.ref, freed |-> l.freed]
  /\ l.ref \in [Regs -> -1 .. 5] /\ \A i \in set : l.ref[i] \in 1 .. 5
  /\ \A i, j \in set : l.ref[i] = l.ref[j] => i = j
  /\ l.armed = {Armed(l.ref[i], Item(d, i)) : i \in set}

DrValues == [addr : [Regs -> Nat], dr6 : SUBSET (Regs \cup {BS}), dr7 : Dr7Values]
Insertables(d) == {i \in Regs : Insertable(d, i)}
NoneRefused(l, d) == \A i \in Regs : Refused(d, i) => l.ref[i] = 0

\* The registers whose entry has not been freed; one that is enabled has it.
Unfreed(l, d) == {i \in Insertables(d) : l.ref[i] # Freed}
EnabledHeld(l, d) == \A i \in Insertables(d) : Enabled(d.dr7, i) # {} => l.ref[i] # Freed
ListsRight(l, d) == Listed(l, d, Unfreed(l, d)) /\ NoneRefused(l, d) /\ EnabledHeld(l, d)

\* The lists are those of the registers, but for what switch_tss took out, and a
\* register whose watchpoint was refused refers to none.
GuestDebugInv ==
  /\ dr \in DrValues
  /\ ListsRight(Lists, dr)
  /\ CauseInDr6

\* An entry is removed for a register that has one or was refused one.
LEMMA Removable ==
  ASSUME NEW d, NEW i
  PROVE  /\ Removes(d, i) <=> Insertable(d, i) \/ Refused(d, i)
         /\ ~(Insertable(d, i) /\ Refused(d, i))
<1> DEFINE type == hw_breakpoint_type(d.dr7, i)
           on == Enabled(d.dr7, i) # {}
           fits == Aligned(d.addr[i], hw_breakpoint_len(d.dr7, i))
<1>1. Insertable(d, i) <=> (type = 0 /\ on) \/ (type \in {1, 3} /\ fits)
  BY DEF Insertable
<1>2. Refused(d, i) <=> type \in {1, 3} /\ ~Insertable(d, i)
  BY DEF Refused
<1> HIDE DEF type, on, fits
<1>3. /\ type \in {1, 3} \/ (type = 0 /\ on) <=> Insertable(d, i) \/ Refused(d, i)
      /\ ~(Insertable(d, i) /\ Refused(d, i))
  BY <1>1, <1>2
<1> QED BY <1>3 DEF type, on, Removes

\* There are more names than registers.
LEMMA FreshIdFree ==
  ASSUME NEW l, NEW d, NEW set, Listed(l, d, set)
  PROVE  FreshId(l.armed) \in 1 .. 5 /\ \A i \in set : l.ref[i] # FreshId(l.armed)
<1> DEFINE used == {l.ref[i] : i \in set}
<1>1. ASSUME NEW n
      PROVE  (\E b \in l.armed : b.id = n) <=> n \in used
  <2>1. \A i \in set : Armed(l.ref[i], Item(d, i)).id = l.ref[i]
    BY DEF Armed
  <2> QED BY <2>1 DEF Listed
<1>2. \E n \in 1 .. 5 : n \notin used /\ \A k \in 1 .. n - 1 : k \in used
  <2>1. \A n \in used : n = l.ref[0] \/ n = l.ref[1] \/ n = l.ref[2] \/ n = l.ref[3]
    BY DEF Listed, Regs
  <2>2. ~(1 \in used /\ 2 \in used /\ 3 \in used /\ 4 \in used /\ 5 \in used)
    BY <2>1
  <2> HIDE DEF used
  <2> QED BY <2>2
<1> HIDE DEF used
<1> DEFINE free(n) == (\A b \in l.armed : b.id # n) /\ \A k \in 1 .. n - 1 : \E b \in l.armed : b.id = k
<1>3. \E n \in 1 .. 5 : free(n)
  BY <1>1, <1>2
<1>4. FreshId(l.armed) \in 1 .. 5 /\ free(FreshId(l.armed))
  BY <1>3 DEF FreshId
<1>5. FreshId(l.armed) \notin used
  BY <1>1, <1>4
<1> QED BY <1>4, <1>5 DEF used

\* hw_breakpoint_insert, of a register that has no entry.
LEMMA InsertOne ==
  ASSUME NEW l, NEW d, NEW set, Listed(l, d, set), NEW i \in Regs \ set,
         NEW m, m = hw_breakpoint_insert(l, d, i)
  PROVE  /\ Listed(m, d, set \cup ({i} \cap Insertables(d)))
         /\ Refused(d, i) => m.ref[i] = 0
         /\ \A j \in Regs : j # i => m.ref[j] = l.ref[j]
         /\ m.freed = l.freed
<1> DEFINE id == FreshId(l.armed)
<1>1. id \in 1 .. 5 /\ \A j \in set : l.ref[j] # id
  BY FreshIdFree
<1> HIDE DEF id
<1>2. CASE Insertable(d, i)
  <2>0. l = [armed |-> l.armed, ref |-> l.ref, freed |-> l.freed]
    BY DEF Listed
  <2>1. m = [l EXCEPT !.armed = @ \cup {Armed(id, Item(d, i))}, !.ref[i] = id]
    BY <1>2 DEF hw_breakpoint_insert, Armed, id
  <2>2. /\ m.armed = l.armed \cup {Armed(id, Item(d, i))} /\ m.ref = [l.ref EXCEPT ![i] = id]
        /\ m.freed = l.freed
        /\ m = [armed |-> m.armed, ref |-> m.ref, freed |-> m.freed]
    BY ONLY <2>0, <2>1
  <2>3. /\ m.ref \in [Regs -> -1 .. 5] /\ m.ref[i] = id
        /\ \A j \in Regs : j # i => m.ref[j] = l.ref[j]
    BY <1>1, <2>2 DEF Listed
  <2>4. \A j \in set : m.ref[j] = l.ref[j]
    BY <2>3 DEF Listed
  <2>5. m.armed = {Armed(m.ref[j], Item(d, j)) : j \in set \cup {i}}
    <3>1. l.armed = {Armed(m.ref[j], Item(d, j)) : j \in set}
      <4>1. l.armed = {Armed(l.ref[j], Item(d, j)) : j \in set}
        BY DEF Listed
      <4> QED BY ONLY <2>4, <4>1
    <3> QED BY ONLY <2>2, <2>3, <3>1
  <2>6. Listed(m, d, set \cup {i})
    <3>1. /\ \A j \in set \cup {i} : m.ref[j] \in 1 .. 5
          /\ \A j, k \in set \cup {i} : m.ref[j] = m.ref[k] => j = k
      BY <1>1, <2>3, <2>4 DEF Listed
    <3>2. set \cup {i} \subseteq Regs
      BY DEF Listed
    <3> QED BY <2>2, <2>3, <2>5, <3>1, <3>2 DEF Listed
  <2>7. set \cup ({i} \cap Insertables(d)) = set \cup {i}
    BY <1>2 DEF Insertables
  <2> QED BY <1>2, <2>2, <2>3, <2>6, <2>7, Removable
<1>3. CASE ~Insertable(d, i)
  <2>1. set \cup ({i} \cap Insertables(d)) = set
    BY <1>3 DEF Insertables
  <2>2. CASE Refused(d, i)
    <3>1. m = [l EXCEPT !.ref[i] = 0]
      BY <1>3, <2>2 DEF hw_breakpoint_insert
    <3>2. l = [armed |-> l.armed, ref |-> l.ref, freed |-> l.freed] /\ l.ref \in [Regs -> -1 .. 5]
      BY DEF Listed
    <3>3. m = [armed |-> l.armed, ref |-> [l.ref EXCEPT ![i] = 0], freed |-> l.freed]
      BY ONLY <3>1, <3>2
    <3>4. /\ m.armed = l.armed /\ m.ref \in [Regs -> -1 .. 5] /\ m.ref[i] = 0
          /\ m.freed = l.freed
          /\ m = [armed |-> m.armed, ref |-> m.ref, freed |-> m.freed]
          /\ \A j \in Regs : j # i => m.ref[j] = l.ref[j]
      BY ONLY <3>2, <3>3
    <3>5. \A j \in set : m.ref[j] = l.ref[j]
      BY <3>4 DEF Listed
    <3>6. m.armed = {Armed(m.ref[j], Item(d, j)) : j \in set}
      <4>1. l.armed = {Armed(l.ref[j], Item(d, j)) : j \in set}
        BY DEF Listed
      <4> QED BY ONLY <3>4, <3>5, <4>1
    <3>7. Listed(m, d, set)
      BY <3>4, <3>5, <3>6 DEF Listed
    <3> QED BY <2>1, <3>4, <3>7
  <2>3. CASE ~Refused(d, i)
    BY <1>3, <2>1, <2>3 DEF hw_breakpoint_insert
  <2> QED BY <2>2, <2>3
<1> QED BY <1>2, <1>3

\* An entry is taken out by its name, and what refers to it dangles.
LEMMA TakenOut ==
  ASSUME NEW l, NEW d, NEW set, Listed(l, d, set), NEW i \in set, NEW m, m = TakeOut(l, i)
  PROVE  /\ Listed(m, d, set \ {i}) /\ m.ref[i] = Freed /\ m.freed = l.freed
         /\ \A j \in Regs : j # i => m.ref[j] = l.ref[j]
<1>1. l = [armed |-> l.armed, ref |-> l.ref, freed |-> l.freed] /\ l.ref \in [Regs -> -1 .. 5]
      /\ i \in Regs
  BY DEF Listed
<1>2. m = [armed |-> {b \in l.armed : b.id # l.ref[i]}, ref |-> [l.ref EXCEPT ![i] = -1],
           freed |-> l.freed]
  <2>1. m = [l EXCEPT !.armed = {b \in @ : b.id # l.ref[i]}, !.ref[i] = -1]
    BY DEF TakeOut, Freed
  <2> QED BY ONLY <1>1, <2>1
<1>3. /\ m.armed = {b \in l.armed : b.id # l.ref[i]} /\ m.ref = [l.ref EXCEPT ![i] = -1]
      /\ m.freed = l.freed /\ m = [armed |-> m.armed, ref |-> m.ref, freed |-> m.freed]
  BY ONLY <1>2
<1>4. /\ m.ref \in [Regs -> -1 .. 5] /\ m.ref[i] = -1
      /\ \A j \in Regs : j # i => m.ref[j] = l.ref[j]
  BY ONLY <1>1, <1>3
<1>5. set \subseteq Regs /\ \A j \in set \ {i} : m.ref[j] = l.ref[j]
  BY <1>4 DEF Listed
<1>6. m.armed = {Armed(m.ref[j], Item(d, j)) : j \in set \ {i}}
  <2>1. \A j \in set : Armed(l.ref[j], Item(d, j)).id = l.ref[j]
    BY DEF Armed
  <2>2. \A j \in set : l.ref[j] = l.ref[i] <=> j = i
    BY DEF Listed
  <2>3. l.armed = {Armed(l.ref[j], Item(d, j)) : j \in set}
    BY DEF Listed
  <2>4. m.armed = {Armed(l.ref[j], Item(d, j)) : j \in set \ {i}}
    BY ONLY <1>3, <2>1, <2>2, <2>3
  <2> QED BY ONLY <1>5, <2>4
<1>7. Listed(m, d, set \ {i})
  <2>1. /\ \A j \in set : l.ref[j] \in 1 .. 5
        /\ \A j, k \in set : l.ref[j] = l.ref[k] => j = k
    BY DEF Listed
  <2>2. /\ \A j \in set \ {i} : m.ref[j] \in 1 .. 5
        /\ \A j, k \in set \ {i} : m.ref[j] = m.ref[k] => j = k
    BY ONLY <1>5, <2>1
  <2> QED BY <1>3, <1>4, <1>5, <1>6, <2>2 DEF Listed
<1> QED BY <1>3, <1>4, <1>7 DEF Freed

\* hw_breakpoint_remove, of a register that has an entry if it may have one; if
\* that has been freed it is used once more.
LEMMA RemoveOne ==
  ASSUME NEW l, NEW d, NEW set, Listed(l, d, set), NEW i \in Regs,
         i \in set <=> Insertable(d, i) /\ l.ref[i] # Freed, Refused(d, i) => l.ref[i] = 0,
         NEW m, m = hw_breakpoint_remove(l, d, i)
  PROVE  /\ Listed(m, d, set \ {i})
         /\ \A j \in Regs : j # i => m.ref[j] = l.ref[j]
         /\ i \in set => m.ref[i] = Freed
         /\ i \notin set => m.ref = l.ref
<1>1. m = IF l.ref[i] = 0 \/ ~(Insertable(d, i) \/ Refused(d, i)) THEN l
          ELSE IF l.ref[i] = Freed THEN [l EXCEPT !.freed = TRUE]
          ELSE TakeOut(l, i)
  BY Removable DEF hw_breakpoint_remove
<1>2. CASE i \in set
  <2>1. l.ref[i] # 0 /\ l.ref[i] # Freed /\ Insertable(d, i)
    BY <1>2 DEF Listed, Freed
  <2> QED BY <1>1, <1>2, <2>1, TakenOut
<1>3. CASE i \notin set /\ Insertable(d, i)
  <2>1. l.ref[i] = Freed /\ Freed # 0 /\ set \ {i} = set
    BY <1>3 DEF Freed
  <2>2. l = [armed |-> l.armed, ref |-> l.ref, freed |-> l.freed]
    BY DEF Listed
  <2>3. m = [l EXCEPT !.freed = TRUE]
    BY <1>1, <1>3, <2>1
  <2>4. /\ m.armed = l.armed /\ m.ref = l.ref
        /\ m = [armed |-> m.armed, ref |-> m.ref, freed |-> m.freed]
    BY ONLY <2>2, <2>3
  <2>5. Listed(m, d, set)
    BY <2>4 DEF Listed
  <2> QED BY <1>3, <2>1, <2>4, <2>5
<1>4. CASE i \notin set /\ ~Insertable(d, i)
  <2>1. l.ref[i] = 0 \/ ~Refused(d, i)
    OBVIOUS
  <2>2. m = l /\ set \ {i} = set
    BY <1>1, <1>4, <2>1
  <2> QED BY <1>4, <2>2
<1> QED BY <1>2, <1>3, <1>4

\* The lists do not depend on what the registers that have entries leave alone.
LEMMA ItemsKept ==
  ASSUME NEW l, NEW d, NEW e, NEW set, Listed(l, d, set), \A i \in set : Item(e, i) = Item(d, i)
  PROVE  Listed(l, e, set)
<1>1. l.armed = {Armed(l.ref[i], Item(e, i)) : i \in set}
  <2>1. l.armed = {Armed(l.ref[i], Item(d, i)) : i \in set}
    BY DEF Listed
  <2> QED BY <2>1
<1> QED BY <1>1 DEF Listed

\* All four registers' entries are taken out, ...
LEMMA RemoveAll ==
  ASSUME NEW l, NEW d, ListsRight(l, d),
         NEW m, m = OverRegs(hw_breakpoint_remove, l, d)
  PROVE  Listed(m, d, {})
<1> DEFINE r0 == hw_breakpoint_remove(l, d, 0)
           r1 == hw_breakpoint_remove(r0, d, 1)
           r2 == hw_breakpoint_remove(r1, d, 2)
           r3 == hw_breakpoint_remove(r2, d, 3)
           set == Unfreed(l, d)
<1>1. m = r3
  BY DEF OverRegs
<1>2. 0 \in Regs /\ 1 \in Regs /\ 2 \in Regs /\ 3 \in Regs
      /\ \A i \in Regs : i = 0 \/ i = 1 \/ i = 2 \/ i = 3
  BY DEF Regs
<1>3. /\ \A i \in Regs : i \in set <=> Insertable(d, i) /\ l.ref[i] # Freed
      /\ \A i \in Regs : Refused(d, i) => l.ref[i] = 0
      /\ set \subseteq Regs
  BY DEF ListsRight, Unfreed, Insertables, NoneRefused
<1>4. Listed(l, d, set)
  BY DEF ListsRight
<1>5. ASSUME NEW k, NEW some \in SUBSET Regs, NEW i \in Regs, Listed(k, d, some),
             k.ref[i] = l.ref[i], i \in some <=> i \in set
      PROVE  /\ Listed(hw_breakpoint_remove(k, d, i), d, some \ {i})
             /\ \A j \in Regs : j # i => hw_breakpoint_remove(k, d, i).ref[j] = k.ref[j]
  BY <1>3, <1>5, RemoveOne
<1> HIDE DEF set, r0, r1, r2, r3
<1> DEFINE s0 == set \ {0}
           s1 == s0 \ {1}
           s2 == s1 \ {2}
           s3 == s2 \ {3}
<1>6. /\ s0 \in SUBSET Regs /\ s1 \in SUBSET Regs /\ s2 \in SUBSET Regs
      /\ 1 \in s0 <=> 1 \in set
      /\ 2 \in s1 <=> 2 \in set
      /\ 3 \in s2 <=> 3 \in set
  BY <1>2, <1>3
<1>11. s3 = {}
  BY <1>2, <1>3
<1> HIDE DEF s0, s1, s2, s3
<1>7. /\ Listed(r0, d, s0)
      /\ r0.ref[1] = l.ref[1] /\ r0.ref[2] = l.ref[2] /\ r0.ref[3] = l.ref[3]
  BY <1>2, <1>3, <1>4, <1>5 DEF r0, s0
<1>8. Listed(r1, d, s1) /\ r1.ref[2] = l.ref[2] /\ r1.ref[3] = l.ref[3]
  <2>1. /\ Listed(r1, d, s1)
        /\ \A j \in Regs : j # 1 => r1.ref[j] = r0.ref[j]
    BY <1>2, <1>5, <1>6, <1>7 DEF r1, s1
  <2> QED BY <1>2, <1>7, <2>1
<1>9. Listed(r2, d, s2) /\ r2.ref[3] = l.ref[3]
  BY <1>2, <1>5, <1>6, <1>8 DEF r2, s2
<1>10. Listed(r3, d, s3)
  <2>1. s2 \in SUBSET Regs /\ (3 \in s2 <=> 3 \in set)
    BY <1>6
  <2> QED BY <1>2, <1>5, <1>9, <2>1 DEF r3, s3
<1> QED BY <1>1, <1>10, <1>11

\* ... and put in, as other registers say.
LEMMA InsertAll ==
  ASSUME NEW l, NEW d, Listed(l, d, {}), NEW m, m = OverRegs(hw_breakpoint_insert, l, d)
  PROVE  ListsRight(m, d)
<1> DEFINE r0 == hw_breakpoint_insert(l, d, 0)
           r1 == hw_breakpoint_insert(r0, d, 1)
           r2 == hw_breakpoint_insert(r1, d, 2)
           r3 == hw_breakpoint_insert(r2, d, 3)
           I == Insertables(d)
           L0 == {} \cup ({0} \cap I)
           L1 == L0 \cup ({1} \cap I)
           L2 == L1 \cup ({2} \cap I)
           L3 == L2 \cup ({3} \cap I)
<1>1. m = r3
  BY DEF OverRegs
<1>2. 0 \in Regs /\ 1 \in Regs /\ 2 \in Regs /\ 3 \in Regs
      /\ \A i \in Regs : i = 0 \/ i = 1 \/ i = 2 \/ i = 3
  BY DEF Regs
<1>3. I \subseteq Regs
  BY DEF Insertables
<1> HIDE DEF I
<1>4. 0 \notin {} /\ 1 \notin L0 /\ 2 \notin L1 /\ 3 \notin L2 /\ L3 = I
  BY <1>2, <1>3
<1> HIDE DEF r1, r2, r3, L1, L2, L3
<1>5. /\ Listed(r0, d, L0) /\ (Refused(d, 0) => r0.ref[0] = 0)
  BY <1>2, <1>4, InsertOne DEF I
<1> HIDE DEF r0, L0
<1>6. /\ Listed(r1, d, L1) /\ (Refused(d, 1) => r1.ref[1] = 0)
      /\ \A j \in Regs : j # 1 => r1.ref[j] = r0.ref[j]
  BY <1>2, <1>4, <1>5, InsertOne DEF I, r1, L1
<1>7. /\ Listed(r2, d, L2) /\ (Refused(d, 2) => r2.ref[2] = 0)
      /\ \A j \in Regs : j # 2 => r2.ref[j] = r1.ref[j]
  BY <1>2, <1>4, <1>6, InsertOne DEF I, r2, L2
<1>8. /\ Listed(r3, d, L3) /\ (Refused(d, 3) => r3.ref[3] = 0)
      /\ \A j \in Regs : j # 3 => r3.ref[j] = r2.ref[j]
  BY <1>2, <1>4, <1>7, InsertOne DEF I, r3, L3
<1>9. \A i \in Regs : Refused(d, i) => r3.ref[i] = 0
  BY <1>2, <1>5, <1>6, <1>7, <1>8
<1>10. \A i \in I : r3.ref[i] \in 1 .. 5
  BY <1>4, <1>8 DEF Listed
<1>11. Unfreed(r3, d) = I /\ EnabledHeld(r3, d)
  BY <1>10 DEF Unfreed, EnabledHeld, I, Freed
<1> QED BY <1>1, <1>4, <1>8, <1>9, <1>11 DEF ListsRight, NoneRefused

\* What the debug registers decide does not depend on DR6.
LEMMA OnlyDr6 ==
  ASSUME NEW d, NEW e, e.addr = d.addr, e.dr7 = d.dr7
  PROVE  /\ \A i \in Regs : Item(e, i) = Item(d, i) /\ (Refused(e, i) <=> Refused(d, i))
         /\ Insertables(e) = Insertables(d)
<1>1. \A i \in Regs : Insertable(e, i) <=> Insertable(d, i)
  BY DEF Insertable
<1>2. \A i \in Regs : Item(e, i) = Item(d, i)
  BY DEF Item
<1>3. \A i \in Regs : Refused(e, i) <=> Refused(d, i)
  BY <1>1 DEF Refused
<1> QED BY <1>1, <1>2, <1>3 DEF Insertables

\* MOV to DR0 .. DR3.
LEMMA AddrWritten ==
  ASSUME GuestDebugInv, NEW i \in Regs, NEW a \in Nat, WriteAddr(i, a), db' = NoDb
  PROVE  GuestDebugInv'
<1> DEFINE d == [dr EXCEPT !.addr[i] = a]
           l == hw_breakpoint_remove(Lists, dr, i)
           m == hw_breakpoint_insert(l, d, i)
           H == Unfreed(Lists, dr)
           own == {i} \cap Insertables(d)
<1>0. /\ dr \in DrValues /\ Listed(Lists, dr, H) /\ NoneRefused(Lists, dr)
      /\ EnabledHeld(Lists, dr)
  BY DEF GuestDebugInv, ListsRight
<1>1. dr' = d /\ armed' = m.armed /\ ref' = m.ref /\ freed' = m.freed
  BY DEF WriteAddr, SetLists
<1>2. d = [addr |-> [dr.addr EXCEPT ![i] = a], dr6 |-> dr.dr6, dr7 |-> dr.dr7]
  <2>1. dr = [addr |-> dr.addr, dr6 |-> dr.dr6, dr7 |-> dr.dr7] /\ dr.addr \in [Regs -> Nat]
    BY <1>0 DEF DrValues
  <2> QED BY ONLY <2>1
<1>3. /\ d.dr7 = dr.dr7 /\ d.addr \in [Regs -> Nat] /\ d \in DrValues
      /\ \A j \in Regs : j # i => d.addr[j] = dr.addr[j]
  <2>1. dr.addr \in [Regs -> Nat] /\ dr.dr6 \in SUBSET (Regs \cup {BS}) /\ dr.dr7 \in Dr7Values
    BY <1>0 DEF DrValues
  <2> QED BY <1>2, <2>1 DEF DrValues
<1> HIDE DEF d
<1>4. \A j \in Regs : j # i => /\ Item(d, j) = Item(dr, j)
                               /\ Insertable(d, j) <=> Insertable(dr, j)
                               /\ Refused(d, j) <=> Refused(dr, j)
  BY <1>3 DEF Item, Insertable, Refused
<1>5. /\ \A j \in Regs : j \in H <=> Insertable(dr, j) /\ Lists.ref[j] # Freed
      /\ \A j \in Regs : j \in Insertables(d) <=> Insertable(d, j)
      /\ H \subseteq Regs /\ own \subseteq {i}
      /\ \A j \in Regs : Refused(dr, j) => Lists.ref[j] = 0
      /\ \A j \in Regs : Insertable(dr, j) /\ Enabled(dr.dr7, j) # {} => Lists.ref[j] # Freed
  BY <1>0 DEF Insertables, NoneRefused, Unfreed, EnabledHeld
<1> HIDE DEF H
<1>6. Listed(l, dr, H \ {i}) /\ \A j \in Regs : j # i => l.ref[j] = Lists.ref[j]
  BY <1>0, <1>5, RemoveOne
<1> HIDE DEF l
<1>7. Listed(l, d, H \ {i})
  <2>1. \A j \in H \ {i} : Item(d, j) = Item(dr, j)
    BY <1>4, <1>5
  <2> QED BY <1>6, <2>1, ItemsKept
<1>8. /\ Listed(m, d, (H \ {i}) \cup own)
      /\ Refused(d, i) => m.ref[i] = 0
      /\ \A j \in Regs : j # i => m.ref[j] = l.ref[j]
  BY <1>7, InsertOne
<1> HIDE DEF m
<1>9. Insertable(d, i) => m.ref[i] # Freed
  <2>1. i \in Insertables(d) => m.ref[i] \in 1 .. 5
    BY <1>8 DEF Listed
  <2> QED BY <1>5, <2>1 DEF Freed
<1>10. (H \ {i}) \cup own = Unfreed(m, d)
  <2>1. \A j \in Regs : j \in Unfreed(m, d) <=> Insertable(d, j) /\ m.ref[j] # Freed
    BY DEF Unfreed, Insertables
  <2>2. Unfreed(m, d) \subseteq Regs
    BY DEF Unfreed, Insertables
  <2>3. i \in own <=> Insertable(d, i)
    BY <1>5
  <2> HIDE DEF own
  <2>4. \A j \in Regs : j \in (H \ {i}) \cup own <=> j \in Unfreed(m, d)
    BY <1>4, <1>5, <1>6, <1>8, <1>9, <2>1, <2>3
  <2> QED BY <1>5, <2>2, <2>4
<1>11. NoneRefused(m, d)
  BY <1>4, <1>5, <1>6, <1>8 DEF NoneRefused
<1>12. EnabledHeld(m, d)
  <2>1. \A j \in Regs : Insertable(d, j) /\ Enabled(d.dr7, j) # {} => m.ref[j] # Freed
    BY <1>3, <1>4, <1>5, <1>6, <1>8, <1>9
  <2> QED BY <2>1 DEF EnabledHeld, Insertables
<1>13. ListsRight(m, d)
  BY <1>8, <1>10, <1>11, <1>12 DEF ListsRight
<1>14. Lists' = m
  <2>1. m = [armed |-> m.armed, ref |-> m.ref, freed |-> m.freed]
    BY <1>8 DEF Listed
  <2> QED BY <1>1, <2>1 DEF Lists
<1>15. CauseInDr6'
  BY DEF CauseInDr6, NoDb, Raised
<1> QED BY <1>1, <1>3, <1>13, <1>14, <1>15 DEF GuestDebugInv

\* MOV to DR7.
LEMMA Dr7Written ==
  ASSUME GuestDebugInv, NEW v \in Dr7Values, WriteDr7(v), db' = NoDb
  PROVE  GuestDebugInv'
<1> DEFINE d == [dr EXCEPT !.dr7 = v]
           l == OverRegs(hw_breakpoint_remove, Lists, dr)
           m == OverRegs(hw_breakpoint_insert, l, d)
<1>0. dr \in DrValues /\ ListsRight(Lists, dr)
  BY DEF GuestDebugInv
<1>1. dr' = d /\ armed' = m.armed /\ ref' = m.ref /\ freed' = m.freed
  BY DEF WriteDr7, SetLists
<1>2. d \in DrValues /\ d.dr7 = v
  BY <1>0 DEF DrValues
<1> HIDE DEF d
<1>3. Listed(l, dr, {})
  BY <1>0, RemoveAll
<1> HIDE DEF l
<1>4. Listed(l, d, {})
  BY <1>3, ItemsKept
<1>5. ListsRight(m, d)
  BY <1>4, InsertAll
<1> HIDE DEF m
<1>6. Lists' = m
  <2>1. m = [armed |-> m.armed, ref |-> m.ref, freed |-> m.freed]
    BY <1>5 DEF ListsRight, Listed
  <2> QED BY <1>1, <2>1 DEF Lists
<1>7. CauseInDr6'
  BY DEF CauseInDr6, NoDb, Raised
<1> QED BY <1>1, <1>2, <1>5, <1>6, <1>7 DEF GuestDebugInv

\* The loop of switch_tss over the registers, and DR7 after it: what is left of the
\* entries is what was not enabled for the old task only.
LEMMA ResetLocals ==
  ASSUME NEW l, NEW d, d \in DrValues, ListsRight(l, d),
         NEW m, m = OverRegs(ResetLocal, l, d),
         NEW e, e = [d EXCEPT !.dr7.local = {}]
  PROVE  e \in DrValues /\ ListsRight(m, e)
<1> DEFINE r0 == ResetLocal(l, d, 0)
           r1 == ResetLocal(r0, d, 1)
           r2 == ResetLocal(r1, d, 2)
           r3 == ResetLocal(r2, d, 3)
           all == Unfreed(l, d)
           own == {i \in Regs : Enabled(d.dr7, i) = {"local"}}
           kept(i, k) == i \notin own \/ i \notin all => k.ref[i] = l.ref[i]
           gone(i, k) == i \in own /\ i \in all => k.ref[i] = Freed
           s0 == all \ ({0} \cap own)
           s1 == s0 \ ({1} \cap own)
           s2 == s1 \ ({2} \cap own)
           s3 == s2 \ ({3} \cap own)
<1>1. m = r3
  BY DEF OverRegs
<1>2. 0 \in Regs /\ 1 \in Regs /\ 2 \in Regs /\ 3 \in Regs
      /\ \A i \in Regs : i = 0 \/ i = 1 \/ i = 2 \/ i = 3
  BY DEF Regs
<1>3. /\ \A i \in Regs : i \in all <=> Insertable(d, i) /\ l.ref[i] # Freed
      /\ \A i \in Regs : Refused(d, i) => l.ref[i] = 0
      /\ \A i \in Regs : Insertable(d, i) /\ Enabled(d.dr7, i) # {} => i \in all
      /\ all \subseteq Regs /\ own \subseteq Regs
  BY DEF Insertables, NoneRefused, ListsRight, Unfreed, EnabledHeld
<1>4. ASSUME NEW k, NEW i \in Regs, NEW set \in SUBSET Regs, Listed(k, d, set), k.ref[i] = l.ref[i],
             i \in set <=> i \in all
      PROVE  /\ Listed(ResetLocal(k, d, i), d, set \ ({i} \cap own))
             /\ \A j \in Regs : j # i => ResetLocal(k, d, i).ref[j] = k.ref[j]
             /\ kept(i, ResetLocal(k, d, i)) /\ gone(i, ResetLocal(k, d, i))
  <2>1. CASE i \in own
    <3>1. ResetLocal(k, d, i) = hw_breakpoint_remove(k, d, i) /\ {i} \cap own = {i}
          /\ set \ ({i} \cap own) = set \ {i}
      BY <2>1 DEF ResetLocal
    <3>2. (i \in set <=> Insertable(d, i) /\ k.ref[i] # Freed) /\ (Refused(d, i) => k.ref[i] = 0)
      BY <1>3, <1>4
    <3> DEFINE n == hw_breakpoint_remove(k, d, i)
    <3>3. /\ Listed(n, d, set \ {i})
          /\ \A j \in Regs : j # i => n.ref[j] = k.ref[j]
          /\ i \in set => n.ref[i] = Freed
          /\ i \notin set => n.ref = k.ref
      <4> HIDE DEF all, own
      <4> QED BY <1>4, <3>2, RemoveOne
    <3> HIDE DEF n
    <3>4. kept(i, n) /\ gone(i, n)
      BY <1>4, <2>1, <3>3
    <3> QED BY <3>1, <3>3, <3>4 DEF n
  <2>2. CASE i \notin own
    <3>1. ResetLocal(k, d, i) = k
      BY <2>2 DEF ResetLocal
    <3>2. set \ ({i} \cap own) = set
      BY <2>2
    <3> QED BY <1>4, <2>2, <3>1, <3>2
  <2> QED BY <2>1, <2>2
<1>5. Listed(l, d, all)
  BY DEF ListsRight
<1> HIDE DEF all, own
<1>6. /\ s0 \in SUBSET Regs /\ s1 \in SUBSET Regs /\ s2 \in SUBSET Regs
      /\ 1 \in s0 <=> 1 \in all
      /\ 2 \in s1 <=> 2 \in all
      /\ 3 \in s2 <=> 3 \in all
      /\ s3 = all \ own
  BY <1>2, <1>3
<1> HIDE DEF r0, r1, r2, r3, s0, s1, s2, s3
<1>7. /\ Listed(r0, d, s0) /\ kept(0, r0) /\ gone(0, r0)
      /\ r0.ref[1] = l.ref[1] /\ r0.ref[2] = l.ref[2] /\ r0.ref[3] = l.ref[3]
  BY <1>2, <1>3, <1>4, <1>5 DEF r0, s0
<1>8. /\ Listed(r1, d, s1) /\ kept(1, r1) /\ gone(1, r1)
      /\ r1.ref[0] = r0.ref[0] /\ r1.ref[2] = l.ref[2] /\ r1.ref[3] = l.ref[3]
  BY <1>2, <1>4, <1>6, <1>7 DEF r1, s1
<1>9. /\ Listed(r2, d, s2) /\ kept(2, r2) /\ gone(2, r2)
      /\ r2.ref[0] = r0.ref[0] /\ r2.ref[1] = r1.ref[1] /\ r2.ref[3] = l.ref[3]
  BY <1>2, <1>4, <1>6, <1>8 DEF r2, s2
<1>10. /\ Listed(r3, d, s3) /\ kept(3, r3) /\ gone(3, r3)
       /\ r3.ref[0] = r0.ref[0] /\ r3.ref[1] = r1.ref[1] /\ r3.ref[2] = r2.ref[2]
  <2>1. /\ Listed(r3, d, s3) /\ kept(3, r3) /\ gone(3, r3)
        /\ \A j \in Regs : j # 3 => r3.ref[j] = r2.ref[j]
    <3>1. s2 \in SUBSET Regs /\ (3 \in s2 <=> 3 \in all)
      BY <1>6
    <3> QED BY <1>2, <1>4, <1>9, <3>1 DEF r3, s3
  <2>2. r3.ref[0] = r2.ref[0] /\ r3.ref[1] = r2.ref[1] /\ r3.ref[2] = r2.ref[2]
    BY <1>2, <2>1
  <2> QED BY <1>9, <2>1, <2>2
<1>11. \A i \in Regs : IF i \in own /\ i \in all THEN m.ref[i] = Freed ELSE m.ref[i] = l.ref[i]
  BY <1>1, <1>2, <1>7, <1>8, <1>9, <1>10
<1> DEFINE v == [local |-> {}, global |-> d.dr7.global, field |-> d.dr7.field]
<1>12. e = [addr |-> d.addr, dr6 |-> d.dr6, dr7 |-> v]
  <2>1. /\ d = [addr |-> d.addr, dr6 |-> d.dr6, dr7 |-> d.dr7]
        /\ d.dr7 = [local |-> d.dr7.local, global |-> d.dr7.global, field |-> d.dr7.field]
    BY DEF DrValues, Dr7Values
  <2>2. [d.dr7 EXCEPT !.local = {}] = v
    BY ONLY <2>1
  <2>3. e = [d EXCEPT !.dr7 = [d.dr7 EXCEPT !.local = {}]]
    OBVIOUS
  <2> QED BY ONLY <2>1, <2>2, <2>3
<1>13. e.addr = d.addr /\ e.dr7 = v
  BY ONLY <1>12
<1>14. v.local = {} /\ v.global = d.dr7.global /\ v.field = d.dr7.field
  OBVIOUS
<1>15. e \in DrValues
  <2>1. /\ d.addr \in [Regs -> Nat] /\ d.dr6 \in SUBSET (Regs \cup {BS})
        /\ d.dr7.global \in SUBSET Regs /\ d.dr7.field \in [0 .. 7 -> 0 .. 3]
    BY DEF DrValues, Dr7Values
  <2> QED BY <1>12, <1>13, <1>14, <2>1 DEF DrValues, Dr7Values
<1> HIDE DEF v
<1>16. \A i \in Regs : Item(e, i) = Item(d, i)
  <2>1. \A i \in Regs : /\ hw_breakpoint_type(e.dr7, i) = hw_breakpoint_type(d.dr7, i)
                        /\ hw_breakpoint_len(e.dr7, i) = hw_breakpoint_len(d.dr7, i)
    BY <1>13, <1>14 DEF hw_breakpoint_type, hw_breakpoint_len
  <2> QED BY <1>13, <2>1 DEF Item
<1>17. \A i \in Regs : /\ Insertable(e, i) => Insertable(d, i)
                       /\ Insertable(d, i) /\ i \notin own => Insertable(e, i)
                       /\ Enabled(e.dr7, i) # {} => i \notin own /\ Enabled(d.dr7, i) # {}
                       /\ i \in own => Enabled(d.dr7, i) # {}
  <2> SUFFICES ASSUME NEW i \in Regs
               PROVE  /\ Insertable(e, i) => Insertable(d, i)
                      /\ Insertable(d, i) /\ i \notin own => Insertable(e, i)
                      /\ Enabled(e.dr7, i) # {} => i \notin own /\ Enabled(d.dr7, i) # {}
                      /\ i \in own => Enabled(d.dr7, i) # {}
    OBVIOUS
  <2> DEFINE type == hw_breakpoint_type(d.dr7, i)
             fits == Aligned(d.addr[i], hw_breakpoint_len(d.dr7, i))
  <2>1. /\ Insertable(e, i) <=> (type = 0 /\ Enabled(v, i) # {}) \/ (type \in {1, 3} /\ fits)
        /\ Insertable(d, i) <=> (type = 0 /\ Enabled(d.dr7, i) # {}) \/ (type \in {1, 3} /\ fits)
    BY <1>13, <1>14 DEF Insertable, hw_breakpoint_type, hw_breakpoint_len
  <2>2. /\ Enabled(v, i) # {} <=> i \in d.dr7.global
        /\ Enabled(d.dr7, i) # {} <=> i \in d.dr7.global \/ i \in d.dr7.local
        /\ Enabled(d.dr7, i) = {"local"} <=> i \notin d.dr7.global /\ i \in d.dr7.local
    BY <1>14 DEF Enabled
  <2>3. i \in own <=> Enabled(d.dr7, i) = {"local"}
    BY DEF own
  <2> HIDE DEF type, fits
  <2> QED BY <1>13, <2>1, <2>2, <2>3
<1>18. Unfreed(m, e) = all \ own
  <2>1. \A i \in Regs : i \in Unfreed(m, e) <=> Insertable(e, i) /\ m.ref[i] # Freed
    BY DEF Unfreed, Insertables
  <2>2. Unfreed(m, e) \subseteq Regs
    BY DEF Unfreed, Insertables
  <2>3. \A i \in Regs : i \in Unfreed(m, e) <=> i \in all \ own
    BY <1>3, <1>11, <1>17, <2>1
  <2> QED BY <1>3, <2>2, <2>3
<1>19. Listed(m, e, all \ own)
  <2>1. \A i \in all \ own : Item(e, i) = Item(d, i)
    BY <1>3, <1>16
  <2> QED BY <1>1, <1>6, <1>10, <2>1, ItemsKept
<1>20. NoneRefused(m, e)
  <2>1. \A i \in Regs : Refused(e, i) => Refused(d, i)
    <3> SUFFICES ASSUME NEW i \in Regs, Refused(e, i)
                 PROVE  Refused(d, i)
      OBVIOUS
    <3>1. hw_breakpoint_type(d.dr7, i) \in {1, 3} /\ ~Insertable(e, i)
      BY <1>13, <1>14 DEF Refused, hw_breakpoint_type
    <3>2. ~Insertable(d, i)
      <4> DEFINE fits == Aligned(d.addr[i], hw_breakpoint_len(d.dr7, i))
                 type == hw_breakpoint_type(d.dr7, i)
      <4>1. type \in {1, 3} /\ fits => Insertable(e, i)
        BY <1>13, <1>14 DEF Insertable, hw_breakpoint_type, hw_breakpoint_len
      <4>2. Insertable(d, i) => type = 0 \/ fits
        BY DEF Insertable
      <4>3. type \in {1, 3}
        BY <3>1
      <4> HIDE DEF fits, type
      <4> QED BY <3>1, <4>1, <4>2, <4>3
    <3> QED BY <3>1, <3>2 DEF Refused
  <2>2. \A i \in Regs : Refused(d, i) => ~Insertable(d, i)
    BY DEF Refused
  <2> QED BY <1>3, <1>11, <2>1, <2>2 DEF NoneRefused
<1>21. EnabledHeld(m, e)
  <2>1. \A i \in Regs : Insertable(e, i) /\ Enabled(e.dr7, i) # {} => m.ref[i] # Freed
    BY <1>3, <1>11, <1>17
  <2> QED BY <2>1 DEF EnabledHeld, Insertables
<1> QED BY <1>15, <1>18, <1>19, <1>20, <1>21 DEF ListsRight

\* A step that leaves the lists, and DR7 and the addresses, as they are.
LEMMA ListsRest ==
  ASSUME GuestDebugInv, NEW s \in SUBSET (Regs \cup {BS}),
         dr' = [dr EXCEPT !.dr6 = s] \/ dr' = dr,
         UNCHANGED <<armed, ref>>, CauseInDr6'
  PROVE  GuestDebugInv'
<1>0. /\ dr \in DrValues /\ Listed(Lists, dr, Unfreed(Lists, dr))
      /\ NoneRefused(Lists, dr) /\ EnabledHeld(Lists, dr)
  BY DEF GuestDebugInv, ListsRight
<1>1. dr' \in DrValues /\ dr'.addr = dr.addr /\ dr'.dr7 = dr.dr7
  BY <1>0 DEF DrValues
<1>2. /\ Lists'.armed = Lists.armed /\ Lists'.ref = Lists.ref
      /\ Lists' = [armed |-> Lists'.armed, ref |-> Lists'.ref, freed |-> Lists'.freed]
  BY DEF Lists
<1>3. /\ Insertables(dr') = Insertables(dr)
      /\ \A i \in Regs : Item(dr', i) = Item(dr, i)
      /\ \A i \in Regs : Refused(dr', i) <=> Refused(dr, i)
  BY <1>1, OnlyDr6
<1>4. Unfreed(Lists', dr') = Unfreed(Lists, dr)
  BY <1>2, <1>3 DEF Unfreed
<1>5. Listed(Lists', dr', Unfreed(Lists', dr'))
  <2>1. Unfreed(Lists, dr) \subseteq Regs
    BY DEF Unfreed, Insertables
  <2>2. Listed(Lists, dr', Unfreed(Lists, dr))
    BY <1>0, <1>3, <2>1, ItemsKept
  <2> QED BY <1>2, <1>4, <2>2 DEF Listed
<1>6. NoneRefused(Lists', dr')
  BY <1>0, <1>2, <1>3 DEF NoneRefused
<1>7. EnabledHeld(Lists', dr')
  BY <1>0, <1>1, <1>2, <1>3 DEF EnabledHeld
<1> QED BY <1>1, <1>5, <1>6, <1>7 DEF GuestDebugInv, ListsRight

\* Every write to the registers, switch of tasks, reload, reset and exception.
LEMMA GuestDebugStep ==
  ASSUME GuestDebugInv, GuestDebugs, debug_profile \in DOMAIN Dr7s
  PROVE  GuestDebugInv'
<1>0. dr \in DrValues /\ ListsRight(Lists, dr)
  BY DEF GuestDebugInv
<1>1. /\ \A v \in Dr7s[debug_profile] : v \in Dr7Values
      /\ \A a \in DebugAddrs : a \in Nat
  BY DebugAssumption
<1>2. ASSUME NEW i \in 0 .. 1, NEW a \in DebugAddrs, WriteAddr(i, a), db' = NoDb
      PROVE  GuestDebugInv'
  <2>1. i \in Regs /\ a \in Nat
    BY <1>1 DEF Regs
  <2> QED BY <1>2, <2>1, AddrWritten
<1>3. ASSUME NEW v \in Dr7s[debug_profile], WriteDr7(v), db' = NoDb
      PROVE  GuestDebugInv'
  BY <1>1, <1>3, Dr7Written
<1>4. CASE WriteDr6 /\ db' = NoDb
  <2>1. CauseInDr6'
    BY <1>4 DEF CauseInDr6, NoDb, Raised
  <2> QED BY <1>4, <2>1, ListsRest DEF WriteDr6
<1>5. CASE TaskSwitch /\ db' = NoDb
  <2>1. CauseInDr6'
    BY <1>5 DEF CauseInDr6, NoDb, Raised
  <2>2. CASE dr.dr7.local = {}
    BY <1>5, <2>1, <2>2, ListsRest DEF TaskSwitch
  <2>3. CASE dr.dr7.local # {}
    <3> DEFINE m == OverRegs(ResetLocal, Lists, dr)
               e == [dr EXCEPT !.dr7.local = {}]
    <3>1. armed' = m.armed /\ ref' = m.ref /\ freed' = m.freed /\ dr' = e
      BY <1>5, <2>3 DEF TaskSwitch, SetLists
    <3>2. e \in DrValues /\ ListsRight(m, e)
      BY <1>0, ResetLocals
    <3> HIDE DEF m, e
    <3>3. Lists' = m
      <4>1. m = [armed |-> m.armed, ref |-> m.ref, freed |-> m.freed]
        BY <3>2 DEF ListsRight, Listed
      <4> QED BY <3>1, <4>1 DEF Lists
    <3> QED BY <2>1, <3>1, <3>2, <3>3 DEF GuestDebugInv
  <2> QED BY <2>2, <2>3
<1>6. CASE LoadDebugRegs /\ db' = NoDb
  <2> DEFINE l == [Lists EXCEPT !.armed = {}]
             m == OverRegs(hw_breakpoint_insert, l, dr)
  <2>1. armed' = m.armed /\ ref' = m.ref /\ freed' = m.freed /\ dr' = dr
    BY <1>6 DEF LoadDebugRegs, SetLists
  <2>2. Listed(l, dr, {})
    <3>1. l = [armed |-> {}, ref |-> ref, freed |-> freed]
      BY DEF Lists
    <3>2. ref \in [Regs -> -1 .. 5]
      BY <1>0 DEF ListsRight, Listed, Lists
    <3> QED BY <3>1, <3>2 DEF Listed
  <2> HIDE DEF l
  <2>3. ListsRight(m, dr)
    BY <2>2, InsertAll
  <2> HIDE DEF m
  <2>4. Lists' = m
    <3>1. m = [armed |-> m.armed, ref |-> m.ref, freed |-> m.freed]
      BY <2>3 DEF ListsRight, Listed
    <3> QED BY <2>1, <3>1 DEF Lists
  <2>5. CauseInDr6'
    BY <1>6 DEF CauseInDr6, NoDb, Raised
  <2> QED BY <1>0, <2>1, <2>3, <2>4, <2>5 DEF GuestDebugInv
<1>7. CASE ResetDebugRegs /\ db' = NoDb
  <2> DEFINE v == [local |-> {}, global |-> {}, field |-> [f \in 0 .. 7 |-> 0]]
             zeros == [i \in Regs |-> 0]
  <2>1. /\ dr' = [addr |-> [i \in Regs |-> 0], dr6 |-> {}, dr7 |-> v]
        /\ armed' = {} /\ ref' = zeros
    BY <1>7 DEF ResetDebugRegs
  <2>2. v \in Dr7Values
    BY DEF Dr7Values
  <2>3. \A i \in Regs : ~Insertable(dr', i) /\ ~Refused(dr', i)
    <3> SUFFICES ASSUME NEW i \in Regs
                 PROVE  ~Insertable(dr', i) /\ ~Refused(dr', i)
      OBVIOUS
    <3>1. i \in 0 .. 7
      BY DEF Regs
    <3>2. hw_breakpoint_type(dr'.dr7, i) = 0 /\ Enabled(dr'.dr7, i) = {}
      BY <2>1, <3>1 DEF hw_breakpoint_type, Enabled
    <3> QED BY <3>2 DEF Insertable, Refused
  <2>4. dr' \in DrValues
    <3> HIDE DEF v
    <3> QED BY <2>1, <2>2 DEF DrValues
  <2>5. Insertables(dr') = {} /\ Unfreed(Lists', dr') = {}
    BY <2>3 DEF Insertables, Unfreed
  <2>6. zeros \in [Regs -> -1 .. 5]
    OBVIOUS
  <2> HIDE DEF zeros
  <2>7. Lists' = [armed |-> {}, ref |-> zeros, freed |-> freed']
    BY <2>1 DEF Lists
  <2>8. Listed(Lists', dr', {})
    BY <2>6, <2>7 DEF Listed
  <2>9. NoneRefused(Lists', dr')
    BY <2>3 DEF NoneRefused
  <2>10. EnabledHeld(Lists', dr')
    BY <2>5 DEF EnabledHeld
  <2>11. CauseInDr6'
    BY <1>7 DEF CauseInDr6, NoDb, Raised
  <2> QED BY <2>4, <2>5, <2>8, <2>9, <2>10, <2>11 DEF GuestDebugInv, ListsRight
<1>8. ASSUME NEW match \in SUBSET Regs, NEW force, NEW more \in SUBSET {BS},
             check_hw_breakpoints(match, force, more)
      PROVE  /\ UNCHANGED <<armed, ref>> /\ dr'.addr = dr.addr /\ dr'.dr7 = dr.dr7
             /\ \/ dr' = dr
                \/ \E s \in SUBSET (Regs \cup {BS}) : dr' = [dr EXCEPT !.dr6 = s]
             /\ force \/ HitEnabled(match) => match \cup more \subseteq dr'.dr6
  <2>1. dr = [addr |-> dr.addr, dr6 |-> dr.dr6, dr7 |-> dr.dr7] /\ dr.dr6 \in SUBSET (Regs \cup {BS})
    BY <1>0 DEF DrValues
  <2> DEFINE s == (dr.dr6 \ Regs) \cup match \cup more
  <2>2. s \in SUBSET (Regs \cup {BS}) /\ match \cup more \subseteq s
    BY <2>1
  <2>3. dr' = IF force \/ HitEnabled(match) THEN [dr EXCEPT !.dr6 = s] ELSE dr
    BY <1>8 DEF check_hw_breakpoints
  <2>4. UNCHANGED <<armed, ref>>
    BY <1>8 DEF check_hw_breakpoints
  <2> HIDE DEF s
  <2>5. CASE force \/ HitEnabled(match)
    <3>1. dr' = [dr EXCEPT !.dr6 = s]
      BY <2>3, <2>5
    <3>2. dr'.addr = dr.addr /\ dr'.dr7 = dr.dr7 /\ dr'.dr6 = s
      BY ONLY <2>1, <3>1
    <3> QED BY <2>2, <2>4, <3>1, <3>2
  <2>6. CASE ~(force \/ HitEnabled(match))
    BY <2>3, <2>4, <2>6
  <2> QED BY <2>5, <2>6
<1>9. ASSUME NEW eip, NEW hits
      PROVE  Matches(eip, hits) \in SUBSET Regs
  BY DEF Matches
<1>10. ASSUME NEW a \in DebugAddrs, Executes(a)
       PROVE  GuestDebugInv'
  <2> DEFINE match == Matches(a, {})
  <2>1. check_hw_breakpoints(match, TRUE, {}) /\ db' = Raised("insn", a, {})
    BY <1>10 DEF Executes
  <2>2. PICK b \in armed : b.type = 0 /\ b.addr = a
    BY <1>10 DEF Executes
  <2>3. PICK i \in Unfreed(Lists, dr) : b = Armed(ref[i], Item(dr, i))
    BY <1>0, <2>2 DEF ListsRight, Listed, Lists
  <2>4. i \in Regs /\ Insertable(dr, i) /\ hw_breakpoint_type(dr.dr7, i) = 0 /\ dr.addr[i] = a
    BY <2>2, <2>3 DEF Armed, Item, Insertables, Unfreed
  <2>5. i \in match /\ Enabled(dr.dr7, i) # {}
    BY <2>4 DEF Matches, Insertable
  <2>6. match \in SUBSET Regs
    BY <1>9
  <2> HIDE DEF match
  <2>7. /\ UNCHANGED <<armed, ref>> /\ dr'.addr = dr.addr /\ dr'.dr7 = dr.dr7
        /\ \/ dr' = dr
           \/ \E s \in SUBSET (Regs \cup {BS}) : dr' = [dr EXCEPT !.dr6 = s]
        /\ match \subseteq dr'.dr6
    BY <1>8, <2>1, <2>6
  <2>8. db'.cause = "insn" /\ db'.eip = a
    BY <2>1 DEF Raised
  <2>9. CauseInDr6'
    BY <2>4, <2>5, <2>7, <2>8 DEF CauseInDr6
  <2> QED BY <2>7, <2>9, ListsRest
<1>11. ASSUME NEW a \in DebugAddrs, SingleStep(a)
       PROVE  GuestDebugInv'
  <2> DEFINE match == Matches(a, {})
  <2>1. check_hw_breakpoints(match, TRUE, {BS}) /\ db' = Raised("step", a, {})
    BY <1>11 DEF SingleStep
  <2>2. match \in SUBSET Regs
    BY <1>9
  <2> HIDE DEF match
  <2>3. /\ UNCHANGED <<armed, ref>>
        /\ \/ dr' = dr
           \/ \E s \in SUBSET (Regs \cup {BS}) : dr' = [dr EXCEPT !.dr6 = s]
        /\ BS \in dr'.dr6
    BY <1>8, <2>1, <2>2
  <2>4. db'.cause = "step"
    BY <2>1 DEF Raised
  <2>5. CauseInDr6'
    BY <2>3, <2>4 DEF CauseInDr6
  <2> QED BY <2>3, <2>5, ListsRest
<1>12. ASSUME NEW a \in DebugAddrs, NEW w \in BOOLEAN, Accesses(a, w)
       PROVE  GuestDebugInv'
  <2>1. PICK hits :
          /\ check_hw_breakpoints(Matches(-1, hits), FALSE, {})
          /\ db' = IF HitEnabled(Matches(-1, hits)) THEN Raised("data", -1, hits) ELSE NoDb
    BY <1>12 DEF Accesses
  <2> DEFINE match == Matches(-1, hits)
  <2>2. match \in SUBSET Regs /\ \A i \in match : dr.addr[i] = -1 \/ ref[i] \in hits
    BY <1>9 DEF Matches
  <2>3. /\ check_hw_breakpoints(match, FALSE, {})
        /\ db' = IF HitEnabled(match) THEN Raised("data", -1, hits) ELSE NoDb
    BY <2>1
  <2> HIDE DEF match
  <2>4. /\ UNCHANGED <<armed, ref>> /\ dr'.addr = dr.addr /\ dr'.dr7 = dr.dr7
        /\ \/ dr' = dr
           \/ \E s \in SUBSET (Regs \cup {BS}) : dr' = [dr EXCEPT !.dr6 = s]
        /\ HitEnabled(match) => match \subseteq dr'.dr6
    BY <1>8, <2>2, <2>3
  <2>5. CauseInDr6'
    <3>1. CASE HitEnabled(match)
      <4>1. db'.cause = "data" /\ db'.eip = -1 /\ db'.hits = hits
        BY <2>3, <3>1 DEF Raised
      <4>2. PICK i \in match : Enabled(dr.dr7, i) # {}
        BY <3>1 DEF HitEnabled
      <4> QED BY <2>2, <2>4, <3>1, <4>1, <4>2 DEF CauseInDr6
    <3>2. CASE ~HitEnabled(match)
      BY <2>3, <3>2 DEF CauseInDr6, NoDb, Raised
    <3> QED BY <3>1, <3>2
  <2> QED BY <2>4, <2>5, ListsRest
<1> QED BY <1>2, <1>3, <1>4, <1>5, <1>6, <1>7, <1>10, <1>11, <1>12 DEF GuestDebugs

\* What is armed is what the registers ask for, each once.
LEMMA ArmedRight ==
  ASSUME GuestDebugInv
  PROVE  ArmedAsRegisters
<1> DEFINE strip(b) == [type |-> b.type, addr |-> b.addr, len |-> b.len]
           regs == Unfreed(Lists, dr)
           all == {i \in Regs : Insertable(dr, i)}
           on == {i \in Regs : Insertable(dr, i) /\ Enabled(dr.dr7, i) # {}}
           made(i) == Armed(ref[i], Item(dr, i))
           f == [i \in regs |-> made(i)]
<1>1. /\ armed = {made(i) : i \in regs} /\ regs \subseteq Regs
      /\ \A i, j \in regs : ref[i] = ref[j] => i = j
  BY DEF GuestDebugInv, ListsRight, Listed, Lists
<1>2. \A i : strip(made(i)) = Item(dr, i) /\ made(i).id = ref[i]
  BY DEF Armed, Item
<1>3. {strip(b) : b \in armed} = {Item(dr, i) : i \in regs}
  <2> HIDE DEF strip, made, regs
  <2> QED BY <1>1, <1>2
<1>4. IsFiniteSet(regs)
  <2>1. IsFiniteSet(0 .. 3)
    <3>1. 0 \in Int /\ 3 \in Int
      OBVIOUS
    <3> QED BY ONLY <3>1, FS_Interval
  <2> QED BY <1>1, <2>1, FS_Subset DEF Regs
<1>5. regs \in SUBSET all /\ on \subseteq regs
  BY DEF GuestDebugInv, ListsRight, EnabledHeld, Unfreed, Insertables, Lists
<1> HIDE DEF regs, made
<1>6. \A i, j \in regs : made(i) = made(j) => i = j
  BY <1>1, <1>2
<1>7. /\ f \in [regs -> armed] /\ \A i, j \in regs : f[i] = f[j] => i = j
      /\ \A b \in armed : \E i \in regs : f[i] = b
  BY ONLY <1>1, <1>6
<1> HIDE DEF f
<1>8. Cardinality(armed) = Cardinality(regs)
  BY <1>4, <1>7, AsMany
<1> QED BY <1>3, <1>5, <1>8 DEF ArmedAsRegisters

(* gdb's breakpoints *)

Breakpoints == [type : {"insn", "write", "access"}, addr : Nat, len : {1, 2, 4, 8}]

\* The table has what was asked for, each once; KVM has been given the table;
\* and int3 is no instruction that a breakpoint replaced.
GdbInv ==
  /\ hw_breakpoint \in Seq(Breakpoints)
  /\ \A m, n \in 1 .. Len(hw_breakpoint) : hw_breakpoint[m] = hw_breakpoint[n] => m = n
  /\ asked = {hw_breakpoint[n] : n \in 1 .. Len(hw_breakpoint)}
  /\ programmed = update_guest_debug(hw_breakpoint)
  /\ gdb_hit # <<>> => \E b \in asked : b.addr = gdb_hit[1] /\ b.type = gdb_hit[2]
  /\ saved # "int3" /\ code # "none" /\ (saved = "none" => code # "int3")

\* KVM's registers, as the processor decodes them, are the table.
LEMMA Programmed ==
  ASSUME NEW table \in Seq(Breakpoints), NEW n \in 1 .. Len(table)
  PROVE  LET r == update_guest_debug(table)[n]
         IN  /\ Decoded(r) = table[n] /\ r.addr = table[n].addr
             /\ r.rw = 0 \/ (r.rw = 1 /\ table[n].type = "write")
                         \/ (r.rw = 3 /\ table[n].type = "access")
<1> DEFINE b == table[n]
           r == [addr |-> b.addr, rw |-> type_code[b.type], len |-> len_code(b.len)]
<1>1. update_guest_debug(table)[n] = r
  BY DEF update_guest_debug
<1>2. b \in Breakpoints
  OBVIOUS
<1> HIDE DEF b
<1>3. /\ b = [type |-> b.type, addr |-> b.addr, len |-> b.len]
      /\ b.type = "insn" \/ b.type = "write" \/ b.type = "access"
      /\ b.len = 1 \/ b.len = 2 \/ b.len = 4 \/ b.len = 8
  BY <1>2 DEF Breakpoints
<1>4. r.addr = b.addr /\ r.rw = type_code[b.type] /\ r.len = len_code(b.len)
  OBVIOUS
<1>5. /\ b.type = "insn" => r.rw = 0
      /\ b.type = "write" => r.rw = 1
      /\ b.type = "access" => r.rw = 3
  BY DEF type_code
<1>6. <<1, 2, 8, 4>>[r.len + 1] = b.len
  BY <1>3, <1>4 DEF len_code
<1> HIDE DEF r
<1>7. Decoded(r) = [type |-> b.type, addr |-> b.addr, len |-> b.len]
  BY <1>3, <1>4, <1>5, <1>6 DEF Decoded
<1> QED BY <1>1, <1>3, <1>4, <1>5, <1>7 DEF b

\* A new breakpoint, at the end of the table.
LEMMA GdbInserts ==
  ASSUME GdbInv, NEW ask, ask.len \in Nat, insert_hw_breakpoint(ask),
         ask \in [type : {"insn", "write", "access"}, addr : Nat, len : Nat]
  PROVE  /\ hw_breakpoint' \in Seq(Breakpoints)
         /\ \A m, n \in 1 .. Len(hw_breakpoint') : hw_breakpoint'[m] = hw_breakpoint'[n] => m = n
         /\ asked' = {hw_breakpoint'[n] : n \in 1 .. Len(hw_breakpoint')}
<1> DEFINE b == Normal(ask)
           s == hw_breakpoint
<1>1. b \in Breakpoints
  <2>1. b.len \in {1, 2, 4, 8}
    BY DEF insert_hw_breakpoint, Acceptable
  <2>2. b = [type |-> ask.type, addr |-> ask.addr, len |-> b.len]
    <3>1. ask = [type |-> ask.type, addr |-> ask.addr, len |-> ask.len]
      OBVIOUS
    <3>2. [ask EXCEPT !.len = 1] = [type |-> ask.type, addr |-> ask.addr, len |-> 1]
      BY ONLY <3>1
    <3> QED BY <3>1, <3>2 DEF Normal
  <2> HIDE DEF b
  <2> QED BY <2>1, <2>2 DEF Breakpoints
<1>2. /\ s \in Seq(Breakpoints)
      /\ \A m, n \in 1 .. Len(s) : s[m] = s[n] => m = n
      /\ asked = {s[n] : n \in 1 .. Len(s)}
  BY DEF GdbInv
<1>3. s' = Append(s, b) /\ asked' = asked \cup {b} /\ \A n \in 1 .. Len(s) : s[n] # b
  BY DEF insert_hw_breakpoint, Acceptable, find_hw_breakpoint
<1> HIDE DEF b
<1>4. /\ s' \in Seq(Breakpoints) /\ Len(s') = Len(s) + 1 /\ s'[Len(s) + 1] = b
      /\ \A n \in 1 .. Len(s) : s'[n] = s[n]
      /\ Len(s) \in Nat
  BY <1>1, <1>2, <1>3
<1>5. \A n \in 1 .. Len(s') : n \in 1 .. Len(s) \/ n = Len(s) + 1
  BY <1>4
<1>6. Len(s) + 1 \in 1 .. Len(s') /\ \A n \in 1 .. Len(s) : n \in 1 .. Len(s')
  BY <1>4
<1>7. \A m, n \in 1 .. Len(s') : s'[m] = s'[n] => m = n
  BY ONLY <1>2, <1>3, <1>4, <1>5
<1>8. asked' = {s'[n] : n \in 1 .. Len(s')}
  BY ONLY <1>2, <1>3, <1>4, <1>5, <1>6
<1> QED BY <1>4, <1>7, <1>8

\* One that is taken out, the last in its place.
LEMMA GdbRemoves ==
  ASSUME GdbInv, NEW ask, remove_hw_breakpoint(ask)
  PROVE  /\ hw_breakpoint' \in Seq(Breakpoints)
         /\ \A m, n \in 1 .. Len(hw_breakpoint') : hw_breakpoint'[m] = hw_breakpoint'[n] => m = n
         /\ asked' = {hw_breakpoint'[n] : n \in 1 .. Len(hw_breakpoint')}
<1> DEFINE b == Normal(ask)
           s == hw_breakpoint
           last == Len(s)
<1>1. PICK k \in 1 .. Len(s) : s[k] = b /\ s' = Removed(s, k)
  BY DEF remove_hw_breakpoint, find_hw_breakpoint
<1>2. asked' = asked \ {b}
  BY DEF remove_hw_breakpoint
<1> HIDE DEF b
<1>3. /\ s \in Seq(Breakpoints) /\ last \in Nat \ {0}
      /\ \A m, n \in 1 .. last : s[m] = s[n] => m = n
      /\ asked = {s[n] : n \in 1 .. last}
  <2>1. s \in Seq(Breakpoints) /\ Len(s) \in Nat
    BY DEF GdbInv
  <2>2. Len(s) # 0
    BY <1>1, <2>1
  <2> QED BY <2>1, <2>2 DEF GdbInv
<1> DEFINE p == [s EXCEPT ![k] = s[last]]
<1>4. /\ p \in Seq(Breakpoints) /\ Len(p) = last
      /\ \A n \in 1 .. last : p[n] = IF n = k THEN s[last] ELSE s[n]
  BY <1>1, <1>3
<1>5. s' = SubSeq(p, 1, last - 1)
  BY <1>1 DEF Removed
<1> HIDE DEF p
<1>6. /\ s' \in Seq(Breakpoints) /\ Len(s') = last - 1
      /\ \A n \in 1 .. last - 1 : s'[n] = p[n]
  BY <1>3, <1>4, <1>5, SubSeqProperties
<1> HIDE DEF s, last
<1>7. \A n \in 1 .. last - 1 : n \in 1 .. last /\ n # last
  BY <1>3
<1>8. \A n \in 1 .. last - 1 : s'[n] = IF n = k THEN s[last] ELSE s[n]
  BY <1>4, <1>6, <1>7
<1>9. last \in 1 .. last /\ k \in 1 .. last
  BY <1>1, <1>3 DEF last
<1>10. \A m, n \in 1 .. last - 1 : s'[m] = s'[n] => m = n
  BY ONLY <1>3, <1>7, <1>8, <1>9
<1>11. asked' = {s'[n] : n \in 1 .. last - 1}
  <2>1. \A x \in asked' : \E n \in 1 .. last - 1 : x = s'[n]
    <3> SUFFICES ASSUME NEW x \in asked'
                 PROVE  \E n \in 1 .. last - 1 : x = s'[n]
      OBVIOUS
    <3>1. PICK n \in 1 .. last : x = s[n] /\ n # k
      BY <1>1, <1>2, <1>3
    <3>2. CASE n = last
      <4>1. k \in 1 .. last - 1
        BY <1>3, <1>9, <3>1, <3>2
      <4> QED BY <1>8, <3>1, <3>2, <4>1
    <3>3. CASE n # last
      <4>1. n \in 1 .. last - 1
        BY <1>3, <3>1, <3>3
      <4> QED BY <1>8, <3>1, <4>1
    <3> QED BY <3>2, <3>3
  <2>2. \A n \in 1 .. last - 1 : s'[n] \in asked'
    <3> SUFFICES ASSUME NEW n \in 1 .. last - 1
                 PROVE  s'[n] \in asked'
      OBVIOUS
    <3>1. PICK j \in 1 .. last : s'[n] = s[j] /\ j # k
      <4>1. CASE n = k
        BY <1>7, <1>8, <1>9, <4>1
      <4>2. CASE n # k
        BY <1>7, <1>8, <4>2
      <4> QED BY <4>1, <4>2
    <3>2. s[j] # s[k]
      BY <1>3, <1>9, <3>1
    <3> QED BY <1>1, <1>2, <1>3, <3>1, <3>2
  <2> QED BY <2>1, <2>2
<1> QED BY <1>6, <1>10, <1>11 DEF s

\* What gdb asks, what KVM reports, and what becomes of the byte under int3.
LEMMA GdbStep ==
  ASSUME GdbInv, GdbDebugs, debug_profile \in DOMAIN Dr7s
  PROVE  GdbInv'
<1> DEFINE TableInv == /\ hw_breakpoint \in Seq(Breakpoints)
                       /\ \A m, n \in 1 .. Len(hw_breakpoint) :
                            hw_breakpoint[m] = hw_breakpoint[n] => m = n
                       /\ asked = {hw_breakpoint[n] : n \in 1 .. Len(hw_breakpoint)}
           CodeInv == saved # "int3" /\ code # "none" /\ (saved = "none" => code # "int3")
<1>0. TableInv /\ CodeInv /\ programmed = update_guest_debug(hw_breakpoint)
  BY DEF GdbInv
<1>1. ASSUME NEW ask \in GdbAsks[debug_profile],
             insert_hw_breakpoint(ask) \/ remove_hw_breakpoint(ask),
             programmed' = update_guest_debug(hw_breakpoint'), gdb_hit' = <<>>, UNCHANGED code_vars
      PROVE  GdbInv'
  <2>1. ask \in [type : {"insn", "write", "access"}, addr : Nat, len : Nat]
    BY DebugAssumption
  <2>2. ask.len \in Nat
    BY <2>1
  <2>3. TableInv'
    BY <1>1, <2>1, <2>2, GdbInserts, GdbRemoves
  <2>4. CodeInv'
    BY <1>0, <1>1 DEF code_vars
  <2> QED BY <1>1, <2>3, <2>4 DEF GdbInv
<1>2. CASE remove_all_hw_breakpoints /\ programmed' = <<>> /\ gdb_hit' = <<>> /\ UNCHANGED code_vars
  <2>1. hw_breakpoint' = <<>> /\ asked' = {}
    BY <1>2 DEF remove_all_hw_breakpoints
  <2>2. update_guest_debug(<<>>) = <<>>
    BY DEF update_guest_debug
  <2>3. TableInv'
    BY <2>1
  <2>4. CodeInv'
    BY <1>0, <1>2 DEF code_vars
  <2> QED BY <1>2, <2>1, <2>2, <2>3, <2>4 DEF GdbInv
<1>3. ASSUME NEW n \in 1 .. Len(programmed), arch_debug(n),
             UNCHANGED <<hw_breakpoint, programmed, asked, code_vars>>
      PROVE  GdbInv'
  <2>1. n \in 1 .. Len(hw_breakpoint)
    <3>1. Len(programmed) = Len(hw_breakpoint)
      BY <1>0 DEF update_guest_debug
    <3> QED BY <3>1
  <2> DEFINE r == programmed[n]
             b == hw_breakpoint[n]
  <2>2. r.rw = 0 \/ (r.rw = 1 /\ b.type = "write") \/ (r.rw = 3 /\ b.type = "access")
    BY <1>0, <2>1, Programmed
  <2>3. gdb_hit' = IF r.rw = 0 THEN <<>> ELSE <<b.addr, IF r.rw = 1 THEN "write" ELSE "access">>
    BY <1>3 DEF arch_debug
  <2>4. b \in asked
    BY <1>0, <2>1
  <2> HIDE DEF r, b
  <2>5. gdb_hit' # <<>> => b.addr = gdb_hit'[1] /\ b.type = gdb_hit'[2]
    BY <2>2, <2>3
  <2>6. gdb_hit' # <<>> => \E x \in asked' : x.addr = gdb_hit'[1] /\ x.type = gdb_hit'[2]
    BY <1>3, <2>4, <2>5
  <2>7. TableInv' /\ CodeInv' /\ programmed' = update_guest_debug(hw_breakpoint')
    BY <1>0, <1>3 DEF code_vars
  <2> QED BY <2>6, <2>7 DEF GdbInv
<1>4. CASE (insert_sw_breakpoint \/ remove_sw_breakpoint \/ CodeWritten) /\ UNCHANGED gdb_vars
  <2>1. CodeInv'
    BY <1>0, <1>4 DEF insert_sw_breakpoint, remove_sw_breakpoint, CodeWritten
  <2>2. UNCHANGED <<hw_breakpoint, gdb_hit, programmed, asked>>
    BY <1>4 DEF gdb_vars
  <2> HIDE DEF CodeInv
  <2>3. /\ TableInv' /\ programmed' = update_guest_debug(hw_breakpoint')
        /\ gdb_hit' # <<>> => \E b \in asked' : b.addr = gdb_hit'[1] /\ b.type = gdb_hit'[2]
    BY <1>0, <2>2 DEF GdbInv
  <2> QED BY <2>1, <2>3 DEF GdbInv, CodeInv
<1> HIDE DEF TableInv, CodeInv
<1> QED BY <1>1, <1>2, <1>3, <1>4 DEF GdbDebugs

\* KVM stops where gdb asked.
LEMMA GdbRight ==
  ASSUME GdbInv
  PROVE  GdbStops
<1> DEFINE s == hw_breakpoint
           dom == 1 .. Len(s)
<1>1. /\ s \in Seq(Breakpoints) /\ asked = {s[n] : n \in dom}
      /\ \A m, n \in dom : s[m] = s[n] => m = n
      /\ Len(s) \in Nat
  BY DEF GdbInv
<1>2. Len(programmed) = Len(s) /\ \A n \in dom : Decoded(programmed[n]) = s[n]
  <2>1. programmed = update_guest_debug(s)
    BY DEF GdbInv
  <2>2. Len(update_guest_debug(s)) = Len(s)
    BY <1>1 DEF update_guest_debug
  <2> QED BY <1>1, <2>1, <2>2, Programmed
<1>3. {Decoded(programmed[n]) : n \in 1 .. Len(programmed)} = asked
  BY <1>1, <1>2
<1>4. IsFiniteSet(dom) /\ Cardinality(dom) = Len(s)
  <2>1. 1 \in Int /\ Len(s) \in Int
    BY <1>1
  <2>2. IsFiniteSet(dom) /\ Cardinality(dom) = IF 1 > Len(s) THEN 0 ELSE Len(s) - 1 + 1
    BY ONLY <2>1, FS_Interval
  <2> QED BY <1>1, <2>2
<1> DEFINE f == [n \in dom |-> s[n]]
<1> HIDE DEF s, dom
<1>5. /\ f \in [dom -> asked] /\ \A m, n \in dom : f[m] = f[n] => m = n
      /\ \A b \in asked : \E n \in dom : f[n] = b
  BY ONLY <1>1
<1> HIDE DEF f
<1>6. Cardinality(asked) = Cardinality(dom)
  BY <1>4, <1>5, AsMany
<1> QED BY <1>2, <1>3, <1>4, <1>6 DEF GdbStops, GdbInv

DebugInv == debug_profile \in DOMAIN Dr7s /\ GuestDebugInv /\ GdbInv

\* No breakpoint before anybody asks for one.
LEMMA DebugBegins ==
  ASSUME DebugInit
  PROVE  DebugInv
<1> DEFINE v == [local |-> {}, global |-> {}, field |-> [f \in 0 .. 7 |-> 0]]
<1>1. /\ dr = [addr |-> [i \in Regs |-> 0], dr6 |-> {}, dr7 |-> v]
      /\ armed = {} /\ ref = [i \in Regs |-> 0] /\ db = NoDb
  BY DEF DebugInit
<1>2. v \in Dr7Values
  BY DEF Dr7Values
<1>3. \A i \in Regs : ~Insertable(dr, i) /\ ~Refused(dr, i)
  <2> SUFFICES ASSUME NEW i \in Regs
               PROVE  ~Insertable(dr, i) /\ ~Refused(dr, i)
    OBVIOUS
  <2>1. i \in 0 .. 7
    BY DEF Regs
  <2>2. hw_breakpoint_type(dr.dr7, i) = 0 /\ Enabled(dr.dr7, i) = {}
    BY <1>1, <2>1 DEF hw_breakpoint_type, Enabled
  <2> QED BY <2>2 DEF Insertable, Refused
<1>4. dr \in DrValues
  <2> HIDE DEF v
  <2> QED BY <1>1, <1>2 DEF DrValues
<1>5. Unfreed(Lists, dr) = {} /\ NoneRefused(Lists, dr) /\ EnabledHeld(Lists, dr)
  BY <1>3 DEF Insertables, Unfreed, EnabledHeld, NoneRefused
<1>6. Listed(Lists, dr, {})
  BY <1>1 DEF Listed, Lists
<1>7. GuestDebugInv
  BY <1>1, <1>4, <1>5, <1>6 DEF GuestDebugInv, ListsRight, CauseInDr6, NoDb, Raised
<1>8. GdbInv
  BY DEF DebugInit, GdbInv, update_guest_debug
<1> QED BY <1>7, <1>8 DEF DebugInit, DebugInv

\* A step is the guest's or gdb's.
LEMMA DebugStep ==
  ASSUME DebugInv, DebugNext
  PROVE  DebugInv'
<1>1. CASE GuestDebugs
  <2>1. GuestDebugInv' /\ debug_profile' = debug_profile
    BY <1>1, GuestDebugStep DEF DebugInv, GuestDebugs
  <2>2. GdbInv'
    BY <1>1 DEF DebugInv, GuestDebugs, gdb_vars, code_vars, GdbInv
  <2> QED BY <2>1, <2>2 DEF DebugInv
<1>2. CASE GdbDebugs
  <2>1. GdbInv' /\ debug_profile' = debug_profile
    BY <1>2, GdbStep DEF DebugInv, GdbDebugs
  <2>2. UNCHANGED <<dr, armed, ref, freed, db>>
    BY <1>2 DEF GdbDebugs, guest_debug_vars
  <2>3. GuestDebugInv'
    BY <2>2 DEF DebugInv, GuestDebugInv, Lists, CauseInDr6
  <2> QED BY <2>1, <2>3 DEF DebugInv
<1> QED BY <1>1, <1>2 DEF DebugNext

-----------------------------------------------------------------------------
(* String instructions: the accesses of one repetition *)

\* Nothing accessed yet; and one more access, unless one before it faulted.
BeforeAccess(r) == [r |-> [r EXCEPT !.t = r.al], fault |-> <<>>]
AfterAccess(r, p, a) ==
  IF p.fault # <<>> THEN p
  ELSE IF Faults(p.r, a) THEN [r |-> p.r, fault |-> <<a.at, Where(r, a.at)>>]
  ELSE [r |-> Perform(p.r, a), fault |-> <<>>]

\* The recursive function that Performed is the last value of.
Upto(r, todo) ==
  CHOOSE upto : upto = [k \in 0 .. Len(todo) |->
        IF k = 0 THEN BeforeAccess(r) ELSE AfterAccess(r, upto[k - 1], todo[k])]

\* Performed is the last of the values that Upto gives.
LEMMA PerformedIsUpto ==
  ASSUME NEW r
  PROVE  Performed(r) = Upto(r, Sequel(r.op))[Len(Sequel(r.op))]
BY DEF Performed, Upto, BeforeAccess, AfterAccess

\* It has a solution for the sequences there are, so that its values follow
\* from one another.
LEMMA UptoUnfolds ==
  ASSUME NEW r, NEW todo, Len(todo) \in {1, 2, 3}
  PROVE  /\ Upto(r, todo)[0] = BeforeAccess(r)
         /\ \A k \in 1 .. Len(todo) :
              Upto(r, todo)[k] = AfterAccess(r, Upto(r, todo)[k - 1], todo[k])
<1> DEFINE n == Len(todo)
           Later(p, k) == AfterAccess(r, p, todo[k])
           p0 == BeforeAccess(r)
           Is(upto) == upto = [k \in 0 .. n |-> IF k = 0 THEN p0 ELSE Later(upto[k - 1], k)]
           p1 == Later(p0, 1)
           p2 == Later(p1, 2)
           p3 == Later(p2, 3)
           g == [k \in 0 .. n |-> IF k = 0 THEN p0 ELSE IF k = 1 THEN p1
                                  ELSE IF k = 2 THEN p2 ELSE p3]
<1>1. \E upto : Is(upto)
  <2>1. n \in {1, 2, 3}
    OBVIOUS
  <2> HIDE DEF n, p0, Later
  <2>2. g[0] = p0 /\ g[1] = p1 /\ (n # 1 => g[2] = p2)
    <3> HIDE DEF p1, p2, p3
    <3> QED BY <2>1
  <2>3. \A k \in 0 .. n : (IF k = 0 THEN p0 ELSE IF k = 1 THEN p1
                           ELSE IF k = 2 THEN p2 ELSE p3)
                        = (IF k = 0 THEN p0 ELSE Later(g[k - 1], k))
    <3> HIDE DEF g
    <3>1. p1 = Later(p0, 1) /\ p2 = Later(p1, 2) /\ p3 = Later(p2, 3)
      OBVIOUS
    <3> HIDE DEF p1, p2, p3
    <3>2. \A k \in 0 .. n : k = 0 \/ k = 1 \/ (k = 2 /\ n # 1) \/ (k = 3 /\ n = 3)
      <4>1. \A m \in {1, 2, 3} : \A k \in 0 .. m :
              k = 0 \/ k = 1 \/ (k = 2 /\ m # 1) \/ (k = 3 /\ m = 3)
        OBVIOUS
      <4> QED BY <4>1, <2>1
    <3> QED BY <3>1, <3>2, <2>2, <2>1
  <2>4. g = [k \in 0 .. n |-> IF k = 0 THEN p0 ELSE Later(g[k - 1], k)]
    <3> HIDE DEF p1, p2, p3
    <3> QED BY <2>3
  <2>5. Is(g)
    <3> HIDE DEF g
    <3> QED BY <2>4
  <2> HIDE DEF g, Is
  <2> QED BY <2>5
<1>2. Upto(r, todo) = CHOOSE upto : Is(upto)
  BY DEF Upto
<1>3. Is(Upto(r, todo))
  <2> HIDE DEF Is
  <2> QED BY <1>1, <1>2
<1> DEFINE u == Upto(r, todo)
<1>4. u = [k \in 0 .. n |-> IF k = 0 THEN p0 ELSE Later(u[k - 1], k)]
  BY <1>3
<1>5. 0 \in 0 .. n /\ \A k \in 1 .. n : k \in 0 .. n /\ k # 0
  OBVIOUS
<1>6. u[0] = p0 /\ \A k \in 1 .. n : u[k] = Later(u[k - 1], k)
  <2> HIDE DEF p0, n, Later, u
  <2> QED BY <1>4, <1>5
<1> QED BY <1>6

-----------------------------------------------------------------------------
(* String instructions: the invariant *)

ByEsi == {"MOVS", "LODS", "CMPS", "OUTS"}
ByEdi == {"MOVS", "STOS", "SCAS", "CMPS", "INS"}
RepFields == {"op", "nz", "ecx", "esi", "edi", "dir", "al", "t", "zf", "mem", "port", "sent",
              "mapped", "done", "faults", "traced", "traps", "was"}

\* An instruction, its operands, and its strings.
RepShape(r) ==
  /\ r = [x \in RepFields |-> r[x]]
  /\ r.op \in StringInsns /\ r.dir \in {1, -1} /\ r.was \in 0 .. Length
  /\ r.nz \in BOOLEAN /\ r.traced \in BOOLEAN
  /\ r.mem = [S |-> r.mem.S, D |-> r.mem.D]
  /\ r.mem.S \in [Positions -> Elements] /\ r.mem.D = [i \in Positions |-> r.mem.D[i]]

\* The registers count and point at the next element.
RepRegisters(r) ==
  /\ r.ecx \in 0 .. r.was
  /\ r.esi = Visited(r, IF r.op \in ByEsi THEN Times(r) + 1 ELSE 1)
  /\ r.edi = Visited(r, IF r.op \in ByEdi THEN Times(r) + 1 ELSE 1)
  /\ r.op # "LODS" => r.al = 1
  /\ r.zf \in BOOLEAN /\ r.done \in BOOLEAN

\* What came of the elements so far.
ElementsDone(r) ==
  LET n == Times(r)  i(k) == Visited(r, k) IN
  /\ \A k \in 1 .. n :
       /\ r.op = "MOVS" => r.mem.D[i(k)] = r.mem.S[i(k)]
       /\ r.op = "STOS" => r.mem.D[i(k)] = 1
       /\ r.op = "INS" => r.mem.D[i(k)] = Inputs[k]
       /\ r.op = "OUTS" => r.sent[k] = r.mem.S[i(k)]
  /\ r.op = "LODS" /\ n > 0 => r.al = r.mem.S[i(n)]

\* What the device has given and was sent.
PortAt(r) ==
  LET n == Times(r) IN
  /\ r.sent \in Seq(Elements) /\ Len(r.sent) = (IF r.op = "OUTS" THEN n ELSE 0)
  /\ r.port \in Seq(Int) /\ Len(r.port) = Length - (IF r.op = "INS" THEN n ELSE 0)
  /\ r.op = "INS" => \A k \in 1 .. Len(r.port) : r.port[k] = Inputs[n + k]

\* A comparison goes on until it finds what it looks for, a traced instruction
\* until ECX is zero, any other until it looks at ECX once more.
GoesOn(r) ==
  LET n == Times(r) IN
  /\ r.done /\ r.op \notin Compares => r.ecx = 0
  /\ r.op \in Compares =>
       /\ \A k \in 1 .. n - 1 : Equal(r, k) # r.nz
       /\ n > 0 => r.zf = Equal(r, n) /\ (r.zf = r.nz => r.done)
       /\ r.done /\ r.ecx > 0 => n > 0 /\ r.zf = r.nz
  /\ r.traced =>
       /\ r.traps = (IF r.done /\ n = 0 THEN 1 ELSE n)
       /\ ~r.done /\ n > 0 => r.ecx > 0

RepInv(r) == RepShape(r) /\ RepRegisters(r) /\ ElementsDone(r) /\ PortAt(r) /\ GoesOn(r)
StringsInv == RepInv(rep)

-----------------------------------------------------------------------------
(* String instructions: what each access does *)

\* The copy q of r differs in the fields F only.
SameBut(q, r, F) ==
  /\ q = [x \in RepFields |-> q[x]]
  /\ \A x \in RepFields \ F : q[x] = r[x]

\* Elements are loaded to, and stored from, T0.
LEMMA AccessEffects ==
  ASSUME NEW r, RepShape(r), NEW side \in {"S", "D"}
  PROVE  /\ LET q == Perform(r, Access("load", side)) IN
              SameBut(q, r, {"t"}) /\ q.t = r.mem[side][Where(r, side)]
         /\ LET q == Perform(r, Access("compare", "D")) IN
              SameBut(q, r, {"t"}) /\ q.t = (IF r.t = r.mem.D[r.edi] THEN r.al ELSE -1)
         /\ LET q == Perform(r, Access("store", "D")) IN
              /\ SameBut(q, r, {"mem"})
              /\ q.mem = [S |-> r.mem.S, D |-> [r.mem.D EXCEPT ![r.edi] = r.t]]
         /\ LET q == Perform(r, Access("zero", "D")) IN
              /\ SameBut(q, r, {"mem"})
              /\ q.mem = [S |-> r.mem.S, D |-> [r.mem.D EXCEPT ![r.edi] = 0]]
         /\ LET q == Perform(r, Access("in", "port")) IN
              SameBut(q, r, {"t", "port"}) /\ q.t = Head(r.port) /\ q.port = Tail(r.port)
         /\ LET q == Perform(r, Access("out", "port")) IN
              SameBut(q, r, {"sent"}) /\ q.sent = Append(r.sent, r.t)
<1>0. r = [x \in RepFields |-> r[x]] /\ r.mem = [S |-> r.mem.S, D |-> r.mem.D]
  BY DEF RepShape
<1>1. "t" \in RepFields /\ "mem" \in RepFields /\ "port" \in RepFields /\ "sent" \in RepFields
  BY DEF RepFields
<1>2. ASSUME NEW f \in RepFields, NEW v
      PROVE  SameBut([r EXCEPT ![f] = v], r, {f}) /\ [r EXCEPT ![f] = v][f] = v
  BY <1>0 DEF SameBut
<1>3. LET q == Perform(r, Access("load", side)) IN
        SameBut(q, r, {"t"}) /\ q.t = r.mem[side][Where(r, side)]
  <2>1. Perform(r, Access("load", side)) = [r EXCEPT !.t = r.mem[side][Where(r, side)]]
    BY DEF Perform, Access
  <2> DEFINE v == r.mem[side][Where(r, side)]
  <2> HIDE DEF v
  <2>2. SameBut([r EXCEPT !.t = v], r, {"t"}) /\ [r EXCEPT !.t = v].t = v
    BY <1>1, <1>2
  <2> DEFINE q == Perform(r, Access("load", side))
  <2>3. q = [r EXCEPT !.t = v]
    BY <2>1 DEF v
  <2> HIDE DEF q
  <2>4. SameBut(q, r, {"t"}) /\ q.t = v
    BY <2>2, <2>3
  <2> QED BY <2>4 DEF q, v
<1>4. LET q == Perform(r, Access("compare", "D")) IN
        SameBut(q, r, {"t"}) /\ q.t = (IF r.t = r.mem.D[r.edi] THEN r.al ELSE -1)
  <2>1. Perform(r, Access("compare", "D"))
          = [r EXCEPT !.t = IF r.t = r.mem.D[r.edi] THEN r.al ELSE -1]
    BY DEF Perform, Access, Where
  <2> DEFINE v == IF r.t = r.mem.D[r.edi] THEN r.al ELSE -1
  <2> HIDE DEF v
  <2>2. SameBut([r EXCEPT !.t = v], r, {"t"}) /\ [r EXCEPT !.t = v].t = v
    BY <1>1, <1>2
  <2> DEFINE q == Perform(r, Access("compare", "D"))
  <2>3. q = [r EXCEPT !.t = v]
    BY <2>1 DEF v
  <2> HIDE DEF q
  <2>4. SameBut(q, r, {"t"}) /\ q.t = v
    BY <2>2, <2>3
  <2> QED BY <2>4 DEF q, v
<1>5. ASSUME NEW v, NEW q, q = [r EXCEPT !.mem.D[r.edi] = v]
      PROVE  /\ SameBut(q, r, {"mem"})
             /\ q.mem = [S |-> r.mem.S, D |-> [r.mem.D EXCEPT ![r.edi] = v]]
  <2>1. q = [r EXCEPT !.mem = [r.mem EXCEPT !.D = [r.mem.D EXCEPT ![r.edi] = v]]]
    BY <1>5
  <2>2. [r.mem EXCEPT !.D = [r.mem.D EXCEPT ![r.edi] = v]]
          = [S |-> r.mem.S, D |-> [r.mem.D EXCEPT ![r.edi] = v]]
    BY <1>0
  <2> QED BY <2>1, <2>2, <1>1, <1>2
<1>6. LET q == Perform(r, Access("store", "D")) IN
        /\ SameBut(q, r, {"mem"})
        /\ q.mem = [S |-> r.mem.S, D |-> [r.mem.D EXCEPT ![r.edi] = r.t]]
  <2>1. Perform(r, Access("store", "D")) = [r EXCEPT !.mem.D[r.edi] = r.t]
    BY DEF Perform, Access, Where
  <2> QED BY <2>1, <1>5
<1>7. LET q == Perform(r, Access("zero", "D")) IN
        /\ SameBut(q, r, {"mem"})
        /\ q.mem = [S |-> r.mem.S, D |-> [r.mem.D EXCEPT ![r.edi] = 0]]
  <2>1. Perform(r, Access("zero", "D")) = [r EXCEPT !.mem.D[r.edi] = 0]
    BY DEF Perform, Access, Where
  <2> QED BY <2>1, <1>5
<1>8. LET q == Perform(r, Access("in", "port")) IN
        SameBut(q, r, {"t", "port"}) /\ q.t = Head(r.port) /\ q.port = Tail(r.port)
  <2>1. Perform(r, Access("in", "port")) = [r EXCEPT !.t = Head(r.port), !.port = Tail(r.port)]
    BY DEF Perform, Access
  <2>2. \A v, w : LET q == [r EXCEPT !.t = v, !.port = w] IN
          SameBut(q, r, {"t", "port"}) /\ q.t = v /\ q.port = w
    BY <1>0, <1>1 DEF SameBut
  <2> DEFINE v == Head(r.port)
             w == Tail(r.port)
             q == [r EXCEPT !.t = v, !.port = w]
  <2>3. SameBut(q, r, {"t", "port"}) /\ q.t = v /\ q.port = w
    <3> HIDE DEF v, w
    <3> QED BY <2>2
  <2> QED BY <2>1, <2>3
<1>9. LET q == Perform(r, Access("out", "port")) IN
        SameBut(q, r, {"sent"}) /\ q.sent = Append(r.sent, r.t)
  <2>1. Perform(r, Access("out", "port")) = [r EXCEPT !.sent = Append(r.sent, r.t)]
    BY DEF Perform, Access
  <2> QED BY <2>1, <1>1, <1>2
<1> QED BY <1>3, <1>4, <1>6, <1>7, <1>8, <1>9

\* The first access that faults ends a repetition.
LEMMA AfterCases ==
  ASSUME NEW r, NEW p, NEW a
  PROVE  LET q == AfterAccess(r, p, a) IN
         /\ p.fault # <<>> => q = p
         /\ p.fault = <<>> /\ Faults(p.r, a) => q.r = p.r /\ q.fault # <<>>
         /\ p.fault = <<>> /\ ~Faults(p.r, a) => q.r = Perform(p.r, a) /\ q.fault = <<>>
<1>1. <<a.at, Where(r, a.at)>> # <<>>
  <2>1. \A x, y : Len(<<x, y>>) = 2 /\ Len(<<>>) = 0
    OBVIOUS
  <2> HIDE DEF Where
  <2> QED BY <2>1
<1> QED BY <1>1 DEF AfterAccess

\* T0 holds AL before the first one.
LEMMA BeforeFacts ==
  ASSUME NEW r, RepShape(r)
  PROVE  LET q == BeforeAccess(r) IN
         SameBut(q.r, r, {"t"}) /\ q.r.t = r.al /\ q.fault = <<>>
<1>0. r = [x \in RepFields |-> r[x]] /\ "t" \in RepFields
  BY DEF RepShape, RepFields
<1>1. SameBut([r EXCEPT !.t = r.al], r, {"t"}) /\ [r EXCEPT !.t = r.al].t = r.al
  BY <1>0 DEF SameBut
<1> QED BY <1>1 DEF BeforeAccess

\* A copy with another T0, port or memory is as good as the first.
LEMMA SameShape ==
  ASSUME NEW r, RepShape(r), NEW q, SameBut(q, r, {"t", "mem", "port", "sent"}),
         \/ q.mem = r.mem
         \/ \E v : q.mem = [S |-> r.mem.S, D |-> [r.mem.D EXCEPT ![r.edi] = v]]
  PROVE  /\ RepShape(q)
         /\ \A x \in {"op", "nz", "ecx", "esi", "edi", "dir", "al", "zf", "mapped", "done",
                     "faults", "traced", "traps", "was"} : q[x] = r[x]
<1>1. \A x \in {"op", "nz", "ecx", "esi", "edi", "dir", "al", "zf", "mapped", "done",
                "faults", "traced", "traps", "was"} : q[x] = r[x]
  BY DEF SameBut, RepFields
<1>2. q.op = r.op /\ q.dir = r.dir /\ q.was = r.was /\ q.nz = r.nz /\ q.traced = r.traced
  BY <1>1
<1>3. q = [x \in RepFields |-> q[x]]
  BY DEF SameBut
<1>4. /\ q.mem = [S |-> q.mem.S, D |-> q.mem.D] /\ q.mem.S = r.mem.S
      /\ q.mem.D = [i \in Positions |-> q.mem.D[i]]
  <2>1. CASE q.mem = r.mem
    BY <2>1 DEF RepShape
  <2>2. ASSUME NEW v, q.mem = [S |-> r.mem.S, D |-> [r.mem.D EXCEPT ![r.edi] = v]]
        PROVE  /\ q.mem = [S |-> q.mem.S, D |-> q.mem.D] /\ q.mem.S = r.mem.S
               /\ q.mem.D = [i \in Positions |-> q.mem.D[i]]
    <3>1. q.mem.S = r.mem.S /\ q.mem.D = [r.mem.D EXCEPT ![r.edi] = v]
      BY <2>2
    <3>2. r.mem.D = [i \in Positions |-> r.mem.D[i]]
      BY DEF RepShape
    <3> QED BY <2>2, <3>1, <3>2
  <2> QED BY <2>1, <2>2
<1> QED BY <1>1, <1>2, <1>3, <1>4 DEF RepShape

\* What a copy is a copy of.
LEMMA SameTwice ==
  ASSUME NEW r, NEW q, NEW p, NEW F, NEW G, SameBut(q, r, F), SameBut(p, q, G),
         NEW H, F \cup G \subseteq H
  PROVE  SameBut(p, r, H)
BY DEF SameBut

\* The accesses one after the other.
LEMMA Chain ==
  ASSUME NEW r, NEW a, NEW b, NEW c
  PROVE  LET p1 == AfterAccess(r, BeforeAccess(r), a)
             p2 == AfterAccess(r, p1, b)
         IN /\ Sequel(r.op) = <<a>> => Performed(r) = p1
            /\ Sequel(r.op) = <<a, b>> => Performed(r) = p2
            /\ Sequel(r.op) = <<a, b, c>> => Performed(r) = AfterAccess(r, p2, c)
<1> DEFINE u == Upto(r, Sequel(r.op))
<1>1. ASSUME NEW n \in {1, 2, 3}, Len(Sequel(r.op)) = n
      PROVE  /\ Performed(r) = u[n] /\ u[0] = BeforeAccess(r)
             /\ \A k \in 1 .. n : u[k] = AfterAccess(r, u[k - 1], Sequel(r.op)[k])
  <2> DEFINE todo == Sequel(r.op)
  <2>1. Performed(r) = Upto(r, todo)[Len(todo)]
    BY PerformedIsUpto
  <2>2. Len(todo) \in {1, 2, 3}
    BY <1>1
  <2> HIDE DEF todo
  <2>3. /\ Upto(r, todo)[0] = BeforeAccess(r)
        /\ \A k \in 1 .. Len(todo) :
             Upto(r, todo)[k] = AfterAccess(r, Upto(r, todo)[k - 1], todo[k])
    BY <2>2, UptoUnfolds
  <2> QED BY <1>1, <2>1, <2>3 DEF todo
<1> HIDE DEF u
<1>2. CASE Sequel(r.op) = <<a>>
  <2>1. Len(Sequel(r.op)) = 1 /\ Sequel(r.op)[1] = a
    BY <1>2
  <2>2. u[1] = AfterAccess(r, u[1 - 1], a)
    BY <1>1, <2>1
  <2>3. Sequel(r.op) # <<a, b>> /\ Sequel(r.op) # <<a, b, c>>
    <3>1. Len(<<a, b>>) = 2 /\ Len(<<a, b, c>>) = 3
      OBVIOUS
    <3> QED BY <2>1, <3>1
  <2> QED BY <1>1, <2>1, <2>2, <2>3
<1>3. CASE Sequel(r.op) = <<a, b>>
  <2>1. Len(Sequel(r.op)) = 2 /\ Sequel(r.op)[1] = a /\ Sequel(r.op)[2] = b
    BY <1>3
  <2>2. u[1] = AfterAccess(r, u[1 - 1], a) /\ u[2] = AfterAccess(r, u[2 - 1], b)
    BY <1>1, <2>1
  <2>3. Sequel(r.op) # <<a>> /\ Sequel(r.op) # <<a, b, c>>
    <3>1. Len(<<a>>) = 1 /\ Len(<<a, b, c>>) = 3
      OBVIOUS
    <3> QED BY <2>1, <3>1
  <2> QED BY <1>1, <2>1, <2>2, <2>3
<1>4. CASE Sequel(r.op) = <<a, b, c>>
  <2>1. /\ Len(Sequel(r.op)) = 3
        /\ Sequel(r.op)[1] = a /\ Sequel(r.op)[2] = b /\ Sequel(r.op)[3] = c
    BY <1>4
  <2>2. /\ u[1] = AfterAccess(r, u[1 - 1], a) /\ u[2] = AfterAccess(r, u[2 - 1], b)
        /\ u[3] = AfterAccess(r, u[3 - 1], c)
    BY <1>1, <2>1
  <2>3. Sequel(r.op) # <<a>> /\ Sequel(r.op) # <<a, b>>
    <3>1. Len(<<a>>) = 1 /\ Len(<<a, b>>) = 2
      OBVIOUS
    <3> QED BY <2>1, <3>1
  <2> QED BY <1>1, <2>1, <2>2, <2>3
<1> QED BY <1>2, <1>3, <1>4

\* The memory with v in the destination.
Stored(r, v) == [S |-> r.mem.S, D |-> [r.mem.D EXCEPT ![r.edi] = v]]

\* A repetition that faults has changed nothing but T0; one that does not has
\* done its element: STOS, LODS and SCAS access memory once,
LEMMA OneAccess ==
  ASSUME NEW r, RepShape(r), r.op \in {"STOS", "LODS", "SCAS"}
  PROVE  LET p == Performed(r) IN
         /\ p.fault # <<>> => SameBut(p.r, r, {"t"})
         /\ p.fault = <<>> =>
              /\ r.op = "STOS" => SameBut(p.r, r, {"t", "mem"}) /\ p.r.mem = Stored(r, r.al)
              /\ r.op = "LODS" => SameBut(p.r, r, {"t"}) /\ p.r.t = r.mem.S[r.esi]
              /\ r.op = "SCAS" => SameBut(p.r, r, {"t"}) /\ p.r.t = r.mem.D[r.edi]
<1> DEFINE p0 == BeforeAccess(r)
           q == p0.r
<1>1. SameBut(q, r, {"t"}) /\ q.t = r.al /\ p0.fault = <<>>
  BY BeforeFacts
<1> HIDE DEF p0
<1>2. /\ RepShape(q) /\ q.mem = r.mem /\ q.esi = r.esi /\ q.edi = r.edi
  <2>1. SameBut(q, r, {"t", "mem", "port", "sent"}) /\ q.mem = r.mem
    BY <1>1 DEF SameBut, RepFields
  <2> HIDE DEF q
  <2> QED BY <2>1, SameShape
<1>3. ASSUME NEW a, Sequel(r.op) = <<a>>
      PROVE  LET p == Performed(r) IN
             /\ p.fault # <<>> => SameBut(p.r, r, {"t"})
             /\ p.fault = <<>> => p.r = Perform(q, a)
  <2>1. Performed(r) = AfterAccess(r, p0, a)
    BY <1>3, Chain DEF p0
  <2> QED BY <2>1, <1>1, AfterCases
<1>4. ASSUME NEW e, SameBut(e, q, {"t"})
      PROVE  SameBut(e, r, {"t"})
  BY <1>1, <1>4 DEF SameBut
<1>5. ASSUME NEW e, SameBut(e, q, {"mem"})
      PROVE  SameBut(e, r, {"t", "mem"})
  BY <1>1, <1>5 DEF SameBut
<1> HIDE DEF q
<1>6. CASE r.op = "STOS"
  <2>1. Sequel(r.op) = <<Access("store", "D")>>
    BY <1>6 DEF Sequel
  <2> DEFINE e == Perform(q, Access("store", "D"))
  <2>2. SameBut(e, q, {"mem"}) /\ e.mem = [S |-> q.mem.S, D |-> [q.mem.D EXCEPT ![q.edi] = q.t]]
    BY <1>2, AccessEffects
  <2> HIDE DEF e
  <2>3. SameBut(e, r, {"t", "mem"}) /\ e.mem = Stored(r, r.al)
    BY <1>1, <1>2, <1>5, <2>2 DEF Stored
  <2> QED BY <1>3, <1>6, <2>1, <2>3 DEF e
<1>7. CASE r.op = "LODS"
  <2>1. Sequel(r.op) = <<Access("load", "S")>>
    BY <1>7 DEF Sequel
  <2> DEFINE e == Perform(q, Access("load", "S"))
  <2>2. SameBut(e, q, {"t"}) /\ e.t = q.mem.S[Where(q, "S")]
    BY <1>2, AccessEffects
  <2> HIDE DEF e
  <2>3. SameBut(e, r, {"t"}) /\ e.t = r.mem.S[r.esi]
    BY <1>2, <1>4, <2>2 DEF Where
  <2> QED BY <1>3, <1>7, <2>1, <2>3 DEF e
<1>8. CASE r.op = "SCAS"
  <2>1. Sequel(r.op) = <<Access("load", "D")>>
    BY <1>8 DEF Sequel
  <2> DEFINE e == Perform(q, Access("load", "D"))
  <2>2. SameBut(e, q, {"t"}) /\ e.t = q.mem.D[Where(q, "D")]
    BY <1>2, AccessEffects
  <2> HIDE DEF e
  <2>3. SameBut(e, r, {"t"}) /\ e.t = r.mem.D[r.edi]
    BY <1>2, <1>4, <2>2 DEF Where
  <2> QED BY <1>3, <1>8, <2>1, <2>3 DEF e
<1> QED BY <1>6, <1>7, <1>8

\* MOVS, CMPS and OUTS load from the source first;
LEMMA TwoAccesses ==
  ASSUME NEW r, RepShape(r), r.op \in {"MOVS", "CMPS", "OUTS"}
  PROVE  LET p == Performed(r) IN
         /\ p.fault # <<>> => SameBut(p.r, r, {"t"})
         /\ p.fault = <<>> =>
              /\ r.op = "MOVS" => /\ SameBut(p.r, r, {"t", "mem"})
                                 /\ p.r.mem = Stored(r, r.mem.S[r.esi])
              /\ r.op = "CMPS" =>
                   /\ SameBut(p.r, r, {"t"})
                   /\ p.r.t = (IF r.mem.S[r.esi] = r.mem.D[r.edi] THEN r.al ELSE -1)
              /\ r.op = "OUTS" => /\ SameBut(p.r, r, {"t", "sent"})
                                 /\ p.r.sent = Append(r.sent, r.mem.S[r.esi])
<1> DEFINE p0 == BeforeAccess(r)
           p1 == AfterAccess(r, p0, Access("load", "S"))
           q == p1.r
<1>1. SameBut(p0.r, r, {"t"}) /\ p0.r.t = r.al /\ p0.fault = <<>>
  BY BeforeFacts
<1>2. /\ RepShape(p0.r) /\ p0.r.mem = r.mem /\ p0.r.esi = r.esi /\ p0.r.edi = r.edi
  <2> DEFINE o == p0.r
  <2>1. SameBut(o, r, {"t", "mem", "port", "sent"}) /\ o.mem = r.mem
    BY <1>1 DEF SameBut, RepFields
  <2> HIDE DEF o
  <2>2. RepShape(o) /\ o.mem = r.mem /\ o.esi = r.esi /\ o.edi = r.edi
    BY <2>1, SameShape
  <2> QED BY <2>2 DEF o
<1>3. \/ p1.fault # <<>> /\ SameBut(q, r, {"t"})
      \/ /\ p1.fault = <<>> /\ SameBut(q, r, {"t"}) /\ RepShape(q)
         /\ q.t = r.mem.S[r.esi] /\ q.mem = r.mem /\ q.edi = r.edi /\ q.al = r.al
         /\ q.sent = r.sent
  <2> DEFINE o == p0.r
             e == Perform(o, Access("load", "S"))
  <2>1. SameBut(e, o, {"t"}) /\ e.t = o.mem.S[Where(o, "S")]
    BY <1>2, AccessEffects
  <2>2. \/ q = o /\ p1.fault # <<>>
        \/ q = e /\ p1.fault = <<>>
    BY <1>1, AfterCases
  <2> HIDE DEF p0, q, e, o, p1
  <2>3. SameBut(e, r, {"t"})
    BY <1>1, <2>1 DEF SameBut, o
  <2>4. e.t = r.mem.S[r.esi]
    BY <2>1, <1>2 DEF Where, o
  <2>5. SameBut(e, r, {"t", "mem", "port", "sent"}) /\ e.mem = r.mem /\ e.sent = r.sent
    BY <2>3 DEF SameBut, RepFields
  <2>6. RepShape(e) /\ e.edi = r.edi /\ e.al = r.al
    BY <2>5, SameShape
  <2> QED BY <1>1, <2>2, <2>3, <2>4, <2>5, <2>6 DEF o
<1> HIDE DEF p0
<1>4. ASSUME NEW a, Sequel(r.op) = <<Access("load", "S"), a>>
      PROVE  LET p == Performed(r) IN
             /\ p.fault # <<>> => SameBut(p.r, r, {"t"})
             /\ p.fault = <<>> => p.r = Perform(q, a) /\ p1.fault = <<>>
  <2>1. Performed(r) = AfterAccess(r, p1, a)
    BY <1>4, Chain DEF p0
  <2> HIDE DEF p1
  <2> QED BY <2>1, <1>3, AfterCases
<1> HIDE DEF p1, q
<1>5. ASSUME NEW e, SameBut(q, r, {"t"}), SameBut(e, q, {"t"})
      PROVE  SameBut(e, r, {"t"})
  BY <1>5 DEF SameBut
<1>6. ASSUME NEW e, SameBut(q, r, {"t"}), SameBut(e, q, {"mem"})
      PROVE  SameBut(e, r, {"t", "mem"})
  BY <1>6 DEF SameBut
<1>7. ASSUME NEW e, SameBut(q, r, {"t"}), SameBut(e, q, {"sent"})
      PROVE  SameBut(e, r, {"t", "sent"})
  BY <1>7 DEF SameBut
<1>8. CASE r.op = "MOVS"
  <2>1. Sequel(r.op) = <<Access("load", "S"), Access("store", "D")>>
    BY <1>8 DEF Sequel
  <2> DEFINE e == Perform(q, Access("store", "D"))
  <2>2. RepShape(q) =>
          /\ SameBut(e, q, {"mem"})
          /\ e.mem = [S |-> q.mem.S, D |-> [q.mem.D EXCEPT ![q.edi] = q.t]]
    BY AccessEffects
  <2> HIDE DEF e
  <2>3. p1.fault = <<>> => SameBut(e, r, {"t", "mem"}) /\ e.mem = Stored(r, r.mem.S[r.esi])
    BY <1>3, <1>6, <2>2 DEF Stored
  <2> QED BY <1>4, <1>8, <2>1, <2>3 DEF e
<1>9. CASE r.op = "CMPS"
  <2>1. Sequel(r.op) = <<Access("load", "S"), Access("compare", "D")>>
    BY <1>9 DEF Sequel
  <2> DEFINE e == Perform(q, Access("compare", "D"))
  <2>2. RepShape(q) =>
          SameBut(e, q, {"t"}) /\ e.t = (IF q.t = q.mem.D[q.edi] THEN q.al ELSE -1)
    BY AccessEffects
  <2> HIDE DEF e
  <2>3. p1.fault = <<>> =>
          /\ SameBut(e, r, {"t"})
          /\ e.t = (IF r.mem.S[r.esi] = r.mem.D[r.edi] THEN r.al ELSE -1)
    BY <1>3, <1>5, <2>2
  <2> QED BY <1>4, <1>9, <2>1, <2>3 DEF e
<1>10. CASE r.op = "OUTS"
  <2>1. Sequel(r.op) = <<Access("load", "S"), Access("out", "port")>>
    BY <1>10 DEF Sequel
  <2> DEFINE e == Perform(q, Access("out", "port"))
  <2>2. RepShape(q) => SameBut(e, q, {"sent"}) /\ e.sent = Append(q.sent, q.t)
    BY AccessEffects
  <2> HIDE DEF e
  <2>3. p1.fault = <<>> =>
          SameBut(e, r, {"t", "sent"}) /\ e.sent = Append(r.sent, r.mem.S[r.esi])
    BY <1>3, <1>7, <2>2
  <2> QED BY <1>4, <1>10, <2>1, <2>3 DEF e
<1> QED BY <1>8, <1>9, <1>10

\* and INS writes first, to fault before it has read from the port.
LEMMA ThreeAccesses ==
  ASSUME NEW r, RepShape(r), r.op = "INS"
  PROVE  LET p == Performed(r) IN
         /\ p.fault # <<>> => SameBut(p.r, r, {"t"})
         /\ p.fault = <<>> => /\ SameBut(p.r, r, {"t", "mem", "port"})
                             /\ p.r.mem = Stored(r, Head(r.port)) /\ p.r.port = Tail(r.port)
<1> DEFINE zero == Access("zero", "D")
           in == Access("in", "port")
           store == Access("store", "D")
           p0 == BeforeAccess(r)
           o == p0.r
           p1 == AfterAccess(r, p0, zero)
           p2 == AfterAccess(r, p1, in)
           e1 == Perform(o, zero)
           e2 == Perform(e1, in)
           e3 == Perform(e2, store)
<1>1. SameBut(o, r, {"t"}) /\ p0.fault = <<>>
  BY BeforeFacts
<1>2. Performed(r) = AfterAccess(r, p2, store)
  <2>1. Sequel(r.op) = <<zero, in, store>>
    BY DEF Sequel, gen_ins
  <2> HIDE DEF zero, in, store
  <2> QED BY <2>1, Chain
<1>3. zero.at = "D" /\ in.at = "port" /\ store.at = "D"
  BY DEF Access
<1>4. /\ RepShape(o) /\ o.mem = r.mem /\ o.port = r.port /\ o.edi = r.edi
      /\ o.mapped = r.mapped
  <2> HIDE DEF o
  <2>1. SameBut(o, r, {"t", "mem", "port", "sent"}) /\ o.mem = r.mem /\ o.port = r.port
    BY <1>1 DEF SameBut, RepFields
  <2> QED BY <2>1, SameShape
<1>5. SameBut(e1, o, {"mem"}) /\ e1.mem = [S |-> o.mem.S, D |-> [o.mem.D EXCEPT ![o.edi] = 0]]
  BY <1>4, AccessEffects
<1>6. /\ RepShape(e1) /\ SameBut(e1, r, {"t", "mem"}) /\ e1.mem = Stored(r, 0)
      /\ e1.port = r.port /\ e1.edi = r.edi /\ e1.mapped = r.mapped
  <2> HIDE DEF o, e1
  <2>1. SameBut(e1, r, {"t", "mem"}) /\ e1.mem = Stored(r, 0)
    BY <1>1, <1>4, <1>5 DEF SameBut, Stored
  <2>2. SameBut(e1, r, {"t", "mem", "port", "sent"}) /\ e1.port = r.port
    BY <2>1 DEF SameBut, RepFields
  <2>3. \E v : e1.mem = [S |-> r.mem.S, D |-> [r.mem.D EXCEPT ![r.edi] = v]]
    BY <2>1 DEF Stored
  <2>4. RepShape(e1) /\ e1.edi = r.edi /\ e1.mapped = r.mapped
    BY ZenonT(30), <2>2, <2>3, SameShape
  <2> QED BY <2>1, <2>2, <2>4
<1>7. /\ SameBut(e2, e1, {"t", "port"}) /\ e2.t = Head(e1.port) /\ e2.port = Tail(e1.port)
  <2> HIDE DEF e1
  <2> QED BY <1>6, AccessEffects
<1>8. /\ RepShape(e2) /\ SameBut(e2, r, {"t", "mem", "port"}) /\ e2.mem = Stored(r, 0)
      /\ e2.t = Head(r.port) /\ e2.port = Tail(r.port) /\ e2.edi = r.edi
      /\ e2.mapped = r.mapped
  <2> HIDE DEF e1, e2
  <2>1. SameBut(e2, r, {"t", "mem", "port"})
    BY <1>6, <1>7 DEF SameBut
  <2>2. SameBut(e2, r, {"t", "mem", "port", "sent"})
    BY <2>1 DEF SameBut
  <2>3. e2.mem = e1.mem
    BY <1>7 DEF SameBut, RepFields
  <2>4. \E v : e2.mem = [S |-> r.mem.S, D |-> [r.mem.D EXCEPT ![r.edi] = v]]
    BY <1>6, <2>3 DEF Stored
  <2>5. RepShape(e2) /\ e2.edi = r.edi /\ e2.mapped = r.mapped
    <3>1. /\ RepShape(e2)
          /\ \A x \in {"op", "nz", "ecx", "esi", "edi", "dir", "al", "zf", "mapped", "done",
                      "faults", "traced", "traps", "was"} : e2[x] = r[x]
      BY ONLY <2>2, <2>4, RepShape(r), SameShape
    <3> QED BY <3>1
  <2> QED BY <1>6, <1>7, <2>1, <2>3, <2>5
<1>9. /\ SameBut(e3, e2, {"mem"})
      /\ e3.mem = [S |-> e2.mem.S, D |-> [e2.mem.D EXCEPT ![e2.edi] = e2.t]]
  <2> HIDE DEF e2
  <2> QED BY <1>8, AccessEffects
<1>10. /\ SameBut(e3, r, {"t", "mem", "port"}) /\ e3.mem = Stored(r, Head(r.port))
       /\ e3.port = Tail(r.port)
  <2> HIDE DEF e2, e3
  <2>1. SameBut(e3, r, {"t", "mem", "port"})
    BY <1>8, <1>9 DEF SameBut
  <2>2. e3.port = e2.port
    BY <1>9 DEF SameBut, RepFields
  <2>3. /\ e2.mem.S = r.mem.S /\ e2.mem.D = [r.mem.D EXCEPT ![r.edi] = 0]
        /\ r.mem.D = [i \in Positions |-> r.mem.D[i]]
    BY <1>8 DEF Stored, RepShape
  <2>4. ASSUME NEW v
        PROVE  [[r.mem.D EXCEPT ![r.edi] = 0] EXCEPT ![r.edi] = v] = [r.mem.D EXCEPT ![r.edi] = v]
    BY <2>3
  <2>5. e3.mem = Stored(r, Head(r.port))
    <3> DEFINE v == Head(r.port)
    <3> HIDE DEF v
    <3>1. e3.mem = [S |-> r.mem.S, D |-> [[r.mem.D EXCEPT ![r.edi] = 0] EXCEPT ![r.edi] = v]]
      BY <1>8, <1>9, <2>3 DEF v
    <3> QED BY <3>1, <2>4 DEF Stored, v
  <2> QED BY <1>8, <2>1, <2>2, <2>5
<1>11. ~Faults(e1, in) /\ (Faults(e2, store) <=> Faults(o, zero))
  <2> HIDE DEF o, e1, e2, zero, in, store
  <2> QED BY <1>3, <1>4, <1>6, <1>8 DEF Faults, Where
<1> HIDE DEF zero, in, store, e1, e2, e3, p0, o
<1>12. CASE Faults(o, zero)
  <2>1. p1.r = o /\ p1.fault # <<>>
    BY <1>1, <1>12, AfterCases DEF o
  <2>2. p2 = p1
    <3> HIDE DEF p1
    <3> QED BY <2>1, AfterCases
  <2>3. Performed(r) = p2
    <3> HIDE DEF p1, p2
    <3> QED BY <1>2, <2>1, <2>2, AfterCases
  <2> HIDE DEF p1, p2
  <2> QED BY <1>1, <2>1, <2>2, <2>3
<1>13. CASE ~Faults(o, zero)
  <2>1. p1.r = e1 /\ p1.fault = <<>>
    BY <1>1, <1>13, AfterCases DEF o, e1
  <2>2. p2.r = e2 /\ p2.fault = <<>>
    <3> HIDE DEF p1
    <3> QED BY <1>11, <2>1, AfterCases DEF e2
  <2>3. Performed(r).r = e3 /\ Performed(r).fault = <<>>
    <3> HIDE DEF p1, p2
    <3> QED BY <1>2, <1>11, <1>13, <2>2, AfterCases DEF e3
  <2> QED BY <1>10, <2>3
<1> QED BY <1>12, <1>13

\* Then the registers move on.
LEMMA MovesEffect ==
  ASSUME NEW q, q = [x \in RepFields |-> q[x]]
  PROVE  LET m == Moves(q) IN
         /\ SameBut(m, q, {"esi", "edi", "al", "zf", "ecx"})
         /\ m.esi = q.esi + (IF q.op \in ByEsi THEN q.dir ELSE 0)
         /\ m.edi = q.edi + (IF q.op \in ByEdi THEN q.dir ELSE 0)
         /\ m.al = (IF q.op = "LODS" THEN q.t ELSE q.al)
         /\ m.zf = (IF q.op \in Compares THEN q.t = q.al ELSE q.zf)
         /\ m.ecx = q.ecx - 1
<1> DEFINE a == q.esi + (IF q.op \in ByEsi THEN q.dir ELSE 0)
           b == q.edi + (IF q.op \in ByEdi THEN q.dir ELSE 0)
           c == IF q.op = "LODS" THEN q.t ELSE q.al
           d == IF q.op \in Compares THEN q.t = q.al ELSE q.zf
           e == q.ecx - 1
           m == [q EXCEPT !.esi = a, !.edi = b, !.al = c, !.zf = d, !.ecx = e]
<1>1. Moves(q) = m
  BY DEF Moves, ByEsi, ByEdi
<1>2. /\ "esi" \in RepFields /\ "edi" \in RepFields /\ "al" \in RepFields /\ "zf" \in RepFields
      /\ "ecx" \in RepFields
  BY DEF RepFields
<1>3. /\ SameBut(m, q, {"esi", "edi", "al", "zf", "ecx"})
      /\ m.esi = a /\ m.edi = b /\ m.al = c /\ m.zf = d /\ m.ecx = e
  <2> HIDE DEF a, b, c, d, e
  <2> QED BY <1>2 DEF SameBut
<1> HIDE DEF m
<1> QED BY <1>1, <1>3

\* A block that is left tells whether the instruction is done.
LEMMA LeavesEffect ==
  ASSUME NEW q, q = [x \in RepFields |-> q[x]], NEW done
  PROVE  LET l == Leaves(q, done) IN
         /\ SameBut(l, q, {"done", "traps"})
         /\ l.done = done /\ l.traps = (IF q.traced THEN q.traps + 1 ELSE q.traps)
<1> DEFINE a == IF q.traced THEN q.traps + 1 ELSE q.traps
           l == [q EXCEPT !.done = done, !.traps = a]
<1>1. Leaves(q, done) = l
  BY DEF Leaves
<1>2. "done" \in RepFields /\ "traps" \in RepFields
  BY DEF RepFields
<1>3. SameBut(l, q, {"done", "traps"}) /\ l.done = done /\ l.traps = a
  <2> HIDE DEF a
  <2> QED BY <1>2 DEF SameBut
<1> HIDE DEF l
<1> QED BY <1>1, <1>3

\* The operands of an instruction stay.
SameOperands(w, r) ==
  /\ w = [x \in RepFields |-> w[x]]
  /\ w.op = r.op /\ w.nz = r.nz /\ w.dir = r.dir /\ w.was = r.was /\ w.traced = r.traced

\* What one whole repetition does to each field.
LEMMA RepzEffect ==
  ASSUME NEW r, RepShape(r), RepRegisters(r), NEW p, p = Performed(r), p.fault = <<>>,
         NEW w, w = Leaves(Moves(p.r), RepStops(Moves(p.r)))
  PROVE  /\ SameOperands(w, r)
         /\ w.ecx = r.ecx - 1
         /\ w.esi = r.esi + (IF r.op \in ByEsi THEN r.dir ELSE 0)
         /\ w.edi = r.edi + (IF r.op \in ByEdi THEN r.dir ELSE 0)
         /\ w.al = (IF r.op = "LODS" THEN r.mem.S[r.esi] ELSE r.al)
         /\ w.zf = (IF r.op = "SCAS" THEN r.mem.D[r.edi] = r.al
                    ELSE IF r.op = "CMPS" THEN r.mem.S[r.esi] = r.mem.D[r.edi] ELSE r.zf)
         /\ w.mem = (IF r.op = "MOVS" THEN Stored(r, r.mem.S[r.esi])
                     ELSE IF r.op = "STOS" THEN Stored(r, r.al)
                     ELSE IF r.op = "INS" THEN Stored(r, Head(r.port)) ELSE r.mem)
         /\ w.port = (IF r.op = "INS" THEN Tail(r.port) ELSE r.port)
         /\ w.sent = (IF r.op = "OUTS" THEN Append(r.sent, r.mem.S[r.esi]) ELSE r.sent)
         /\ w.done <=> (r.op \in Compares /\ w.zf = r.nz) \/ (r.traced /\ w.ecx = 0)
         /\ w.done \in BOOLEAN
         /\ w.traps = (IF r.traced THEN r.traps + 1 ELSE r.traps)
<1> DEFINE q == p.r
           m == Moves(q)
<1>1. r.op \in {"MOVS", "STOS", "LODS", "SCAS", "CMPS", "INS", "OUTS"}
  BY DEF RepShape, StringInsns, Compares
<1>2. /\ SameBut(q, r, {"t", "mem", "port", "sent"})
      /\ q.mem = (IF r.op = "MOVS" THEN Stored(r, r.mem.S[r.esi])
                  ELSE IF r.op = "STOS" THEN Stored(r, r.al)
                  ELSE IF r.op = "INS" THEN Stored(r, Head(r.port)) ELSE r.mem)
      /\ q.port = (IF r.op = "INS" THEN Tail(r.port) ELSE r.port)
      /\ q.sent = (IF r.op = "OUTS" THEN Append(r.sent, r.mem.S[r.esi]) ELSE r.sent)
      /\ r.op = "LODS" => q.t = r.mem.S[r.esi]
      /\ r.op = "SCAS" => q.t = r.mem.D[r.edi]
      /\ r.op = "CMPS" => q.t = (IF r.mem.S[r.esi] = r.mem.D[r.edi] THEN r.al ELSE -1)
  <2> HIDE DEF q
  <2>1. CASE r.op = "MOVS"
    <3>1. SameBut(q, r, {"t", "mem"}) /\ q.mem = Stored(r, r.mem.S[r.esi])
      BY <2>1, TwoAccesses DEF q
    <3>2. SameBut(q, r, {"t", "mem", "port", "sent"}) /\ q.port = r.port /\ q.sent = r.sent
      BY <3>1 DEF SameBut, RepFields
    <3> QED BY <2>1, <3>1, <3>2
  <2>2. CASE r.op = "STOS"
    <3>1. SameBut(q, r, {"t", "mem"}) /\ q.mem = Stored(r, r.al)
      BY <2>2, OneAccess DEF q
    <3>2. SameBut(q, r, {"t", "mem", "port", "sent"}) /\ q.port = r.port /\ q.sent = r.sent
      BY <3>1 DEF SameBut, RepFields
    <3> QED BY <2>2, <3>1, <3>2
  <2>3. CASE r.op \in {"LODS", "SCAS", "CMPS"}
    <3>1. /\ SameBut(q, r, {"t"})
          /\ r.op = "LODS" => q.t = r.mem.S[r.esi]
          /\ r.op = "SCAS" => q.t = r.mem.D[r.edi]
      BY <2>3, OneAccess, TwoAccesses DEF q
    <3>2. r.op = "CMPS" => q.t = (IF r.mem.S[r.esi] = r.mem.D[r.edi] THEN r.al ELSE -1)
      BY TwoAccesses DEF q
    <3>3. /\ SameBut(q, r, {"t", "mem", "port", "sent"})
          /\ q.mem = r.mem /\ q.port = r.port /\ q.sent = r.sent
      BY <3>1 DEF SameBut, RepFields
    <3> QED BY <2>3, <3>1, <3>2, <3>3
  <2>4. CASE r.op = "INS"
    <3>1. /\ SameBut(q, r, {"t", "mem", "port"})
          /\ q.mem = Stored(r, Head(r.port)) /\ q.port = Tail(r.port)
      BY <2>4, ThreeAccesses DEF q
    <3>2. SameBut(q, r, {"t", "mem", "port", "sent"}) /\ q.sent = r.sent
      BY <3>1 DEF SameBut, RepFields
    <3> QED BY <2>4, <3>1, <3>2
  <2>5. CASE r.op = "OUTS"
    <3>1. SameBut(q, r, {"t", "sent"}) /\ q.sent = Append(r.sent, r.mem.S[r.esi])
      BY <2>5, TwoAccesses DEF q
    <3>2. SameBut(q, r, {"t", "mem", "port", "sent"}) /\ q.mem = r.mem /\ q.port = r.port
      BY <3>1 DEF SameBut, RepFields
    <3> QED BY <2>5, <3>1, <3>2
  <2> QED BY <1>1, <2>1, <2>2, <2>3, <2>4, <2>5
<1> HIDE DEF q
<1>3. /\ q = [x \in RepFields |-> q[x]]
      /\ q.op = r.op /\ q.nz = r.nz /\ q.dir = r.dir /\ q.was = r.was /\ q.traced = r.traced
      /\ q.ecx = r.ecx /\ q.esi = r.esi /\ q.edi = r.edi /\ q.al = r.al /\ q.zf = r.zf
      /\ q.traps = r.traps
  BY <1>2 DEF SameBut, RepFields
<1>4. /\ SameBut(m, q, {"esi", "edi", "al", "zf", "ecx"})
      /\ m.esi = q.esi + (IF q.op \in ByEsi THEN q.dir ELSE 0)
      /\ m.edi = q.edi + (IF q.op \in ByEdi THEN q.dir ELSE 0)
      /\ m.al = (IF q.op = "LODS" THEN q.t ELSE q.al)
      /\ m.zf = (IF q.op \in Compares THEN q.t = q.al ELSE q.zf)
      /\ m.ecx = q.ecx - 1
  BY <1>3, MovesEffect
<1> HIDE DEF m
<1>5. /\ m = [x \in RepFields |-> m[x]]
      /\ m.op = r.op /\ m.nz = r.nz /\ m.dir = r.dir /\ m.was = r.was /\ m.traced = r.traced
      /\ m.mem = q.mem /\ m.port = q.port /\ m.sent = q.sent /\ m.traps = r.traps
  BY ONLY <1>3, <1>4 DEF SameBut, RepFields
<1>6. /\ SameBut(w, m, {"done", "traps"})
      /\ w.done = RepStops(m) /\ w.traps = (IF m.traced THEN m.traps + 1 ELSE m.traps)
  <2>1. w = Leaves(m, RepStops(m))
    BY DEF m, q
  <2> HIDE DEF RepStops
  <2> QED BY <1>5, <2>1, LeavesEffect
<1>7. /\ SameOperands(w, r)
      /\ w.mem = q.mem /\ w.port = q.port /\ w.sent = q.sent
      /\ w.ecx = m.ecx /\ w.esi = m.esi /\ w.edi = m.edi /\ w.al = m.al /\ w.zf = m.zf
  BY ONLY <1>5, <1>6 DEF SameBut, RepFields, SameOperands
<1>8. w.zf = (IF r.op = "SCAS" THEN r.mem.D[r.edi] = r.al
              ELSE IF r.op = "CMPS" THEN r.mem.S[r.esi] = r.mem.D[r.edi] ELSE r.zf)
  <2>1. r.op \in Compares => r.al = 1
    BY DEF RepRegisters, Compares
  <2>2. CASE r.op = "SCAS"
    <3>1. w.zf = (q.t = q.al)
      BY <1>3, <1>4, <1>7, <2>2 DEF Compares
    <3> QED BY <1>2, <1>3, <2>2, <3>1
  <2>3. CASE r.op = "CMPS"
    <3>1. w.zf = (q.t = q.al)
      BY <1>3, <1>4, <1>7, <2>3 DEF Compares
    <3>2. q.al = 1 /\ q.t = (IF r.mem.S[r.esi] = r.mem.D[r.edi] THEN 1 ELSE -1)
      BY <1>2, <1>3, <2>1, <2>3 DEF Compares
    <3>3. (q.t = q.al) <=> r.mem.S[r.esi] = r.mem.D[r.edi]
      BY <3>2
    <3> QED BY <2>3, <3>1, <3>3
  <2>4. CASE r.op \notin {"SCAS", "CMPS"}
    BY <1>3, <1>4, <1>7, <2>4 DEF Compares
  <2> QED BY <2>2, <2>3, <2>4
<1>9. /\ w.done <=> (r.op \in Compares /\ w.zf = r.nz) \/ (r.traced /\ w.ecx = 0)
      /\ w.done \in BOOLEAN
  BY <1>5, <1>6, <1>7 DEF RepStops
<1>10. w.ecx = r.ecx - 1 /\ w.traps = (IF r.traced THEN r.traps + 1 ELSE r.traps)
  BY <1>3, <1>4, <1>5, <1>6, <1>7
<1> HIDE DEF RepShape
<1>11. /\ w.esi = r.esi + (IF r.op \in ByEsi THEN r.dir ELSE 0)
       /\ w.edi = r.edi + (IF r.op \in ByEdi THEN r.dir ELSE 0)
  BY ONLY <1>3, <1>4, <1>7
<1>12. w.al = (IF r.op = "LODS" THEN r.mem.S[r.esi] ELSE r.al)
  BY ONLY <1>2, <1>3, <1>4, <1>7
<1>13. /\ w.mem = (IF r.op = "MOVS" THEN Stored(r, r.mem.S[r.esi])
                   ELSE IF r.op = "STOS" THEN Stored(r, r.al)
                   ELSE IF r.op = "INS" THEN Stored(r, Head(r.port)) ELSE r.mem)
       /\ w.port = (IF r.op = "INS" THEN Tail(r.port) ELSE r.port)
       /\ w.sent = (IF r.op = "OUTS" THEN Append(r.sent, r.mem.S[r.esi]) ELSE r.sent)
  BY ONLY <1>2, <1>7
<1> QED BY <1>7, <1>8, <1>9, <1>10, <1>11, <1>12, <1>13

-----------------------------------------------------------------------------
(* String instructions: the steps *)

\* The elements are visited one after the other.
LEMMA Visits ==
  ASSUME NEW r, r.dir \in {1, -1}
  PROVE  /\ \A k \in 1 .. Length : Visited(r, k) \in Positions
         /\ \A j, k \in Int : Visited(r, j) = Visited(r, k) => j = k
         /\ \A k \in Int : Visited(r, k) \in Int /\ Visited(r, k) + r.dir = Visited(r, k + 1)
BY StringAssumption DEF Visited, Positions

\* The registers after a repetition.
LEMMA RepzRegisters ==
  ASSUME NEW r, RepInv(r), ~r.done, r.ecx > 0, NEW p, p = Performed(r), p.fault = <<>>,
         NEW w, w = Leaves(Moves(p.r), RepStops(Moves(p.r)))
  PROVE  /\ Times(w) = Times(r) + 1 /\ Times(r) \in Nat /\ Times(w) \in 1 .. Length
         /\ \A k : Visited(w, k) = Visited(r, k)
         /\ r.op \in ByEsi => r.esi = Visited(r, Times(w))
         /\ r.op \in ByEdi => r.edi = Visited(r, Times(w))
         /\ RepShape(w) /\ RepRegisters(w)
<1> DEFINE n == Times(r)
<1>0. /\ RepShape(r) /\ RepRegisters(r)
  BY DEF RepInv
<1>1. /\ r.was \in 0 .. Length /\ r.ecx \in 0 .. r.was /\ r.dir \in {1, -1} /\ Length \in Nat
      /\ r.op \in StringInsns /\ r.nz \in BOOLEAN /\ r.traced \in BOOLEAN /\ r.zf \in BOOLEAN
      /\ r.op # "LODS" => r.al = 1
  BY <1>0, StringAssumption DEF RepShape, RepRegisters
<1>2. /\ SameOperands(w, r) /\ w.ecx = r.ecx - 1
      /\ w.esi = r.esi + (IF r.op \in ByEsi THEN r.dir ELSE 0)
      /\ w.edi = r.edi + (IF r.op \in ByEdi THEN r.dir ELSE 0)
  BY <1>0, RepzEffect
<1>3. /\ w.al = (IF r.op = "LODS" THEN r.mem.S[r.esi] ELSE r.al)
      /\ w.zf = (IF r.op = "SCAS" THEN r.mem.D[r.edi] = r.al
                 ELSE IF r.op = "CMPS" THEN r.mem.S[r.esi] = r.mem.D[r.edi] ELSE r.zf)
      /\ w.done \in BOOLEAN
  BY <1>0, RepzEffect
<1>4. w.mem = (IF r.op = "MOVS" THEN Stored(r, r.mem.S[r.esi])
               ELSE IF r.op = "STOS" THEN Stored(r, r.al)
               ELSE IF r.op = "INS" THEN Stored(r, Head(r.port)) ELSE r.mem)
  BY <1>0, RepzEffect
<1>5. w.op = r.op /\ w.nz = r.nz /\ w.dir = r.dir /\ w.was = r.was /\ w.traced = r.traced
  BY <1>2 DEF SameOperands
<1>6. Times(w) = n + 1 /\ n \in Nat /\ Times(w) \in 1 .. Length
  <2>1. \A a \in 0 .. Length, b \in 0 .. Length : b <= a /\ b > 0 =>
          a - (b - 1) = (a - b) + 1 /\ a - b \in Nat /\ a - (b - 1) \in 1 .. Length
    BY <1>1
  <2>2. r.ecx \in 0 .. Length /\ r.ecx <= r.was
    BY <1>1
  <2>3. Times(r) = r.was - r.ecx /\ Times(w) = r.was - (r.ecx - 1)
    BY <1>2, <1>5 DEF Times
  <2> QED BY <1>1, <2>1, <2>2, <2>3
<1>7. \A k : Visited(w, k) = Visited(r, k)
  BY <1>5 DEF Visited
<1>8. /\ r.esi = Visited(r, IF r.op \in ByEsi THEN n + 1 ELSE 1)
      /\ r.edi = Visited(r, IF r.op \in ByEdi THEN n + 1 ELSE 1)
  BY <1>0 DEF RepRegisters
<1>9. RepShape(w)
  <2>1. \/ w.mem = r.mem
        \/ \E v : w.mem = Stored(r, v)
    BY <1>4
  <2>2. /\ r.mem = [S |-> r.mem.S, D |-> r.mem.D]
        /\ r.mem.S \in [Positions -> Elements] /\ r.mem.D = [i \in Positions |-> r.mem.D[i]]
    BY <1>0 DEF RepShape
  <2>3. ASSUME NEW v, w.mem = Stored(r, v)
        PROVE  /\ w.mem = [S |-> w.mem.S, D |-> w.mem.D] /\ w.mem.S = r.mem.S
               /\ w.mem.D = [i \in Positions |-> w.mem.D[i]]
    <3>1. w.mem.S = r.mem.S /\ w.mem.D = [r.mem.D EXCEPT ![r.edi] = v]
      BY <2>3 DEF Stored
    <3> QED BY <2>2, <2>3, <3>1 DEF Stored
  <2>4. /\ w.mem = [S |-> w.mem.S, D |-> w.mem.D] /\ w.mem.S = r.mem.S
        /\ w.mem.D = [i \in Positions |-> w.mem.D[i]]
    BY <2>1, <2>2, <2>3
  <2>5. w = [x \in RepFields |-> w[x]]
    BY <1>2 DEF SameOperands
  <2> QED BY <1>1, <1>5, <2>2, <2>4, <2>5 DEF RepShape
<1>10. RepRegisters(w)
  <2>1. w.ecx \in 0 .. w.was
    BY <1>1, <1>2, <1>5
  <2>2. /\ \A k \in Int : Visited(r, k) + r.dir = Visited(r, k + 1)
        /\ Visited(r, 1) \in Int
    BY <1>1, Visits
  <2>3. w.esi = Visited(w, IF w.op \in ByEsi THEN Times(w) + 1 ELSE 1)
    <3>1. CASE r.op \in ByEsi
      <4>1. w.esi = Visited(r, n + 1) + r.dir
        BY <1>2, <1>8, <3>1
      <4>2. n + 1 \in Int
        BY <1>6
      <4>3. w.esi = Visited(r, n + 1 + 1)
        BY <4>1, <4>2, <2>2
      <4> QED BY <1>5, <1>6, <1>7, <3>1, <4>3
    <3>2. CASE r.op \notin ByEsi
      BY <1>2, <1>5, <1>7, <1>8, <2>2, <3>2
    <3> QED BY <3>1, <3>2
  <2>4. w.edi = Visited(w, IF w.op \in ByEdi THEN Times(w) + 1 ELSE 1)
    <3>1. CASE r.op \in ByEdi
      <4>1. w.edi = Visited(r, n + 1) + r.dir
        BY <1>2, <1>8, <3>1
      <4>2. n + 1 \in Int
        BY <1>6
      <4>3. w.edi = Visited(r, n + 1 + 1)
        BY <4>1, <4>2, <2>2
      <4> QED BY <1>5, <1>6, <1>7, <3>1, <4>3
    <3>2. CASE r.op \notin ByEdi
      BY <1>2, <1>5, <1>7, <1>8, <2>2, <3>2
    <3> QED BY <3>1, <3>2
  <2>5. w.op # "LODS" => w.al = 1
    BY <1>1, <1>3, <1>5
  <2>6. w.zf \in BOOLEAN
    <3>1. (r.mem.D[r.edi] = r.al) \in BOOLEAN /\ (r.mem.S[r.esi] = r.mem.D[r.edi]) \in BOOLEAN
      OBVIOUS
    <3> QED BY <1>1, <1>3, <3>1
  <2> QED BY <1>3, <2>1, <2>3, <2>4, <2>5, <2>6 DEF RepRegisters
<1> QED BY <1>6, <1>7, <1>8, <1>9, <1>10

\* What was done of the elements before stays, and the next one is done.
LEMMA RepzElements ==
  ASSUME NEW r, RepInv(r), ~r.done, r.ecx > 0, NEW p, p = Performed(r), p.fault = <<>>,
         NEW w, w = Leaves(Moves(p.r), RepStops(Moves(p.r)))
  PROVE  ElementsDone(w) /\ PortAt(w)
<1> DEFINE n == Times(r)
           i(k) == Visited(r, k)
           last == r.mem.S[i(n + 1)]
<1>0. RepShape(r) /\ RepRegisters(r) /\ ElementsDone(r) /\ PortAt(r)
  BY DEF RepInv
<1>1. /\ Times(w) = n + 1 /\ n \in Nat /\ n + 1 \in 1 .. Length
      /\ \A k : Visited(w, k) = i(k)
      /\ r.op \in ByEsi => r.esi = i(n + 1)
      /\ r.op \in ByEdi => r.edi = i(n + 1)
  BY RepzRegisters
<1>2. /\ w.op = r.op
      /\ w.al = (IF r.op = "LODS" THEN r.mem.S[r.esi] ELSE r.al)
      /\ w.mem = (IF r.op = "MOVS" THEN Stored(r, r.mem.S[r.esi])
                  ELSE IF r.op = "STOS" THEN Stored(r, r.al)
                  ELSE IF r.op = "INS" THEN Stored(r, Head(r.port)) ELSE r.mem)
      /\ w.port = (IF r.op = "INS" THEN Tail(r.port) ELSE r.port)
      /\ w.sent = (IF r.op = "OUTS" THEN Append(r.sent, r.mem.S[r.esi]) ELSE r.sent)
  BY <1>0, RepzEffect DEF SameOperands
<1>3. /\ r.mem.S \in [Positions -> Elements] /\ r.mem.D = [x \in Positions |-> r.mem.D[x]]
      /\ r.dir \in {1, -1}
  BY <1>0 DEF RepShape
<1>4. /\ \A k \in 1 .. n + 1 : k \in 1 .. Length /\ k \in Int
      /\ \A k \in 1 .. n + 1 : k # n + 1 => k \in 1 .. n
  <2>1. n \in Nat /\ n + 1 \in 1 .. Length
    BY <1>1
  <2> HIDE DEF n
  <2> QED BY <2>1, StringAssumption
<1>5. i(n + 1) \in Positions /\ \A k \in 1 .. n : i(k) # i(n + 1)
  <2>1. \A k \in 1 .. n : k \in Int /\ n + 1 \in Int /\ k # n + 1
    BY <1>1
  <2>2. /\ \A k \in 1 .. Length : i(k) \in Positions
        /\ \A j, k \in Int : i(j) = i(k) => j = k
    <3>1. r.dir \in {1, -1}
      BY <1>3
    <3> QED BY ONLY <3>1, Visits
  <2> HIDE DEF i
  <2> QED BY <1>1, <2>1, <2>2
<1>6. ASSUME NEW v, w.mem = Stored(r, v), r.edi = i(n + 1)
      PROVE  /\ w.mem.S = r.mem.S /\ w.mem.D[i(n + 1)] = v
             /\ \A k \in 1 .. n : w.mem.D[i(k)] = r.mem.D[i(k)]
  <2>1. w.mem.S = r.mem.S /\ w.mem.D = [r.mem.D EXCEPT ![i(n + 1)] = v]
    BY <1>6 DEF Stored
  <2> HIDE DEF i
  <2> QED BY <2>1, <1>3, <1>5
<1>7. /\ \A k \in 1 .. n :
           /\ r.op = "MOVS" => r.mem.D[i(k)] = r.mem.S[i(k)]
           /\ r.op = "STOS" => r.mem.D[i(k)] = 1
           /\ r.op = "INS" => r.mem.D[i(k)] = Inputs[k]
           /\ r.op = "OUTS" => r.sent[k] = r.mem.S[i(k)]
  BY <1>0 DEF ElementsDone
<1>8. /\ r.sent \in Seq(Elements) /\ Len(r.sent) = (IF r.op = "OUTS" THEN n ELSE 0)
      /\ r.port \in Seq(Int) /\ Len(r.port) = Length - (IF r.op = "INS" THEN n ELSE 0)
      /\ r.op = "INS" => \A k \in 1 .. Len(r.port) : r.port[k] = Inputs[n + k]
  BY <1>0 DEF PortAt
<1>9. Length \in Nat
  BY StringAssumption
<1> HIDE DEF n, i
<1>10. ASSUME \A k \in 1 .. n + 1 :
                /\ w.op = "MOVS" => w.mem.D[i(k)] = w.mem.S[i(k)]
                /\ w.op = "STOS" => w.mem.D[i(k)] = 1
                /\ w.op = "INS" => w.mem.D[i(k)] = Inputs[k]
                /\ w.op = "OUTS" => w.sent[k] = w.mem.S[i(k)],
              w.op = "LODS" => w.al = w.mem.S[i(n + 1)]
       PROVE  ElementsDone(w)
  BY <1>1, <1>10 DEF ElementsDone
<1>11. ASSUME w.sent \in Seq(Elements), Len(w.sent) = (IF w.op = "OUTS" THEN n + 1 ELSE 0),
              w.port \in Seq(Int),
              Len(w.port) = Length - (IF w.op = "INS" THEN n + 1 ELSE 0),
              w.op = "INS" => \A k \in 1 .. Len(w.port) : w.port[k] = Inputs[n + 1 + k]
       PROVE  PortAt(w)
  BY <1>1, <1>11 DEF PortAt
<1>12. CASE r.op = "MOVS"
  <2>1. w.mem = Stored(r, last) /\ r.edi = i(n + 1)
    BY <1>1, <1>2, <1>12 DEF ByEsi, ByEdi
  <2>2. \A k \in 1 .. n + 1 : w.mem.D[i(k)] = w.mem.S[i(k)]
    BY <1>4, <1>6, <1>7, <1>12, <2>1
  <2>3. ElementsDone(w)
    BY <1>2, <1>10, <1>12, <2>2
  <2> QED BY <1>2, <1>8, <1>11, <1>12, <2>3
<1>13. CASE r.op = "STOS"
  <2>1. w.mem = Stored(r, 1) /\ r.edi = i(n + 1)
    BY <1>0, <1>1, <1>2, <1>13 DEF ByEdi, RepRegisters
  <2>2. \A k \in 1 .. n + 1 : w.mem.D[i(k)] = 1
    BY <1>4, <1>6, <1>7, <1>13, <2>1
  <2>3. ElementsDone(w)
    BY <1>2, <1>10, <1>13, <2>2
  <2> QED BY <1>2, <1>8, <1>11, <1>13, <2>3
<1>14. CASE r.op = "INS"
  <2>1. w.mem = Stored(r, Head(r.port)) /\ r.edi = i(n + 1) /\ w.port = Tail(r.port)
    BY <1>1, <1>2, <1>14 DEF ByEdi
  <2>2. Len(r.port) = Length - n /\ Len(r.port) > 0 /\ 1 \in 1 .. Len(r.port)
    BY <1>1, <1>8, <1>9, <1>14
  <2>3. r.port # <<>> /\ Head(r.port) = r.port[1]
    BY <1>8, <2>2
  <2>4. Head(r.port) = Inputs[n + 1]
    BY <1>8, <1>14, <2>2, <2>3
  <2>5. /\ w.port \in Seq(Int) /\ Len(w.port) = Len(r.port) - 1
        /\ \A k \in 1 .. Len(w.port) : w.port[k] = r.port[k + 1]
    BY <1>8, <2>1, <2>3
  <2>6. \A k \in 1 .. Len(w.port) : w.port[k] = Inputs[n + 1 + k]
    <3>1. \A k \in 1 .. Len(w.port) : k + 1 \in 1 .. Len(r.port) /\ n + (k + 1) = n + 1 + k
      BY <1>1, <2>2, <2>5, <1>9
    <3> QED BY <1>8, <1>14, <2>5, <3>1
  <2>7. \A k \in 1 .. n + 1 : w.mem.D[i(k)] = Inputs[k]
    BY <1>4, <1>6, <1>7, <1>14, <2>1, <2>4
  <2>8. ElementsDone(w)
    BY <1>2, <1>10, <1>14, <2>7
  <2>9. Len(w.port) = Length - (n + 1)
    BY <1>1, <1>9, <2>2, <2>5
  <2> QED BY <1>2, <1>8, <1>11, <1>14, <2>5, <2>6, <2>8, <2>9
<1>15. CASE r.op = "OUTS"
  <2>1. w.mem = r.mem /\ w.sent = Append(r.sent, last) /\ last \in Elements
    BY <1>1, <1>2, <1>3, <1>5, <1>15 DEF ByEsi
  <2>2. /\ w.sent \in Seq(Elements) /\ Len(w.sent) = n + 1 /\ w.sent[n + 1] = last
        /\ \A k \in 1 .. n : w.sent[k] = r.sent[k]
    <3>1. Len(r.sent) = n
      BY <1>8, <1>15
    <3> HIDE DEF last
    <3> QED BY <1>1, <1>8, <2>1, <3>1, AppendProperties
  <2>3. \A k \in 1 .. n + 1 : w.sent[k] = w.mem.S[i(k)]
    BY <1>4, <1>7, <1>15, <2>1, <2>2
  <2>4. ElementsDone(w)
    BY <1>2, <1>10, <1>15, <2>3
  <2> QED BY <1>2, <1>8, <1>11, <1>15, <2>2, <2>4
<1>16. CASE r.op \in {"LODS", "SCAS", "CMPS"}
  <2>1. w.mem = r.mem /\ w.port = r.port /\ w.sent = r.sent
    BY <1>2, <1>16
  <2>2. w.op = "LODS" => w.al = w.mem.S[i(n + 1)]
    BY <1>1, <1>2, <2>1 DEF ByEsi
  <2>3. ElementsDone(w)
    BY <1>2, <1>10, <1>16, <2>2
  <2> QED BY <1>2, <1>8, <1>11, <1>16, <2>1, <2>3
<1>17. r.op \in {"MOVS", "STOS", "LODS", "SCAS", "CMPS", "INS", "OUTS"}
  BY <1>0 DEF RepShape, StringInsns, Compares
<1> QED BY <1>12, <1>13, <1>14, <1>15, <1>16, <1>17

\* ECX counts down from what it was.
LEMMA EcxBounded ==
  ASSUME NEW r, RepShape(r), RepRegisters(r)
  PROVE  r.ecx \in 0 .. r.was /\ r.was \in Nat
<1>1. r.was \in 0 .. Length
  BY DEF RepShape
<1>2. r.ecx \in 0 .. r.was
  BY DEF RepRegisters
<1> QED BY <1>1, <1>2, StringAssumption

\* Comparisons stop where they should, traps are counted.
LEMMA RepzGoesOn ==
  ASSUME NEW r, RepInv(r), ~r.done, r.ecx > 0, NEW p, p = Performed(r), p.fault = <<>>,
         NEW w, w = Leaves(Moves(p.r), RepStops(Moves(p.r)))
  PROVE  GoesOn(w)
<1> DEFINE n == Times(r)
<1>0. RepShape(r) /\ RepRegisters(r) /\ GoesOn(r)
  BY DEF RepInv
<1>1. /\ Times(w) = n + 1 /\ n \in Nat
      /\ \A k : Visited(w, k) = Visited(r, k)
      /\ r.op \in ByEsi => r.esi = Visited(r, n + 1)
      /\ r.op \in ByEdi => r.edi = Visited(r, n + 1)
      /\ w.ecx \in 0 .. w.was /\ w.was \in Nat
  <2>1. RepRegisters(w) /\ RepShape(w)
    BY RepzRegisters
  <2>2. w.ecx \in 0 .. w.was /\ w.was \in Nat
    BY <2>1, EcxBounded
  <2> QED BY <2>2, RepzRegisters
<1>2. /\ w.op = r.op /\ w.nz = r.nz /\ w.traced = r.traced
      /\ w.zf = (IF r.op = "SCAS" THEN r.mem.D[r.edi] = r.al
                 ELSE IF r.op = "CMPS" THEN r.mem.S[r.esi] = r.mem.D[r.edi] ELSE r.zf)
      /\ r.op \in Compares => w.mem = r.mem
      /\ w.done <=> (r.op \in Compares /\ w.zf = r.nz) \/ (r.traced /\ w.ecx = 0)
      /\ w.traps = (IF r.traced THEN r.traps + 1 ELSE r.traps)
  <2>1. r.op \in Compares => r.op \notin {"MOVS", "STOS", "INS"}
    BY DEF Compares
  <2> QED BY <1>0, <2>1, RepzEffect DEF SameOperands
<1>3. r.zf \in BOOLEAN /\ r.nz \in BOOLEAN /\ r.traced \in BOOLEAN /\ (r.op # "LODS" => r.al = 1)
  BY <1>0 DEF RepShape, RepRegisters
<1>4. /\ r.op \in Compares =>
            /\ \A k \in 1 .. n - 1 : Equal(r, k) # r.nz
            /\ n > 0 => r.zf = Equal(r, n) /\ r.zf # r.nz
      /\ r.traced => r.traps = n
  BY <1>0 DEF GoesOn
<1> HIDE DEF n
<1>5. w.done /\ w.op \notin Compares => w.ecx = 0
  BY <1>2
<1>6. ASSUME r.op \in Compares
      PROVE  /\ \A k \in 1 .. Times(w) - 1 : Equal(w, k) # w.nz
             /\ w.zf = Equal(w, Times(w)) /\ (w.zf = w.nz => w.done)
             /\ w.done /\ w.ecx > 0 => w.zf = w.nz
  <2>1. ASSUME NEW k
        PROVE  Equal(w, k) = Equal(r, k)
    BY <1>1, <1>2, <1>6 DEF Equal
  <2>2. \A k \in 1 .. Times(w) - 1 : k \in 1 .. n - 1 \/ (k = n /\ n > 0)
    BY <1>1
  <2>3. \A k \in 1 .. Times(w) - 1 : Equal(w, k) # w.nz
    <3> SUFFICES ASSUME NEW k \in 1 .. Times(w) - 1
                 PROVE  Equal(r, k) # r.nz
      BY <1>2, <2>1
    <3>1. CASE k \in 1 .. n - 1
      BY <1>4, <1>6, <3>1
    <3>2. CASE k = n /\ n > 0
      BY <1>4, <1>6, <3>2
    <3> QED BY <2>2, <3>1, <3>2
  <2>4. w.zf = Equal(r, n + 1)
    <3>1. r.op = "SCAS" \/ r.op = "CMPS"
      BY <1>6 DEF Compares
    <3>2. CASE r.op = "SCAS"
      <4>1. r.edi = Visited(r, n + 1) /\ r.al = 1
        BY <1>1, <1>3, <3>2 DEF ByEdi
      <4> QED BY <1>2, <3>2, <4>1 DEF Equal
    <3>3. CASE r.op = "CMPS"
      <4>1. r.edi = Visited(r, n + 1) /\ r.esi = Visited(r, n + 1)
        BY <1>1, <3>3 DEF ByEdi, ByEsi
      <4>2. (r.mem.S[r.esi] = r.mem.D[r.edi]) <=> (r.mem.D[r.edi] = r.mem.S[r.esi])
        OBVIOUS
      <4>3. w.zf = (r.mem.D[r.edi] = r.mem.S[r.esi])
        BY <1>2, <3>3, <4>2
      <4> QED BY <3>3, <4>1, <4>3 DEF Equal
    <3> QED BY <3>1, <3>2, <3>3
  <2>5. w.zf = Equal(w, Times(w))
    BY <1>1, <2>1, <2>4
  <2>6. (w.zf = w.nz => w.done) /\ (w.done /\ w.ecx > 0 => w.zf = w.nz)
    BY <1>1, <1>2, <1>6
  <2> QED BY <2>3, <2>5, <2>6
<1>7. Times(w) > 0 /\ Times(w) # 0
  BY <1>1
<1>8. ASSUME r.traced
      PROVE  w.traps = Times(w) /\ (~w.done => w.ecx > 0)
  <2>1. w.traps = Times(w)
    BY <1>1, <1>2, <1>4, <1>8
  <2>2. ~w.done => w.ecx # 0
    BY <1>2, <1>8
  <2> QED BY <1>1, <2>1, <2>2
<1> QED BY <1>2, <1>5, <1>6, <1>7, <1>8 DEF GoesOn

\* Every repetition that is done.
LEMMA RepzStep ==
  ASSUME StringsInv, gen_repz
  PROVE  StringsInv'
<1> DEFINE p == Performed(rep)
           w == Leaves(Moves(p.r), RepStops(Moves(p.r)))
<1>1. RepInv(rep) /\ ~rep.done /\ rep.ecx > 0 /\ p.fault = <<>> /\ rep' = w
  BY DEF gen_repz, StringsInv
<1>2. RepInv(w)
  <2> HIDE DEF p
  <2>1. p = Performed(rep)
    BY DEF p
  <2>2. RepShape(w) /\ RepRegisters(w)
    BY <1>1, <2>1, RepzRegisters
  <2>3. ElementsDone(w) /\ PortAt(w)
    BY <1>1, <2>1, RepzElements
  <2>4. GoesOn(w)
    BY <1>1, <2>1, RepzGoesOn
  <2> HIDE DEF w
  <2> QED BY <2>2, <2>3, <2>4 DEF RepInv
<1> HIDE DEF w
<1> QED BY <1>1, <1>2 DEF StringsInv

\* A record that agrees on all the invariant speaks of is as good.
LEMMA InvKept ==
  ASSUME NEW r, RepInv(r), NEW w, SameBut(w, r, {"t", "mapped", "faults", "done", "traps"}),
         w.done \in BOOLEAN
  PROVE  /\ RepShape(w) /\ RepRegisters(w) /\ ElementsDone(w) /\ PortAt(w)
         /\ Times(w) = Times(r)
         /\ \A k : Equal(w, k) = Equal(r, k)
<1>1. /\ w = [x \in RepFields |-> w[x]]
      /\ w.op = r.op /\ w.nz = r.nz /\ w.ecx = r.ecx /\ w.esi = r.esi /\ w.edi = r.edi
      /\ w.dir = r.dir /\ w.al = r.al /\ w.zf = r.zf /\ w.mem = r.mem /\ w.port = r.port
      /\ w.sent = r.sent /\ w.traced = r.traced /\ w.was = r.was
  BY DEF SameBut, RepFields
<1>2. RepShape(r) /\ RepRegisters(r) /\ ElementsDone(r) /\ PortAt(r)
  BY DEF RepInv
<1>3. Times(w) = Times(r) /\ (\A k : Visited(w, k) = Visited(r, k))
  BY <1>1 DEF Times, Visited
<1>4. \A k : Equal(w, k) = Equal(r, k)
  BY <1>1, <1>3 DEF Equal
<1>5. RepShape(w)
  BY <1>1, <1>2 DEF RepShape
<1>6. RepRegisters(w)
  BY <1>1, <1>2, <1>3 DEF RepRegisters
<1>7. ElementsDone(w)
  BY <1>1, <1>2, <1>3 DEF ElementsDone
<1>8. PortAt(w)
  BY <1>1, <1>2, <1>3 DEF PortAt
<1> QED BY <1>3, <1>4, <1>5, <1>6, <1>7, <1>8

\* ECX was zero: the elements are as they were.
LEMMA JecxzStep ==
  ASSUME StringsInv, gen_jz_ecx_string
  PROVE  StringsInv'
<1> DEFINE r == rep
           w == Leaves(rep, TRUE)
<1>1. RepInv(r) /\ ~r.done /\ r.ecx = 0 /\ rep' = w
  BY DEF gen_jz_ecx_string, StringsInv
<1>2. RepShape(r) /\ RepRegisters(r) /\ GoesOn(r)
  BY <1>1 DEF RepInv
<1>3. /\ SameBut(w, r, {"done", "traps"})
      /\ w.done = TRUE /\ w.traps = (IF r.traced THEN r.traps + 1 ELSE r.traps)
  BY <1>2, LeavesEffect DEF RepShape
<1> HIDE DEF w, r
<1>4. /\ w.op = r.op /\ w.nz = r.nz /\ w.ecx = r.ecx /\ w.zf = r.zf /\ w.traced = r.traced
      /\ SameBut(w, r, {"t", "mapped", "faults", "done", "traps"})
  BY <1>3 DEF SameBut, RepFields
<1>5. /\ RepShape(w) /\ RepRegisters(w) /\ ElementsDone(w) /\ PortAt(w)
      /\ Times(w) = Times(r) /\ \A k : Equal(w, k) = Equal(r, k)
  BY <1>1, <1>3, <1>4, InvKept
<1>6. Times(r) \in Nat
  BY <1>2, StringAssumption DEF RepShape, RepRegisters, Times
<1>7. r.traced => Times(r) = 0 /\ r.traps = 0
  BY <1>1, <1>2, <1>6 DEF GoesOn
<1>8. GoesOn(w)
  <2>1. /\ w.done /\ w.ecx = 0
        /\ r.op \in Compares =>
             /\ \A k \in 1 .. Times(r) - 1 : Equal(r, k) # r.nz
             /\ Times(r) > 0 => r.zf = Equal(r, Times(r))
    BY <1>1, <1>2, <1>3, <1>4 DEF GoesOn
  <2>2. w.traced => w.traps = 1 /\ Times(w) = 0
    BY <1>3, <1>4, <1>5, <1>7
  <2> QED BY <1>4, <1>5, <2>1, <2>2 DEF GoesOn
<1> QED BY <1>1, <1>5, <1>8 DEF StringsInv, RepInv

\* A page was not mapped: so they are, and the repetition will begin again.
LEMMA FaultStep ==
  ASSUME StringsInv, RepFault
  PROVE  StringsInv'
<1> DEFINE r == rep
           p == Performed(rep)
<1>1. RepInv(r) /\ ~r.done /\ p.fault # <<>>
  BY DEF RepFault, StringsInv
<1>2. RepShape(r) /\ GoesOn(r)
  BY <1>1 DEF RepInv
<1>3. SameBut(p.r, r, {"t"})
  <2>1. r.op \in {"MOVS", "STOS", "LODS", "SCAS", "CMPS", "INS", "OUTS"}
    BY <1>2 DEF RepShape, StringInsns, Compares
  <2> QED BY <1>1, <1>2, <2>1, OneAccess, TwoAccesses, ThreeAccesses
<1>4. PICK mapped, faults : rep' = [p.r EXCEPT !.mapped = mapped, !.faults = faults, !.t = 0]
  BY DEF RepFault
<1> DEFINE w == [p.r EXCEPT !.mapped = mapped, !.faults = faults, !.t = 0]
<1> HIDE DEF p, r
<1>5. SameBut(w, r, {"t", "mapped", "faults"})
  BY <1>3 DEF SameBut, RepFields
<1> HIDE DEF w
<1>6. /\ w.op = r.op /\ w.nz = r.nz /\ w.ecx = r.ecx /\ w.zf = r.zf /\ w.traced = r.traced
      /\ w.done = r.done /\ w.traps = r.traps
      /\ SameBut(w, r, {"t", "mapped", "faults", "done", "traps"})
  BY <1>5 DEF SameBut, RepFields
<1>7. r.done \in BOOLEAN
  BY <1>1 DEF RepInv, RepRegisters
<1>8. /\ RepShape(w) /\ RepRegisters(w) /\ ElementsDone(w) /\ PortAt(w)
      /\ Times(w) = Times(r) /\ \A k : Equal(w, k) = Equal(r, k)
  BY <1>1, <1>6, <1>7, InvKept
<1>9. GoesOn(w)
  BY <1>2, <1>6, <1>8 DEF GoesOn
<1>10. rep' = w
  BY <1>4 DEF w
<1> QED BY <1>8, <1>9, <1>10 DEF StringsInv, RepInv

\* An instruction begins with nothing done.
LEMMA StringsBegin ==
  ASSUME RepInit
  PROVE  StringsInv
<1>1. PICK op \in StringInsns, n \in 0 .. Length, up \in BOOLEAN, traced \in BOOLEAN,
           s \in [Positions -> Elements], pages \in SUBSET ({"S", "D"} \X {1, 2}) :
        \E nz \in IF op \in Compares THEN BOOLEAN ELSE {FALSE} :
          LET start == IF up THEN 1 ELSE Length IN
          rep = [op |-> op, nz |-> nz, ecx |-> n, esi |-> start, edi |-> start,
                 dir |-> IF up THEN 1 ELSE -1, al |-> 1, t |-> 0, zf |-> FALSE,
                 mem |-> [S |-> s, D |-> [i \in Positions |-> 2]], port |-> Inputs,
                 sent |-> <<>>, mapped |-> pages \cup ({"S", "D"} \X (3 .. Length)),
                 done |-> FALSE, faults |-> 0, traced |-> traced, traps |-> 0, was |-> n]
  BY DEF RepInit
<1> DEFINE mapped == pages \cup ({"S", "D"} \X (3 .. Length))
<1>11. PICK nz \in BOOLEAN :
          LET start == IF up THEN 1 ELSE Length IN
          rep = [op |-> op, nz |-> nz, ecx |-> n, esi |-> start, edi |-> start,
                 dir |-> IF up THEN 1 ELSE -1, al |-> 1, t |-> 0, zf |-> FALSE,
                 mem |-> [S |-> s, D |-> [i \in Positions |-> 2]], port |-> Inputs,
                 sent |-> <<>>, mapped |-> mapped,
                 done |-> FALSE, faults |-> 0, traced |-> traced, traps |-> 0, was |-> n]
  BY <1>1
<1> HIDE DEF mapped
<1> DEFINE start == IF up THEN 1 ELSE Length
           dir == IF up THEN 1 ELSE -1
           cells == [S |-> s, D |-> [i \in Positions |-> 2]]
           r == rep
<1>2. /\ r = [x \in RepFields |-> r[x]]
      /\ r.op = op /\ r.nz = nz /\ r.ecx = n /\ r.esi = start /\ r.edi = start /\ r.dir = dir
      /\ r.al = 1 /\ r.zf = FALSE /\ r.mem = cells /\ r.port = Inputs /\ r.sent = <<>>
      /\ r.done = FALSE /\ r.traced = traced /\ r.traps = 0 /\ r.was = n
  <2>1. rep = [op |-> op, nz |-> nz, ecx |-> n, esi |-> start, edi |-> start,
               dir |-> dir, al |-> 1, t |-> 0, zf |-> FALSE,
               mem |-> cells, port |-> Inputs, sent |-> <<>>,
               mapped |-> mapped, done |-> FALSE, faults |-> 0,
               traced |-> traced, traps |-> 0, was |-> n]
    BY <1>11
  <2> HIDE DEF start, dir, cells
  <2> QED BY <2>1 DEF RepFields
<1> HIDE DEF r
<1>3. Length \in Nat /\ n \in Nat /\ n - n = 0
  BY StringAssumption
<1>4. Times(r) = 0
  BY <1>2, <1>3 DEF Times
<1>5. dir \in {1, -1} /\ start = Visited(r, 1) /\ Visited(r, 0 + 1) = Visited(r, 1)
  BY <1>2, <1>3 DEF Visited
<1>6. RepShape(r)
  <2>1. r.mem.S = s /\ r.mem.D = [i \in Positions |-> 2]
    BY <1>2
  <2>2. r.mem = [S |-> r.mem.S, D |-> r.mem.D] /\ r.mem.D = [i \in Positions |-> r.mem.D[i]]
    BY <1>2, <2>1
  <2> QED BY <1>2, <1>5, <2>1, <2>2 DEF RepShape
<1>7. RepRegisters(r)
  <2>1. \A c : Visited(r, IF c THEN 0 + 1 ELSE 1) = Visited(r, 1)
    BY <1>5
  <2>2. r.ecx \in 0 .. r.was
    BY <1>2, <1>3
  <2> HIDE DEF start
  <2> QED BY <1>2, <1>4, <1>5, <2>1, <2>2 DEF RepRegisters
<1>8. ElementsDone(r)
  BY <1>4 DEF ElementsDone
<1>9. PortAt(r)
  <2>1. Inputs \in Seq(Int) /\ Len(Inputs) = Length
    BY <1>3 DEF Inputs, Positions
  <2>2. <<>> \in Seq(Elements) /\ Len(<<>>) = 0
    OBVIOUS
  <2> HIDE DEF Inputs
  <2>3. \A k \in 1 .. Length : Inputs[0 + k] = Inputs[k]
    BY <1>3
  <2>4. \A c : Length - (IF c THEN 0 ELSE 0) = Length /\ (IF c THEN 0 ELSE 0) = 0
    BY <1>3
  <2>5. r.sent \in Seq(Elements) /\ Len(r.sent) = 0 /\ r.port \in Seq(Int) /\ Len(r.port) = Length
    BY <1>2, <2>1, <2>2
  <2>6. \A k \in 1 .. Len(r.port) : r.port[k] = Inputs[0 + k]
    BY <1>2, <2>3, <2>5
  <2> QED BY <1>4, <2>4, <2>5, <2>6 DEF PortAt
<1>10. GoesOn(r)
  BY <1>2, <1>4 DEF GoesOn
<1> QED BY <1>6, <1>7, <1>8, <1>9, <1>10 DEF StringsInv, RepInv, r

\* Every step keeps the invariant.
LEMMA StringsStep ==
  ASSUME StringsInv, RepNext
  PROVE  StringsInv'
BY RepzStep, JecxzStep, FaultStep DEF RepNext

-----------------------------------------------------------------------------
(* String instructions: the property *)

\* An instruction that is done has done everything once.
LEMMA StringsRight ==
  ASSUME StringsInv
  PROVE  StringsOnce
<1> DEFINE r == rep
           n == Times(r)
           i(k) == Visited(r, k)
<1> SUFFICES ASSUME r.done
             PROVE  StringsOnce
  BY DEF StringsOnce
<1>1. RepShape(r) /\ RepRegisters(r) /\ ElementsDone(r) /\ PortAt(r) /\ GoesOn(r)
  BY DEF StringsInv, RepInv
<1>2. /\ Length \in Nat /\ r.was \in 0 .. Length /\ r.ecx \in 0 .. r.was /\ r.dir \in {1, -1}
      /\ n = r.was - r.ecx /\ n \in 0 .. Length
  <2>1. /\ Length \in Nat /\ r.was \in 0 .. Length /\ r.ecx \in 0 .. r.was /\ r.dir \in {1, -1}
    BY <1>1, StringAssumption DEF RepShape, RepRegisters
  <2> HIDE DEF r
  <2> QED BY <2>1 DEF Times
<1>3. r.op \notin Compares => n = r.was
  <2>1. r.op \notin Compares => r.ecx = 0
    BY <1>1 DEF GoesOn
  <2> HIDE DEF r
  <2> QED BY <1>2, <2>1
<1>4. r.op \in Compares =>
        /\ \A k \in 1 .. n - 1 : Equal(r, k) # r.nz
        /\ n > 0 => r.zf = Equal(r, n)
        /\ n < r.was => r.zf = r.nz
  <2>1. n < r.was => r.ecx > 0
    <3> HIDE DEF r, n
    <3> QED BY <1>2
  <2> QED BY <1>1, <2>1 DEF GoesOn
<1>5. /\ \A k \in 1 .. n :
           /\ r.op = "MOVS" => r.mem.D[i(k)] = r.mem.S[i(k)]
           /\ r.op = "STOS" => r.mem.D[i(k)] = 1
           /\ r.op = "INS" => r.mem.D[i(k)] = Inputs[k]
           /\ r.op = "OUTS" => r.sent[k] = r.mem.S[i(k)]
      /\ r.op = "LODS" /\ n > 0 => r.al = r.mem.S[i(n)]
  BY <1>1 DEF ElementsDone
<1>6. /\ Len(r.sent) = (IF r.op = "OUTS" THEN n ELSE 0)
      /\ Len(r.port) = Length - (IF r.op = "INS" THEN n ELSE 0)
  BY <1>1 DEF PortAt
<1>7. r.esi - i(1) \in {0, r.dir * n} /\ r.edi - i(1) \in {0, r.dir * n}
  <2>1. /\ r.esi \in {i(1), i(n + 1)} /\ r.edi \in {i(1), i(n + 1)}
    BY <1>1 DEF RepRegisters
  <2>2. i(1) - i(1) = 0 /\ i(n + 1) - i(1) = r.dir * n
    <3>1. CASE r.dir = 1
      <4>1. i(1) = 1 /\ i(n + 1) = n + 1
        BY <3>1 DEF Visited
      <4> HIDE DEF i, n, r
      <4> QED BY <1>2, <3>1, <4>1
    <3>2. CASE r.dir = -1
      <4>1. i(1) = Length + 1 - 1 /\ i(n + 1) = Length + 1 - (n + 1)
        BY <3>2 DEF Visited
      <4>2. \A a, b \in Nat : /\ (a + 1 - (b + 1)) - (a + 1 - 1) = (-1) * b
                               /\ (a + 1 - 1) - (a + 1 - 1) = 0
        OBVIOUS
      <4> HIDE DEF i, n, r
      <4> QED BY <1>2, <3>2, <4>1, <4>2
    <3> QED BY <1>2, <3>1, <3>2
  <2> HIDE DEF i, n, r
  <2> QED BY <2>1, <2>2
<1>8. r.traced => r.traps = (IF n = 0 THEN 1 ELSE n)
  BY <1>1 DEF GoesOn
<1> QED BY <1>3, <1>4, <1>5, <1>6, <1>7, <1>8 DEF StringsOnce

-----------------------------------------------------------------------------
(* The parts together *)

CpuInv ==
  /\ (part = "loop" => LoopInv) /\ (part = "msr" => MsrInv)
  /\ (part = "mmu" => MmuInv) /\ (part = "strings" => StringsInv)
  /\ (part = "debug" => DebugInv) /\ (part = "modes" => ModesKept)
  /\ (part = "tasks" => TasksInv)

\* Every part begins as its own module says; a step is of one part.
LEMMA CpuBegins == CpuInit => CpuInv
<1>1. part = "tasks" /\ TasksInit /\ profile \in TaskProfiles => TasksInv
  BY TasksAssumption, TasksBegin
<1>2. ModesInit => ModesKept
  BY ModesBegin DEF ModesKept, ModesInv, ModeShapes
<1> QED BY <1>1, <1>2, LoopBegins, MsrBegins, MmuBegins, StringsBegin, DebugBegins
        DEF CpuInit, CpuInv

\* Every step of a part keeps the invariants of all.
LEMMA CpuStep ==
  ASSUME CpuInv, [CpuNext]_cpu_vars
  PROVE  CpuInv'
<1>1. CASE StepLoop
  BY <1>1, LoopStep DEF StepLoop, CalcSame, CpuInv
<1>2. CASE StepMsr
  BY <1>2, MsrStep DEF StepMsr, CalcSame, CpuInv
<1>3. CASE UNCHANGED cpu_vars
  <2>1. LoopInv => LoopInv'
    BY <1>3 DEF cpu_vars, loop_vars, LoopInv
  <2>2. MsrInv => MsrInv'
    BY <1>3 DEF cpu_vars, msr_vars, MsrInv, HasStar, InKvm
  <2>3. MmuInv => MmuInv'
    BY <1>3 DEF cpu_vars, own_mmu, MmuInv
  <2>4. StringsInv => StringsInv'
    BY <1>3 DEF cpu_vars, StringsInv
  <2>5. DebugInv => DebugInv'
    <3> SUFFICES ASSUME DebugInv
                 PROVE  DebugInv'
      OBVIOUS
    <3>1. UNCHANGED <<debug_profile, dr, armed, ref, freed, db, hw_breakpoint, gdb_hit, programmed,
                      asked, code, saved>>
      BY <1>3 DEF cpu_vars, debug_vars
    <3>2. GuestDebugInv' /\ GdbInv'
      BY <3>1 DEF DebugInv, GuestDebugInv, Lists, CauseInDr6, GdbInv
    <3> QED BY <3>1, <3>2 DEF DebugInv
  <2>6. ModesKept => ModesKept'
    <3>1. UNCHANGED <<env, mode_profile, smram, hsave, vmcb, kvm, synced, left_at>>
      BY <1>3 DEF cpu_vars, own_modes
    <3> QED BY <3>1, NothingHappens DEF ModesKept
  <2>7. TasksInv => TasksInv'
    BY <1>3, TasksRest DEF cpu_vars, own_tasks
  <2> QED BY <1>3, <2>1, <2>2, <2>3, <2>4, <2>5, <2>6, <2>7 DEF cpu_vars, CpuInv
<1>4. CASE StepMmu
  BY <1>4, MmuStep DEF StepMmu, CalcSame, CpuInv
<1>5. CASE StepStrings
  BY <1>5, StringsStep DEF StepStrings, CpuInv
<1>6. CASE StepDebug
  BY <1>6, DebugStep DEF StepDebug, CalcSame, CpuInv
<1>7. CASE StepModes
  BY <1>7, ModesStepKept DEF StepModes, CalcSame, CpuInv
<1>8. CASE StepTasks
  BY <1>8, TasksStep DEF StepTasks, CalcSame, CpuInv
<1>9. CASE StepInt \/ StepFlags
  BY <1>9 DEF StepInt, StepFlags, CalcSame, CpuInv
<1> QED BY <1>1, <1>2, <1>3, <1>4, <1>5, <1>6, <1>7, <1>8, <1>9 DEF CpuNext

\* The invariants of kvm.c's loop, the MSRs, the TLB, the breakpoints, the CPU's
\* modes, string instructions (translate.c) and tasks, gates and exceptions
\* (seg_helper.c) hold in every reachable state.
THEOREM CpuInvariant == CpuSpec => []CpuInv
BY CpuBegins, CpuStep, PTL DEF CpuSpec

\* An interrupt line that is up is not forgotten, wherever the vCPU's thread
\* is (kvm_arch_pre_run, kvm_arch_post_run and kvm_handle_halt in kvm.c).
THEOREM IrqsAreRemembered == CpuSpec => []IrqsRemembered
<1>1. CpuInv => IrqsRemembered
  BY DEF CpuInv, LoopInv, IrqsRemembered, NoIrqForgotten, has_work, Deliverable
<1> QED BY <1>1, CpuInvariant, PTL

\* An interrupt is given to KVM only when the guest can take it, although
\* kvm_arch_pre_run judges by the copies of the last exit.
THEOREM IrqsAreGivenWhenOpen == CpuSpec => GivenWhenOpen
<1>1. ASSUME CpuInv, [CpuNext]_cpu_vars
      PROVE  [part = "loop" => WhenOpen]_cpu_vars
  <2>1. CASE StepLoop
    BY <1>1, <2>1, LoopStep DEF StepLoop, CpuInv
  <2>2. CASE StepTasks \/ StepModes \/ StepMmu \/ StepDebug \/ StepMsr \/ StepInt \/ StepFlags
               \/ StepStrings
    BY <2>2
       DEF StepTasks, StepModes, StepMmu, StepDebug, StepMsr, StepInt, StepFlags, StepStrings
  <2> QED BY <1>1, <2>1, <2>2 DEF CpuNext
<1> QED BY <1>1, CpuInvariant, PTL DEF CpuSpec, GivenWhenOpen

\* Registers do not overlap, their copies in KVM agree, and no machine check
\* is lost (helper_wrmsr, kvm_put_msrs, kvm_get_msrs, cpu_inject_x86_mce).
THEOREM MsrsAreKept == CpuSpec => MsrsKept
<1>1. ASSUME CpuInv, [CpuNext]_cpu_vars
      PROVE  [part = "msr" => RegistersApart /\ ErrorsKept]_cpu_vars
  <2>1. CASE StepMsr
    BY <1>1, <2>1, MsrStep DEF StepMsr, CpuInv
  <2>2. CASE StepTasks \/ StepModes \/ StepMmu \/ StepDebug \/ StepLoop \/ StepInt \/ StepFlags
               \/ StepStrings
    BY <2>2
       DEF StepTasks, StepModes, StepMmu, StepDebug, StepLoop, StepInt, StepFlags, StepStrings
  <2> QED BY <1>1, <2>1, <2>2 DEF CpuNext
<1> QED BY <1>1, CpuInvariant, PTL DEF CpuSpec, MsrsKept

\* The TLB holds what the guest's tables say, through every register write,
\* and a walk that faults nowhere lets its access through
\* (cpu_x86_handle_mmu_fault, cpu_x86_update_cr0 to cr4, helper_invlpg).
THEOREM TlbIsAsTables == CpuSpec => []TlbAsTables
<1>1. CpuInv => TlbAsTables
  BY TlbRight DEF CpuInv, TlbAsTables
<1> QED BY <1>1, CpuInvariant, PTL

\* A guest's breakpoints and gdb's are armed as they are asked for, whatever is
\* written to the registers, reloaded or switched (helper_movl_drN_T0,
\* switch_tss, cpu_load, breakpoint_handler, kvm_arch_update_guest_debug).
THEOREM BreakpointsAreArmed == CpuSpec => []BreakpointsArmed
<1>1. CpuInv => BreakpointsArmed
  BY ArmedRight, GdbRight DEF CpuInv, DebugInv, GuestDebugInv, BreakpointsArmed
<1> QED BY <1>1, CpuInvariant, PTL

\* hflags, hflags2 and the interception follow the registers and the mode
\* (cpu_x86_load_seg_cache, cpu_x86_update_cr0, cpu_load_efer, do_smm_enter,
\* helper_rsm, helper_vmrun, helper_vmexit, cpu_reset, kvm_get_sregs).
THEOREM ModeFlagsAreCoherent == CpuSpec => []ModeFlagsCoherent
<1>1. CpuInv => ModeFlagsCoherent
  BY ModesRight DEF CpuInv, ModesKept, ModeFlagsCoherent
<1> QED BY <1>1, CpuInvariant, PTL

\* RSM brings back the CPU that was interrupted, #VMEXIT the hypervisor and
\* VMRUN its machine, register by register and all of them
\* (helper_rsm, helper_vmexit, helper_vmrun).
THEOREM ModesDoReturn == CpuSpec => ModesReturn
<1>1. ASSUME CpuInv, [CpuNext]_cpu_vars
      PROVE  [part = "modes" /\ ~left_at'.lost => BroughtBackFromModes]_cpu_vars
  <2>1. CASE StepModes
    BY <1>1, <2>1, ModesStepKept DEF StepModes, CpuInv
  <2>2. CASE StepTasks \/ StepMmu \/ StepDebug \/ StepMsr \/ StepLoop \/ StepInt \/ StepFlags
               \/ StepStrings
    BY <2>2
       DEF StepTasks, StepMmu, StepDebug, StepMsr, StepLoop, StepInt, StepFlags, StepStrings
  <2> QED BY <1>1, <2>1, <2>2 DEF CpuNext
<1> QED BY <1>1, CpuInvariant, PTL DEF CpuSpec, ModesReturn

\* The privilege level is the same in hflags, in CS and in SS between any two
\* instructions, whatever was entered, left or refused before: gates of every
\* kind, task switches, system calls, virtual 8086 mode, and exceptions in the
\* middle of each (do_interrupt_all, switch_tss, helper_ret_protected,
\* helper_lcall_protected and the others of seg_helper.c); until a call gate to
\* conforming code lowers the level, which the tables may have (lowered).
THEOREM SegmentsStayAtLevel == CpuSpec => []SegmentsAtLevel
<1>1. CpuInv => SegmentsAtLevel
  BY LevelsHold DEF CpuInv, SegmentsAtLevel
<1> QED BY <1>1, CpuInvariant, PTL

\* VERR grants exactly what a load of DS does, VERW what a load of SS does and
\* no less, and LSL and LAR do not refuse what VERR grants (helper_verr,
\* helper_verw, helper_lsl, helper_lar against helper_load_seg).
THEOREM QueriesDoPredict == CpuSpec => []QueriesPredictLoads
<1>1. CpuInv => QueriesPredictLoads
  BY QueriesHold DEF CpuInv, QueriesPredictLoads
<1> QED BY <1>1, CpuInvariant, PTL

\* Delivering an exception ends: what do_interrupt raises is graver than what
\* it was delivering, up to the triple fault (check_exception of excp_helper.c).
THEOREM FaultsDoEscalate == CpuSpec => FaultsEscalate
<1>1. ASSUME CpuInv, [CpuNext]_cpu_vars
      PROVE  [part = "tasks" => Escalates]_cpu_vars
  <2>1. CASE StepTasks
    BY <1>1, <2>1, TasksStep DEF StepTasks, CpuInv
  <2>2. CASE StepModes \/ StepMmu \/ StepDebug \/ StepMsr \/ StepLoop \/ StepInt \/ StepFlags
               \/ StepStrings
    BY <2>2
       DEF StepModes, StepMmu, StepDebug, StepMsr, StepLoop, StepInt, StepFlags, StepStrings
  <2> QED BY <1>1, <2>1, <2>2 DEF CpuNext
<1> QED BY <1>1, CpuInvariant, PTL DEF CpuSpec, FaultsEscalate

\* A repeated string instruction that is done has done each element once,
\* whatever faulted under it (gen_repz, gen_ins and the others of translate.c).
THEOREM ElementsDoneOnce == CpuSpec => []ElementsOnce
<1>1. CpuInv => ElementsOnce
  BY StringsRight DEF CpuInv, ElementsOnce
<1> QED BY <1>1, CpuInvariant, PTL
=============================================================================
