------------------------------ MODULE MsrHelper ------------------------------
(***************************************************************************)
(* Model-specific registers: which field of CPUX86State each number is     *)
(* (helper_wrmsr, helper_rdmsr in target-i386/misc_helper.c), their copies *)
(* in KVM (kvm.c), and the machine check banks (mce_init and               *)
(* cpu_inject_x86_mce in helper.c).  64-bit values are Zero, Ones and two  *)
(* others that differ in the low sixteen bits only, or only above them.    *)
(***************************************************************************)
EXTENDS Integers, Sequences, FiniteSets

CONSTANTS
  NumBanks,   \* mcg_cap & 0xff
  MaxWrites   \* bound on the writes of a run

VARIABLES
  msr_means,  \* how the guest is run: "tcg", "kvm", "kvm_no_star" or "mce"
  slots,      \* the fields of CPUX86State
  in_kvm,     \* KVM's copies
  differ,     \* (history) where they may: written on one side, and not exchanged since
  writes,     \* (history) counts the guest's writes
  banks,      \* mce_banks: bank -> [ctl, status, addr]
  mcg,        \* [status, ctl, cr4_mce]
  reset_asked \* qemu_system_reset_request

msr_vars == <<msr_means, slots, in_kvm, differ, writes, banks, mcg, reset_asked>>
mce_vars == <<banks, mcg, reset_asked>>

Values == {"Zero", "Ones", "Low", "High"}
Low16(v) == CASE v \in {"Zero", "High"} -> "Zero" [] v \in {"Ones", "Low"} -> "Low"

-----------------------------------------------------------------------------
(* The registers *)

PhysBase(n) == 512 + 2 * n       \* MSR_MTRRphysBase, MSR_MTRRphysMask
PhysMask(n) == 513 + 2 * n
Fix64K == 592  Fix16K == 600  Fix4K == 616
Names ==
  {"SYSENTER_CS", "SYSENTER_ESP", "SYSENTER_EIP", "STAR", "PAT", "VM_HSAVE_PA", "LSTAR", "CSTAR",
   "FMASK", "FSBASE", "GSBASE", "KERNELGSBASE", "MTRRdefType", "EFER"}
Numbered ==
  {PhysBase(n) : n \in 0 .. 7} \cup {PhysMask(n) : n \in 0 .. 7}
    \cup {Fix64K} \cup Fix16K .. Fix16K + 1 \cup Fix4K .. Fix4K + 7
Msrs == {[name |-> n, number |-> 0] : n \in Names}
          \cup {[name |-> "MTRR", number |-> k] : k \in Numbered}

Slot_Fix4KFrom1(msr) ==
  LET k == msr.number IN
  IF msr.name # "MTRR" THEN <<msr.name, 0>>
  ELSE IF k < PhysBase(8) /\ k % 2 = 0 THEN <<"mtrr_var.base", (k - PhysBase(0)) \div 2>>
  ELSE IF k < PhysBase(8) THEN <<"mtrr_var.mask", (k - PhysMask(0)) \div 2>>
  ELSE IF k = Fix64K THEN <<"mtrr_fixed", k - Fix64K>>
  ELSE IF k < Fix4K THEN <<"mtrr_fixed", k - Fix16K + 1>>
  ELSE <<"mtrr_fixed", k - Fix4K + 1>>
\* The field of a register.
Slot(msr) ==
  LET k == msr.number IN
  IF msr.name # "MTRR" THEN <<msr.name, 0>>
  ELSE IF k < PhysBase(8) /\ k % 2 = 0 THEN <<"mtrr_var.base", (k - PhysBase(0)) \div 2>>
  ELSE IF k < PhysBase(8) THEN <<"mtrr_var.mask", (k - PhysMask(0)) \div 2>>
  ELSE IF k = Fix64K THEN <<"mtrr_fixed", k - Fix64K>>
  ELSE IF k < Fix4K THEN <<"mtrr_fixed", k - Fix16K + 1>>
  ELSE <<"mtrr_fixed", k - Fix4K + 3>>

Slots == {Slot(m) : m \in Msrs} \cup {<<"TSC", 0>>}

\* What a register keeps of a value.
Kept(msr, v) == IF msr.name = "SYSENTER_CS" THEN Low16(v) ELSE v

\* helper_wrmsr, helper_rdmsr
wrmsr(s, msr, v) == [s EXCEPT ![Slot(msr)] = Kept(msr, v)]
rdmsr(s, msr) == s[Slot(msr)]

\* kvm_put_msrs and kvm_get_msrs: the list they exchange, MSR_STAR only where
\* the host's processor has it.  KVM stops at the first one it refuses, and
\* answers how many it has done; the ones from there on are as they were.
Entries(has_star) ==
  <<"SYSENTER_CS", "SYSENTER_ESP", "SYSENTER_EIP">> \o (IF has_star THEN <<"STAR">> ELSE <<>>)
    \o <<"TSC", "CSTAR", "KERNELGSBASE", "FMASK", "LSTAR">>
Reached(has_star, n) == {<<Entries(has_star)[i], 0>> : i \in 1 .. n}
KvmSlots(has_star) == Reached(has_star, Len(Entries(has_star)))
Copy(from, to, reached) == [s \in Slots |-> IF s \in reached THEN from[s] ELSE to[s]]

-----------------------------------------------------------------------------
(* Machine checks *)

Banks == 0 .. NumBanks - 1
Status(flags, over) == [flags |-> flags, over |-> over]
NoError == Status({}, FALSE)
Valid(s) == "VAL" \in s.flags
Uncorrected(s) == "UC" \in s.flags

\* A write of a bank's registers by the guest: CTL takes all or nothing.
WriteBankCtl(b, v) ==
  /\ v \in {"Zero", "Ones"} /\ banks' = [banks EXCEPT ![b].ctl = v]
  /\ UNCHANGED <<mcg, reset_asked>>
\* Its handler is done with a bank, or with the machine check.
ClearBank(b) == banks' = [banks EXCEPT ![b].status = NoError] /\ UNCHANGED <<mcg, reset_asked>>
WriteMcgStatus == mcg' = [mcg EXCEPT !.status = {}] /\ UNCHANGED <<banks, reset_asked>>
WriteMcgCtl(v) ==
  /\ v \in {"Zero", "Ones"} /\ mcg' = [mcg EXCEPT !.ctl = v]
  /\ UNCHANGED <<banks, reset_asked>>
SetCr4Mce(on) == mcg' = [mcg EXCEPT !.cr4_mce = on] /\ UNCHANGED <<banks, reset_asked>>

\* An error takes the place of the one in its bank, and says so.
Recorded(bank, flags, addr) ==
  [bank EXCEPT !.status = Status(flags, Valid(bank.status)), !.addr = addr]

\* cpu_inject_x86_mce, of an error whose status has the given flags.
inject_mce(b, flags, addr) ==
  LET bank == banks[b]
      uc == "UC" \in flags
      enabled == mcg.ctl = "Ones" /\ bank.ctl = "Ones"
  IN  /\ "VAL" \in flags /\ (uc => enabled)
      /\ IF uc /\ ("MCIP" \in mcg.status \/ ~mcg.cr4_mce)
           THEN reset_asked' = TRUE /\ UNCHANGED <<banks, mcg>>
         ELSE IF uc
           THEN /\ banks' = [banks EXCEPT ![b] = Recorded(bank, flags, addr)]
                /\ mcg' = [mcg EXCEPT !.status = {"MCIP"}] /\ UNCHANGED reset_asked
         ELSE /\ banks' = [banks EXCEPT ![b] =
                   IF Valid(bank.status) /\ Uncorrected(bank.status)
                     THEN [bank EXCEPT !.status.over = TRUE]
                   ELSE Recorded(bank, flags, addr)]
              /\ UNCHANGED <<mcg, reset_asked>>

-----------------------------------------------------------------------------
\* mce_init
MsrInit ==
  /\ msr_means \in {"tcg", "kvm", "kvm_no_star", "mce"}
  /\ slots = [s \in Slots |-> "Zero"] /\ in_kvm = slots /\ differ = {} /\ writes = 0
  /\ banks = [b \in Banks |-> [ctl |-> "Ones", status |-> NoError, addr |-> 0]]
  /\ mcg = [status |-> {}, ctl |-> "Ones", cr4_mce |-> FALSE] /\ reset_asked = FALSE

Counted == writes < MaxWrites /\ writes' = writes + 1
HasStar == msr_means # "kvm_no_star"
InKvm == msr_means \in {"kvm", "kvm_no_star"}
\* KVM's answer: an error, or a number of entries.
Answers == -1 .. Len(Entries(HasStar))

TcgWrites(msr, v) ==
  /\ msr_means = "tcg" /\ Counted /\ slots' = wrmsr(slots, msr, v)
  /\ UNCHANGED <<msr_means, in_kvm, differ, mce_vars>>
\* KVM executes the guest's WRMSR.
KvmWrites(s, v) ==
  /\ InKvm /\ Counted
  /\ in_kvm' = [in_kvm EXCEPT ![s] = v] /\ differ' = differ \cup {s}
  /\ UNCHANGED <<msr_means, slots, mce_vars>>
\* (a loop over the list, whatever KVM answers: the rest of it is not set)
kvm_get_msrs_WholeList(ret) ==
  /\ InKvm
  /\ LET rest == KvmSlots(HasStar) \ Reached(HasStar, ret) IN
     slots' = [s \in Slots |-> IF s \in rest THEN "High"
                               ELSE Copy(in_kvm, slots, KvmSlots(HasStar))[s]]
  /\ differ' = differ \ Reached(HasStar, ret)
  /\ UNCHANGED <<msr_means, in_kvm, writes, mce_vars>>
kvm_get_msrs(ret) ==
  /\ InKvm
  /\ slots' = Copy(in_kvm, slots, Reached(HasStar, ret))
  /\ differ' = differ \ Reached(HasStar, ret)
  /\ UNCHANGED <<msr_means, in_kvm, writes, mce_vars>>
\* QEMU changes a register (a reset, a snapshot).
kvm_put_msrs(s, v, ret) ==
  /\ InKvm /\ Counted
  /\ LET new == [slots EXCEPT ![s] = v] IN
     slots' = new /\ in_kvm' = Copy(new, in_kvm, Reached(HasStar, ret))
  /\ differ' = (differ \cup {s}) \ Reached(HasStar, ret)
  /\ UNCHANGED <<msr_means, mce_vars>>

MachineChecks ==
  /\ msr_means = "mce" /\ ~reset_asked
  /\ UNCHANGED <<msr_means, slots, in_kvm, differ, writes>>
  /\ \/ \E b \in Banks :
          \/ \E v \in Values : WriteBankCtl(b, v)
          \/ ClearBank(b)
          \/ \E f \in {{"VAL"}, {"VAL", "UC"}, {}}, addr \in 1 .. 2 : inject_mce(b, f, addr)
     \/ WriteMcgStatus
     \/ \E v \in Values : WriteMcgCtl(v)
     \/ \E on \in BOOLEAN : SetCr4Mce(on)

MsrNext ==
  \/ \E m \in Msrs, v \in Values : TcgWrites(m, v)
  \/ \E s \in KvmSlots(HasStar), v \in {"Ones", "Low"} :
       KvmWrites(s, v) \/ \E ret \in Answers : kvm_put_msrs(s, v, ret)
  \/ \E ret \in Answers : kvm_get_msrs(ret)
  \/ MachineChecks
-----------------------------------------------------------------------------
(* Properties *)

\* Writing a register changes what no other reads as: the numbers of the
\* memory type registers map to distinct fields, whichever of the five
\* formulas a number goes through; and under KVM the two copies of a register
\* that has been exchanged agree until one side writes it, whatever exchanges
\* fail or stop half way.
RegistersApart ==
  /\ msr_means = "tcg" =>
       Cardinality({m \in Msrs : rdmsr(slots', m) # rdmsr(slots, m)}) <= 1
  /\ InKvm => \A s \in KvmSlots(HasStar) \ differ' : slots'[s] = in_kvm'[s]

\* A bank never loses an error unseen: one that is replaced leaves OVER
\* behind, an uncorrected one is not replaced by a corrected one, and one
\* that comes while another is being handled is not recorded over it but
\* resets the machine.
ErrorsKept ==
  \A b \in Banks :
    LET old == banks[b]  new == banks'[b] IN
    Valid(old.status) /\ Valid(new.status) /\ new # old /\ new.ctl = old.ctl =>
      /\ new.status.over
      /\ Uncorrected(old.status) =>
           /\ Uncorrected(new.status)
           /\ new.addr # old.addr => "MCIP" \notin mcg.status /\ mcg'.status = {"MCIP"}
=============================================================================
