------------------------------ MODULE VcpuState ------------------------------
(***************************************************************************)
(* The copy of a virtual CPU's registers that HAXM_CPU keeps (m_state,     *)
(* HAXM_CPU.h), against the registers the driver holds: the operations     *)
(* that read, edit and write it back.  HaxHost calls them as main does.    *)
(*                                                                         *)
(* Only where a value comes from is modelled: "zero" from the constructor, *)
(* "power_on" from the driver, "reset" from HAXM_CPU::reset, "pattern"     *)
(* from HAXM_CPU::get_msrs, "guest" from the guest's instructions.  The    *)
(* driver is external.                                                     *)
(***************************************************************************)
CONSTANTS
  Written,  \* registers, and parts of segment registers, that reset writes
            \* (the arms of write_vmcs)
  Kept,     \* the others: rax .. r15, dr0 .. dr6, efer, the bits of a
            \* segment's access rights that SET_SEGMENT_ACCESS leaves out
  Msrs      \* those that are also among the MSRs main reads and writes back:
            \* the SYSENTER registers (kept), the bases of FS and GS (written)

RegistersAssumption == Written \cap Kept = {} /\ Msrs \subseteq Written \cup Kept

Registers == Written \cup Kept

VARIABLES
  m_state,  \* the copy
  hw,       \* the driver's registers
  fresh     \* the last get_cpu_state succeeded

cpu_vars == <<m_state, hw, fresh>>

All(v) == [r \in Registers |-> v]

\* HAXM_CPU::HAXM_CPU, and the vCPU the driver has created.
CpuInit == m_state = All("zero") /\ hw = All("power_on") /\ fresh = FALSE

\* get_cpu_state: a failure leaves the copy as it is.
get_cpu_state(ok) ==
  /\ fresh' = ok
  /\ m_state' = IF ok THEN hw ELSE m_state
  /\ UNCHANGED hw

\* get_msrs of main: HAXM_CPU::get_msrs fills its buffer with a pattern and
\* asks the driver, HAXM_CPU::set_msrs writes the buffer back.  Neither result
\* is tested, so a failed read and a successful write leave the pattern.
get_msrs(read) == [q \in Registers |-> IF read THEN hw[q] ELSE "pattern"]
WriteMsrsBack(read, written) ==
  /\ hw' = [q \in Registers |-> IF written /\ q \in Msrs THEN get_msrs(read)[q] ELSE hw[q]]
  /\ UNCHANGED <<m_state, fresh>>

\* The copy s after the calls of write_vmcs in reset.
Edited(s) == [r \in Registers |-> IF r \in Written THEN "reset" ELSE s[r]]

\* set_cpu_state writes the whole copy; the driver takes it or not.
EditAndSet(ok) ==
  /\ m_state' = Edited(m_state)
  /\ hw' = IF ok THEN Edited(m_state) ELSE hw
  /\ UNCHANGED fresh

\* The guest runs, and changes any set of registers.
GuestRuns ==
  /\ \E R \in SUBSET Registers :
       hw' = [r \in Registers |-> IF r \in R THEN "guest" ELSE hw[r]]
  /\ UNCHANGED <<m_state, fresh>>

CpuTypeOK ==
  /\ m_state \in [Registers -> {"zero", "power_on", "pattern", "reset", "guest"}]
  /\ hw \in [Registers -> {"power_on", "pattern", "reset", "guest"}]
  /\ fresh \in BOOLEAN
=============================================================================
