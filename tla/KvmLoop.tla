------------------------------- MODULE KvmLoop -------------------------------
(***************************************************************************)
(* External interrupts of a vCPU that KVM runs, with the interrupt         *)
(* controller in QEMU: what target-i386/kvm.c does before and after every  *)
(* KVM_RUN and when the guest has halted.  The loop around them, the       *)
(* controller and KVM are external, modelled from that use.                *)
(***************************************************************************)
EXTENDS Naturals, FiniteSets

CONSTANT Irqs

VARIABLES
  at,       \* where the vCPU's thread is: "loop", "guest", "exited" or "halted"
  pic,      \* the lines that are up and not acknowledged
  request,  \* cpu->interrupt_request: {"HARD", "NMI"}
  eflags,   \* IF in env->eflags
  run,      \* the shared page: ready, window, if_flag, reason
  guest     \* in KVM: IF, and the interrupt it has been given

loop_vars == <<at, pic, request, eflags, run, guest>>

LoopInit ==
  /\ at = "loop" /\ pic = {} /\ request = {} /\ eflags = FALSE
  /\ run = [ready |-> TRUE, window |-> FALSE, if_flag |-> FALSE, reason |-> "none"]
  /\ guest = [if |-> FALSE, given |-> {}]

\* cpu_get_pic_interrupt: acknowledges one line; the controller raises the
\* request again when another is up.
PicRequests(lines) == IF lines = {} THEN {} ELSE {"HARD"}

pre_run_ClearsLast(irq) == [pic |-> pic \ {irq}, request |-> (request \cup PicRequests(pic \ {irq})) \ {"HARD"}]
\* The request is cleared before the controller is asked.
pre_run(irq) == [pic |-> pic \ {irq}, request |-> (request \ {"HARD"}) \cup PicRequests(pic \ {irq})]

CanInject_NotReady == "HARD" \in request /\ eflags
CanInject == run.ready /\ "HARD" \in request /\ eflags

\* kvm_arch_pre_run, and into the guest.
EnterGuest(after, given) ==
  /\ pic' = after.pic /\ request' = after.request
  /\ run' = [run EXCEPT !.window = "HARD" \in after.request]
  /\ guest' = [guest EXCEPT !.given = given]
  /\ at' = "guest" /\ UNCHANGED <<eflags>>
kvm_arch_pre_run ==
  /\ at = "loop"
  /\ IF ~CanInject THEN EnterGuest([pic |-> pic, request |-> request], guest.given)
     ELSE IF pic = {} THEN EnterGuest([pic |-> {}, request |-> request \ {"HARD"}], guest.given)
     ELSE \E irq \in pic : EnterGuest(pre_run(irq), guest.given \cup {irq})

\* The guest takes the interrupt it was given, changes IF, halts or exits for
\* something else; KVM exits when a window was asked for and is there.
GuestTakes ==
  /\ at = "guest" /\ guest.given # {} /\ guest.if
  /\ guest' = [if |-> FALSE, given |-> {}]
  /\ UNCHANGED <<at, pic, request, eflags, run>>
GuestFlag ==
  /\ at = "guest" /\ guest.given = {}
  /\ guest' = [guest EXCEPT !.if = ~@]
  /\ UNCHANGED <<at, pic, request, eflags, run>>
Window == guest.if /\ guest.given = {}
GuestExits(reason) ==
  /\ at = "guest" /\ (reason = "hlt" => guest.given = {})
  /\ reason = "window" => run.window /\ Window
  /\ at' = "exited"
  /\ run' = [run EXCEPT !.ready = Window, !.if_flag = guest.if, !.reason = reason]
  /\ UNCHANGED <<pic, request, eflags, guest>>

\* kvm_handle_halt
Deliverable(req, flag) == ("HARD" \in req /\ flag) \/ "NMI" \in req
Halts(req, flag) == ~Deliverable(req, flag)

\* kvm_arch_post_run and kvm_arch_handle_exit.
HandleExit ==
  /\ at = "exited"
  /\ eflags' = run.if_flag
  /\ at' = IF run.reason = "hlt" /\ Halts(request, run.if_flag) THEN "halted" ELSE "loop"
  /\ UNCHANGED <<pic, request, run, guest>>

\* A device raises a line, and another thread an NMI; that gets a running
\* vCPU out of the guest.
Kicked == IF at = "guest" THEN at' = "exited" /\ run' = [run EXCEPT
                 !.ready = Window, !.if_flag = guest.if, !.reason = "intr"]
          ELSE UNCHANGED <<at, run>>
RaiseIrq(irq) ==
  /\ irq \notin pic /\ pic' = pic \cup {irq} /\ request' = request \cup {"HARD"} /\ Kicked
  /\ UNCHANGED <<eflags, guest>>
RaiseNmi ==
  /\ "NMI" \notin request /\ request' = request \cup {"NMI"} /\ Kicked
  /\ UNCHANGED <<pic, eflags, guest>>

\* cpu_has_work (cpu.h): the main loop runs a halted CPU again.
has_work == Deliverable(request, eflags)
Wake ==
  /\ at = "halted" /\ has_work /\ at' = "loop"
  /\ UNCHANGED <<pic, request, eflags, run, guest>>

LoopNext ==
  \/ kvm_arch_pre_run \/ GuestTakes \/ GuestFlag \/ HandleExit \/ Wake \/ RaiseNmi
  \/ \E reason \in {"hlt", "window", "io"} : GuestExits(reason)
  \/ \E irq \in Irqs : RaiseIrq(irq)
-----------------------------------------------------------------------------
(* Properties *)

\* A line that is up is not forgotten, wherever the vCPU is: the request
\* stands until the last is acknowledged, KVM has been asked to come back
\* when the guest can take it, and a halted guest that can is woken.
NoIrqForgotten ==
  pic # {} => /\ "HARD" \in request
              /\ at = "guest" => run.window
              /\ at = "halted" /\ guest.if => has_work

\* An interrupt is given to KVM only when the guest can take it, judged by
\* copies of its state: one at a time, and with IF set.
WhenOpen == guest'.given # guest.given /\ guest'.given # {} => Window
=============================================================================
