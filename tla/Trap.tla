--------------------------------- MODULE Trap ---------------------------------
(***************************************************************************)
(* Traps of the guest kernel: the entry stubs, TRAP::dispatch and the      *)
(* handlers (trap.cpp, trap.h), under the program they interrupt: main in  *)
(* ring 0 until return_to_user_mode (kernel.cpp), the shellcode after it.  *)
(*                                                                         *)
(* What is modelled word by word is the kernel stack: the processor, the   *)
(* stub and struct TRAP_CONTEXT each have their own idea of its layout.    *)
(* Interrupts stay masked (cli in GDT::Init, IDT::Init and                 *)
(* return_to_user_mode, and the sti of a stub is undone by its iretd), so  *)
(* no trap nests in another.  The processor is external.                   *)
(***************************************************************************)
EXTENDS Integers, Sequences

CONSTANTS
  Exceptions,   \* vectors the program's instructions raise
  ErrorCodes,   \* error codes the processor gives with them
  MaxEip        \* instructions of the program: 1 .. MaxEip

\* 2 is an NMI and 15 is reserved: no instruction raises them; 3 and 4 are
\* raised by INT 3 and INTO only, which Interrupt covers.
ASSUME TrapAssumption ==
  /\ Exceptions \subseteq (0 .. 19) \ {2, 3, 4, 15}
  /\ ErrorCodes \subseteq Nat /\ MaxEip \in Nat \ {0}

SEL_KERNEL_CODE == 8
SEL_KERNEL_DATA == 16
SEL_USER_CODE == 27
SEL_USER_DATA == 35
SEL_USER_FS == 51
SHELLCODE_STACK_VIRTUAL_ADDR == 100   \* any number that names the user's stack

General == {"eax", "ecx", "edx", "ebx", "ebp", "esi", "edi"}
Segment == {"ds", "es", "fs", "gs"}
\* esp counts only in ring 3; in ring 0 it is the length of stack.
Register == General \cup Segment \cup {"eip", "cs", "eflags", "esp", "ss"}

VARIABLES
  at,        \* run, entry, dispatch, handler, dbg, hlt, leave
  resume,    \* where at goes when the host runs the halted guest again
  vector,    \* the stub that was entered
  regs,      \* the registers
  stack,     \* the kernel stack, its top first
  seen,      \* what dispatch reads in the context
  todo,      \* messages the handler has still to print
  reports,   \* messages printed for this trap
  before     \* (history) the interrupted program, and the trap

vars == <<at, resume, vector, regs, stack, seen, todo, reports, before>>

Nothing == [irq_no |-> -1, err_code |-> -1, eip |-> 0, cs |-> 0]
Quiet == [regs |-> <<>>, stack |-> <<>>, context |-> Nothing]
SetAll(f, R, v) == [r \in DOMAIN f |-> IF r \in R THEN v ELSE f[r]]

\* main after TRAP::Init, with two words of its own on the stack.
Init ==
  /\ at = "run" /\ resume = "run" /\ vector = 0
  /\ \E f \in [{"eax", "ebx", "edi"} -> {0, 1}] :
       regs = [r \in Register |->
                 CASE r \in DOMAIN f -> f[r]
                   [] r \in Segment \cup {"ss"} -> SEL_KERNEL_DATA
                   [] r = "cs" -> SEL_KERNEL_CODE
                   [] r = "eip" -> 1
                   [] OTHER -> 0]
  /\ stack = <<1, 0>>
  /\ seen = Nothing /\ todo = <<>> /\ reports = <<>>
  /\ before = Quiet

-----------------------------------------------------------------------------
(* The program and the processor (external) *)

Ring3 == regs["cs"] = SEL_USER_CODE

\* An instruction that moves a register to another and sets the carry flag.
Compute(r, s, carry) ==
  /\ at = "run" /\ regs["eip"] < MaxEip
  /\ regs' = [regs EXCEPT ![r] = regs[s], !["eflags"] = carry, !["eip"] = @ + 1]
  /\ UNCHANGED <<at, resume, vector, stack, seen, todo, reports, before>>

\* return_to_user_mode: the iretd takes the five words pushed before it.
return_to_user_mode ==
  /\ at = "run" /\ ~Ring3
  /\ regs' = [SetAll(regs, Segment \cup {"ss"}, SEL_USER_DATA) EXCEPT
                !["fs"] = SEL_USER_FS, !["eax"] = SEL_USER_FS,
                !["esp"] = SHELLCODE_STACK_VIRTUAL_ADDR,
                !["cs"] = SEL_USER_CODE, !["eip"] = 1]
  /\ stack' = <<>>
  /\ UNCHANGED <<at, resume, vector, seen, todo, reports, before>>

\* Delivery through a gate: from ring 3 the stack is TSS.esp0, which is empty.
PushesErrorCode == {8, 10, 11, 12, 13, 14, 17}
Deliver(v, err) ==
  LET base == IF Ring3 THEN <<regs["esp"], regs["ss"]>> ELSE stack
      top == IF v \in PushesErrorCode THEN <<err>> ELSE <<>>
  IN
  /\ at = "run"
  /\ at' = "entry" /\ vector' = v
  /\ stack' = top \o <<regs["eip"], regs["cs"], regs["eflags"]>> \o base
  /\ regs' = [regs EXCEPT !["cs"] = SEL_KERNEL_CODE, !["ss"] = SEL_KERNEL_DATA,
                          !["esp"] = 0, !["eip"] = 0]
  /\ reports' = <<>>
  /\ before' = [regs |-> regs, stack |-> stack,
                context |-> [irq_no |-> v, eip |-> regs["eip"], cs |-> regs["cs"],
                             err_code |-> IF v \in PushesErrorCode THEN err ELSE -1]]
  /\ UNCHANGED <<resume, seen, todo>>

\* INT n in ring 3: the gates have DPL 0, so it is a protection fault at the
\* instruction (main's test code does INT 0).
Interrupt(n) == Ring3 /\ Deliver(13, n * 8 + 2)

-----------------------------------------------------------------------------
(* trap_entry_N, first half *)

WithErrorCode_17Plain == {8} \cup (10 .. 15)
WithErrorCode == {8} \cup (10 .. 15) \cup {17}

Frame(v) ==
  LET err == IF v \in WithErrorCode THEN <<>> ELSE <<-1>>
      tmp == Len(stack) + Len(err) + 1
  IN  <<regs["gs"], regs["fs"], regs["es"], regs["ds"],
        regs["edi"], regs["esi"], regs["ebp"], tmp,
        regs["ebx"], regs["edx"], regs["ecx"], regs["eax"], v>> \o err \o stack

\* cli ... call TRAP::dispatch.  The context is passed as an address: here,
\* the length of the stack when the address was taken.  The half of eax that
\* keeps the address is dead.
Entry ==
  /\ at = "entry"
  /\ at' = "dispatch"
  /\ stack' = <<Len(Frame(vector))>> \o Frame(vector)
  /\ regs' = [SetAll(regs, Segment, regs["ss"]) EXCEPT !["eax"] = regs["ss"]]
  /\ UNCHANGED <<resume, vector, seen, todo, reports, before>>

-----------------------------------------------------------------------------
(* TRAP::dispatch and the handlers *)

\* struct TRAP_CONTEXT: the offset of a field, in words.
Offset == [irq_no |-> 12, err_code |-> 13, eip |-> 14, cs |-> 15]
context(field) == stack[Len(stack) - Head(stack) + Offset[field] + 1]

dispatch ==
  /\ at = "dispatch"
  /\ at' = "hlt" /\ resume' = "handler"
  /\ seen' = [field \in DOMAIN Offset |-> context(field)]
  /\ regs' = [regs EXCEPT !["eax"] = context("eip"), !["ebx"] = context("cs"),
                          !["ecx"] = context("irq_no"), !["edx"] = context("err_code")]
  /\ UNCHANGED <<vector, stack, todo, reports, before>>

\* handler14: one message per case, the cases that end without break falling
\* into the next.  A message is the cause it names, errcode & 7.
handler14(err_code) ==
  LET errcode == err_code % 8
      last == IF errcode < 3 THEN 3 ELSE errcode
  IN  [i \in 1 .. last - errcode + 1 |-> errcode + i - 1]

\* The switch of dispatch: the other handlers print one line.
Messages(context_) ==
  IF context_.irq_no = 14 THEN handler14(context_.err_code)
  ELSE IF context_.irq_no \in 0 .. 19 THEN <<context_.irq_no>>
  ELSE <<>>

Handler ==
  /\ at = "handler"
  /\ todo' = Messages(seen)
  /\ at' = "dbg"
  /\ UNCHANGED <<resume, vector, regs, stack, seen, reports, before>>

\* DBG: print, load eax and ebx, halt.
DBG ==
  /\ at = "dbg" /\ todo # <<>>
  /\ reports' = Append(reports, Head(todo)) /\ todo' = Tail(todo)
  /\ regs' = [regs EXCEPT !["eax"] = 1, !["ebx"] = 2]
  /\ at' = "hlt" /\ resume' = "dbg"
  /\ UNCHANGED <<vector, stack, seen, before>>

HandlerReturns ==
  /\ at = "dbg" /\ todo = <<>>
  /\ at' = "leave"
  /\ UNCHANGED <<resume, vector, regs, stack, seen, todo, reports, before>>

\* The host's loop runs the guest again after an HLT exit (main.cpp).
HostRuns_SameHltAgain ==
  /\ at = "hlt"
  /\ at' = IF resume = "dbg" THEN at ELSE resume
  /\ UNCHANGED <<resume, vector, regs, stack, seen, todo, reports, before>>

HostRuns ==
  /\ at = "hlt"
  /\ at' = resume
  /\ UNCHANGED <<resume, vector, regs, stack, seen, todo, reports, before>>

-----------------------------------------------------------------------------
(* trap_entry_N, second half *)

\* The stack's words as they are popped, from the pointer on; popad skips the
\* saved esp, "add esp, 8" the vector and the error code, and iretd takes esp
\* and ss only when it returns to ring 3.
Popped_GsFsSwapped ==
          <<"eax", "fs", "gs", "es", "ds", "edi", "esi", "ebp", "", "ebx", "edx",
            "ecx", "eax", "", "", "eip", "cs", "eflags", "esp", "ss">>
Popped == <<"eax", "gs", "fs", "es", "ds", "edi", "esi", "ebp", "", "ebx", "edx",
            "ecx", "eax", "", "", "eip", "cs", "eflags", "esp", "ss">>
Taken == IF stack[17] = SEL_USER_CODE THEN 20 ELSE 18

Leave ==
  LET lastPop(r) == CHOOSE i \in 1 .. Taken :
                      Popped[i] = r /\ \A j \in i + 1 .. Taken : Popped[j] # r
      popped == {Popped[i] : i \in 1 .. Taken}
  IN
  /\ at = "leave"
  /\ at' = "run"
  /\ regs' = [r \in Register |->
                IF r \in popped THEN stack[lastPop(r)] ELSE regs[r]]
  /\ stack' = SubSeq(stack, Taken + 1, Len(stack))
  /\ vector' = 0 /\ resume' = "run" /\ seen' = Nothing /\ reports' = <<>>
  /\ before' = Quiet
  /\ UNCHANGED todo

Kernel == Entry \/ dispatch \/ Handler \/ DBG \/ HandlerReturns \/ HostRuns \/ Leave

Next ==
  \/ \E r, s \in {"eax", "ebx", "edi"}, carry \in {0, 1} : Compute(r, s, carry)
  \/ return_to_user_mode
  \/ \E v \in Exceptions, err \in ErrorCodes : Deliver(v, err)
  \/ \E n \in {0, 3, 4} : Interrupt(n)
  \/ Kernel

Spec == Init /\ [][Next]_vars /\ WF_vars(Kernel)

-----------------------------------------------------------------------------
(* Properties *)

TypeOK ==
  /\ at \in {"run", "entry", "dispatch", "handler", "hlt", "dbg", "leave"}
  /\ resume \in {"run", "handler", "dbg"} /\ vector \in 0 .. 19
  /\ DOMAIN regs = Register /\ \A r \in Register : regs[r] \in Int
  /\ regs["cs"] \in {SEL_KERNEL_CODE, SEL_USER_CODE} /\ regs["eip"] \in 0 .. MaxEip
  /\ stack \in Seq(Int) /\ Len(stack) <= 22
  /\ todo \in Seq(0 .. 19) /\ reports \in Seq(0 .. 19)

\* The three layouts of the frame agree: whatever vector was raised, from
\* either ring, with or without an error code from the processor, the context
\* that dispatch reads names that vector, its error code (-1 for none) and
\* the address of the interrupted instruction.
DispatchSeesTrap ==
  at \in {"hlt", "handler", "dbg", "leave"} => seen = before.context

\* A trap leaves no trace in the program: when its stub returns, every
\* register and the program's stack are as they were at the instruction that
\* raised it, although dispatch and the handlers overwrite the registers.
TrapIsInvisible ==
  [][at = "leave" => regs' = before.regs /\ (~Ring3' => stack' = before.stack)]_vars

\* Every trap ends: the handlers halt the processor several times, and the
\* host runs it again each time.
EveryTrapReturns == at = "entry" ~> at = "run"

\* trap.cpp:360-387 gives each of the eight error codes of a page fault a
\* cause of its own: a fault is reported as that one cause.
OneCausePerFault ==
  at = "leave" /\ vector = 14 => reports = <<seen.err_code % 8>>
===============================================================================
