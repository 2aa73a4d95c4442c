----------------------------- MODULE Interrupts -----------------------------
(***************************************************************************)
(* Interrupt entry and dispatch: the gates of arch/x86_64/idt.c, the stubs *)
(* of irq.s, isr_handler and irq_handler of isr.c, and the two 8259        *)
(* controllers irq_init programs (external).                               *)
(*                                                                         *)
(* The stack is the sequence of words pushed since the interrupt, the top  *)
(* first; words are integers.  Every gate is an interrupt gate, so an      *)
(* entry runs to its iret with interrupts disabled.  The handlers          *)
(* themselves are the subject of Keyboard and Tasks: here a handler is a   *)
(* name.  The handlers raise no exception.                                 *)
(***************************************************************************)
EXTENDS Integers, Sequences

CONSTANTS
  Vectors,         \* the gates exercised, a subset of 0 .. 47 and 128
  Values,          \* the words the interrupted code computes with
  Live             \* the registers it changes

ASSUME InterruptAssumption ==
  /\ Vectors \subseteq (0 .. 47) \cup {128}
  /\ Values \subseteq Nat

VARIABLES
  reg,             \* the registers the stubs save
  eip, IF_,        \* the program counter and the interrupt flag
  stack,
  pc,              \* "run", "stub", "handler", "epilogue" or "wild"
  vector,          \* the gate being served
  called,          \* the handler called for it
  master, slave,   \* the lines in service in each controller
  before           \* history: the state that was interrupted

vars == <<reg, eip, IF_, stack, pc, vector, called, master, slave, before>>

(* Mutant: one segment register is pushed, as registers_t says.            *)
SavedOneSegment == <<"ds", "edi", "esi", "ebp", "esp", "ebx", "edx", "ecx", "eax">>

(* What pusha and the four pushes leave on the stack, the top first.       *)
Saved == <<"gs", "fs", "es", "ds", "edi", "esi", "ebp", "esp", "ebx", "edx", "ecx", "eax">>
Segments == {"gs", "fs", "es", "ds"}
CallerSaved == {"eax", "ecx", "edx"}
Regs == {Saved[i] : i \in DOMAIN Saved}

(* registers_t of isr.h.                                                   *)
Fields == <<"ds", "edi", "esi", "ebp", "esp", "ebx", "edx", "ecx", "eax", "int_no", "err_code">>
FieldIndex(f) == CHOOSE i \in DOMAIN Fields : Fields[i] = f

KernelCS == 8
KernelDS == 16

(* isr_handlers after timer_init, keyboard_init and syscall_init, which    *)
(* registers 0 for 0x80.                                                   *)
isr_handlers ==
  [n \in 0 .. 255 |-> CASE n = 32 -> "timer" [] n = 33 -> "keyboard" [] OTHER -> "none"]

Init ==
  /\ reg = [r \in Regs |-> IF r \in Segments THEN KernelDS ELSE 0]
  /\ eip = 0 /\ IF_ = 1
  /\ stack = <<>>
  /\ pc = "run"
  /\ vector = 0 /\ called = "none"
  /\ master = {} /\ slave = {}
  /\ before = [reg |-> reg, eip |-> 0, IF_ |-> 1]

-----------------------------------------------------------------------------
(* The interrupted code computes, and enables or disables interrupts.      *)
Compute ==
  /\ pc = "run"
  /\ \/ \E r \in Live, v \in Values : reg' = [reg EXCEPT ![r] = v] /\ UNCHANGED IF_
     \/ IF_' \in {0, 1} /\ UNCHANGED reg
  /\ eip' = 1 - eip
  /\ UNCHANGED <<stack, pc, vector, called, master, slave, before>>

(* A controller delivers a line when none of its priority is in service.   *)
IsIRQ(n) == n \in 32 .. 47
Line(n) == n - 32
Deliverable(n) ==
  IsIRQ(n) =>
    /\ IF_ = 1
    /\ \A l \in master : l > (IF Line(n) < 8 THEN Line(n) ELSE 2)
    /\ Line(n) >= 8 => \A l \in slave : l > Line(n) - 8

(* The exceptions for which the processor pushes an error code, those of   *)
(* control protection (21) and of VMM communication (29) among them.       *)
PushesError == {8, 10, 11, 12, 13, 14, 17, 21, 29, 30}

(* The processor takes gate n.                                             *)
Enter(n) ==
  /\ pc = "run"
  /\ Deliverable(n)
  /\ before' = [reg |-> reg, eip |-> eip, IF_ |-> IF_]
  /\ stack' = (IF n \in PushesError THEN <<0>> ELSE <<>>) \o <<eip, KernelCS, IF_>>
  /\ IF_' = 0
  /\ master' = IF IsIRQ(n) THEN master \cup {IF Line(n) < 8 THEN Line(n) ELSE 2} ELSE master
  /\ slave' = IF IsIRQ(n) /\ Line(n) >= 8 THEN slave \cup {Line(n) - 8} ELSE slave
  /\ vector' = n
  /\ called' = "none"
  /\ pc' = "stub"
  /\ UNCHANGED <<reg, eip>>

-----------------------------------------------------------------------------
(* The stubs.  A byte is pushed sign-extended.                             *)
SignExtend(b) == IF b < 128 THEN b ELSE b - 256

(* Mutant: gate 17 uses ISR_NOERRCODE.                                     *)
PushesDummyFor17(n) == n \notin {8, 10, 11, 12, 13, 14, 30}

(* ISR_NOERRCODE, IRQ and isr128 push a dummy error code; ISR_ERRCODE does *)
(* not.                                                                    *)
PushesDummy(n) == n \notin {8, 10, 11, 12, 13, 14, 17, 30}

Stub ==
  /\ pc = "stub"
  /\ stack' = [i \in DOMAIN Saved |-> reg[Saved[i]]]
                \o <<SignExtend(vector)>>
                \o (IF PushesDummy(vector) THEN <<0>> ELSE <<>>) \o stack
  /\ reg' = [r \in Regs |-> IF r \in Segments THEN KernelDS ELSE reg[r]]
  /\ pc' = "handler"
  /\ UNCHANGED <<eip, IF_, vector, called, master, slave, before>>

(* The C handler reads registers_t from the top of the stack.              *)
int_no == stack[FieldIndex("int_no")]

(* An end of interrupt retires the line of the highest priority.           *)
EndOfInterrupt(lines) == {l \in lines : \E k \in lines : k < l}

(* isr_handlers[regs->int_no]: beyond the table any word is called.        *)
Lookup(n) == IF n \in 0 .. 255 THEN {isr_handlers[n]} ELSE {"none", "wild"}

(* The handler may leave any value in the registers C need not preserve.   *)
Clobber ==
  \E v \in Values : reg' = [r \in Regs |-> IF r \in CallerSaved \cap Live THEN v ELSE reg[r]]

Call(h) ==
  /\ called' = h
  /\ pc' = IF h = "wild" THEN "wild" ELSE "epilogue"
  /\ Clobber
  /\ UNCHANGED <<eip, IF_, stack, vector, before>>

isr_handler ==
  /\ pc = "handler" /\ ~IsIRQ(vector)
  /\ \E h \in Lookup(int_no) : Call(h)
  /\ UNCHANGED <<master, slave>>

(* Mutant: only one controller is acknowledged.                            *)
AcknowledgeOne ==
  IF int_no >= 40
    THEN slave' = EndOfInterrupt(slave) /\ UNCHANGED master
    ELSE master' = EndOfInterrupt(master) /\ UNCHANGED slave

Acknowledge ==
  /\ slave' = IF int_no >= 40 THEN EndOfInterrupt(slave) ELSE slave
  /\ master' = EndOfInterrupt(master)

irq_handler ==
  /\ pc = "handler" /\ IsIRQ(vector)
  /\ Acknowledge
  /\ \E h \in Lookup(int_no) : Call(h)

PopFrame(s) == SubSeq(s, Len(Saved) + 3, Len(s))

(* The pops, and iret: a word that is no code segment's selector where it  *)
(* takes CS from is a fault, on a stack that no longer fits.               *)
Iret ==
  /\ pc = "epilogue"
  /\ reg' = [r \in Regs |-> IF r = "esp" THEN reg[r]
               ELSE stack[CHOOSE i \in DOMAIN Saved : Saved[i] = r]]
  /\ LET frame == PopFrame(stack)
     IN  IF frame[2] = KernelCS
           THEN /\ eip' = frame[1]
                /\ IF_' = frame[3]
                /\ stack' = SubSeq(frame, 4, Len(frame))
                /\ pc' = "run"
           ELSE /\ stack' = frame
                /\ pc' = "wild"
                /\ UNCHANGED <<eip, IF_>>
  /\ UNCHANGED <<vector, called, master, slave, before>>

(* After a call through a word beyond the table or the fault of an iret    *)
(* nothing is known any more.                                              *)
Wild == pc = "wild" /\ UNCHANGED vars

Next ==
  \/ Compute
  \/ \E n \in Vectors : Enter(n)
  \/ Stub \/ isr_handler \/ irq_handler \/ Iret \/ Wild

Spec == Init /\ [][Next]_vars

-----------------------------------------------------------------------------

(* iret resumes exactly what the interrupt found: the program counter, the *)
(* interrupt flag, every saved register, whether or not the processor      *)
(* pushed an error code and whatever the handler did to the registers, and *)
(* nothing is left on the stack.  The gates 21 and 29 never resume: their  *)
(* stubs push a dummy on top of the processor's code, and add esp, 8 takes *)
(* off the number and one of the two.                                      *)
ResumesExactly ==
  [][pc = "epilogue" /\ pc' # pc =>
       IF vector \in {21, 29} THEN pc' = "wild"
       ELSE /\ pc' = "run"
            /\ reg' = before.reg /\ eip' = before.eip /\ IF_' = before.IF_
            /\ stack' = <<>>]_vars

(* The master controller is ready for every line again when the            *)
(* interrupted code goes on, whatever value irq_handler took for int_no.   *)
MasterRearmed ==
  pc \in {"epilogue", "run"} => master = {}

(* The handler called is the one installed for the value the interrupted   *)
(* code had in EDX, not for the gate: registers_t does not describe what   *)
(* the stubs push, although kernel_main reports "[OK] ISR handlers ready". *)
DispatchByEdx ==
  pc = "epilogue" => called \in Lookup(before.reg["edx"])
=============================================================================
