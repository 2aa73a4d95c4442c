-------------------------- MODULE InterruptsProofs --------------------------
(***************************************************************************)
(* Proofs about Interrupts, for every gate, every register the interrupted *)
(* code uses and every value in it.                                        *)
(***************************************************************************)
EXTENDS Interrupts, SequenceTheorems, TLAPS

(* The machine states the kernel can be interrupted in.                    *)
Machine == [reg : [Regs -> Nat], eip : {0, 1}, IF_ : {0, 1}]

(* What the controllers have in service while gate n is served.            *)
InService(n) == IF IsIRQ(n) THEN {IF Line(n) < 8 THEN Line(n) ELSE 2} ELSE {}

InterruptTypes ==
  /\ reg \in [Regs -> Nat]
  /\ eip \in {0, 1} /\ IF_ \in {0, 1}
  /\ vector \in (0 .. 47) \cup {128}
  /\ before \in Machine
  /\ pc \in {"run", "stub", "handler", "epilogue", "wild"}

(* What the processor has pushed when the stub starts.                     *)
AtStub ==
  pc = "stub" =>
    /\ reg = before.reg
    /\ stack = (IF vector \in PushesError THEN <<0>> ELSE <<>>)
                 \o <<before.eip, KernelCS, before.IF_>>

(* The words that are on the stack twice: the error code of the processor  *)
(* and, over it, the dummy of a stub of ISR_NOERRCODE.                     *)
Extra(n) == IF n \in {21, 29} THEN 1 ELSE 0

(* The frame the C handlers and the epilogue find: the saved registers,    *)
(* two words, for the gates 21 and 29 a third, and what iret needs.        *)
HandlerFrame(s) ==
  /\ s \in Seq(Int) /\ Len(s) = 17 + Extra(vector)
  /\ \A i \in 1 .. 12 : s[i] = before.reg[Saved[i]]
  /\ s[15 + Extra(vector)] = before.eip
  /\ s[16 + Extra(vector)] = KernelCS
  /\ s[17 + Extra(vector)] = before.IF_

AtHandler ==
  pc \in {"handler", "epilogue"} =>
    /\ HandlerFrame(stack)
    /\ reg["esp"] = before.reg["esp"]

(* The lines in service in the master controller.                          *)
MasterServes ==
  /\ pc \in {"stub", "handler"} => master = InService(vector)
  /\ pc = "run" => stack = <<>>

(* The inductive invariant.                                                *)
InterruptInv ==
  /\ InterruptTypes /\ AtStub /\ AtHandler /\ MasterServes
  /\ MasterRearmed /\ DispatchByEdx

-----------------------------------------------------------------------------
(* The layout of the frame.                                                *)
LEMMA SavedFacts ==
  /\ DOMAIN Saved = 1 .. 12
  /\ \A i \in 1 .. 12 : Saved[i] \in Regs
  /\ Saved[10] = "edx"
  /\ "edx" \in Regs /\ "esp" \in Regs
  /\ \A r \in Regs : \E i \in 1 .. 12 : Saved[i] = r
<1>1. DOMAIN Saved = 1 .. 12 /\ Saved[10] = "edx" /\ Saved[8] = "esp"
  BY DEF Saved
<1>2. Regs = { Saved[i] : i \in 1 .. 12 }
  BY <1>1 DEF Regs
<1> HIDE DEF Regs, Saved
<1>3. \A i \in 1 .. 12 : Saved[i] \in Regs
  BY <1>2
<1>4. 10 \in 1 .. 12 /\ 8 \in 1 .. 12
  OBVIOUS
<1>5. "edx" \in Regs /\ "esp" \in Regs
  BY <1>1, <1>3, <1>4
<1> QED BY <1>1, <1>2, <1>3, <1>5

(* registers_t has the interrupt's number where the stubs put EDX.         *)
LEMMA IntNoIsEdx ==
  ASSUME HandlerFrame(stack)
  PROVE  int_no = before.reg["edx"]
<1>1. FieldIndex("int_no") = 10
  <2>1. DOMAIN Fields = 1 .. 11
    BY DEF Fields
  <2>2. \A i \in 1 .. 11 : Fields[i] = "int_no" <=> i = 10
    BY DEF Fields
  <2>3. 10 \in 1 .. 11
    OBVIOUS
  <2> QED BY <2>1, <2>2, <2>3 DEF FieldIndex
<1>2. stack[10] = before.reg[Saved[10]]
  BY DEF HandlerFrame
<1> QED BY <1>1, <1>2, SavedFacts DEF int_no

(* What concatenation does to words on the stack.                          *)
LEMMA Concatenation ==
  ASSUME NEW s \in Seq(Int), NEW t \in Seq(Int)
  PROVE  /\ s \o t \in Seq(Int) /\ Len(s \o t) = Len(s) + Len(t)
         /\ \A i \in 1 .. Len(s) : (s \o t)[i] = s[i]
         /\ \A i \in 1 .. Len(t) : (s \o t)[Len(s) + i] = t[i]
  OBVIOUS

(* Twelve words, two more and the rest.                                    *)
LEMMA FrameWords ==
  ASSUME NEW R \in Seq(Int), Len(R) = 12, NEW M \in Seq(Int), Len(M) = 2, NEW P \in Seq(Int)
  PROVE  /\ (R \o M) \o P \in Seq(Int) /\ Len((R \o M) \o P) = 14 + Len(P)
         /\ \A i \in 1 .. 12 : ((R \o M) \o P)[i] = R[i]
         /\ \A i \in 1 .. Len(P) : ((R \o M) \o P)[14 + i] = P[i]
<1> DEFINE B == R \o M
           s == B \o P
<1>1. B \in Seq(Int) /\ Len(B) = 14 /\ \A i \in 1 .. 12 : B[i] = R[i]
  <2>1. B \in Seq(Int) /\ Len(B) = Len(R) + Len(M) /\ \A i \in 1 .. Len(R) : B[i] = R[i]
    BY Concatenation
  <2> HIDE DEF B
  <2> QED BY <2>1
<1> HIDE DEF B
<1>2. /\ s \in Seq(Int) /\ Len(s) = Len(B) + Len(P)
      /\ \A i \in 1 .. Len(B) : s[i] = B[i]
      /\ \A i \in 1 .. Len(P) : s[Len(B) + i] = P[i]
  BY <1>1, Concatenation
<1> HIDE DEF s
<1>3. Len(s) = 14 + Len(P) /\ \A i \in 1 .. Len(P) : s[14 + i] = P[i]
  BY <1>1, <1>2
<1>4. \A i \in 1 .. 12 : s[i] = R[i]
  <2> TAKE i \in 1 .. 12
  <2>1. i \in 1 .. Len(B)
    BY <1>1
  <2>2. s[i] = B[i]
    BY <2>1, <1>2, Zenon
  <2>3. B[i] = R[i]
    BY <1>1, Zenon
  <2> QED BY <2>2, <2>3
<1> QED BY <1>2, <1>3, <1>4, Zenon DEF s, B

(* A word in front of three.                                               *)
LEMMA OneWord ==
  ASSUME NEW z \in Seq(Int), Len(z) = 1, NEW P \in Seq(Int), Len(P) = 3
  PROVE  /\ z \o P \in Seq(Int) /\ Len(z \o P) = 4
         /\ (z \o P)[2] = P[1] /\ (z \o P)[3] = P[2] /\ (z \o P)[4] = P[3]
<1> DEFINE s == z \o P
<1>1. s \in Seq(Int) /\ Len(s) = Len(z) + Len(P) /\ \A i \in 1 .. Len(P) : s[Len(z) + i] = P[i]
  BY Concatenation
<1> HIDE DEF s
<1>2. Len(s) = 4 /\ \A i \in 1 .. 3 : s[1 + i] = P[i]
  BY <1>1
<1>3. s[1 + 1] = P[1] /\ s[1 + 2] = P[2] /\ s[1 + 3] = P[3]
  BY <1>2
<1>4. s[2] = P[1] /\ s[3] = P[2] /\ s[4] = P[3]
  BY <1>3
<1> QED BY <1>1, <1>2, <1>4 DEF s

(* The number, and the error code of the stub or of the processor, are two *)
(* words between the registers and the rest.                               *)
LEMMA TwoWords ==
  ASSUME NEW R \in Seq(Int), NEW n \in Seq(Int), NEW z \in Seq(Int), NEW P \in Seq(Int)
  PROVE  /\ ((R \o n) \o z) \o P = (R \o (n \o z)) \o P
         /\ ((R \o n) \o <<>>) \o (z \o P) = (R \o (n \o z)) \o P
<1>1. R \o n \in Seq(Int)
  BY Concatenation
<1>2. (R \o n) \o z = R \o (n \o z)
  BY SMTT(30)
<1>3. (R \o n) \o <<>> = R \o n
  BY <1>1, ConcatEmptySeq
<1>4. (R \o n) \o (z \o P) = ((R \o n) \o z) \o P
  <2> DEFINE B == R \o n
  <2>1. B \in Seq(Int)
    BY <1>1
  <2> HIDE DEF B
  <2>2. B \o (z \o P) = (B \o z) \o P
    BY <2>1, SMTT(30)
  <2> QED BY <2>2 DEF B
<1> QED BY <1>2, <1>3, <1>4, Zenon

(* Whether or not the processor pushed an error code, the stub leaves the  *)
(* same frame, but for the gates where both push one.                      *)
LEMMA StubFrame ==
  ASSUME InterruptTypes, AtStub, pc = "stub"
  PROVE  HandlerFrame([i \in DOMAIN Saved |-> reg[Saved[i]]]
                        \o <<SignExtend(vector)>>
                        \o (IF PushesDummy(vector) THEN <<0>> ELSE <<>>) \o stack)
<1>w. \A a, b, c, d \in Seq(Int) :
        /\ ((a \o b) \o c) \o d = (a \o (b \o c)) \o d
        /\ ((a \o b) \o <<>>) \o (c \o d) = (a \o (b \o c)) \o d
  BY TwoWords, Zenon
<1> DEFINE R == [i \in 1 .. 12 |-> before.reg[Saved[i]]]
           n == <<SignExtend(vector)>>
           z == <<0>>
           P == <<before.eip, KernelCS, before.IF_>>
           Twice == vector \in {21, 29}
           Q == IF Twice THEN z \o P ELSE P
           x == Extra(vector)
<1>1. R = [i \in DOMAIN Saved |-> reg[Saved[i]]]
  BY SavedFacts DEF AtStub
<1>2. R \in Seq(Int) /\ Len(R) = 12 /\ \A i \in 1 .. 12 : R[i] = before.reg[Saved[i]]
  <2>1. before.reg \in [Regs -> Nat]
    BY DEF InterruptTypes, Machine
  <2>2. \A i \in 1 .. 12 : before.reg[Saved[i]] \in Int
    BY <2>1, SavedFacts
  <2> QED BY <2>2
<1>3. /\ P \in Seq(Int) /\ Len(P) = 3
      /\ P[1] = before.eip /\ P[2] = KernelCS /\ P[3] = before.IF_
  BY DEF InterruptTypes, Machine, KernelCS
<1>4. n \in Seq(Int) /\ Len(n) = 1 /\ z \in Seq(Int) /\ Len(z) = 1
  BY DEF InterruptTypes, SignExtend
<1>5. stack = (IF vector \in PushesError THEN z ELSE <<>>) \o P
  BY DEF AtStub
<1>6. /\ PushesDummy(vector) <=> (vector \notin PushesError \/ Twice)
      /\ Twice => vector \in PushesError
  BY DEF PushesDummy, PushesError
<1> DEFINE s == [i \in DOMAIN Saved |-> reg[Saved[i]]]
                  \o <<SignExtend(vector)>>
                  \o (IF PushesDummy(vector) THEN <<0>> ELSE <<>>) \o stack
<1>7. s = ((R \o n) \o (IF vector \in PushesError /\ ~Twice THEN <<>> ELSE z)) \o stack
  BY <1>1, <1>6
<1>8. n \o z \in Seq(Int) /\ Len(n \o z) = 2
  BY <1>4, Concatenation
<1>q. /\ Q \in Seq(Int) /\ Len(Q) = 3 + x /\ x \in {0, 1}
      /\ Q[1 + x] = before.eip /\ Q[2 + x] = KernelCS /\ Q[3 + x] = before.IF_
  <2> HIDE DEF z, P
  <2>1. CASE Twice
    <3>1. Q = z \o P
      BY <2>1
    <3>2. x = 1
      BY <2>1 DEF Extra
    <3>3. /\ z \o P \in Seq(Int) /\ Len(z \o P) = 4
          /\ (z \o P)[2] = P[1] /\ (z \o P)[3] = P[2] /\ (z \o P)[4] = P[3]
      BY <1>3, <1>4, OneWord
    <3> HIDE DEF Q, x
    <3>4. /\ Q \in Seq(Int) /\ Len(Q) = 4
          /\ Q[2] = P[1] /\ Q[3] = P[2] /\ Q[4] = P[3]
      BY <3>1, <3>3, Zenon
    <3> QED BY <3>2, <3>4, <1>3
  <2>2. CASE ~Twice
    <3>1. Q = P
      BY <2>2
    <3>2. x = 0
      BY <2>2 DEF Extra
    <3> HIDE DEF Q, x
    <3>3. /\ Q \in Seq(Int) /\ Len(Q) = 3
          /\ Q[1] = before.eip /\ Q[2] = KernelCS /\ Q[3] = before.IF_
      BY <3>1, <1>3, Zenon
    <3> QED BY <3>2, <3>3
  <2> QED BY <2>1, <2>2
<1> HIDE DEF R, n, z, P, Q, s, x, Twice
<1>t. R \in Seq(Int) /\ n \in Seq(Int) /\ z \in Seq(Int) /\ P \in Seq(Int)
  BY <1>2, <1>3, <1>4
<1>9. <<>> \o P = P
  BY <1>3, ConcatEmptySeq
<1>10. s = (R \o (n \o z)) \o Q
  <2>0. \A d \in Seq(Int) :
          /\ ((R \o n) \o z) \o d = (R \o (n \o z)) \o d
          /\ ((R \o n) \o <<>>) \o (z \o d) = (R \o (n \o z)) \o d
    <3>1. \A b, c, d \in Seq(Int) :
            /\ ((R \o b) \o c) \o d = (R \o (b \o c)) \o d
            /\ ((R \o b) \o <<>>) \o (c \o d) = (R \o (b \o c)) \o d
      BY <1>t, <1>w, Zenon
    <3>2. \A c, d \in Seq(Int) :
            /\ ((R \o n) \o c) \o d = (R \o (n \o c)) \o d
            /\ ((R \o n) \o <<>>) \o (c \o d) = (R \o (n \o c)) \o d
      BY <1>t, <3>1, Zenon
    <3> QED BY <1>t, <3>2, Zenon
  <2>1. CASE vector \in PushesError /\ ~Twice
    <3>1. s = ((R \o n) \o <<>>) \o (z \o P) /\ Q = P
      BY <1>5, <1>7, <2>1, Zenon DEF Q
    <3> QED BY <3>1, <2>0, <1>t, Zenon
  <2>2. CASE vector \notin PushesError
    <3>1. s = ((R \o n) \o z) \o P /\ Q = P
      BY <1>5, <1>6, <1>7, <1>9, <2>2, Zenon DEF Q
    <3> QED BY <3>1, <2>0, <1>t, Zenon
  <2>3. CASE Twice
    <3>1. s = ((R \o n) \o z) \o Q
      BY <1>5, <1>6, <1>7, <2>3, Zenon DEF Q
    <3> QED BY <3>1, <2>0, <1>q, Zenon
  <2> QED BY <2>1, <2>2, <2>3
<1>11. /\ s \in Seq(Int) /\ Len(s) = 14 + Len(Q)
       /\ \A i \in 1 .. 12 : s[i] = R[i]
       /\ \A i \in 1 .. Len(Q) : s[14 + i] = Q[i]
  <2> DEFINE M == n \o z
  <2>1. M \in Seq(Int) /\ Len(M) = 2 /\ s = (R \o M) \o Q
    BY <1>8, <1>10
  <2>2. Len(R) = 12
    BY <1>2
  <2> HIDE DEF M
  <2>3. M \in Seq(Int) /\ Len(M) = 2
    BY <2>1
  <2>4. /\ (R \o M) \o Q \in Seq(Int) /\ Len((R \o M) \o Q) = 14 + Len(Q)
        /\ \A i \in 1 .. 12 : ((R \o M) \o Q)[i] = R[i]
        /\ \A i \in 1 .. Len(Q) : ((R \o M) \o Q)[14 + i] = Q[i]
    <3>1. Q \in Seq(Int)
      BY <1>q
    <3>2. R \in Seq(Int)
      BY <1>t
    <3> HIDE DEF M
    <3> QED BY <3>1, <3>2, <2>2, <2>3, FrameWords
  <2> QED BY <2>1, <2>4, Zenon
<1>12. /\ Len(s) = 17 + x
       /\ s[15 + x] = before.eip /\ s[16 + x] = KernelCS /\ s[17 + x] = before.IF_
  <2>1. /\ 1 + x \in 1 .. Len(Q) /\ 2 + x \in 1 .. Len(Q) /\ 3 + x \in 1 .. Len(Q)
        /\ 14 + Len(Q) = 17 + x
    BY <1>q
  <2>2. /\ s[14 + (1 + x)] = before.eip /\ s[14 + (2 + x)] = KernelCS
        /\ s[14 + (3 + x)] = before.IF_
    BY <2>1, <1>11, <1>q
  <2>3. 14 + (1 + x) = 15 + x /\ 14 + (2 + x) = 16 + x /\ 14 + (3 + x) = 17 + x
    BY <1>q
  <2> QED BY <2>1, <2>2, <2>3, <1>11
<1>13. HandlerFrame(s)
  BY <1>2, <1>11, <1>12 DEF HandlerFrame, x
<1> QED BY <1>13 DEF s

-----------------------------------------------------------------------------
(* The invariant, action by action.                                        *)
LEMMA InitInv == Init => InterruptInv
<1> SUFFICES ASSUME Init PROVE InterruptInv
  OBVIOUS
<1>1. reg \in [Regs -> Nat]
  BY DEF Init, KernelDS
<1>2. InterruptTypes
  BY <1>1 DEF Init, InterruptTypes, Machine
<1>3. MasterServes /\ MasterRearmed
  BY DEF Init, MasterServes, MasterRearmed
<1> QED
  BY <1>2, <1>3 DEF Init, InterruptInv, AtStub, AtHandler, DispatchByEdx

LEMMA ComputeInv == InterruptInv /\ Compute => InterruptInv'
<1> SUFFICES ASSUME InterruptInv, Compute PROVE InterruptInv'
  OBVIOUS
<1>1. pc = "run" /\ pc' = "run"
  BY DEF Compute
<1>2. reg' \in [Regs -> Nat] /\ IF_' \in {0, 1}
  BY InterruptAssumption DEF Compute, InterruptInv, InterruptTypes
<1>3. InterruptTypes'
  BY <1>2 DEF Compute, InterruptInv, InterruptTypes
<1> QED
  BY <1>1, <1>3 DEF Compute, InterruptInv, AtStub, AtHandler, MasterServes, MasterRearmed,
     DispatchByEdx

LEMMA EnterInv ==
  ASSUME InterruptInv, NEW n \in Vectors, Enter(n)
  PROVE  InterruptInv'
<1>1. pc = "run" /\ pc' = "stub" /\ vector' = n /\ n \in (0 .. 47) \cup {128}
  BY InterruptAssumption DEF Enter
<1>2. before' = [reg |-> reg, eip |-> eip, IF_ |-> IF_] /\ before' \in Machine
  BY DEF Enter, InterruptInv, InterruptTypes, Machine
<1>3. before'.reg = reg /\ before'.eip = eip /\ before'.IF_ = IF_
  BY <1>2
<1>4. InterruptTypes'
  BY <1>1, <1>2 DEF Enter, InterruptInv, InterruptTypes
<1>5. AtStub'
  BY <1>1, <1>3, Zenon DEF Enter, AtStub
<1>6. master' = InService(n)
  BY <1>1 DEF Enter, InterruptInv, MasterRearmed, InService
<1> QED
  BY <1>1, <1>4, <1>5, <1>6 DEF InterruptInv, AtHandler, MasterServes, MasterRearmed,
     DispatchByEdx

LEMMA StubInv == InterruptInv /\ Stub => InterruptInv'
<1> SUFFICES ASSUME InterruptInv, Stub PROVE InterruptInv'
  OBVIOUS
<1>1. pc = "stub" /\ pc' = "handler" /\ before' = before /\ vector' = vector
  BY DEF Stub
<1>2. reg \in [Regs -> Nat] /\ reg = before.reg
  BY <1>1 DEF InterruptInv, InterruptTypes, AtStub
<1>3. reg' \in [Regs -> Nat]
  BY <1>2 DEF Stub, KernelDS
<1>4. reg'["esp"] = before'.reg["esp"]
  <2>1. "esp" \notin Segments
    BY DEF Segments
  <2> QED BY <1>1, <1>2, <2>1, SavedFacts DEF Stub
<1>5. InterruptTypes'
  BY <1>1, <1>3 DEF Stub, InterruptInv, InterruptTypes
<1>6. HandlerFrame(stack)'
  <2>1. HandlerFrame(stack')
    BY <1>1, StubFrame, Zenon DEF Stub, InterruptInv
  <2> QED BY <2>1, <1>1 DEF HandlerFrame, Extra
<1>7. MasterServes'
  BY <1>1 DEF Stub, InterruptInv, MasterServes
<1> QED
  BY <1>1, <1>4, <1>5, <1>6, <1>7 DEF InterruptInv, AtStub, AtHandler, MasterRearmed,
     DispatchByEdx

(* What isr_handler and irq_handler share: the frame stays as it was.      *)
LEMMA CallInv ==
  ASSUME InterruptInv, pc = "handler", NEW h \in Lookup(int_no), Call(h)
  PROVE  InterruptTypes' /\ AtStub' /\ AtHandler' /\ DispatchByEdx' /\ pc' \in {"epilogue", "wild"}
<1>1. pc' \in {"epilogue", "wild"} /\ before' = before /\ stack' = stack /\ called' = h
      /\ vector' = vector
  BY DEF Call
<1>2. PICK v \in Values :
        reg' = [r \in Regs |-> IF r \in CallerSaved \cap Live THEN v ELSE reg[r]]
  BY DEF Call, Clobber
<1>3. reg' \in [Regs -> Nat]
  BY <1>2, InterruptAssumption DEF InterruptInv, InterruptTypes
<1>4. reg'["esp"] = reg["esp"]
  <2>1. "esp" \notin CallerSaved
    BY DEF CallerSaved
  <2> QED BY <1>2, <2>1, SavedFacts
<1>5. HandlerFrame(stack) /\ reg["esp"] = before.reg["esp"]
  BY DEF InterruptInv, AtHandler
<1>6. HandlerFrame(stack)'
  BY <1>1, <1>5 DEF HandlerFrame, Extra
<1>7. h \in Lookup(before'.reg["edx"])
  BY <1>1, <1>5, IntNoIsEdx
<1>8. InterruptTypes'
  BY <1>1, <1>3 DEF Call, InterruptInv, InterruptTypes
<1>9. AtHandler'
  BY <1>1, <1>4, <1>5, <1>6 DEF AtHandler
<1>10. DispatchByEdx'
  BY <1>1, <1>7 DEF DispatchByEdx, Lookup, isr_handlers
<1> QED BY <1>1, <1>8, <1>9, <1>10 DEF AtStub

LEMMA isr_handlerInv == InterruptInv /\ isr_handler => InterruptInv'
<1> SUFFICES ASSUME InterruptInv, isr_handler PROVE InterruptInv'
  OBVIOUS
<1>1. PICK h \in Lookup(int_no) : Call(h)
  BY DEF isr_handler
<1>2. pc = "handler" /\ master' = master /\ InService(vector) = {}
  BY DEF isr_handler, InService
<1>3. InterruptTypes' /\ AtStub' /\ AtHandler' /\ DispatchByEdx' /\ pc' \in {"epilogue", "wild"}
  BY <1>1, <1>2, CallInv
<1>4. master' = {}
  BY <1>2 DEF InterruptInv, MasterServes
<1> QED BY <1>3, <1>4 DEF InterruptInv, MasterServes, MasterRearmed

LEMMA irq_handlerInv == InterruptInv /\ irq_handler => InterruptInv'
<1> SUFFICES ASSUME InterruptInv, irq_handler PROVE InterruptInv'
  OBVIOUS
<1>1. PICK h \in Lookup(int_no) : Call(h)
  BY DEF irq_handler
<1>2. pc = "handler" /\ master' = EndOfInterrupt(master)
  BY DEF irq_handler, Acknowledge
<1>3. InterruptTypes' /\ AtStub' /\ AtHandler' /\ DispatchByEdx' /\ pc' \in {"epilogue", "wild"}
  BY <1>1, <1>2, CallInv
<1>4. master' = {}
  <2>1. master = {IF Line(vector) < 8 THEN Line(vector) ELSE 2}
    BY <1>2 DEF InterruptInv, MasterServes, InService, irq_handler
  <2>2. (IF Line(vector) < 8 THEN Line(vector) ELSE 2) \in Int
    BY DEF InterruptInv, InterruptTypes, Line
  <2> QED BY <1>2, <2>1, <2>2 DEF EndOfInterrupt
<1> QED BY <1>3, <1>4 DEF InterruptInv, MasterServes, MasterRearmed

(* The epilogue and iret restore what the interrupt found, or find a       *)
(* program counter where CS should be.                                     *)
LEMMA IretRestores ==
  ASSUME InterruptInv, Iret
  PROVE  /\ reg' = before.reg
         /\ IF vector \in {21, 29} THEN pc' = "wild" /\ eip' = eip /\ IF_' = IF_
            ELSE pc' = "run" /\ eip' = before.eip /\ IF_' = before.IF_ /\ stack' = <<>>
<1>1. HandlerFrame(stack) /\ reg["esp"] = before.reg["esp"]
  BY DEF Iret, InterruptInv, AtHandler
<1>2. before.reg \in [Regs -> Nat] /\ before.eip \in {0, 1}
  BY DEF InterruptInv, InterruptTypes, Machine
<1>3. reg' = before.reg
  <2> DEFINE slot(r) == stack[CHOOSE i \in DOMAIN Saved : Saved[i] = r]
  <2>1. ASSUME NEW r \in Regs
        PROVE  slot(r) = before.reg[r]
    <3> DEFINE j == CHOOSE i \in DOMAIN Saved : Saved[i] = r
    <3>1. j \in 1 .. 12 /\ Saved[j] = r
      BY SavedFacts
    <3> HIDE DEF j
    <3>2. stack[j] = before.reg[r]
      BY <3>1, <1>1 DEF HandlerFrame
    <3> QED BY <3>2 DEF j
  <2>2. reg' = [r \in Regs |-> IF r = "esp" THEN reg[r] ELSE slot(r)]
    BY DEF Iret
  <2> HIDE DEF slot
  <2> QED BY <1>1, <1>2, <2>1, <2>2
<1> DEFINE frame == PopFrame(stack)
           x == Extra(vector)
<1>x. x \in {0, 1} /\ (x = 1 <=> vector \in {21, 29})
  BY DEF Extra
<1>4. /\ Len(frame) = 3 + x
      /\ frame[1] = stack[15] /\ frame[2] = stack[16] /\ frame[3] = stack[17]
  <2>1. Len(Saved) = 12
    BY DEF Saved
  <2> HIDE DEF x
  <2>2. stack \in Seq(Int) /\ Len(stack) = 17 + x
    BY <1>1 DEF HandlerFrame, x
  <2>3. frame = SubSeq(stack, 15, 17 + x)
    BY <2>1, <2>2 DEF PopFrame
  <2>4. \A i \in 1 .. 3 + x : frame[i] = stack[15 + i - 1]
    BY <2>2, <2>3, <1>x, SubSeqProperties
  <2>5. Len(frame) = 3 + x
    BY <2>2, <2>3, <1>x, SubSeqProperties
  <2> HIDE DEF frame
  <2>6. frame[1] = stack[15 + 1 - 1] /\ frame[2] = stack[15 + 2 - 1] /\ frame[3] = stack[15 + 3 - 1]
    BY <2>4, <1>x
  <2> QED BY <2>5, <2>6
<1>5. IF frame[2] = KernelCS
        THEN /\ eip' = frame[1] /\ IF_' = frame[3] /\ stack' = SubSeq(frame, 4, Len(frame))
             /\ pc' = "run"
        ELSE pc' = "wild" /\ UNCHANGED <<eip, IF_>>
  BY DEF Iret
<1> HIDE DEF frame
<1>6. CASE vector \in {21, 29}
  <2>1. stack[15 + x] = before.eip /\ x = 1
    BY <1>1, <1>6, <1>x DEF HandlerFrame
  <2> HIDE DEF x
  <2>2. stack[16] = before.eip
    BY <2>1
  <2>3. frame[2] # KernelCS
    BY <2>2, <1>2, <1>4 DEF KernelCS
  <2> QED BY <2>3, <1>3, <1>5, <1>6
<1>7. CASE vector \notin {21, 29}
  <2>1. /\ stack[15 + x] = before.eip /\ stack[16 + x] = KernelCS /\ stack[17 + x] = before.IF_
        /\ x = 0
    BY <1>1, <1>7, <1>x DEF HandlerFrame
  <2> HIDE DEF x
  <2>2. stack[15] = before.eip /\ stack[16] = KernelCS /\ stack[17] = before.IF_ /\ Len(frame) = 3
    BY <2>1, <1>4
  <2>3. /\ eip' = before.eip /\ IF_' = before.IF_ /\ stack' = SubSeq(frame, 4, 3)
        /\ pc' = "run"
    BY <2>2, <1>4, <1>5
  <2>4. stack' = <<>>
    BY <2>3, SubSeqEmpty
  <2> QED BY <2>3, <2>4, <1>3, <1>7
<1> QED BY <1>6, <1>7

LEMMA IretInv == InterruptInv /\ Iret => InterruptInv'
<1> SUFFICES ASSUME InterruptInv, Iret PROVE InterruptInv'
  OBVIOUS
<1>1. /\ reg' = before.reg /\ eip' \in {eip, before.eip} /\ IF_' \in {IF_, before.IF_}
      /\ pc' \in {"run", "wild"} /\ (pc' = "run" => stack' = <<>>)
  BY IretRestores
<1>2. pc = "epilogue" /\ before' = before /\ vector' = vector /\ master' = master
  BY DEF Iret
<1>3. before.reg \in [Regs -> Nat] /\ before.eip \in {0, 1} /\ before.IF_ \in {0, 1}
  BY DEF InterruptInv, InterruptTypes, Machine
<1>4. InterruptTypes'
  BY <1>1, <1>2, <1>3 DEF InterruptInv, InterruptTypes
<1> QED
  BY <1>1, <1>2, <1>4 DEF InterruptInv, AtStub, AtHandler, MasterServes, MasterRearmed,
     DispatchByEdx

LEMMA UnchangedInv == InterruptInv /\ UNCHANGED vars => InterruptInv'
<1> SUFFICES ASSUME InterruptInv, UNCHANGED vars PROVE InterruptInv'
  OBVIOUS
<1>1. InterruptTypes' /\ AtStub'
  BY DEF vars, InterruptInv, InterruptTypes, AtStub
<1>2. AtHandler'
  BY DEF vars, InterruptInv, AtHandler, HandlerFrame
<1>3. MasterServes' /\ MasterRearmed'
  BY DEF vars, InterruptInv, MasterServes, MasterRearmed
<1>4. DispatchByEdx'
  BY DEF vars, InterruptInv, DispatchByEdx
<1> QED BY <1>1, <1>2, <1>3, <1>4 DEF InterruptInv

LEMMA InterruptInductive == InterruptInv /\ [Next]_vars => InterruptInv'
  BY ComputeInv, EnterInv, StubInv, isr_handlerInv, irq_handlerInv, IretInv, UnchangedInv
     DEF Next, Wild

-----------------------------------------------------------------------------
(* The frame, the registers and the controllers agree in every state, the  *)
(* frame with a word too many for the gates 21 and 29: what the three      *)
(* results below rest on.                                                  *)
THEOREM InterruptInvariant == Spec => []InterruptInv
  BY InitInv, InterruptInductive, PTL DEF Spec

(* irq_handler rearms the master controller, for every gate and whatever   *)
(* word registers_t gave it for int_no.                                    *)
THEOREM MasterAlwaysRearmed == Spec => []MasterRearmed
<1>1. InterruptInv => MasterRearmed
  BY DEF InterruptInv
<1> QED BY <1>1, InterruptInvariant, PTL

(* The handler called is always the one for the interrupted EDX.           *)
THEOREM HandlerChosenByEdx == Spec => []DispatchByEdx
<1>1. InterruptInv => DispatchByEdx
  BY DEF InterruptInv
<1> QED BY <1>1, InterruptInvariant, PTL

(* iret resumes exactly what was interrupted, whatever the handler did,    *)
(* for every gate but 21 and 29, and for none of these two.                *)
THEOREM InterruptsResumeExactly == Spec => ResumesExactly
<1> DEFINE Resumed == IF vector \in {21, 29} THEN pc' = "wild"
                      ELSE /\ pc' = "run"
                           /\ reg' = before.reg /\ eip' = before.eip /\ IF_' = before.IF_
                           /\ stack' = <<>>
<1>1. InterruptInv /\ [Next]_vars => [pc = "epilogue" /\ pc' # pc => Resumed]_vars
  <2> SUFFICES ASSUME InterruptInv, Next, pc = "epilogue"
               PROVE  Resumed
    OBVIOUS
  <2>1. Iret
    BY DEF Next, Compute, Enter, Stub, isr_handler, irq_handler, Wild
  <2> QED BY <2>1, IretRestores
<1> QED BY <1>1, InterruptInvariant, PTL DEF Spec, ResumesExactly
=============================================================================
