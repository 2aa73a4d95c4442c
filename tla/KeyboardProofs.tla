--------------------------- MODULE KeyboardProofs ---------------------------
(***************************************************************************)
(* Proofs about Keyboard, for every size of the ring.                      *)
(***************************************************************************)
EXTENDS Keyboard, TLAPS

-----------------------------------------------------------------------------
(* Remainders: what the index arithmetic of kb_buffer needs.               *)

(* What division by the size of the ring returns.                          *)
LEMMA DivMod ==
  ASSUME NEW S \in Nat \ {0}, NEW n \in Nat
  PROVE  /\ (n % S) \in 0 .. S - 1
         /\ (n \div S) \in Nat
         /\ n = S * (n \div S) + (n % S)
  OBVIOUS

(* Multiples of S are at least S apart.                                    *)
LEMMA MulStep ==
  ASSUME NEW S \in Nat \ {0}, NEW k \in Int, NEW m \in Int, k < m
  PROVE  S * k + S <= S * m
<1> DEFINE d == m - k
<1>1. d \in Nat \ {0} /\ m = k + d
  OBVIOUS
<1>2. S * d >= S
  BY <1>1
<1>3. S * (k + d) = S * k + S * d
  OBVIOUS
<1> QED BY <1>1, <1>2, <1>3

(* A number written as a multiple of S and a rest below S has that rest as *)
(* its remainder.                                                          *)
LEMMA ModOf ==
  ASSUME NEW S \in Nat \ {0}, NEW n \in Nat, NEW q \in Nat, NEW r \in 0 .. S - 1,
         n = S * q + r
  PROVE  (n % S) = r
<1> DEFINE p == n \div S
           s == n % S
<1>1. s \in 0 .. S - 1 /\ p \in Nat /\ n = S * p + s
  BY DivMod
<1> HIDE DEF p, s
<1>2. S * q \in Int /\ S * p \in Int
  BY <1>1
<1>3. ~ (q < p)
  BY <1>1, <1>2, MulStep
<1>4. ~ (p < q)
  BY <1>1, <1>2, MulStep
<1>5. s = r
  BY <1>1, <1>2, <1>3, <1>4
<1> QED BY <1>5 DEF s

(* The next index is the index of the next number.                         *)
LEMMA ModSucc ==
  ASSUME NEW S \in Nat \ {0}, NEW n \in Nat
  PROVE  (((n % S) + 1) % S) = ((n + 1) % S)
<1> DEFINE q == n \div S
           r == n % S
<1>1. r \in 0 .. S - 1 /\ q \in Nat /\ n = S * q + r
  BY DivMod
<1> HIDE DEF q, r
<1>2. CASE r + 1 < S
  <2>1. r + 1 \in 0 .. S - 1 /\ n + 1 = S * q + (r + 1) /\ n + 1 \in Nat
    BY <1>1, <1>2
  <2>2. ((n + 1) % S) = r + 1
    BY <2>1, <1>1, ModOf
  <2>3. ((r + 1) % S) = r + 1
    BY <2>1
  <2> QED BY <2>2, <2>3 DEF r
<1>3. CASE r + 1 = S
  <2>1. S * (q + 1) = S * q + S
    BY <1>1
  <2>2. n + 1 = S * (q + 1) + 0 /\ n + 1 \in Nat /\ q + 1 \in Nat /\ 0 \in 0 .. S - 1
    BY <2>1, <1>1, <1>3
  <2>3. ((n + 1) % S) = 0
    BY <2>2, ModOf
  <2>4. ((r + 1) % S) = 0
    BY <1>3
  <2> QED BY <2>3, <2>4 DEF r
<1> QED BY <1>1, <1>2, <1>3

(* Numbers less than S apart have different remainders.                    *)
LEMMA ModFar ==
  ASSUME NEW S \in Nat \ {0}, NEW a \in Nat, NEW b \in Nat, a < b, b < a + S
  PROVE  (a % S) # (b % S)
<1>1. SUFFICES ASSUME (a % S) = (b % S) PROVE FALSE
  OBVIOUS
<1> DEFINE q == a \div S
           p == b \div S
           r == a % S
<1>2. r \in 0 .. S - 1 /\ q \in Nat /\ p \in Nat /\ a = S * q + r /\ b = S * p + r
  BY DivMod, <1>1
<1> HIDE DEF q, p, r
<1>3. S * q \in Int /\ S * p \in Int
  BY <1>2
<1>4. CASE q < p
  BY MulStep, <1>2, <1>3, <1>4
<1>5. CASE q = p
  BY <1>2, <1>3, <1>5
<1>6. CASE p < q
  BY MulStep, <1>2, <1>3, <1>6
<1> QED BY <1>2, <1>4, <1>5, <1>6

-----------------------------------------------------------------------------
(* The inductive invariant.  NoPhantom needs to know what the loaded count *)
(* can be when it is stored; InOrder needs to know where the characters    *)
(* pending lie.                                                            *)
LoadedCount == pc = "store" => eax >= 1 /\ eax <= kb_buf_count

Indices == kb_buf_head = (Taken % Size) /\ kb_buf_tail = (typed % Size)

Pending ==
  ~overran =>
    /\ typed - Taken <= Size
    /\ \A n \in 1 .. MaxKeys : Taken < n /\ n <= typed => kb_buffer[(n - 1) % Size].n = n
    /\ pc = "advance" => c.n = Taken + 1

KbInv ==
  /\ KbTypeOK /\ NoStuckShift /\ NoPhantom
  /\ LoadedCount /\ Indices /\ Pending /\ InOrder

(* Steps that leave the ring and what was read alone, but may move between *)
(* program counters outside the window of a read.                          *)
Quiet ==
  /\ UNCHANGED <<ring, reader, typed, overran>>
  /\ pc' = pc \/ (pc \notin {"store", "read", "advance"} /\ pc' \notin {"store", "read", "advance"})

(* Steps that touch neither the ring nor the reader keep the invariant.    *)
LEMMA QuietKeepsInv ==
  ASSUME KbInv, Quiet, KbTypeOK', NoStuckShift'
  PROVE  KbInv'
<1>1. UNCHANGED <<kb_buffer, kb_buf_head, kb_buf_tail, kb_buf_count, eax, c, got, lost, typed, overran, Taken>>
  BY DEF Quiet, ring, reader, Taken
<1>2. NoPhantom'
  BY <1>1 DEF KbInv, NoPhantom, MidRead, Quiet
<1>3. LoadedCount'
  BY <1>1 DEF KbInv, LoadedCount, Quiet
<1>4. Indices' /\ InOrder'
  BY <1>1 DEF KbInv, Indices, InOrder
<1>5. Pending'
  BY <1>1 DEF KbInv, Pending, Quiet
<1> QED BY <1>2, <1>3, <1>4, <1>5 DEF KbInv

(* The initial state satisfies the invariant.                              *)
LEMMA KbInitInv == Init => KbInv
<1> SUFFICES ASSUME Init PROVE KbInv
  OBVIOUS
<1> USE KeyboardAssumption
<1>1. Taken = 0 /\ got = <<>> /\ typed = 0
  BY DEF Init, Taken
<1>2. KbTypeOK
  <2>1. EmptySlot \in Chars
    BY DEF EmptySlot, Chars
  <2>2. kb_buffer \in [0 .. Size - 1 -> Chars] /\ c \in Chars /\ got \in Seq(Chars)
    BY <2>1 DEF Init
  <2>3. /\ shift_pressed \in BOOLEAN /\ caps_lock \in BOOLEAN /\ held \subseteq ShiftKeys
        /\ overran \in BOOLEAN
    BY DEF Init
  <2> QED BY <2>2, <2>3 DEF Init, KbTypeOK
<1>3. NoStuckShift /\ LoadedCount
  BY DEF Init, NoStuckShift, LoadedCount
<1>4. NoPhantom
  BY <1>1 DEF Init, NoPhantom, MidRead
<1>5. Indices
  <2>1. (0 % Size) = 0
    OBVIOUS
  <2> QED BY <1>1, <2>1 DEF Init, Indices
<1>6. Pending /\ InOrder
  BY <1>1 DEF Init, Pending, InOrder
<1> QED BY <1>2, <1>3, <1>4, <1>5, <1>6 DEF KbInv

(* An accepted character goes to a slot nobody waits for, unless the ring  *)
(* overruns.                                                               *)
LEMMA KeyDownKeepsInv ==
  ASSUME KbInv, KeyDown
  PROVE  KbInv'
<1> USE KeyboardAssumption
<1> DEFINE new == [n |-> typed + 1, shifted |-> shift_pressed # caps_lock]
<1>1. /\ typed \in Nat /\ Taken \in Nat /\ lost \in Nat /\ kb_buf_count \in Nat
      /\ kb_buffer \in [0 .. Size - 1 -> Chars] /\ kb_buf_tail \in 0 .. Size - 1
  BY DEF KbInv, KbTypeOK, Taken
<1>2. /\ typed' = typed + 1 /\ typed < MaxKeys /\ Taken' = Taken /\ got' = got /\ c' = c /\ eax' = eax
      /\ kb_buf_head' = kb_buf_head /\ lost' = lost /\ kb_buf_count' = kb_buf_count + 1
      /\ kb_buf_count < Size
      /\ kb_buffer' = [kb_buffer EXCEPT ![kb_buf_tail] = new]
      /\ kb_buf_tail' = Succ(kb_buf_tail)
      /\ overran' = (overran \/ typed + 1 - Taken > Size)
  BY DEF KeyDown, HasRoom, reader, Taken
<1>3. pc' = Woken(pc) /\ pc \in {"idle", "test", "hlt", "halted", "store", "read", "advance"}
  BY DEF KeyDown, KbInv, KbTypeOK
<1>4. pc' = pc \/ (pc = "halted" /\ pc' = "test")
  BY <1>3 DEF Woken
<1>5. KbTypeOK'
  <2>1. new \in Chars
    BY <1>1, <1>2 DEF Chars
  <2>2. kb_buffer' \in [0 .. Size - 1 -> Chars]
    BY <1>1, <1>2, <2>1
  <2>3. kb_buf_tail' \in 0 .. Size - 1
    BY <1>1, <1>2 DEF Succ
  <2>4. overran' \in BOOLEAN
    BY <1>2
  <2>5. UNCHANGED <<shift_pressed, caps_lock, held>>
    BY DEF KeyDown, modifiers
  <2> QED BY <1>1, <1>2, <1>3, <1>4, <2>2, <2>3, <2>4, <2>5 DEF KbInv, KbTypeOK
<1>6. NoStuckShift'
  BY DEF KeyDown, modifiers, KbInv, NoStuckShift
<1>7. NoPhantom'
  BY <1>1, <1>2, <1>4 DEF KbInv, NoPhantom, MidRead
<1>8. LoadedCount'
  BY <1>1, <1>2, <1>4 DEF KbInv, LoadedCount, KbTypeOK
<1>9. Indices'
  <2>1. kb_buf_tail = (typed % Size)
    BY DEF KbInv, Indices
  <2>2. (((typed % Size) + 1) % Size) = ((typed + 1) % Size)
    BY <1>1, ModSucc
  <2> QED BY <1>2, <2>1, <2>2 DEF KbInv, Indices, Succ
<1>10. InOrder'
  BY <1>1, <1>2 DEF KbInv, InOrder
<1>11. Pending'
  <2> SUFFICES ASSUME ~overran' PROVE Pending'
    BY DEF Pending
  <2>0. ~overran /\ ~ (typed + 1 - Taken > Size)
    BY <1>2, Zenon
  <2>1. ~overran /\ typed + 1 - Taken <= Size
    BY <1>1, <2>0, KeyboardAssumption
  <2>2. pc' = "advance" => c'.n = Taken' + 1
    BY <1>2, <1>4, <2>1 DEF KbInv, Pending
  <2>3. ASSUME NEW n \in 1 .. MaxKeys, Taken < n, n <= typed + 1
        PROVE  kb_buffer'[(n - 1) % Size].n = n
    <3>1. ((n - 1) % Size) \in 0 .. Size - 1 /\ kb_buf_tail = (typed % Size)
      BY DivMod DEF KbInv, Indices
    <3>2. CASE n = typed + 1
      <4>1. ((n - 1) % Size) = kb_buf_tail
        BY <3>1, <3>2, <1>1
      <4>2. kb_buffer'[(n - 1) % Size] = new
        BY <4>1, <1>1, <1>2
      <4> QED BY <4>2, <3>2
    <3>3. CASE n <= typed
      <4>1. n - 1 \in Nat /\ n - 1 < typed /\ typed < (n - 1) + Size
        BY <3>3, <2>1, <2>3, <1>1
      <4>2. ((n - 1) % Size) # kb_buf_tail
        BY <4>1, <3>1, <1>1, ModFar
      <4>3. kb_buffer'[(n - 1) % Size] = kb_buffer[(n - 1) % Size]
        BY <4>2, <3>1, <1>1, <1>2
      <4>4. kb_buffer[(n - 1) % Size].n = n
        BY <3>3, <2>1, <2>3 DEF KbInv, Pending
      <4> QED BY <4>3, <4>4
    <3> QED BY <3>2, <3>3, <2>3, <1>1
  <2>4. typed' - Taken' <= Size
    <3>1. typed' = typed + 1 /\ Taken' = Taken
      BY <1>2
    <3> QED BY <3>1, <2>1, <1>1
  <2> QED BY <2>2, <2>3, <2>4, <1>2 DEF Pending
<1> QED BY <1>5, <1>6, <1>7, <1>8, <1>9, <1>10, <1>11 DEF KbInv

(* The count loaded is stored: what other steps added meanwhile is lost.   *)
LEMMA StoreCountKeepsInv ==
  ASSUME KbInv, StoreCount
  PROVE  KbInv'
<1> USE KeyboardAssumption
<1>1. /\ pc = "store" /\ pc' = "read" /\ kb_buf_count' = eax - 1
      /\ lost' = lost + (kb_buf_count - eax) /\ Taken' = Taken
      /\ UNCHANGED <<kb_buffer, kb_buf_head, kb_buf_tail, shift_pressed, caps_lock, held, eax, c,
                     got, typed, overran>>
  BY DEF StoreCount, Goto, modifiers, Taken
<1>2. /\ eax \in 1 .. Size /\ kb_buf_count \in eax .. Size /\ lost \in 0 .. MaxKeys
      /\ typed \in 0 .. MaxKeys /\ Taken \in Nat
  BY <1>1 DEF KbInv, KbTypeOK, LoadedCount, Taken
<1>3. NoPhantom'
  BY <1>1, <1>2 DEF KbInv, NoPhantom, MidRead
<1>4. lost' \in 0 .. MaxKeys
  BY <1>1, <1>2 DEF KbInv, NoPhantom, MidRead
<1>5. KbTypeOK'
  BY <1>1, <1>2, <1>4 DEF KbInv, KbTypeOK
<1>6. NoStuckShift' /\ LoadedCount' /\ Indices' /\ InOrder'
  BY <1>1 DEF KbInv, NoStuckShift, LoadedCount, Indices, InOrder
<1>7. Pending'
  BY <1>1 DEF KbInv, Pending
<1> QED BY <1>3, <1>5, <1>6, <1>7 DEF KbInv

(* The slot read holds the next character.                                 *)
LEMMA ReadCharKeepsInv ==
  ASSUME KbInv, ReadChar
  PROVE  KbInv'
<1> USE KeyboardAssumption
<1>1. /\ pc = "read" /\ pc' = "advance" /\ c' = kb_buffer[kb_buf_head] /\ Taken' = Taken
      /\ UNCHANGED <<kb_buffer, kb_buf_head, kb_buf_tail, kb_buf_count, shift_pressed, caps_lock,
                     held, eax, got, lost, typed, overran>>
  BY DEF ReadChar, Goto, ring, modifiers, Taken
<1>2. Taken \in Nat /\ typed \in 0 .. MaxKeys /\ Taken < typed
  BY <1>1 DEF KbInv, KbTypeOK, NoPhantom, Taken
<1>3. KbTypeOK'
  BY <1>1 DEF KbInv, KbTypeOK
<1>4. NoPhantom'
  BY <1>1 DEF KbInv, NoPhantom, MidRead
<1>5. NoStuckShift' /\ LoadedCount' /\ Indices' /\ InOrder'
  BY <1>1 DEF KbInv, NoStuckShift, LoadedCount, Indices, InOrder
<1>6. ~overran => c'.n = Taken + 1
  <2> DEFINE n == Taken + 1
  <2>1. n \in 1 .. MaxKeys /\ Taken < n /\ n <= typed /\ n - 1 = Taken
    BY <1>2
  <2>2. ~overran => kb_buffer[(n - 1) % Size].n = n
    BY <2>1 DEF KbInv, Pending
  <2> QED BY <1>1, <2>1, <2>2 DEF KbInv, Indices
<1>7. Pending'
  BY <1>1, <1>6 DEF KbInv, Pending
<1> QED BY <1>3, <1>4, <1>5, <1>7 DEF KbInv

(* The character read is delivered and the head follows.                   *)
LEMMA AdvanceHeadKeepsInv ==
  ASSUME KbInv, AdvanceHead
  PROVE  KbInv'
<1> USE KeyboardAssumption
<1>1. /\ pc = "advance" /\ pc' = "idle" /\ got' = Append(got, c)
      /\ kb_buf_head' = Succ(kb_buf_head)
      /\ UNCHANGED <<kb_buffer, kb_buf_tail, kb_buf_count, shift_pressed, caps_lock, held, eax, c,
                     lost, typed, overran>>
  BY DEF AdvanceHead, Goto, modifiers
<1>2. /\ got \in Seq(Chars) /\ c \in Chars /\ Taken \in Nat /\ typed \in 0 .. MaxKeys
      /\ kb_buf_head \in 0 .. Size - 1 /\ kb_buf_count \in 0 .. Size /\ lost \in 0 .. MaxKeys
  BY DEF KbInv, KbTypeOK, Taken
<1>3. Taken' = Taken + 1 /\ got' \in Seq(Chars)
  BY <1>1, <1>2 DEF Taken
<1>4. KbTypeOK'
  <2>1. kb_buf_head' \in 0 .. Size - 1
    BY <1>1, <1>2 DEF Succ
  <2> QED BY <1>1, <1>2, <1>3, <2>1 DEF KbInv, KbTypeOK
<1>5. NoPhantom'
  BY <1>1, <1>2, <1>3 DEF KbInv, NoPhantom, MidRead
<1>6. NoStuckShift' /\ LoadedCount'
  BY <1>1 DEF KbInv, NoStuckShift, LoadedCount
<1>7. Indices'
  <2>1. (((Taken % Size) + 1) % Size) = ((Taken + 1) % Size)
    BY <1>2, ModSucc
  <2> QED BY <1>1, <1>3, <2>1 DEF KbInv, Indices, Succ
<1>8. InOrder'
  <2>1. SUFFICES ASSUME ~overran, NEW i \in 1 .. Taken + 1
                 PROVE  got'[i].n = i
    BY <1>1, <1>3 DEF InOrder
  <2>2. CASE i = Taken + 1
    <3>1. got'[i] = c
      BY <1>1, <1>2, <2>2 DEF Taken
    <3>2. c.n = Taken + 1
      BY <2>1, <1>1 DEF KbInv, Pending
    <3> QED BY <3>1, <3>2, <2>2
  <2>3. CASE i \in 1 .. Taken
    <3>1. got'[i] = got[i]
      BY <1>1, <1>2, <2>3 DEF Taken
    <3> QED BY <3>1, <2>1, <2>3 DEF KbInv, InOrder
  <2> QED BY <2>2, <2>3, <1>2
<1>9. Pending'
  BY <1>1, <1>2, <1>3 DEF KbInv, Pending
<1> QED BY <1>4, <1>5, <1>6, <1>7, <1>8, <1>9 DEF KbInv

-----------------------------------------------------------------------------
(* Every step of the handlers and of keyboard_getchar keeps the invariant. *)
LEMMA KbNextInv == KbInv /\ [Next]_vars => KbInv'
<1> SUFFICES ASSUME KbInv, [Next]_vars PROVE KbInv'
  OBVIOUS
<1> USE KeyboardAssumption
<1>0. pc \in {"idle", "test", "hlt", "halted", "store", "read", "advance"}
  BY DEF KbInv, KbTypeOK
<1>1. ASSUME NEW k \in ShiftKeys, ShiftDown(k) PROVE KbInv'
  <2>1. Quiet
    BY <1>0, <1>1 DEF ShiftDown, Quiet, Woken
  <2>2. KbTypeOK'
    BY <1>0, <1>1 DEF ShiftDown, ring, reader, Woken, KbInv, KbTypeOK
  <2>3. NoStuckShift'
    BY <1>1 DEF ShiftDown, NoStuckShift
  <2> QED BY <2>1, <2>2, <2>3, QuietKeepsInv
<1>2. ASSUME NEW k \in ShiftKeys, ShiftUp(k) PROVE KbInv'
  <2>1. Quiet
    BY <1>0, <1>2 DEF ShiftUp, Quiet, Woken
  <2>2. KbTypeOK'
    BY <1>0, <1>2 DEF ShiftUp, ring, reader, Woken, KbInv, KbTypeOK
  <2>3. NoStuckShift'
    BY <1>2 DEF ShiftUp, NoStuckShift
  <2> QED BY <2>1, <2>2, <2>3, QuietKeepsInv
<1>3. CASE CapsDown
  <2>1. Quiet
    BY <1>0, <1>3 DEF CapsDown, Quiet, Woken
  <2>2. KbTypeOK'
    BY <1>0, <1>3 DEF CapsDown, ring, reader, Woken, KbInv, KbTypeOK
  <2>3. NoStuckShift'
    BY <1>3 DEF CapsDown, NoStuckShift, KbInv
  <2> QED BY <2>1, <2>2, <2>3, QuietKeepsInv
<1>4. CASE KeyDropped \/ TimerIRQ \/ Call \/ Hlt \/ UNCHANGED vars
  <2>1. Quiet
    BY <1>0, <1>4 DEF KeyDropped, TimerIRQ, Call, Hlt, Goto, vars, Quiet, Woken
  <2>2. KbTypeOK'
    BY <1>0, <1>4 DEF KeyDropped, TimerIRQ, Call, Hlt, Goto, vars, ring, modifiers, reader, Woken,
                      KbInv, KbTypeOK
  <2>3. NoStuckShift'
    BY <1>4 DEF KeyDropped, TimerIRQ, Call, Hlt, vars, modifiers, NoStuckShift, KbInv
  <2> QED BY <2>1, <2>2, <2>3, QuietKeepsInv
<1>5. CASE KeyDown
  BY <1>5, KeyDownKeepsInv
<1>6. CASE TestCount
  <2>1. /\ pc = "test" /\ pc' = (IF kb_buf_count = 0 THEN "hlt" ELSE "store") /\ eax' = kb_buf_count
        /\ Taken' = Taken
        /\ UNCHANGED <<kb_buffer, kb_buf_head, kb_buf_tail, kb_buf_count, shift_pressed, caps_lock,
                       held, c, got, lost, typed, overran>>
    BY <1>6 DEF TestCount, Goto, ring, modifiers, Taken
  <2>2. Taken \in Nat /\ typed \in Nat /\ lost \in Nat /\ kb_buf_count \in 0 .. Size
    BY DEF KbInv, KbTypeOK, Taken
  <2>3. KbTypeOK'
    BY <2>1 DEF KbInv, KbTypeOK
  <2>4. NoPhantom' /\ LoadedCount'
    BY <2>1, <2>2 DEF KbInv, NoPhantom, MidRead, LoadedCount
  <2>5. NoStuckShift' /\ Indices' /\ InOrder' /\ Pending'
    BY <2>1 DEF KbInv, NoStuckShift, Indices, InOrder, Pending
  <2> QED BY <2>3, <2>4, <2>5 DEF KbInv
<1>7. CASE StoreCount
  BY <1>7, StoreCountKeepsInv
<1>8. CASE ReadChar
  BY <1>8, ReadCharKeepsInv
<1>9. CASE AdvanceHead
  BY <1>9, AdvanceHeadKeepsInv
<1> QED BY <1>1, <1>2, <1>3, <1>4, <1>5, <1>6, <1>7, <1>8, <1>9
        DEF Next, KeyboardIRQ, Getchar

-----------------------------------------------------------------------------
(* The invariant of the keyboard driver holds in every reachable state.    *)
THEOREM KeyboardInvariant == Spec => []KbInv
  BY KbInitInv, KbNextInv, PTL DEF Spec

(* keyboard_getchar invents no character, and the count is short of the    *)
(* characters pending by exactly the increments its race with the handler  *)
(* has lost.                                                               *)
THEOREM NothingInvented == Spec => []NoPhantom
<1>1. KbInv => NoPhantom
  BY DEF KbInv
<1> QED BY <1>1, KeyboardInvariant, PTL

(* Characters come out of kb_buffer in the order typed until it overruns.  *)
THEOREM CharactersInOrder == Spec => []InOrder
<1>1. KbInv => InOrder
  BY DEF KbInv
<1> QED BY <1>1, KeyboardInvariant, PTL

(* shift_pressed is never left set with no shift key down.                 *)
THEOREM ShiftNeverStuck == Spec => []NoStuckShift
<1>1. KbInv => NoStuckShift
  BY DEF KbInv
<1> QED BY <1>1, KeyboardInvariant, PTL
=============================================================================
