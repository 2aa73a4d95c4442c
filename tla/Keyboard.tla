------------------------------ MODULE Keyboard ------------------------------
(***************************************************************************)
(* The keyboard driver of drivers/keyboard.c: the interrupt handler, which *)
(* fills a ring of 256 characters, and keyboard_getchar, which drains it.  *)
(*                                                                         *)
(* The handler runs behind an interrupt gate and is one step.              *)
(* keyboard_getchar runs with interrupts enabled, locks nothing and is one *)
(* step per access to the shared ring.  The ring is neither volatile nor   *)
(* atomic; the order of the accesses, and the use of the count loaded by   *)
(* the while condition for the decrement, are those of the code gcc -O2    *)
(* (the Makefile's flags) generates:                                       *)
(*                                                                         *)
(*   load count; store count - 1; load kb_buffer[head]; store head + 1     *)
(*                                                                         *)
(* Characters are named by the order in which the handler accepted them,   *)
(* and by the table (plain or shifted) they were looked up in.             *)
(***************************************************************************)
EXTENDS Integers, Sequences

CONSTANTS
  Size,            \* slots of kb_buffer (256)
  MaxKeys,         \* bound: characters accepted in a behaviour
  ShiftKeys        \* the left and the right shift key

ASSUME KeyboardAssumption ==
  /\ Size \in Nat \ {0}
  /\ MaxKeys \in Nat

VARIABLES
  kb_buffer,
  kb_buf_head,
  kb_buf_tail,
  kb_buf_count,
  shift_pressed,
  caps_lock,
  held,            \* the shift keys that are down
  pc,              \* "idle" or a step of keyboard_getchar
  eax,             \* the register that holds the loaded count
  c,               \* `c` of keyboard_getchar
  typed,           \* history: characters accepted by the handler
  got,             \* history: characters keyboard_getchar returned
  lost,            \* history: increments of the count that were overwritten
  overran          \* history: more than Size characters have been pending

ring == <<kb_buffer, kb_buf_head, kb_buf_tail, kb_buf_count>>
modifiers == <<shift_pressed, caps_lock, held>>
reader == <<eax, c, got, lost>>
vars == <<ring, modifiers, pc, reader, typed, overran>>

EmptySlot == [n |-> 0, shifted |-> FALSE]
Taken == Len(got)

(* The index arithmetic of kb_buffer.                                      *)
Succ(i) == (i + 1) % Size
MidRead == IF pc \in {"read", "advance"} THEN 1 ELSE 0

Init ==
  /\ kb_buffer = [i \in 0 .. Size - 1 |-> EmptySlot]
  /\ kb_buf_head = 0 /\ kb_buf_tail = 0 /\ kb_buf_count = 0
  /\ shift_pressed = FALSE /\ caps_lock = FALSE /\ held = {}
  /\ pc = "idle" /\ eax = 0 /\ c = EmptySlot
  /\ typed = 0 /\ got = <<>> /\ lost = 0 /\ overran = FALSE

-----------------------------------------------------------------------------
(* keyboard_handler.  Any interrupt ends a hlt, and the loop tests again.  *)
(* Mutant: the count is not tested again after the hlt.                    *)
WokenUntested(p) == IF p = "halted" THEN "store" ELSE p

Woken(p) == IF p = "halted" THEN "test" ELSE p

ShiftDown(k) ==
  /\ held' = held \cup {k}
  /\ shift_pressed' = TRUE
  /\ pc' = Woken(pc)
  /\ UNCHANGED <<ring, caps_lock, reader, typed, overran>>

(* Mutant: the release code is not recognised.                             *)
ShiftUpIgnored(k) ==
  /\ k \in held
  /\ held' = held \ {k}
  /\ pc' = Woken(pc)
  /\ UNCHANGED <<ring, shift_pressed, caps_lock, reader, typed, overran>>

(* Either release code clears the flag, whichever shift key is still down. *)
ShiftUp(k) ==
  /\ k \in held
  /\ held' = held \ {k}
  /\ shift_pressed' = FALSE
  /\ pc' = Woken(pc)
  /\ UNCHANGED <<ring, caps_lock, reader, typed, overran>>

CapsDown ==
  /\ caps_lock' = ~caps_lock
  /\ pc' = Woken(pc)
  /\ UNCHANGED <<ring, shift_pressed, held, reader, typed, overran>>

(* A release code, a key outside the tables or with a 0 in them, or a      *)
(* character for which the ring has no room: nothing is stored.            *)
KeyDropped ==
  /\ pc' = Woken(pc)
  /\ UNCHANGED <<ring, modifiers, reader, typed, overran>>

HasRoom == kb_buf_count < Size

KeyDown ==
  /\ typed < MaxKeys
  /\ HasRoom
  /\ kb_buffer' = [kb_buffer EXCEPT ![kb_buf_tail] =
                     [n |-> typed + 1, shifted |-> shift_pressed # caps_lock]]
  /\ kb_buf_tail' = Succ(kb_buf_tail)
  /\ kb_buf_count' = kb_buf_count + 1
  /\ typed' = typed + 1
  /\ overran' = (overran \/ typed + 1 - Taken > Size)
  /\ pc' = Woken(pc)
  /\ UNCHANGED <<kb_buf_head, modifiers, reader>>

KeyboardIRQ ==
  \/ \E k \in ShiftKeys : ShiftDown(k) \/ ShiftUp(k)
  \/ CapsDown
  \/ KeyDropped
  \/ KeyDown

(* The timer shares the CPU: its interrupt ends a hlt too.                 *)
(* Mutant: the timer line is masked.                                       *)
TimerMasked ==
  FALSE /\ UNCHANGED vars

TimerIRQ ==
  /\ pc = "halted"
  /\ pc' = Woken(pc)
  /\ UNCHANGED <<ring, modifiers, reader, typed, overran>>

-----------------------------------------------------------------------------
(* keyboard_getchar.                                                       *)
Goto(p, q) == pc = p /\ pc' = q

Call ==
  /\ Goto("idle", "test")
  /\ UNCHANGED <<ring, modifiers, reader, typed, overran>>

(* while (kb_buf_count == 0): an interrupt may come before the hlt.        *)
TestCount ==
  /\ Goto("test", IF kb_buf_count = 0 THEN "hlt" ELSE "store")
  /\ eax' = kb_buf_count
  /\ UNCHANGED <<ring, modifiers, c, got, lost, typed, overran>>

Hlt ==
  /\ Goto("hlt", "halted")
  /\ UNCHANGED <<ring, modifiers, reader, typed, overran>>

(* kb_buf_count--, from the value loaded by TestCount.                     *)
StoreCount ==
  /\ Goto("store", "read")
  /\ kb_buf_count' = eax - 1
  /\ lost' = lost + (kb_buf_count - eax)
  /\ UNCHANGED <<kb_buffer, kb_buf_head, kb_buf_tail, modifiers, eax, c, got, typed, overran>>

(* Mutant: the head is advanced before the slot is read.                   *)
ReadCharNext ==
  /\ Goto("read", "advance")
  /\ c' = kb_buffer[Succ(kb_buf_head)]
  /\ UNCHANGED <<ring, modifiers, eax, got, lost, typed, overran>>

ReadChar ==
  /\ Goto("read", "advance")
  /\ c' = kb_buffer[kb_buf_head]
  /\ UNCHANGED <<ring, modifiers, eax, got, lost, typed, overran>>

AdvanceHead ==
  /\ Goto("advance", "idle")
  /\ kb_buf_head' = Succ(kb_buf_head)
  /\ got' = Append(got, c)
  /\ UNCHANGED <<kb_buffer, kb_buf_tail, kb_buf_count, modifiers, eax, c, lost, typed, overran>>

Getchar == Call \/ TestCount \/ Hlt \/ StoreCount \/ ReadChar \/ AdvanceHead

Next == KeyboardIRQ \/ TimerIRQ \/ Getchar

Spec == Init /\ [][Next]_vars

(* The reader is the only thread and the timer fires at 100 Hz.            *)
FairSpec == Spec /\ WF_vars(Getchar) /\ WF_vars(TimerIRQ)

-----------------------------------------------------------------------------
(* The ring's indices stay inside kb_buffer and the count inside its       *)
(* capacity.                                                               *)
Chars == [n : 0 .. MaxKeys, shifted : BOOLEAN]

KbTypeOK ==
  /\ kb_buffer \in [0 .. Size - 1 -> Chars]
  /\ kb_buf_head \in 0 .. Size - 1
  /\ kb_buf_tail \in 0 .. Size - 1
  /\ kb_buf_count \in 0 .. Size
  /\ shift_pressed \in BOOLEAN /\ caps_lock \in BOOLEAN
  /\ held \subseteq ShiftKeys
  /\ pc \in {"idle", "test", "hlt", "halted", "store", "read", "advance"}
  /\ eax \in 0 .. Size
  /\ c \in Chars
  /\ typed \in 0 .. MaxKeys
  /\ got \in Seq(Chars)
  /\ lost \in 0 .. MaxKeys
  /\ overran \in BOOLEAN

(* keyboard_getchar never takes a slot the handler has not filled since    *)
(* the slot was last taken, and the count falls short of the characters    *)
(* pending by exactly the increments lost to the race, so that the handler *)
(* accepts no more than that many beyond the capacity.                     *)
NoPhantom ==
  /\ pc \in {"store", "read", "advance"} => Taken < typed
  /\ kb_buf_count + MidRead + lost = typed - Taken

(* Until more characters are pending than the ring has slots, they come    *)
(* out in the order they were typed, each exactly once.                    *)
InOrder ==
  ~overran => \A i \in 1 .. Taken : got[i].n = i

(* With no shift key down the driver is not left in the shifted state.     *)
NoStuckShift ==
  shift_pressed => held # {}

(* A reader that keeps asking gets every character typed, except that it   *)
(* stays behind by one for every increment lost to the race.               *)
LagIsLost ==
  \A n \in 1 .. MaxKeys : (typed >= n) ~> (Taken + lost >= n)

=============================================================================
