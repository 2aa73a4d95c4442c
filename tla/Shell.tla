------------------------------- MODULE Shell -------------------------------
(***************************************************************************)
(* shell_execute of kernel/shell.c and what it runs: the tokeniser, which  *)
(* cuts the line in place, the commands, and timer_sleep of                *)
(* drivers/timer.c, where the shell shares timer_ticks with the timer's    *)
(* interrupt.  How a line is typed is the subject of Console.              *)
(*                                                                         *)
(* line is the array of MAX_LINE characters of shell_run; shell_getline    *)
(* leaves what lies behind the terminator as it was.  args are positions   *)
(* in it.  What commands print is left out.                                *)
(***************************************************************************)
EXTENDS Integers, Sequences

CONSTANTS
  MAX_LINE, MAX_ARGS,
  Inputs,          \* the lines shell_getline returns
  NameOf,          \* the command a word spells, for the words that spell one
  DigitOf,         \* the value of the characters that are digits
  WordLimit,       \* 2^32
  PerSecond,       \* 1000
  timer_frequency  \* 100

NUL == "NUL"
Blank == " "
Minus == "-"
Plus == "+"

(* The commands of shell.c.                                                *)
commands ==
  {"help", "clear", "echo", "ls", "cd", "mkdir", "rm", "cat", "touch", "cp", "mv", "pwd",
   "whoami", "uname", "date", "ps", "kill", "free", "df", "mount", "umount", "reboot",
   "shutdown", "apt-get", "dpkg", "systemctl", "man", "history", "hostname", "ifconfig",
   "ping", "wget", "curl", "ssh", "useradd", "passwd", "su", "chmod", "chown", "tar", "gzip",
   "find", "grep", "wc", "head", "tail", "sort", "uniq", "diff", "ln", "which", "whereis",
   "env", "export", "source", "alias", "unalias", "type", "exit", "sleep", "true", "false"}

ASSUME ShellAssumption ==
  /\ MAX_LINE \in Nat \ {0} /\ MAX_ARGS \in Nat \ {0}
  /\ \A s \in Inputs : /\ s \in Seq(STRING) /\ Len(s) \in 1 .. MAX_LINE - 1
                       /\ \A k \in DOMAIN s : s[k] # NUL
  /\ \A c \in DOMAIN DigitOf : DigitOf[c] \in 0 .. 9
  /\ \A w \in DOMAIN NameOf : NameOf[w] \in commands
  /\ WordLimit \in Nat \ {0} /\ PerSecond \in Nat \ {0} /\ timer_frequency \in Nat \ {0}

VARIABLES
  line, p, args,
  pc,              \* "prompt", "tokenise", "run", "test", "hlt", "halted" (in
                   \* timer_sleep), "terminated" or "reset"
  timer_ticks, target,
  ticked,          \* the timer has fired since the shell's last step
  typed,           \* history: the line as it was typed
  asked, began, elapsed  \* history: the seconds asked for, timer_ticks when
                   \* the sleep began and the ticks since, up to WordLimit

shell == <<line, p, args, typed>>
timer == <<timer_ticks, target, ticked, asked, began, elapsed>>
vars == <<shell, pc, timer>>

Positions == 0 .. MAX_LINE - 1

Init ==
  /\ line = [k \in Positions |-> NUL]
  /\ p = 0 /\ args = <<>> /\ typed = <<>>
  /\ pc = "prompt"
  /\ timer_ticks = 0 /\ target = 0 /\ ticked = FALSE
  /\ asked = 0 /\ began = 0 /\ elapsed = 0

-----------------------------------------------------------------------------
(* shell_execute returns and its locals are gone, with the histories of    *)
(* the call.                                                               *)
Return ==
  /\ p' = 0 /\ args' = <<>> /\ typed' = <<>>
  /\ target' = 0 /\ asked' = 0 /\ began' = 0 /\ elapsed' = 0
  /\ UNCHANGED line

(* shell_getline has returned line s.                                      *)
Getline(s) ==
  /\ pc = "prompt"
  /\ line' = [k \in Positions |-> IF k < Len(s) THEN s[k + 1]
                                  ELSE IF k = Len(s) THEN NUL ELSE line[k]]
  /\ p' = 0 /\ args' = <<>> /\ typed' = s
  /\ pc' = "tokenise"
  /\ ticked' = FALSE
  /\ UNCHANGED <<timer_ticks, target, asked, began, elapsed>>

(* The first position from k on whose character is in, or not in, C.       *)
First(C, k) == CHOOSE n \in Positions : n >= k /\ line[n] \in C /\
                 \A m \in Positions : k <= m /\ m < n => line[m] \notin C
FirstNot(C, k) == CHOOSE n \in Positions : n >= k /\ line[n] \notin C /\
                    \A m \in Positions : k <= m /\ m < n => line[m] \in C

(* The condition of the tokeniser's loop.                                  *)
MoreArgs == line[p] # NUL /\ Len(args) < MAX_ARGS - 1

(* Mutant: the word is not terminated.                                     *)
CutNothing(e) == UNCHANGED line /\ p' = IF line[e] = NUL THEN e ELSE e + 1

(* The end of a word: unless it is the line's, a terminator replaces the   *)
(* blank.                                                                  *)
Cut(e) ==
  IF line[e] = NUL THEN UNCHANGED line /\ p' = e
  ELSE line' = [line EXCEPT ![e] = NUL] /\ p' = e + 1

(* One turn of the tokeniser's loop.                                       *)
Tokenise ==
  /\ pc = "tokenise" /\ MoreArgs
  /\ LET start == FirstNot({Blank}, p)
     IN  IF line[start] = NUL
           THEN p' = start /\ UNCHANGED <<line, args>>
           ELSE args' = Append(args, start) /\ Cut(First({Blank, NUL}, start))
  /\ ticked' = FALSE
  /\ UNCHANGED <<pc, typed, timer_ticks, target, asked, began, elapsed>>

EndTokenise ==
  /\ pc = "tokenise" /\ ~MoreArgs
  /\ IF args = <<>> THEN pc' = "prompt" /\ Return
     ELSE pc' = "run" /\ UNCHANGED <<shell, target, asked, began, elapsed>>
  /\ ticked' = FALSE
  /\ UNCHANGED timer_ticks

-----------------------------------------------------------------------------
(* The string at position k.                                               *)
StringAt(k) == LET e == First({NUL}, k) IN [n \in 1 .. e - k |-> line[k + n - 1]]

Arg(n) == StringAt(args[n])
Find(s) == IF s \in DOMAIN NameOf THEN NameOf[s] ELSE "not found"
Command == Find(Arg(1))

(* The operands without which a command prints a complaint and returns 1.  *)
Operands(cmd) ==
  CASE cmd \in {"cp", "mv"} -> 2
    [] cmd \in {"mkdir", "rm", "cat", "touch", "kill", "apt-get", "man", "sleep"} -> 1
    [] OTHER -> 0
Missing(cmd) == Len(args) - 1 < Operands(cmd)

(* The commands that write to a device or end the shell; the others print  *)
(* and return.                                                             *)
Reboots(cmd) == cmd \in {"reboot", "shutdown"}
ReturnsMinusOne(cmd) == cmd = "exit"
Sleeps(cmd) == cmd = "sleep" /\ ~Missing(cmd)

(* atoi, as an unsigned word.  The digits at the front of a string, and    *)
(* their value.                                                            *)
DigitRun(s) == CHOOSE k \in 0 .. Len(s) :
                 /\ \A n \in 1 .. k : s[n] \in DOMAIN DigitOf
                 /\ k < Len(s) => s[k + 1] \notin DOMAIN DigitOf
Digits(s) ==
  LET value[k \in 0 .. DigitRun(s)] ==
        IF k = 0 THEN 0 ELSE (10 * value[k - 1] + DigitOf[s[k]]) % WordLimit
  IN  value[DigitRun(s)]
atoi(s) ==
  CASE s[1] = Minus -> (WordLimit - Digits(Tail(s))) % WordLimit
    [] s[1] = Plus -> Digits(Tail(s))
    [] OTHER -> Digits(s)

(* Mutant: the seconds are taken for milliseconds.                         *)
SleepTargetUnscaled(n) == (timer_ticks + (n * timer_frequency) \div PerSecond) % WordLimit

(* cmd_sleep_cmd and the first line of timer_sleep, in 32-bit arithmetic.  *)
SleepTarget(n) ==
  LET ms == (n * PerSecond) % WordLimit
  IN  (timer_ticks + ((ms * timer_frequency) % WordLimit) \div PerSecond) % WordLimit

(* The command found for the first word, if any, runs.                     *)
Run ==
  /\ pc = "run"
  /\ IF Sleeps(Command)
       THEN /\ pc' = "test"
            /\ target' = SleepTarget(atoi(Arg(2)))
            /\ asked' = atoi(Arg(2)) /\ began' = timer_ticks /\ elapsed' = 0
            /\ UNCHANGED shell
       ELSE /\ Return
            /\ pc' \in IF Reboots(Command) THEN {"prompt", "reset"}
                       ELSE IF ReturnsMinusOne(Command) THEN {"terminated"}
                       ELSE {"prompt"}
  /\ ticked' = FALSE
  /\ UNCHANGED timer_ticks

(* The loop of timer_sleep: an interrupt may come before the hlt.          *)
TestTicks ==
  /\ pc = "test"
  /\ IF timer_ticks < target
       THEN pc' = "hlt" /\ UNCHANGED <<shell, target, asked, began, elapsed>>
       ELSE pc' = "prompt" /\ Return
  /\ ticked' = FALSE
  /\ UNCHANGED timer_ticks

Hlt ==
  /\ pc = "hlt"
  /\ pc' = "halted"
  /\ ticked' = FALSE
  /\ UNCHANGED <<shell, timer_ticks, target, asked, began, elapsed>>

(* Mutant: the interrupt does not end the hlt.                             *)
WokenNever(q) == q

Woken(q) == IF q = "halted" THEN "test" ELSE q

Waits == pc \in {"prompt", "halted", "terminated"}

(* timer_handler.  Interrupts are 10 ms apart: the shell takes a step      *)
(* between two of them, unless it waits for one or for the keyboard.       *)
Tick ==
  /\ pc # "reset" /\ (ticked => Waits)
  /\ timer_ticks' = (timer_ticks + 1) % WordLimit
  /\ elapsed' = IF pc \in {"test", "hlt", "halted"} /\ elapsed < WordLimit
                  THEN elapsed + 1 ELSE elapsed
  /\ ticked' = (pc \notin {"prompt", "terminated"})
  /\ pc' = Woken(pc)
  /\ UNCHANGED <<shell, target, asked, began>>

(* A key ends the hlt too.                                                 *)
KeyIRQ ==
  /\ pc = "halted"
  /\ pc' = Woken(pc)
  /\ UNCHANGED <<shell, timer>>

(* The keyboard controller resets the processor and the kernel boots.      *)
Restart ==
  /\ pc = "reset"
  /\ pc' = "prompt"
  /\ timer_ticks' = 0 /\ ticked' = FALSE
  /\ Return

Step == Tokenise \/ EndTokenise \/ Run \/ TestTicks \/ Hlt

Next == (\E s \in Inputs : Getline(s)) \/ Step \/ Tick \/ KeyIRQ \/ Restart

(* The shell is the only thread, and the timer keeps firing.               *)
Spec == Init /\ [][Next]_vars /\ WF_vars(Step) /\ WF_vars(Tick)

-----------------------------------------------------------------------------

(* Where words start in the line that was typed.                           *)
Starts == { k \in 1 .. Len(typed) : typed[k] # Blank /\ (k > 1 => typed[k - 1] = Blank) }
IsWord(s, k) ==
  /\ k + Len(s) - 1 <= Len(typed) /\ s = SubSeq(typed, k, k + Len(s) - 1)
  /\ \A n \in DOMAIN s : s[n] # Blank
  /\ k + Len(s) <= Len(typed) => typed[k + Len(s)] = Blank

(* The commands see the words of the line: the first MAX_ARGS - 1 of them, *)
(* in order, none skipped, split or run together, whatever the blanks and  *)
(* whatever an earlier line left behind; the null after them fits.         *)
ArgsAreWords ==
  pc = "run" =>
    /\ Len(args) < MAX_ARGS
    /\ \A n \in DOMAIN args : args[n] + 1 \in Starts /\ IsWord(Arg(n), args[n] + 1)
    /\ \A m, n \in DOMAIN args : m < n => args[m] < args[n]
    /\ \A k \in Starts : (\E n \in DOMAIN args : args[n] + 1 = k)
                         \/ (Len(args) = MAX_ARGS - 1 /\ k > args[Len(args)] + 1)

(* timer_sleep returns after the ticks asked for, or one more when the     *)
(* last one came between the test and the hlt, provided the milliseconds,  *)
(* their product with the frequency and the target fit in 32 bits and the  *)
(* target is not their largest value.                                      *)
SleepExact ==
  [][LET due == asked * timer_frequency
     IN  /\ pc = "test" /\ pc' = "prompt"
         /\ asked * PerSecond * timer_frequency < WordLimit
         /\ began + due < WordLimit - 1
         => elapsed - due \in {0, 1}]_vars

(* Every command comes back to the prompt or ends the shell, a sleep too,  *)
(* except one whose target is the largest value of the counter: when the   *)
(* tick that reaches it comes between the test and the hlt, the next one   *)
(* wraps the counter and the sleep goes round again.                       *)
BackToPrompt ==
  []<>(pc \in {"prompt", "terminated", "reset"}) \/ <>[](target = WordLimit - 1)
=============================================================================
