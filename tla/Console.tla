------------------------------ MODULE Console ------------------------------
(***************************************************************************)
(* The console session of kernel/shell.c on top of the terminal of         *)
(* drivers/vga.c: shell_run prompts, shell_getline reads and echoes a line *)
(* and remembers it, and the command prints its output.                    *)
(*                                                                         *)
(* shell_getline is one step per character keyboard_getchar returns; the   *)
(* characters are any of those the keyboard tables hold.  The line is the  *)
(* first i characters of `line`.  vga_puts, too, is one step per           *)
(* character.  Which command runs, and its text, is any of Outputs;        *)
(* hist_idx is written and never read, and is left out.                    *)
(***************************************************************************)
EXTENDS Vga

CONSTANTS
  Letters,         \* the printable characters of the keyboard tables
  Prompt,          \* "root@vaelen:~# "
  Outputs,         \* what commands print, and shell_run before the loop
  MAX_LINE,
  MAX_HISTORY,
  MaxLines         \* bound: non-empty lines entered in a behaviour

ASSUME ConsoleAssumption ==
  /\ MAX_LINE \in Nat \ {0}
  /\ MAX_HISTORY \in Nat \ {0}
  /\ MaxLines \in Nat
  /\ Letters \cap ControlCharacters = {}
  /\ Len(Prompt) \in Nat
  /\ \A k \in 1 .. Len(Prompt) : Prompt[k] \notin ControlCharacters

VARIABLES
  screen,
  line,            \* the characters of buf below i
  history,
  hist_count,
  pc,              \* "prompt", "getline", "execute", "output", "farewell" or
                   \* "terminated"
  printed,         \* the characters of the prompt that are on the screen
  text,            \* what is left of the output being printed
  swallowed,       \* history: backspaces of this line the terminal ignored
  entered          \* history: the lines ended with a newline

vars == <<screen, line, history, hist_count, pc, printed, text, swallowed, entered>>

NoLine == <<>>

Init ==
  /\ screen = VgaInit
  /\ line = NoLine
  /\ history = [k \in 0 .. MAX_HISTORY - 1 |-> NoLine]
  /\ hist_count = 0
  /\ pc = "output"
  /\ printed = 0
  /\ text \in Outputs
  /\ swallowed = 0
  /\ entered = <<>>

-----------------------------------------------------------------------------
(* shell_run prints the prompt ...                                         *)
PrintPrompt ==
  /\ pc = "prompt" /\ printed < Len(Prompt)
  /\ screen' = PutChar(screen, Prompt[printed + 1])
  /\ printed' = printed + 1
  /\ UNCHANGED <<line, history, hist_count, pc, text, swallowed, entered>>

(* ... and shell_getline starts.                                           *)
StartLine ==
  /\ pc = "prompt" /\ printed = Len(Prompt)
  /\ line' = NoLine
  /\ swallowed' = 0
  /\ printed' = 0
  /\ pc' = "getline"
  /\ UNCHANGED <<screen, history, hist_count, text, entered>>

(* The while condition of shell_getline, tested after every character.     *)
LineFull(s) == Len(s) >= MAX_LINE - 1
Reading == pc = "getline" /\ ~LineFull(line)

(* A full line is returned as it is, with no newline and unremembered.     *)
ReturnFull ==
  /\ pc = "getline" /\ LineFull(line)
  /\ pc' = "execute"
  /\ UNCHANGED <<screen, line, history, hist_count, printed, text, swallowed, entered>>

Letter(c) ==
  /\ Reading
  /\ line' = Append(line, c)
  /\ screen' = PutChar(screen, c)
  /\ UNCHANGED <<history, hist_count, pc, printed, text, swallowed, entered>>

(* Mutant: a backspace on the empty line is echoed.                        *)
BackspaceAlways ==
  /\ Reading
  /\ line' = IF line = NoLine THEN line ELSE SubSeq(line, 1, Len(line) - 1)
  /\ swallowed' = swallowed + (IF screen.x = 0 THEN 1 ELSE 0)
  /\ screen' = PutChar(screen, Backspace)
  /\ UNCHANGED <<history, hist_count, pc, printed, text, entered>>

(* The terminal does not step back to the row above: at column 0 the line  *)
(* loses a character and the screen keeps it.                              *)
BackspaceKey ==
  /\ Reading /\ Len(line) > 0
  /\ line' = SubSeq(line, 1, Len(line) - 1)
  /\ swallowed' = swallowed + (IF screen.x = 0 THEN 1 ELSE 0)
  /\ screen' = PutChar(screen, Backspace)
  /\ UNCHANGED <<history, hist_count, pc, printed, text, entered>>

(* A backspace on the empty line, or a tab.                                *)
IgnoredKey ==
  /\ Reading
  /\ UNCHANGED vars

(* Mutant: the count is incremented before the slot is chosen.             *)
RememberNext(s) ==
  /\ history' = [history EXCEPT ![(hist_count + 1) % MAX_HISTORY] = s]
  /\ hist_count' = hist_count + 1

Remember(s) ==
  /\ history' = [history EXCEPT ![hist_count % MAX_HISTORY] = s]
  /\ hist_count' = hist_count + 1

EnterKey ==
  /\ Reading
  /\ screen' = PutChar(screen, Newline)
  /\ IF line = NoLine
       THEN pc' = "prompt" /\ UNCHANGED <<history, hist_count, entered>>
       ELSE /\ hist_count < MaxLines
            /\ Remember(line)
            /\ entered' = Append(entered, line)
            /\ pc' = "execute"
  /\ UNCHANGED <<line, printed, text, swallowed>>

(* shell_execute: the command clears the screen (cmd_clear), or prints;    *)
(* after cmd_exit shell_run prints the last text.                          *)
Execute ==
  /\ pc = "execute"
  /\ \/ screen' = Clear(screen) /\ pc' = "prompt" /\ UNCHANGED text
     \/ text' \in Outputs /\ pc' \in {"output", "farewell"} /\ UNCHANGED screen
  /\ UNCHANGED <<line, history, hist_count, printed, swallowed, entered>>

(* vga_puts.                                                               *)
Output ==
  /\ pc \in {"output", "farewell"}
  /\ IF text # <<>>
       THEN screen' = PutChar(screen, Head(text)) /\ text' = Tail(text) /\ UNCHANGED pc
       ELSE /\ pc' = IF pc = "output" THEN "prompt" ELSE "terminated"
            /\ UNCHANGED <<screen, text>>
  /\ UNCHANGED <<line, history, hist_count, printed, swallowed, entered>>

(* kernel_main's last loop.                                                *)
Terminated == pc = "terminated" /\ UNCHANGED vars

Next ==
  \/ PrintPrompt \/ StartLine \/ ReturnFull
  \/ \E c \in Letters : Letter(c)
  \/ BackspaceKey \/ IgnoredKey \/ EnterKey
  \/ Execute \/ Output \/ Terminated

Spec == Init /\ [][Next]_vars

-----------------------------------------------------------------------------
IsLine(s) == s \in Seq(Letters) /\ Len(s) < MAX_LINE

(* The cursor never leaves the screen, and the hardware cursor is where    *)
(* the terminal thinks it is.                                              *)
ConsoleTypeOK ==
  /\ screen.x \in 0 .. Width - 1
  /\ screen.y \in 0 .. Height - 1
  /\ screen.pos = Cursor(screen)
  /\ DOMAIN screen.cell = CellIndex
  /\ IsLine(line)
  /\ DOMAIN history = 0 .. MAX_HISTORY - 1
  /\ \A k \in DOMAIN history : IsLine(history[k])
  /\ hist_count \in 0 .. MaxLines
  /\ swallowed \in Nat
  /\ printed \in 0 .. Len(Prompt)
  /\ pc \in {"prompt", "getline", "execute", "output", "farewell", "terminated"}

(* While a line is edited, the cells before the cursor show the line being *)
(* edited (as far as it has not scrolled off), over wrapped rows too,      *)
(* unless a backspace was ignored at the left edge.                        *)
EchoExact ==
  pc = "getline" /\ swallowed = 0 =>
    \A k \in 1 .. Len(line) :
      Cursor(screen) >= k => screen.cell[Cursor(screen) - k] = line[Len(line) - k + 1]

(* Editing never erases the prompt: the line, and the characters left over *)
(* by ignored backspaces, begin right behind it.                           *)
PromptKept ==
  pc = "getline" =>
    LET start == Cursor(screen) - Len(line) - swallowed
    IN  \A k \in 1 .. Len(Prompt) :
          start >= k => screen.cell[start - k] = Prompt[Len(Prompt) - k + 1]

(* The history ring holds the last MAX_HISTORY lines entered, each in the  *)
(* slot of its number, whatever was typed, corrected or left empty.        *)
HistoryKeepsLast ==
  /\ hist_count = Len(entered)
  /\ \A n \in 1 .. Len(entered) :
       n > Len(entered) - MAX_HISTORY => history[(n - 1) % MAX_HISTORY] = entered[n]

=============================================================================
