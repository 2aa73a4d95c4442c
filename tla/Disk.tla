-------------------------------- MODULE Disk --------------------------------
(***************************************************************************)
(* The polling disk driver of drivers/ata.c and the drive it talks to.     *)
(*                                                                         *)
(* Two actors: the driver, one step per access to the ports, and the drive *)
(* (external), which answers a command at its own time and may end it with *)
(* an error.  A drive shows either BSY or its other status bits.  A        *)
(* command written while it still offers data starts anew.                 *)
(*                                                                         *)
(* kernel_main calls ata_init and goes on whatever it returns; then        *)
(* callers read and write sectors.  A sector is Words words.               *)
(***************************************************************************)
EXTENDS Integers

CONSTANTS
  Kinds,           \* what may be attached: "disk", "packet", "none", "open"
  Words,           \* words of a sector (256)
  Values,          \* the values of a word
  Junk,            \* the word a drive returns when it offers no data
  LbaLimit,        \* sectors the command can name (2^28)
  Lbas             \* the sectors callers ask for

ASSUME DiskAssumption ==
  /\ Kinds \subseteq {"disk", "packet", "none", "open"}
  /\ Words \in Nat \ {0}
  /\ LbaLimit \in Nat \ {0}
  /\ Lbas \subseteq Nat
  /\ Junk \notin Values

VARIABLES
  kind,
  ata_drive_present,
  pc,              \* "identify", "first", "busy", "drq": ata_init
                   \* "wait", "poll", "data", "send", "settle": the transfers
  op, lba, buffer, i, result,
  command,         \* what the drive is doing: "none" or a command
  status,          \* the drive's status register
  target,          \* the sector the command names
  cache, count,    \* the drive's sector buffer and its position in it
  media,           \* the sectors on the disk
  failed,          \* history: the drive ended this call's command in error
  dropped          \* history: this call wrote a word no drive took

driver == <<ata_drive_present, pc, op, lba, buffer, i, result>>
drive == <<command, status, target, cache, count, media, failed>>
vars == <<kind, driver, drive, dropped>>

Index == 0 .. Words - 1
LbaRange == 0 .. LbaLimit - 1
Sector == [Index -> Values]
Bits == {"BSY", "RDY", "DRQ", "ERR"}
Attached == kind \in {"disk", "packet"}

(* An empty channel reads as zeroes, an open bus as ones.                  *)
Idle(k) == CASE k = "none" -> {} [] k = "open" -> Bits [] OTHER -> {"RDY"}

Init ==
  /\ kind \in Kinds
  /\ ata_drive_present = FALSE
  /\ pc = "identify" /\ op = "init" /\ lba = 0 /\ i = 0 /\ result = 0
  /\ command = "none" /\ status = Idle(kind) /\ target = 0 /\ count = 0
  /\ media \in [LbaRange -> Sector]
  /\ buffer \in Sector
  /\ cache = media[0]
  /\ failed = FALSE /\ dropped = FALSE

-----------------------------------------------------------------------------
(* The drive.  It takes a command the moment the port is written ...       *)
TakeCommand(c) ==
  /\ IF Attached
       THEN command' = c /\ status' = {"BSY"} /\ count' = 0
       ELSE UNCHANGED <<command, status, count>>
  /\ target' = lba % LbaLimit
  /\ UNCHANGED <<cache, media>>

(* ... offers or asks for data when it is ready ...                        *)
DriveReady ==
  /\ status = {"BSY"} /\ command # "commit"
  /\ ~ (kind = "packet" /\ command = "IDENTIFY")
  /\ status' = {"RDY", "DRQ"}
  /\ cache' = IF command = "READ" THEN media[target] ELSE cache
  /\ UNCHANGED <<kind, driver, command, target, count, media, failed, dropped>>

(* ... puts a whole sector received on the disk ...                        *)
DriveCommits ==
  /\ status = {"BSY"} /\ command = "commit"
  /\ media' = [media EXCEPT ![target] = cache]
  /\ status' = {"RDY"} /\ command' = "none"
  /\ UNCHANGED <<kind, driver, target, cache, count, failed, dropped>>

(* ... or reports an error, as a packet device does when identified.       *)
DriveFails ==
  /\ status = {"BSY"}
  /\ ~ (kind = "disk" /\ command = "IDENTIFY")
  /\ status' = {"RDY", "ERR"} /\ command' = "none"
  /\ failed' = TRUE
  /\ UNCHANGED <<kind, driver, target, cache, count, media, dropped>>

Drive == DriveReady \/ DriveCommits \/ DriveFails

(* The data port: a word moves only while the drive asks for it.           *)
NextWord == count' = count + 1
TransferEnds(c) ==
  IF count + 1 = Words
    THEN command' = c /\ status' = IF c = "commit" THEN {"BSY"} ELSE {"RDY"}
    ELSE UNCHANGED <<command, status>>

-----------------------------------------------------------------------------
Return(v) == pc' = "idle" /\ result' = v

(* ata_init: select, clear the registers, IDENTIFY.                        *)
Identify ==
  /\ pc = "identify"
  /\ TakeCommand("IDENTIFY")
  /\ pc' = "first"
  /\ UNCHANGED <<kind, ata_drive_present, op, lba, buffer, i, result, failed, dropped>>

(* The second loop of ata_init, which looks at DRQ only.                   *)
AwaitData ==
  IF "DRQ" \in status
    THEN Return(0) /\ ata_drive_present' = TRUE
    ELSE pc' = "drq" /\ UNCHANGED <<ata_drive_present, result>>

(* Mutant: ERR is not looked at.                                           *)
AwaitIdleOnly ==
  IF "BSY" \notin status THEN AwaitData
  ELSE pc' = "busy" /\ UNCHANGED <<ata_drive_present, result>>

(* Mutant: the drive counts as present before it has answered.             *)
AwaitIdlePresent ==
  IF "BSY" \notin status THEN AwaitData
  ELSE IF "ERR" \in status THEN Return(-1) /\ ata_drive_present' = TRUE
  ELSE pc' = "busy" /\ UNCHANGED <<ata_drive_present, result>>

(* Its first loop: ERR is looked at only while BSY is set.                 *)
AwaitIdle ==
  IF "BSY" \notin status THEN AwaitData
  ELSE IF "ERR" \in status THEN Return(-1) /\ UNCHANGED ata_drive_present
  ELSE pc' = "busy" /\ UNCHANGED <<ata_drive_present, result>>

Probe ==
  /\ \/ pc = "first" /\ IF status = {} THEN Return(-1) /\ UNCHANGED ata_drive_present
                        ELSE AwaitIdle
     \/ pc = "busy" /\ AwaitIdle
     \/ pc = "drq" /\ AwaitData
  /\ UNCHANGED <<kind, op, lba, buffer, i, drive, dropped>>

(* ata_read_sector and ata_write_sector are called.                        *)
Call(o, l, b) ==
  /\ pc = "idle"
  /\ op' = o /\ lba' = l /\ buffer' = b /\ i' = 0
  /\ failed' = FALSE /\ dropped' = FALSE
  /\ IF ata_drive_present THEN pc' = "wait" /\ UNCHANGED result ELSE Return(-1)
  /\ UNCHANGED <<kind, ata_drive_present, command, status, target, cache, count, media>>

ata_read_sector == \E l \in Lbas : Call("READ", l, buffer)
ata_write_sector == \E l \in Lbas, b \in Sector : Call("WRITE", l, b)

(* The wait for the drive to be idle, the registers and the command.       *)
Issue ==
  /\ pc = "wait" /\ "BSY" \notin status
  /\ TakeCommand(op)
  /\ pc' = IF op = "READ" THEN "poll" ELSE "send"
  /\ UNCHANGED <<kind, ata_drive_present, op, lba, buffer, i, result, failed, dropped>>

(* Mutant: the status is not waited for.                                   *)
PollOnce(done) == done

(* The loop on the status after the command, and after the last word.      *)
Poll(done) ==
  IF "BSY" \notin status THEN done
  ELSE IF "ERR" \in status THEN Return(-1)
  ELSE UNCHANGED <<pc, result>>

PollRead ==
  /\ pc = "poll"
  /\ Poll(pc' = "data" /\ UNCHANGED result)
  /\ UNCHANGED <<kind, ata_drive_present, op, lba, buffer, i, drive, dropped>>

(* Mutant: the loops over the words run once too often.                    *)
LastWordLate == i = Words

(* The bound of the loops over the words.                                  *)
LastWord == i + 1 = Words

(* One turn of the loop that reads the sector.                             *)
ReadWord ==
  /\ pc = "data"
  /\ i' = i + 1
  /\ IF "DRQ" \in status
       THEN /\ buffer' = [buffer EXCEPT ![i] = cache[count]]
            /\ NextWord /\ TransferEnds("none")
       ELSE /\ buffer' = [buffer EXCEPT ![i] = Junk]
            /\ UNCHANGED <<count, command, status>>
  /\ IF LastWord THEN Return(0) ELSE UNCHANGED <<pc, result>>
  /\ UNCHANGED <<kind, ata_drive_present, op, lba, target, cache, media, failed, dropped>>

(* Mutant: the word is put together from the next bytes of the buffer.     *)
WordShifted(n) == buffer[(n + 1) % Words]

Word(n) == buffer[n]

(* One turn of the loop that writes the sector, which starts right after   *)
(* the command.                                                            *)
SendWord ==
  /\ pc = "send"
  /\ i' = i + 1
  /\ IF "DRQ" \in status
       THEN /\ cache' = [cache EXCEPT ![count] = Word(i)]
            /\ NextWord /\ TransferEnds("commit")
            /\ UNCHANGED dropped
       ELSE dropped' = TRUE /\ UNCHANGED <<cache, count, command, status>>
  /\ pc' = IF LastWord THEN "settle" ELSE pc
  /\ UNCHANGED <<kind, ata_drive_present, op, lba, buffer, result, target, media, failed>>

Settle ==
  /\ pc = "settle"
  /\ Poll(Return(0))
  /\ UNCHANGED <<kind, ata_drive_present, op, lba, buffer, i, drive, dropped>>

Driver == Identify \/ Probe \/ Issue \/ PollRead \/ ReadWord \/ SendWord \/ Settle

Next == Drive \/ Driver \/ ata_read_sector \/ ata_write_sector

(* The drive ends every command, and the polling loops keep running.       *)
Spec == Init /\ [][Next]_vars /\ WF_vars(Driver) /\ WF_vars(Drive)

-----------------------------------------------------------------------------
(* The positions of both sides stay inside the sector: neither the         *)
(* caller's buffer nor the drive's is run over.                            *)
DiskTypeOK ==
  /\ kind \in Kinds
  /\ ata_drive_present \in BOOLEAN
  /\ pc \in {"identify", "first", "busy", "drq", "idle", "wait", "poll", "data", "send", "settle"}
  /\ op \in {"init", "READ", "WRITE"}
  /\ buffer \in [Index -> Values \cup {Junk}]
  /\ cache \in Sector
  /\ i \in 0 .. Words /\ (pc \in {"data", "send"} => i < Words)
  /\ count \in 0 .. Words /\ ("DRQ" \in status => count < Words)
  /\ result \in {0, -1}
  /\ command \in {"none", "IDENTIFY", "READ", "WRITE", "commit"}
  /\ status \subseteq Bits
  /\ lba \in Lbas \cup {0} /\ target \in LbaRange
  /\ media \in [LbaRange -> Sector]
  /\ failed \in BOOLEAN /\ dropped \in BOOLEAN

Done(o) == pc = "idle" /\ op = o /\ result = 0

(* A transfer that returns 0 has delivered the sector asked for, or put it *)
(* on the disk, unless the drive reported an error, which the driver does  *)
(* not see, the sector's number has more than 28 bits, or a word was       *)
(* written before the drive asked for it: ata_write_sector does not wait.  *)
TransferExact ==
  \A o \in {"READ", "WRITE"} :
    Done(o) /\ ~failed /\ ~dropped /\ lba < LbaLimit => media[lba] = buffer

(* However a transfer is cut short, a sector on the disk is always one a   *)
(* caller passed as a whole: a lost word never tears a sector, not even in *)
(* combination with the calls that follow.                                 *)
NoTornSector ==
  [][\A s \in LbaRange : media'[s] # media[s] =>
       op = "WRITE" /\ s = lba % LbaLimit /\ ~dropped /\ media'[s] = buffer]_vars

(* ata_read_sector and ata_write_sector return -1 only where no drive was  *)
(* found: a drive never shows ERR together with BSY, and the polling loops *)
(* look at ERR only then.                                                  *)
ErrorUnseen ==
  pc = "idle" /\ result = -1 => ~ata_drive_present

(* The driver always comes to rest, with one exception: a packet device    *)
(* rejects IDENTIFY without offering data, and ata_init polls it for ever. *)
DriverReturns ==
  /\ kind # "packet" => []<>(pc = "idle")
  /\ kind = "packet" => [](pc # "idle")
=============================================================================
