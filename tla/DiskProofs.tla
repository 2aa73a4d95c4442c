----------------------------- MODULE DiskProofs -----------------------------
(***************************************************************************)
(* Proofs about Disk, for every number of words of a sector, every size of *)
(* the disk and every drive.                                               *)
(***************************************************************************)
EXTENDS Disk, TLAPS

(* What the drive may be seen doing, by what is attached.                  *)
DriveShape ==
  /\ ~Attached => /\ status = Idle(kind) /\ command = "none" /\ ~ata_drive_present
                  /\ pc \in {"identify", "first", "idle"}
  /\ Attached => status \in {{"RDY"}, {"BSY"}, {"RDY", "DRQ"}, {"RDY", "ERR"}}
  /\ kind = "packet" => /\ pc \in {"identify", "first", "busy", "drq"} /\ ~ata_drive_present
                        /\ command \in {"none", "IDENTIFY"} /\ "DRQ" \notin status
  /\ command = "commit" => status = {"BSY"}
  /\ status = {"BSY"} => command # "none" /\ (command # "commit" => count = 0)

(* The driver never looks away from a drive that is busy.                  *)
Calm == Attached /\ pc \in {"idle", "wait", "data"} => "BSY" \notin status

(* Which call and which sector a transfer is about.                        *)
Phases ==
  /\ pc \in {"wait", "poll", "data", "send", "settle"} => ata_drive_present
  /\ pc = "wait" => op \in {"READ", "WRITE"} /\ i = 0 /\ ~dropped
  /\ pc \in {"poll", "data"} => op = "READ"
  /\ pc \in {"send", "settle"} => op = "WRITE"
  /\ pc \in {"poll", "data", "send", "settle"} => target = lba % LbaLimit
  /\ pc \in {"identify", "first", "busy", "drq"} => op = "init"
  /\ op = "WRITE" => buffer \in Sector
  /\ result = -1 => ~ata_drive_present

(* A read whose command has not failed has the words so far.               *)
Reading ==
  /\ pc = "poll" => i = 0
  /\ pc = "poll" /\ ~failed =>
       /\ command = "READ" /\ count = 0 /\ status \in {{"BSY"}, {"RDY", "DRQ"}}
       /\ status = {"RDY", "DRQ"} => cache = media[target]
  /\ pc = "data" /\ ~failed =>
       /\ status = {"RDY", "DRQ"} /\ count = i
       /\ cache = media[target]
       /\ \A k \in Index : k < i => buffer[k] = cache[k]

(* The drive has the words so far, or one was dropped and it will not get  *)
(* the whole sector.                                                       *)
Writing ==
  /\ pc = "send" => /\ command # "READ"
                    /\ IF dropped THEN count < i ELSE count = i
                    /\ ~dropped => \A k \in Index : k < i => cache[k] = buffer[k]
  /\ command = "commit" => pc = "settle" /\ ~dropped /\ cache = buffer
  /\ pc = "settle" /\ ~dropped /\ ~failed /\ command # "commit" => media[target] = buffer

(* What a transfer that returned 0 leaves.                                 *)
Finished ==
  pc = "idle" /\ result = 0 /\ op # "init" /\ ~failed /\ ~dropped
    => media[lba % LbaLimit] = buffer

DiskInv ==
  /\ DiskTypeOK /\ DriveShape /\ Calm /\ Phases /\ Reading /\ Writing /\ Finished

(* How the statuses differ.                                                *)
LEMMA StatusFacts ==
  ASSUME NEW s, s \in {{"RDY"}, {"BSY"}, {"RDY", "DRQ"}, {"RDY", "ERR"}}
  PROVE  /\ s \subseteq Bits
         /\ "BSY" \in s <=> s = {"BSY"}
         /\ "DRQ" \in s <=> s = {"RDY", "DRQ"}
         /\ "ERR" \in s <=> s = {"RDY", "ERR"}
  BY DEF Bits

(* Where nothing is attached the bus never shows BSY alone.                *)
LEMMA IdleNotBusy ==
  ASSUME DiskInv, status = {"BSY"}
  PROVE  Attached
<1>1. kind \in {"disk", "packet", "none", "open"}
  BY DiskAssumption DEF DiskInv, DiskTypeOK
<1>2. ~Attached => status = {} \/ "RDY" \in status
  BY <1>1 DEF DiskInv, DriveShape, Attached, Idle, Bits
<1> QED BY <1>2

(* The sector a command names is on the disk.                              *)
LEMMA TargetInRange ==
  ASSUME NEW l \in Nat
  PROVE  (l % LbaLimit) \in LbaRange
  BY DiskAssumption DEF LbaRange

(* The state in which kernel_main calls ata_init.                          *)
LEMMA InitDiskInv == Init => DiskInv
<1> SUFFICES ASSUME Init PROVE DiskInv
  OBVIOUS
<1> USE DiskAssumption
<1>1. kind \in {"disk", "packet", "none", "open"} /\ kind \in Kinds
  BY DEF Init
<1>2. /\ status = Idle(kind) /\ command = "none" /\ pc = "identify" /\ op = "init" /\ i = 0
      /\ result = 0 /\ count = 0 /\ lba = 0 /\ target = 0
      /\ ata_drive_present = FALSE /\ failed = FALSE /\ dropped = FALSE
      /\ media \in [LbaRange -> Sector] /\ buffer \in Sector /\ cache = media[0]
  BY DEF Init
<1>3. 0 \in LbaRange
  BY DEF LbaRange
<1>4. cache \in Sector /\ buffer \in [Index -> Values \cup {Junk}]
  BY <1>2, <1>3 DEF Sector
<1>5. status \subseteq Bits
  BY <1>1, <1>2 DEF Idle, Bits
<1>6. DiskTypeOK
  <2>1. ata_drive_present \in BOOLEAN /\ failed \in BOOLEAN /\ dropped \in BOOLEAN
    BY <1>2
  <2>2. /\ i \in 0 .. Words /\ count \in 0 .. Words /\ count < Words /\ result \in {0, -1}
        /\ lba \in Lbas \cup {0} /\ target \in LbaRange
    BY <1>2, <1>3
  <2> QED BY <1>1, <1>2, <1>4, <1>5, <2>1, <2>2 DEF DiskTypeOK
<1>7. DriveShape
  <2>1. Attached => status = {"RDY"}
    BY <1>1, <1>2 DEF Idle, Attached
  <2>2. status # {"BSY"}
    BY <1>1, <1>2 DEF Idle, Bits
  <2> QED BY <1>1, <1>2, <2>1, <2>2 DEF DriveShape, Attached
<1>8. Calm /\ Phases /\ Reading /\ Writing /\ Finished
  BY <1>2 DEF Calm, Phases, Reading, Writing, Finished
<1> QED BY <1>6, <1>7, <1>8 DEF DiskInv

-----------------------------------------------------------------------------
(* The drive's own steps.                                                  *)
LEMMA DriveReadyInv ==
  ASSUME DiskInv, DriveReady
  PROVE  DiskInv'
<1> USE DiskAssumption
<1>1. /\ status = {"BSY"} /\ status' = {"RDY", "DRQ"} /\ command # "commit"
      /\ ~ (kind = "packet" /\ command = "IDENTIFY")
      /\ cache' = IF command = "READ" THEN media[target] ELSE cache
      /\ UNCHANGED <<kind, ata_drive_present, pc, op, lba, buffer, i, result, command, target,
                     count, media, failed, dropped>>
  BY DEF DriveReady, driver
<1>2. Attached /\ "BSY" \in status
  BY <1>1, IdleNotBusy
<1>3. pc \notin {"idle", "wait", "data"}
  BY <1>2 DEF DiskInv, Calm
<1>4. kind # "packet"
  BY <1>1 DEF DiskInv, DriveShape
<1>5. cache' \in Sector
  BY <1>1 DEF DiskInv, DiskTypeOK
<1>6. count = 0 /\ count < Words
  BY <1>1 DEF DiskInv, DriveShape
<1>7. DiskTypeOK'
  <2>1. status' \subseteq Bits
    BY <1>1, StatusFacts
  <2> QED BY <1>1, <1>5, <1>6, <2>1 DEF DiskInv, DiskTypeOK
<1>8. DriveShape'
  <2>1. Attached'
    BY <1>1, <1>2 DEF Attached
  <2>2. status' # {"BSY"}
    BY <1>1
  <2> QED BY <1>1, <1>4, <2>1, <2>2 DEF DriveShape
<1>9. Calm' /\ Phases' /\ Finished'
  BY <1>1, <1>3 DEF DiskInv, Calm, Phases, Finished
<1>10. Reading'
  BY <1>1, <1>3 DEF DiskInv, Reading
<1>11. Writing'
  BY <1>1, <1>3 DEF DiskInv, Writing
<1> QED BY <1>7, <1>8, <1>9, <1>10, <1>11 DEF DiskInv

(* A full sector goes to the disk.                                         *)
LEMMA DriveCommitsInv ==
  ASSUME DiskInv, DriveCommits
  PROVE  DiskInv'
<1> USE DiskAssumption
<1>1. /\ status = {"BSY"} /\ status' = {"RDY"} /\ command = "commit" /\ command' = "none"
      /\ media' = [media EXCEPT ![target] = cache]
      /\ UNCHANGED <<kind, ata_drive_present, pc, op, lba, buffer, i, result, target, cache,
                     count, failed, dropped>>
  BY DEF DriveCommits, driver
<1>2. pc = "settle" /\ cache = buffer
  BY <1>1 DEF DiskInv, Writing
<1>3. /\ media \in [LbaRange -> Sector] /\ target \in LbaRange /\ cache \in Sector
  BY DEF DiskInv, DiskTypeOK
<1>4. media' \in [LbaRange -> Sector] /\ media'[target] = buffer
  BY <1>1, <1>2, <1>3
<1>5. Attached /\ Attached'
  BY <1>1, IdleNotBusy DEF Attached
<1>6. status' \subseteq Bits /\ "DRQ" \notin status' /\ "BSY" \notin status'
  BY <1>1, StatusFacts
<1>7. DiskTypeOK'
  BY <1>1, <1>4, <1>6 DEF DiskInv, DiskTypeOK
<1>8. DriveShape'
  BY <1>1, <1>5, <1>6 DEF DiskInv, DriveShape
<1>9. Calm' /\ Phases' /\ Finished' /\ Reading'
  BY <1>1, <1>2 DEF DiskInv, Calm, Phases, Finished, Reading
<1>10. Writing'
  BY <1>1, <1>2, <1>4 DEF DiskInv, Writing
<1> QED BY <1>7, <1>8, <1>9, <1>10 DEF DiskInv

(* A command that ends in an error keeps the invariant.                    *)
LEMMA DriveFailsInv ==
  ASSUME DiskInv, DriveFails
  PROVE  DiskInv'
<1> USE DiskAssumption
<1>1. /\ status = {"BSY"} /\ status' = {"RDY", "ERR"} /\ command' = "none" /\ failed' = TRUE
      /\ UNCHANGED <<kind, ata_drive_present, pc, op, lba, buffer, i, result, target, cache,
                     count, media, dropped>>
  BY DEF DriveFails, driver
<1>2. Attached /\ Attached' /\ "BSY" \in status
  BY <1>1, IdleNotBusy DEF Attached
<1>3. pc \notin {"idle", "wait", "data"}
  BY <1>2 DEF DiskInv, Calm
<1>4. status' \subseteq Bits /\ "DRQ" \notin status' /\ "BSY" \notin status'
  BY <1>1, StatusFacts
<1>5. DiskTypeOK'
  BY <1>1, <1>4 DEF DiskInv, DiskTypeOK
<1>6. DriveShape'
  BY <1>1, <1>2, <1>4 DEF DiskInv, DriveShape
<1>7. Calm' /\ Phases' /\ Finished'
  BY <1>1, <1>3 DEF DiskInv, Calm, Phases, Finished
<1>8. Reading'
  BY <1>1, <1>3 DEF DiskInv, Reading
<1>9. Writing'
  BY <1>1, <1>3 DEF DiskInv, Writing
<1> QED BY <1>5, <1>6, <1>7, <1>8, <1>9 DEF DiskInv

-----------------------------------------------------------------------------
(* ata_init.                                                               *)
LEMMA IdentifyInv ==
  ASSUME DiskInv, Identify
  PROVE  DiskInv'
<1> USE DiskAssumption
<1>1. /\ pc = "identify" /\ pc' = "first" /\ target' = (lba % LbaLimit)
      /\ IF Attached THEN command' = "IDENTIFY" /\ status' = {"BSY"} /\ count' = 0
                     ELSE UNCHANGED <<command, status, count>>
      /\ UNCHANGED <<kind, ata_drive_present, op, lba, buffer, i, result, cache, media, failed,
                     dropped>>
  BY DEF Identify, TakeCommand
<1>2. lba \in Nat
  BY DEF DiskInv, DiskTypeOK
<1>3. target' \in LbaRange
  BY <1>1, <1>2, TargetInRange
<1>4. Attached' = Attached
  BY <1>1 DEF Attached
<1>5. Attached => status' \subseteq Bits /\ "DRQ" \notin status'
  BY <1>1 DEF Bits
<1>6. DiskTypeOK'
  BY <1>1, <1>3, <1>5 DEF DiskInv, DiskTypeOK
<1>7. DriveShape'
  <2>1. CASE Attached
    <3>1. kind # "packet" \/ ("DRQ" \notin status' /\ ~ata_drive_present)
      BY <2>1, <1>5 DEF DiskInv, DriveShape
    <3> QED BY <1>1, <1>4, <2>1, <3>1 DEF DriveShape
  <2>2. CASE ~Attached
    <3>1. kind # "packet"
      BY <2>2 DEF Attached
    <3>2. status' = Idle(kind)' /\ command' = "none" /\ ~ata_drive_present'
      BY <1>1, <2>2 DEF DiskInv, DriveShape, Idle
    <3>3. status' # {"BSY"}
      BY <1>1, <2>2, IdleNotBusy
    <3> QED BY <1>1, <1>4, <2>2, <3>1, <3>2, <3>3 DEF DriveShape
  <2> QED BY <2>1, <2>2
<1>8. Calm' /\ Phases' /\ Reading' /\ Finished'
  BY <1>1 DEF DiskInv, Calm, Phases, Reading, Finished
<1>9. Writing'
  <2>1. command # "commit"
    BY <1>1 DEF DiskInv, Writing
  <2> QED BY <1>1, <2>1 DEF Writing
<1> QED BY <1>6, <1>7, <1>8, <1>9 DEF DiskInv

(* The polling of ata_init.                                                *)
LEMMA ProbeInv ==
  ASSUME DiskInv, Probe
  PROVE  DiskInv'
<1> USE DiskAssumption
<1>1. /\ pc \in {"first", "busy", "drq"} /\ op = "init"
      /\ UNCHANGED <<kind, op, lba, buffer, i, command, status, target, cache, count, media,
                     failed, dropped>>
  BY DEF Probe, drive, DiskInv, Phases
<1>2. \/ /\ pc' = "idle" /\ result' = 0 /\ ata_drive_present' = TRUE /\ "DRQ" \in status
         /\ pc = "drq" \/ "BSY" \notin status
      \/ /\ pc' = "idle" /\ result' = -1 /\ ata_drive_present' = ata_drive_present
         /\ status = {} \/ ("BSY" \in status /\ "ERR" \in status)
      \/ /\ pc' \in {"busy", "drq"} /\ UNCHANGED <<ata_drive_present, result>>
         /\ pc # "first" \/ (status # {} /\ ~ ("BSY" \in status /\ "ERR" \in status))
         /\ pc # "first" \/ "BSY" \in status \/ "DRQ" \notin status
  BY <1>1 DEF Probe, AwaitIdle, AwaitData, Return
<1>3. Attached' = Attached
  BY <1>1 DEF Attached
<1>4. kind \in {"disk", "packet", "none", "open"}
  BY DEF DiskInv, DiskTypeOK
<1>5. Attached => /\ status # {} /\ ~ ("BSY" \in status /\ "ERR" \in status)
                  /\ ~ ("BSY" \in status /\ "DRQ" \in status)
  <2>1. Attached => status \in {{"RDY"}, {"BSY"}, {"RDY", "DRQ"}, {"RDY", "ERR"}}
    BY DEF DiskInv, DriveShape
  <2> QED BY <2>1, StatusFacts
<1>6. ~Attached => /\ pc = "first"
                   /\ status = {} \/ ("BSY" \in status /\ "ERR" \in status /\ "DRQ" \in status)
  BY <1>1, <1>4 DEF DiskInv, DriveShape, Attached, Idle, Bits
<1>7. ~Attached => pc' = "idle" /\ result' = -1 /\ ~ata_drive_present'
  BY <1>2, <1>6 DEF DiskInv, DriveShape
<1>8. ata_drive_present' \in BOOLEAN /\ result' \in {0, -1}
  BY <1>2 DEF DiskInv, DiskTypeOK
<1>9. DiskTypeOK'
  BY <1>1, <1>2, <1>8 DEF DiskInv, DiskTypeOK
<1>10. kind = "packet" => pc' \in {"busy", "drq"} /\ ~ata_drive_present'
  BY <1>2, <1>5 DEF DiskInv, DriveShape, Attached
<1>11. Idle(kind)' = Idle(kind)
  BY <1>1 DEF Idle
<1>12. DriveShape'
  BY <1>1, <1>3, <1>7, <1>10, <1>11 DEF DiskInv, DriveShape
<1>13. Calm'
  BY <1>1, <1>2, <1>3, <1>5 DEF Calm
<1>14. result' = -1 => ~ata_drive_present'
  <2>1. ata_drive_present => result # -1
    BY DEF DiskInv, Phases
  <2>2. result' = -1 => \/ ata_drive_present' = ata_drive_present /\ result' = result
                       \/ ~Attached
    BY <1>2, <1>5
  <2> QED BY <2>1, <2>2, <1>7
<1>15. Phases'
  BY <1>1, <1>2, <1>14 DEF DiskInv, Phases
<1>16. Reading' /\ Finished' /\ Writing'
  BY <1>1, <1>2 DEF DiskInv, Reading, Finished, Writing
<1> QED BY <1>9, <1>12, <1>13, <1>15, <1>16 DEF DiskInv

-----------------------------------------------------------------------------
(* The transfers.                                                          *)
LEMMA CallInv ==
  ASSUME DiskInv, NEW o \in {"READ", "WRITE"}, NEW l \in Lbas,
         NEW b \in [Index -> Values \cup {Junk}], o = "WRITE" => b \in Sector,
         Call(o, l, b)
  PROVE  DiskInv'
<1> USE DiskAssumption
<1>1. /\ pc = "idle" /\ op' = o /\ lba' = l /\ buffer' = b /\ i' = 0
      /\ failed' = FALSE /\ dropped' = FALSE
      /\ UNCHANGED <<kind, ata_drive_present, command, status, target, cache, count, media>>
  BY DEF Call
<1>2. \/ ata_drive_present /\ pc' = "wait" /\ result' = result
      \/ ~ata_drive_present /\ pc' = "idle" /\ result' = -1
  BY DEF Call, Return
<1>3. Attached' = Attached /\ Idle(kind)' = Idle(kind)
  BY <1>1 DEF Attached, Idle
<1>4. failed' \in BOOLEAN /\ dropped' \in BOOLEAN /\ result' \in {0, -1} /\ i' \in 0 .. Words
  <2>1. failed' \in BOOLEAN /\ dropped' \in BOOLEAN
    BY <1>1
  <2>2. i' = 0 /\ result \in {0, -1}
    BY <1>1 DEF DiskInv, DiskTypeOK
  <2>3. result' \in {0, -1}
    BY <1>2, <2>2
  <2> QED BY <2>1, <2>2, <2>3
<1>5. DiskTypeOK'
  BY <1>1, <1>2, <1>4 DEF DiskInv, DiskTypeOK
<1>6. DriveShape'
  BY <1>1, <1>2, <1>3 DEF DiskInv, DriveShape
<1>7. Calm'
  BY <1>1, <1>2, <1>3 DEF DiskInv, Calm
<1>8. Phases'
  BY <1>1, <1>2 DEF DiskInv, Phases
<1>9. Reading' /\ Finished'
  BY <1>1, <1>2 DEF Reading, Finished
<1>10. Writing'
  BY <1>1, <1>2 DEF DiskInv, Writing
<1> QED BY <1>5, <1>6, <1>7, <1>8, <1>9, <1>10 DEF DiskInv

(* A transfer issues its command once the drive is not busy.               *)
LEMMA IssueInv ==
  ASSUME DiskInv, Issue
  PROVE  DiskInv'
<1> USE DiskAssumption
<1>1. /\ pc = "wait" /\ op \in {"READ", "WRITE"} /\ i = 0 /\ ~dropped /\ ata_drive_present
  BY DEF Issue, DiskInv, Phases
<1>2. Attached /\ kind # "packet"
  BY <1>1 DEF DiskInv, DriveShape
<1>3. /\ command' = op /\ status' = {"BSY"} /\ count' = 0 /\ target' = (lba % LbaLimit)
      /\ pc' = IF op = "READ" THEN "poll" ELSE "send"
      /\ UNCHANGED <<kind, ata_drive_present, op, lba, buffer, i, result, cache, media, failed,
                     dropped>>
  BY <1>2 DEF Issue, TakeCommand
<1>4. target' \in LbaRange /\ lba \in Nat
  BY <1>3, TargetInRange DEF DiskInv, DiskTypeOK
<1>5. Attached' /\ "DRQ" \notin status' /\ status' \subseteq Bits
  BY <1>2, <1>3 DEF Attached, Bits
<1>6. command' # "commit" /\ command' # "none"
  BY <1>1, <1>3
<1>7. DiskTypeOK'
  BY <1>1, <1>3, <1>4, <1>5 DEF DiskInv, DiskTypeOK
<1>8. DriveShape'
  BY <1>1, <1>2, <1>3, <1>5, <1>6 DEF DriveShape
<1>9. Calm' /\ Phases' /\ Finished'
  BY <1>1, <1>3 DEF DiskInv, Calm, Phases, Finished
<1>10. Reading'
  <2>1. status' # {"RDY", "DRQ"}
    BY <1>5
  <2> QED BY <1>1, <1>3, <2>1 DEF Reading
<1>11. Writing'
  BY <1>1, <1>3, <1>6 DEF Writing, Index
<1> QED BY <1>7, <1>8, <1>9, <1>10, <1>11 DEF DiskInv

(* ata_read_sector waits for the data.                                     *)
LEMMA PollReadInv ==
  ASSUME DiskInv, PollRead
  PROVE  DiskInv'
<1> USE DiskAssumption
<1>1. /\ pc = "poll" /\ i = 0 /\ ata_drive_present /\ op = "READ"
      /\ UNCHANGED <<kind, ata_drive_present, op, lba, buffer, i, command, status, target, cache,
                     count, media, failed, dropped>>
  BY DEF PollRead, drive, DiskInv, Phases, Reading
<1>2. Attached /\ Attached' /\ Idle(kind)' = Idle(kind)
  BY <1>1 DEF DiskInv, DriveShape, Attached, Idle
<1>3. ~ ("BSY" \in status /\ "ERR" \in status)
  BY <1>2, StatusFacts DEF DiskInv, DriveShape
<1>4. result' = result /\ pc' \in {"poll", "data"} /\ (pc' = "data" => "BSY" \notin status)
  BY <1>1, <1>3 DEF PollRead, Poll
<1>5. DiskTypeOK'
  BY <1>1, <1>4 DEF DiskInv, DiskTypeOK
<1>6. DriveShape'
  BY <1>1, <1>2, <1>4 DEF DiskInv, DriveShape
<1>7. Calm' /\ Phases' /\ Finished' /\ Writing'
  BY <1>1, <1>4 DEF DiskInv, Calm, Phases, Finished, Writing
<1>8. Reading'
  <2>1. ~failed /\ pc' = "data" => status = {"RDY", "DRQ"} /\ cache = media[target] /\ count = 0
    BY <1>1, <1>4 DEF DiskInv, Reading
  <2> QED BY <1>1, <1>4, <2>1 DEF DiskInv, Reading, Index
<1> QED BY <1>5, <1>6, <1>7, <1>8 DEF DiskInv

(* ata_write_sector waits for the drive to finish.                         *)
LEMMA SettleInv ==
  ASSUME DiskInv, Settle
  PROVE  DiskInv'
<1> USE DiskAssumption
<1>1. /\ pc = "settle" /\ ata_drive_present /\ op = "WRITE" /\ target = (lba % LbaLimit)
      /\ UNCHANGED <<kind, ata_drive_present, op, lba, buffer, i, command, status, target, cache,
                     count, media, failed, dropped>>
  BY DEF Settle, drive, DiskInv, Phases
<1>2. Attached /\ Attached' /\ kind # "packet"
  BY <1>1 DEF DiskInv, DriveShape, Attached
<1>3. ~ ("BSY" \in status /\ "ERR" \in status)
  BY <1>2, StatusFacts DEF DiskInv, DriveShape
<1>4. \/ pc' = "settle" /\ result' = result
      \/ pc' = "idle" /\ result' = 0 /\ "BSY" \notin status /\ command # "commit"
  BY <1>1, <1>3 DEF Settle, Poll, Return, DiskInv, DriveShape
<1>5. DiskTypeOK'
  BY <1>1, <1>4 DEF DiskInv, DiskTypeOK
<1>6. DriveShape'
  BY <1>1, <1>2, <1>4 DEF DiskInv, DriveShape
<1>7. Calm' /\ Phases'
  BY <1>1, <1>4 DEF DiskInv, Calm, Phases
<1>8. Reading' /\ Writing'
  BY <1>1, <1>4 DEF DiskInv, Reading, Writing
<1>9. Finished'
  BY <1>1, <1>4 DEF DiskInv, Finished, Writing
<1> QED BY <1>5, <1>6, <1>7, <1>8, <1>9 DEF DiskInv

(* A word from the drive is the next of its sector, unless it failed.      *)
LEMMA ReadWordInv ==
  ASSUME DiskInv, ReadWord
  PROVE  DiskInv'
<1> USE DiskAssumption
<1>1. /\ pc = "data" /\ i' = i + 1 /\ i \in Index /\ ata_drive_present /\ op = "READ"
      /\ target = (lba % LbaLimit)
      /\ UNCHANGED <<kind, ata_drive_present, op, lba, target, cache, media, failed, dropped>>
  BY DEF ReadWord, DiskInv, DiskTypeOK, Phases, Index
<1>2. /\ Attached /\ kind # "packet" /\ "BSY" \notin status
      /\ status \in {{"RDY"}, {"BSY"}, {"RDY", "DRQ"}, {"RDY", "ERR"}}
  BY <1>1 DEF DiskInv, DriveShape, Calm
<1>3. Attached'
  BY <1>1, <1>2 DEF Attached
<1>4. IF i + 1 = Words THEN pc' = "idle" /\ result' = 0 ELSE pc' = "data" /\ result' = result
  BY <1>1 DEF ReadWord, LastWord, Return
<1>5. /\ i \in 0 .. Words /\ buffer \in [Index -> Values \cup {Junk}] /\ cache \in [Index -> Values]
      /\ count \in 0 .. Words
  BY DEF DiskInv, DiskTypeOK, Sector
<1>6. CASE "DRQ" \in status
  <2>1. /\ buffer' = [buffer EXCEPT ![i] = cache[count]] /\ count' = count + 1
        /\ IF count + 1 = Words THEN command' = "none" /\ status' = {"RDY"}
                                ELSE UNCHANGED <<command, status>>
    BY <1>6 DEF ReadWord, NextWord, TransferEnds
  <2>2. count \in Index
    BY <1>5, <1>6 DEF DiskInv, DiskTypeOK, Index
  <2>3. /\ status' \in {{"RDY"}, {"BSY"}, {"RDY", "DRQ"}, {"RDY", "ERR"}} /\ "BSY" \notin status'
        /\ count + 1 = Words => "DRQ" \notin status'
    BY <1>2, <2>1
  <2>4. buffer' \in [Index -> Values \cup {Junk}]
    BY <1>1, <1>5, <2>1, <2>2
  <2>5. /\ count' \in 0 .. Words /\ ("DRQ" \in status' => count' < Words)
        /\ i' \in 0 .. Words /\ (pc' = "data" => i' < Words)
    BY <1>1, <1>4, <1>5, <2>1, <2>2, <2>3 DEF Index
  <2>6. status' \subseteq Bits
    BY <2>3, StatusFacts
  <2>7. command # "commit" /\ command' # "commit"
    BY <1>1, <2>1 DEF DiskInv, Writing
  <2>8. DiskTypeOK'
    BY <1>1, <1>4, <2>1, <2>4, <2>5, <2>6 DEF DiskInv, DiskTypeOK
  <2>9. DriveShape'
    <3>1. status' # {"BSY"}
      BY <2>3
    <3> QED BY <1>1, <1>2, <1>3, <2>3, <2>7, <3>1 DEF DriveShape
  <2>10. Calm' /\ Phases'
    BY <1>1, <1>4, <2>3 DEF DiskInv, Calm, Phases
  <2>11. ASSUME ~failed
         PROVE  /\ count = i /\ cache = media[target]
                /\ \A k \in Index : k < i + 1 => buffer'[k] = cache[k]
    <3>1. count = i /\ cache = media[target] /\ \A k \in Index : k < i => buffer[k] = cache[k]
      BY <1>1, <2>11 DEF DiskInv, Reading
    <3>2. ASSUME NEW k \in Index, k < i + 1 PROVE buffer'[k] = cache[k]
      <4>1. CASE k = i
        BY <4>1, <3>1, <2>1, <1>5
      <4>2. CASE k # i
        <5>1. k < i
          BY <4>2, <3>2, <1>5 DEF Index
        <5> QED BY <5>1, <4>2, <3>1, <2>1, <1>5
      <4> QED BY <4>1, <4>2
    <3> QED BY <3>1, <3>2
  <2>12. Reading'
    <3>1. ~failed => status = {"RDY", "DRQ"}
      BY <1>1 DEF DiskInv, Reading
    <3>2. ~failed /\ pc' = "data" => status' = {"RDY", "DRQ"} /\ count' = i'
      BY <1>1, <1>4, <1>5, <2>1, <2>11, <3>1
    <3>3. pc' # "poll"
      BY <1>4
    <3> QED BY <1>1, <2>11, <3>2, <3>3 DEF Reading
  <2>13. Finished'
    <3>1. ASSUME ~failed, pc' = "idle" PROVE media[lba % LbaLimit] = buffer'
      <4>1. i + 1 = Words
        BY <1>4, <3>1
      <4>2. \A k \in Index : buffer'[k] = cache[k]
        BY <2>11, <3>1, <4>1 DEF Index
      <4>3. buffer' = cache
        BY <4>2, <2>4, <1>5
      <4> QED BY <4>3, <2>11, <3>1, <1>1
    <3> QED BY <1>1, <3>1 DEF Finished
  <2>14. Writing'
    BY <1>4, <2>7 DEF Writing
  <2> QED BY <2>8, <2>9, <2>10, <2>12, <2>13, <2>14 DEF DiskInv
<1>7. CASE "DRQ" \notin status
  <2>1. buffer' = [buffer EXCEPT ![i] = Junk] /\ UNCHANGED <<count, command, status>>
    BY <1>7 DEF ReadWord
  <2>2. failed
    BY <1>1, <1>7 DEF DiskInv, Reading
  <2>3. buffer' \in [Index -> Values \cup {Junk}]
    BY <1>1, <1>5, <2>1
  <2>4. i' \in 0 .. Words /\ (pc' = "data" => i' < Words)
    BY <1>1, <1>4, <1>5 DEF Index
  <2>5. DiskTypeOK'
    BY <1>1, <1>4, <2>1, <2>3, <2>4 DEF DiskInv, DiskTypeOK
  <2>6. DriveShape'
    BY <1>1, <1>2, <1>3, <2>1 DEF DiskInv, DriveShape
  <2>7. Calm' /\ Phases'
    BY <1>1, <1>2, <1>4, <2>1 DEF DiskInv, Calm, Phases
  <2>8. Reading' /\ Finished'
    BY <1>1, <1>4, <2>2 DEF Reading, Finished
  <2>9. Writing'
    BY <1>1, <1>4, <2>1 DEF DiskInv, Writing
  <2> QED BY <2>5, <2>6, <2>7, <2>8, <2>9 DEF DiskInv
<1> QED BY <1>6, <1>7

(* A word sent is taken by the drive or dropped.                           *)
LEMMA SendWordInv ==
  ASSUME DiskInv, SendWord
  PROVE  DiskInv'
<1> USE DiskAssumption
<1>1. /\ pc = "send" /\ i' = i + 1 /\ i \in Index /\ ata_drive_present /\ op = "WRITE"
      /\ target = (lba % LbaLimit)
      /\ pc' = IF i + 1 = Words THEN "settle" ELSE "send"
      /\ UNCHANGED <<kind, ata_drive_present, op, lba, buffer, result, target, media, failed>>
  BY DEF SendWord, LastWord, DiskInv, DiskTypeOK, Phases, Index
<1>2. /\ Attached /\ kind # "packet"
      /\ status \in {{"RDY"}, {"BSY"}, {"RDY", "DRQ"}, {"RDY", "ERR"}}
  BY <1>1 DEF DiskInv, DriveShape
<1>3. Attached'
  BY <1>1, <1>2 DEF Attached
<1>4. /\ i \in 0 .. Words /\ i < Words /\ cache \in [Index -> Values] /\ count \in 0 .. Words
      /\ i' \in 0 .. Words /\ (pc' = "send" => i' < Words)
      /\ dropped \in BOOLEAN
  BY <1>1 DEF DiskInv, DiskTypeOK, Sector, Index
<1>5. /\ command \notin {"READ", "commit"} /\ (dropped => count < i) /\ (~dropped => count = i)
      /\ ~dropped => \A k \in Index : k < i => cache[k] = buffer[k]
  BY <1>1 DEF DiskInv, Writing
<1>6. CASE "DRQ" \in status
  <2>1. /\ cache' = [cache EXCEPT ![count] = buffer[i]] /\ count' = count + 1 /\ dropped' = dropped
        /\ IF count + 1 = Words THEN command' = "commit" /\ status' = {"BSY"}
                                ELSE UNCHANGED <<command, status>>
    BY <1>6 DEF SendWord, NextWord, TransferEnds, Word
  <2>2. count \in Index /\ buffer[i] \in Values
    BY <1>1, <1>4, <1>6 DEF DiskInv, DiskTypeOK, Phases, Sector, Index
  <2>3. cache' \in [Index -> Values]
    BY <1>4, <2>1, <2>2
  <2>4. /\ status' \in {{"RDY"}, {"BSY"}, {"RDY", "DRQ"}, {"RDY", "ERR"}}
        /\ count + 1 = Words => "DRQ" \notin status'
        /\ status' = {"BSY"} => command' = "commit"
        /\ command' = "commit" => status' = {"BSY"} /\ count + 1 = Words
    BY <1>2, <1>5, <1>6, <2>1
  <2>5. status' \subseteq Bits /\ count' \in 0 .. Words /\ ("DRQ" \in status' => count' < Words)
    BY <1>4, <2>1, <2>2, <2>4, StatusFacts DEF Index
  <2>6. DiskTypeOK'
    BY <1>1, <1>4, <2>1, <2>3, <2>5 DEF DiskInv, DiskTypeOK, Sector
  <2>7. DriveShape'
    BY <1>1, <1>2, <1>3, <2>4 DEF DriveShape
  <2>8. Calm' /\ Phases' /\ Reading' /\ Finished'
    BY <1>1 DEF DiskInv, Calm, Phases, Reading, Finished
  <2>9. /\ dropped => count' < i'
        /\ ~dropped => count' = i' /\ \A k \in Index : k < i' => cache'[k] = buffer[k]
    <3>1. dropped => count' < i'
      BY <1>1, <1>4, <1>5, <2>1
    <3>2. ~dropped => count' = i'
      BY <1>1, <1>4, <1>5, <2>1
    <3>3. ASSUME ~dropped, NEW k \in Index, k < i + 1 PROVE cache'[k] = buffer[k]
      <4>1. CASE k = i
        BY <4>1, <3>3, <1>4, <1>5, <2>1
      <4>2. CASE k # i
        <5>1. k < i
          BY <4>2, <3>3, <1>4 DEF Index
        <5> QED BY <5>1, <4>2, <3>3, <1>4, <1>5, <2>1
      <4> QED BY <4>1, <4>2
    <3> QED BY <1>1, <3>1, <3>2, <3>3
  <2>10. command' = "commit" => pc' = "settle" /\ ~dropped /\ cache' = buffer
    <3>1. SUFFICES ASSUME command' = "commit" PROVE pc' = "settle" /\ ~dropped /\ cache' = buffer
      OBVIOUS
    <3>2. count + 1 = Words /\ ~dropped /\ i + 1 = Words
      BY <3>1, <2>4, <1>4, <1>5
    <3>3. \A k \in Index : cache'[k] = buffer[k]
      BY <1>1, <2>9, <3>2 DEF Index
    <3>4. buffer \in [Index -> Values]
      BY <1>1 DEF DiskInv, Phases, Sector
    <3> QED BY <1>1, <2>3, <3>2, <3>3, <3>4
  <2>11. pc' = "settle" /\ ~dropped => command' = "commit"
    BY <1>1, <1>4, <1>5, <2>1
  <2>12. command' # "READ"
    BY <1>5, <2>1
  <2>13. Writing'
    BY <1>1, <2>1, <2>9, <2>10, <2>11, <2>12 DEF Writing
  <2> QED BY <2>6, <2>7, <2>8, <2>13 DEF DiskInv
<1>7. CASE "DRQ" \notin status
  <2>1. dropped' = TRUE /\ UNCHANGED <<cache, count, command, status>>
    BY <1>7 DEF SendWord
  <2>2. count < i' /\ dropped' \in BOOLEAN /\ dropped'
    BY <1>1, <1>4, <1>5, <2>1
  <2>3. DiskTypeOK'
    BY <1>1, <1>4, <2>1, <2>2 DEF DiskInv, DiskTypeOK
  <2>4. DriveShape'
    BY <1>1, <1>2, <1>3, <2>1 DEF DiskInv, DriveShape
  <2>5. Calm' /\ Phases' /\ Reading' /\ Finished'
    BY <1>1 DEF DiskInv, Calm, Phases, Reading, Finished
  <2>6. Writing'
    BY <1>1, <1>5, <2>1, <2>2 DEF Writing
  <2> QED BY <2>3, <2>4, <2>5, <2>6 DEF DiskInv
<1> QED BY <1>6, <1>7

-----------------------------------------------------------------------------
(* Every step of the driver, the drive and the callers keeps the invariant. *)
LEMMA NextDiskInv == DiskInv /\ [Next]_vars => DiskInv'
<1> SUFFICES ASSUME DiskInv, [Next]_vars PROVE DiskInv'
  OBVIOUS
<1>1. CASE DriveReady
  BY <1>1, DriveReadyInv
<1>2. CASE DriveCommits
  BY <1>2, DriveCommitsInv
<1>3. CASE DriveFails
  BY <1>3, DriveFailsInv
<1>4. CASE Identify
  BY <1>4, IdentifyInv
<1>5. CASE Probe
  BY <1>5, ProbeInv
<1>6. CASE Issue
  BY <1>6, IssueInv
<1>7. CASE PollRead
  BY <1>7, PollReadInv
<1>8. CASE ReadWord
  BY <1>8, ReadWordInv
<1>9. CASE SendWord
  BY <1>9, SendWordInv
<1>10. CASE Settle
  BY <1>10, SettleInv
<1>11. CASE ata_read_sector
  <2>1. PICK l \in Lbas : Call("READ", l, buffer)
    BY <1>11 DEF ata_read_sector
  <2>2. buffer \in [Index -> Values \cup {Junk}]
    BY DEF DiskInv, DiskTypeOK
  <2> QED BY <2>1, <2>2, CallInv
<1>12. CASE ata_write_sector
  <2>1. PICK l \in Lbas, b \in Sector : Call("WRITE", l, b)
    BY <1>12 DEF ata_write_sector
  <2>2. b \in [Index -> Values \cup {Junk}]
    BY <2>1 DEF Sector
  <2> QED BY <2>1, <2>2, CallInv
<1>13. CASE UNCHANGED vars
  <2>1. UNCHANGED <<kind, ata_drive_present, pc, op, lba, buffer, i, result, command, status,
                    target, cache, count, media, failed, dropped>>
    BY <1>13 DEF vars, driver, drive
  <2>2. DiskTypeOK' /\ Calm' /\ Phases'
    BY <2>1 DEF DiskInv, DiskTypeOK, Calm, Phases, Attached
  <2>3. DriveShape'
    BY <2>1 DEF DiskInv, DriveShape, Attached, Idle
  <2>4. Reading' /\ Writing' /\ Finished'
    BY <2>1 DEF DiskInv, Reading, Writing, Finished
  <2> QED BY <2>2, <2>3, <2>4 DEF DiskInv
<1> QED BY <1>1, <1>2, <1>3, <1>4, <1>5, <1>6, <1>7, <1>8, <1>9, <1>10, <1>11, <1>12, <1>13
        DEF Next, Drive, Driver

-----------------------------------------------------------------------------
(* The invariant of driver and drive holds in every reachable state.       *)
THEOREM DiskInvariant == Spec => []DiskInv
  BY InitDiskInv, NextDiskInv, PTL DEF Spec

(* Neither ata_read_sector's buffer nor the drive's is run over.           *)
THEOREM DiskTypes == Spec => []DiskTypeOK
<1>1. DiskInv => DiskTypeOK
  BY DEF DiskInv
<1> QED BY <1>1, DiskInvariant, PTL

(* A transfer that returns 0 moved the sector asked for, unless the drive  *)
(* failed, a word came too early or the sector's number is too large.      *)
THEOREM TransfersExact == Spec => []TransferExact
<1>1. DiskInv => TransferExact
  <2> SUFFICES ASSUME DiskInv, NEW o \in {"READ", "WRITE"}, Done(o), ~failed, ~dropped,
                      lba < LbaLimit
               PROVE  media[lba] = buffer
    BY DEF TransferExact
  <2>1. lba \in Nat
    BY DiskAssumption DEF DiskInv, DiskTypeOK
  <2>2. (lba % LbaLimit) = lba
    BY <2>1, DiskAssumption
  <2>3. media[lba % LbaLimit] = buffer
    BY DEF DiskInv, Finished, Done
  <2> QED BY <2>2, <2>3
<1> QED BY <1>1, DiskInvariant, PTL

(* ata_read_sector and ata_write_sector never report an error of a drive.  *)
THEOREM ErrorsNeverSeen == Spec => []ErrorUnseen
<1>1. DiskInv => ErrorUnseen
  BY DEF DiskInv, Phases, ErrorUnseen
<1> QED BY <1>1, DiskInvariant, PTL

(* The drive never gets a sector of which ata_write_sector lost a word.    *)
THEOREM SectorsNeverTorn == Spec => NoTornSector
<1> DEFINE Whole == \A s \in LbaRange : media'[s] # media[s] =>
                      op = "WRITE" /\ s = lba % LbaLimit /\ ~dropped /\ media'[s] = buffer
<1>1. DiskInv /\ [Next]_vars => [Whole]_vars
  <2> SUFFICES ASSUME DiskInv, Next PROVE Whole
    OBVIOUS
  <2>1. CASE DriveCommits
    <3>1. /\ pc = "settle" /\ ~dropped /\ cache = buffer /\ op = "WRITE"
          /\ target = lba % LbaLimit
      BY <2>1 DEF DriveCommits, DiskInv, Writing, Phases
    <3>2. media' = [media EXCEPT ![target] = cache] /\ media \in [LbaRange -> Sector]
      BY <2>1 DEF DriveCommits, DiskInv, DiskTypeOK
    <3> QED BY <3>1, <3>2
  <2>2. CASE ~DriveCommits
    <3>1. media' = media
      BY <2>2 DEF Next, Drive, Driver, DriveReady, DriveFails, Identify, Probe, Issue, PollRead,
                  ReadWord, SendWord, Settle, TakeCommand, ata_read_sector, ata_write_sector, Call, drive
    <3> QED BY <3>1
  <2> QED BY <2>1, <2>2
<1> QED BY <1>1, DiskInvariant, PTL DEF Spec, NoTornSector
=============================================================================
