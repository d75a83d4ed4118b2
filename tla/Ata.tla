-------------------------------- MODULE Ata --------------------------------
(***************************************************************************)
(* The disk driver (kernel/disk.c) at its ports: one register access or    *)
(* one data word a step, in each of the two contexts that execute          *)
(* commands.  Callers transfer one sector, or run disk_test.               *)
(*                                                                         *)
(* The drive (external) is a PIO ATA drive with a write cache.  It ignores *)
(* what is written to its registers while it is busy or asks for data, as  *)
(* the ATA standard and the emulator have it; how long it takes, and       *)
(* whether it fails, is open.  The sectors differ in the low byte of their *)
(* address only, so one step stands for the five register writes.  The     *)
(* callers' buffers are their own here (disk_test's is static): what two   *)
(* calls at once read or write is not followed, only that they return.     *)
(***************************************************************************)
EXTENDS Integers, Sequences

CONSTANTS
  Sectors, Words,      \* addresses and values of a word
  LENGTH,              \* 256, words of a sector
  DISK_TEST_SECTOR,
  Pattern,             \* what disk_test writes
  Payloads,            \* what other callers write
  Zeros,
  TIMEOUT,             \* 1000000, polls before the driver gives up
  TypeAhead            \* a second command may begin while one runs

Data == [1..LENGTH -> Words]

ASSUME AtaAssumption ==
  /\ LENGTH \in Nat \ {0} /\ TIMEOUT \in Nat \ {0}
  /\ DISK_TEST_SECTOR \in Sectors /\ Pattern \in Data /\ Zeros \in Data
  /\ Payloads \subseteq Data
  /\ TypeAhead \in BOOLEAN

Contexts == 0..1

VARIABLES
  frame,               \* of each context: its call and where it is
  drive,               \* external: what the drive does, its address and buffer
  disk,                \* external: the sectors
  trouble              \* history: what the driver does not guard against

vars == <<frame, drive, disk, trouble>>

NoCall == [pc |-> "idle", op |-> "read", lba |-> DISK_TEST_SECTOR, buffer |-> Zeros,
           i |-> 1, timeout |-> TIMEOUT, test |-> FALSE]

Reset == [phase |-> "idle", lba |-> DISK_TEST_SECTOR, err |-> FALSE,
          buffer |-> Zeros, n |-> 1]

Init ==
  /\ frame = [s \in Contexts |-> NoCall]
  /\ drive = Reset
  /\ disk \in [Sectors -> {Zeros}]
  /\ trouble = {}

-----------------------------------------------------------------------------
(* The drive.                                                              *)
BSY == drive.phase \in {"read", "write", "commit", "flush"}
DRQ == drive.phase \in {"in", "out"}

(* Done with a command; what is left in the buffer is not used again.      *)
Idle(d) == [d EXCEPT !.phase = "idle", !.buffer = Zeros, !.n = 1]

DriveWorks ==
  \/ /\ drive.phase = "read"
     /\ drive' = [drive EXCEPT !.phase = "in", !.buffer = disk[drive.lba]]
     /\ UNCHANGED <<frame, disk, trouble>>
  \/ /\ drive.phase = "write" /\ drive' = [drive EXCEPT !.phase = "out"]
     /\ UNCHANGED <<frame, disk, trouble>>
  \/ /\ drive.phase = "commit" /\ drive' = Idle(drive)
     /\ disk' = [disk EXCEPT ![drive.lba] = drive.buffer]
     /\ UNCHANGED <<frame, trouble>>
  \/ /\ drive.phase = "flush" /\ drive' = Idle(drive)
     /\ UNCHANGED <<frame, disk, trouble>>

DriveFails ==
  /\ BSY
  /\ drive' = [Idle(drive) EXCEPT !.err = TRUE]
  /\ UNCHANGED <<frame, disk, trouble>>

-----------------------------------------------------------------------------
(* The driver.                                                             *)
At(s, label)   == frame[s].pc = label
Goto(s, label) == frame' = [frame EXCEPT ![s].pc = label, ![s].timeout = TIMEOUT, ![s].i = 1]

Alone == \A s \in Contexts : At(s, "idle")

(* Bound: once two calls have met, no other begins before a reboot.        *)
MayBegin(s) ==
  /\ At(s, "idle")
  /\ "overlap" \notin trouble
  /\ TypeAhead \/ Alone
  /\ trouble' = IF Alone THEN trouble ELSE trouble \cup {"overlap"}

Begin(s, op, lba, data, test) ==
  frame' = [frame EXCEPT ![s] = [pc |-> "ready", op |-> op, lba |-> lba, buffer |-> data,
                                 i |-> 1, timeout |-> TIMEOUT, test |-> test]]

Transfer(s) ==
  /\ MayBegin(s)
  /\ \E lba \in Sectors \ {DISK_TEST_SECTOR} :
       \/ Begin(s, "read", lba, Zeros, FALSE)
       \/ \E data \in Payloads : Begin(s, "write", lba, data, FALSE)
  /\ UNCHANGED <<drive, disk>>

DiskTest(s) ==
  /\ MayBegin(s)
  /\ Begin(s, "write", DISK_TEST_SECTOR, Pattern, TRUE)
  /\ UNCHANGED <<drive, disk>>

GivesUp(s) == frame[s].timeout = 1

(* Mutant: the count is not taken down.                                    *)
Wait_Forever(s) == UNCHANGED <<frame, trouble>>

(* while (timeout--)                                                       *)
Wait(s) ==
  \/ GivesUp(s) /\ Goto(s, "failed") /\ trouble' = trouble \cup {"late"}
  \/ /\ ~GivesUp(s)
     /\ frame' = [frame EXCEPT ![s].timeout = @ - 1]
     /\ UNCHANGED trouble

Answer(s, label) == Goto(s, label) /\ UNCHANGED trouble

(* Mutant: a poll that finds an error is taken for success.                *)
ata_wait_not_busy_NoErr(s, label) ==
  \/ BSY /\ Wait(s)
  \/ ~BSY /\ Answer(s, label)

ata_wait_not_busy(s, label) ==
  \/ BSY /\ Wait(s)
  \/ ~BSY /\ Answer(s, IF drive.err THEN "failed" ELSE label)

ata_wait_drq(s, label) ==
  \/ drive.err /\ Answer(s, "failed")
  \/ ~drive.err /\ DRQ /\ Answer(s, label)
  \/ ~drive.err /\ ~DRQ /\ Wait(s)

Polls(s) ==
  /\ \/ At(s, "ready")   /\ ata_wait_not_busy(s, "address")
     \/ At(s, "busy")    /\ ata_wait_not_busy(s, "drq")
     \/ At(s, "drq")     /\ ata_wait_drq(s, "data")
     \/ At(s, "flushed") /\ ata_wait_not_busy(s, "ok")
  /\ UNCHANGED <<drive, disk>>

Address(s) ==
  /\ At(s, "address") /\ Goto(s, "command")
  /\ drive' = IF BSY \/ DRQ THEN drive ELSE [drive EXCEPT !.lba = frame[s].lba]
  /\ UNCHANGED <<disk, trouble>>

Commanded(phase) ==
  drive' = IF BSY \/ DRQ THEN drive ELSE [drive EXCEPT !.phase = phase, !.err = FALSE]

Command(s) ==
  /\ At(s, "command") /\ Goto(s, "busy")
  /\ Commanded(frame[s].op)
  /\ UNCHANGED <<disk, trouble>>

(* inw: a word of the drive's buffer; without one to give, anything.       *)
DataIn(s) ==
  /\ At(s, "data") /\ frame[s].op = "read"
  /\ LET i  == frame[s].i
         pc == IF i < LENGTH THEN "data" ELSE "ok"
         Got(w) == frame' = [frame EXCEPT ![s].pc = pc, ![s].buffer[i] = w,
                                          ![s].i = IF i < LENGTH THEN i + 1 ELSE 1]
     IN IF drive.phase = "in"
        THEN /\ Got(drive.buffer[drive.n])
             /\ drive' = IF drive.n < LENGTH THEN [drive EXCEPT !.n = @ + 1] ELSE Idle(drive)
        ELSE UNCHANGED drive /\ \E w \in Words : Got(w)
  /\ UNCHANGED <<disk, trouble>>

(* Mutant: the first word is written throughout.                           *)
Outgoing_First(s) == frame[s].buffer[1]

Outgoing(s) == frame[s].buffer[frame[s].i]

(* outw: a word the drive asked for; one it did not is dropped.            *)
DataOut(s) ==
  /\ At(s, "data") /\ frame[s].op = "write"
  /\ LET i == frame[s].i
     IN frame' = [frame EXCEPT ![s].pc = IF i < LENGTH THEN "data" ELSE "flush",
                               ![s].i = IF i < LENGTH THEN i + 1 ELSE 1]
  /\ drive' = IF drive.phase # "out" THEN drive
              ELSE [drive EXCEPT !.buffer[drive.n] = Outgoing(s),
                                 !.phase = IF drive.n < LENGTH THEN "out" ELSE "commit",
                                 !.n = IF @ < LENGTH THEN @ + 1 ELSE 1]
  /\ UNCHANGED <<disk, trouble>>

(* No status is read between the last word and this command, which clears  *)
(* the error the drive may have met storing the sector.                    *)
Flush(s) ==
  /\ At(s, "flush") /\ Goto(s, "flushed")
  /\ Commanded("flush")
  /\ trouble' = IF drive.err THEN trouble \cup {"masked"} ELSE trouble
  /\ UNCHANGED disk

(* disk_test goes on to read what it wrote; every other caller returns.    *)
Finish(s) ==
  /\ frame[s].pc \in {"ok", "failed"}
  /\ IF At(s, "ok") /\ frame[s].test /\ frame[s].op = "write"
     THEN Begin(s, "read", DISK_TEST_SECTOR, Zeros, TRUE)
     ELSE frame' = [frame EXCEPT ![s] = NoCall]
  /\ UNCHANGED <<drive, disk, trouble>>

(* The command reboot, which resets the drive.                             *)
Reboot ==
  /\ Alone
  /\ drive' = Reset /\ trouble' = {}
  /\ UNCHANGED <<frame, disk>>

DriverStep(s) == Polls(s) \/ Address(s) \/ Command(s) \/ DataIn(s) \/ DataOut(s)
                 \/ Flush(s) \/ Finish(s)

Drive == DriveWorks \/ DriveFails

Next == Drive \/ Reboot \/ \E s \in Contexts : Transfer(s) \/ DiskTest(s) \/ DriverStep(s)

Spec == Init /\ [][Next]_vars

(* The scheduler runs the contexts; nothing is asked of the drive.         *)
FairSpec == Spec /\ \A s \in Contexts : WF_vars(DriverStep(s))

-----------------------------------------------------------------------------
(* ERR is tested before the command that would clear it: after an error no *)
(* sector changes and no transfer begins until a reboot, as Vfs has it,    *)
(* but for the one command sent without a test, the flush after the data.  *)
ErrorSticks ==
  [][/\ drive.err /\ "overlap" \notin trouble
     /\ \A s \in Contexts : ~At(s, "flush")
     => disk' = disk /\ (drive'.err \/ drive' = Reset)]_vars

(* The timeouts bound every call, whatever the drive does or fails to do,  *)
(* and whatever two transfers at once do to each other's registers.        *)
CallReturns == \A s \in Contexts : ~At(s, "idle") ~> At(s, "idle")

(* The driver implements the store of sectors: what it reports written is  *)
(* stored, what it reports read was stored, and no other sector changes    *)
(* (shell.c prints "[ VFS ] File written" for it).  Three things end this, *)
(* for good: a call that gave up on a drive that still has its command,    *)
(* an error the flush command cleared, and a second transfer that began    *)
(* during one.                                                             *)
StateOf(s) == IF frame[s].pc \in {"ok", "failed", "idle"} THEN frame[s].pc ELSE "running"

CallOf(s) ==
  IF At(s, "idle") THEN [state |-> "idle"]
  ELSE [state |-> StateOf(s), op |-> frame[s].op, lba |-> frame[s].lba,
        data |-> IF frame[s].op = "read" /\ ~At(s, "ok") THEN <<>> ELSE frame[s].buffer]

Calls == [s \in Contexts |-> CallOf(s)]

Store == INSTANCE SectorStore
           WITH Callers <- Contexts, NoData <- <<>>, store <- disk, call <- Calls

StoreUntilTrouble ==
  Store!Init /\ [][Store!Next \/ trouble' # {}]_<<disk, Calls>>
=============================================================================
