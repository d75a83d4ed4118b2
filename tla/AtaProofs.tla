----------------------------- MODULE AtaProofs -----------------------------
(***************************************************************************)
(* Theorems about Ata, for every sector size, set of sectors, timeout and  *)
(* payload, and two contexts that may transfer at once: the driver is a    *)
(* store of sectors until one of its three kinds of trouble, and an error  *)
(* stays an error.                                                         *)
(***************************************************************************)
EXTENDS Ata, TLAPS

Labels == {"idle", "ready", "address", "command", "busy", "drq", "data", "flush", "flushed",
           "ok", "failed"}
Phases == {"idle", "read", "write", "in", "out", "commit", "flush"}

Frame == [pc : Labels, op : {"read", "write"}, lba : Sectors, buffer : Data,
          i : 1..LENGTH, timeout : 1..TIMEOUT, test : BOOLEAN]

DriveState == [phase : Phases, lba : Sectors, err : BOOLEAN, buffer : Data, n : 1..LENGTH]

TypeOK ==
  /\ frame \in [Contexts -> Frame] /\ drive \in DriveState /\ disk \in [Sectors -> Data]
  /\ trouble \subseteq {"overlap", "late", "masked"}

(* The drive is done with a command that failed, and counts words only     *)
(* while it transfers them.  While no two calls have met, one context at   *)
(* most transfers, and from its test of the status to its command the      *)
(* drive is neither busy nor in error.                                     *)
ErrorInv ==
  /\ drive.err => drive.phase = "idle"
  /\ drive.phase \notin {"in", "out"} => drive.n = 1
  /\ "overlap" \notin trouble =>
       /\ \A s, c \in Contexts : ~At(s, "idle") /\ ~At(c, "idle") => s = c
       /\ \A s \in Contexts : At(s, "address") \/ At(s, "command") => ~BSY /\ ~drive.err

-----------------------------------------------------------------------------
LEMMA Positive ==
  /\ LENGTH \in Nat /\ TIMEOUT \in Nat /\ 1 \in 1..LENGTH /\ TIMEOUT \in 1..TIMEOUT
  /\ 1 \in 1..TIMEOUT
  /\ \A i \in 1..LENGTH : i < LENGTH => i + 1 \in 1..LENGTH
  /\ \A i \in 1..LENGTH : ~(i < LENGTH) => i = LENGTH
  /\ \A t \in 1..TIMEOUT : t # 1 => t - 1 \in 1..TIMEOUT
  /\ \A i, j \in 1..LENGTH : j < i + 1 => j < i \/ j = i
  /\ \A i \in 1..LENGTH : i < LENGTH \/ i = LENGTH
BY AtaAssumption

LEMMA SameWords ==
  ASSUME NEW d \in Data, NEW e \in Data, \A j \in 1..LENGTH : d[j] = e[j]
  PROVE  d = e
<1>1. d = [j \in 1..LENGTH |-> d[j]] /\ e = [j \in 1..LENGTH |-> e[j]]
  BY DEF Data
<1> QED BY <1>1

LEMMA NoCallTyped == NoCall \in Frame
BY AtaAssumption, Positive DEF NoCall, Frame, Labels

LEMMA ResetTyped == Reset \in DriveState
BY AtaAssumption, Positive DEF Reset, DriveState, Phases

(* What a jump of the driver changes of its frame.                         *)
LEMMA GotoEffect ==
  ASSUME TypeOK, NEW s \in Contexts, NEW l \in Labels, Goto(s, l)
  PROVE  /\ frame' \in [Contexts -> Frame]
         /\ frame'[s].pc = l /\ frame'[s].op = frame[s].op /\ frame'[s].lba = frame[s].lba
         /\ frame'[s].buffer = frame[s].buffer /\ frame'[s].i = 1
         /\ frame'[s].timeout = TIMEOUT /\ frame'[s].test = frame[s].test
         /\ \A c \in Contexts \ {s} : frame'[c] = frame[c]
<1> DEFINE f == [frame[s] EXCEPT !.pc = l, !.timeout = TIMEOUT, !.i = 1]
<1>1. frame' = [frame EXCEPT ![s] = f]
  BY DEF Goto
<1>2. frame[s] \in Frame
  BY DEF TypeOK
<1>3. /\ f \in Frame /\ f.pc = l /\ f.op = frame[s].op /\ f.lba = frame[s].lba
      /\ f.buffer = frame[s].buffer /\ f.i = 1 /\ f.timeout = TIMEOUT /\ f.test = frame[s].test
  BY <1>2, Positive DEF Frame
<1> HIDE DEF f
<1> QED BY <1>1, <1>3 DEF TypeOK

LEMMA WaitEffect ==
  ASSUME TypeOK, NEW s \in Contexts, Wait(s), ~GivesUp(s)
  PROVE  /\ frame' \in [Contexts -> Frame] /\ trouble' = trouble
         /\ frame'[s].pc = frame[s].pc /\ frame'[s].op = frame[s].op
         /\ frame'[s].lba = frame[s].lba
         /\ frame'[s].buffer = frame[s].buffer /\ frame'[s].i = frame[s].i
         /\ frame'[s].test = frame[s].test
         /\ \A c \in Contexts \ {s} : frame'[c] = frame[c]
<1> DEFINE f == [frame[s] EXCEPT !.timeout = frame[s].timeout - 1]
<1>1. frame' = [frame EXCEPT ![s] = f] /\ trouble' = trouble
  BY DEF Wait
<1>2. frame[s] \in Frame /\ frame[s].timeout - 1 \in 1..TIMEOUT
  <2>1. frame[s] \in Frame /\ frame[s].timeout # 1
    BY DEF TypeOK, GivesUp
  <2> QED BY <2>1, Positive DEF Frame
<1>3. /\ f \in Frame /\ f.pc = frame[s].pc /\ f.op = frame[s].op /\ f.lba = frame[s].lba
      /\ f.buffer = frame[s].buffer /\ f.i = frame[s].i /\ f.test = frame[s].test
  BY <1>2 DEF Frame
<1> HIDE DEF f
<1> QED BY <1>1, <1>3 DEF TypeOK

LEMMA BeginEffect ==
  ASSUME TypeOK, NEW s \in Contexts, NEW op \in {"read", "write"}, NEW lba \in Sectors,
         NEW data \in Data, NEW test \in BOOLEAN, Begin(s, op, lba, data, test)
  PROVE  /\ frame' \in [Contexts -> Frame]
         /\ frame'[s].pc = "ready" /\ frame'[s].op = op /\ frame'[s].lba = lba
         /\ frame'[s].buffer = data
         /\ \A c \in Contexts \ {s} : frame'[c] = frame[c]
<1> DEFINE f == [pc |-> "ready", op |-> op, lba |-> lba, buffer |-> data, i |-> 1,
                timeout |-> TIMEOUT, test |-> test]
<1>1. frame' = [frame EXCEPT ![s] = f]
  BY DEF Begin
<1>2. f \in Frame
  BY Positive DEF Frame, Labels
<1>3. f.pc = "ready" /\ f.op = op /\ f.lba = lba /\ f.buffer = data
  OBVIOUS
<1> HIDE DEF f
<1> QED BY <1>1, <1>2, <1>3 DEF TypeOK

LEMMA DataInEffect ==
  ASSUME TypeOK, NEW s \in Contexts, DataIn(s)
  PROVE  LET i == frame[s].i
         IN  /\ frame' \in [Contexts -> Frame]
             /\ frame[s].pc = "data" /\ frame[s].op = "read"
             /\ frame'[s].pc = IF i < LENGTH THEN "data" ELSE "ok"
             /\ frame'[s].op = frame[s].op /\ frame'[s].lba = frame[s].lba
             /\ frame'[s].i = IF i < LENGTH THEN i + 1 ELSE 1
             /\ \E w \in Words :
                  /\ frame'[s].buffer = [frame[s].buffer EXCEPT ![i] = w]
                  /\ drive.phase = "in" => w = drive.buffer[drive.n]
             /\ \A c \in Contexts \ {s} : frame'[c] = frame[c]
             /\ UNCHANGED <<disk, trouble>>
             /\ drive' = IF drive.phase # "in" THEN drive
                         ELSE IF drive.n < LENGTH THEN [drive EXCEPT !.n = @ + 1] ELSE Idle(drive)
<1> DEFINE i == frame[s].i
           l == IF i < LENGTH THEN "data" ELSE "ok"
           j == IF i < LENGTH THEN i + 1 ELSE 1
<1>1. i \in 1..LENGTH /\ frame[s].buffer \in Data
  BY DEF TypeOK, Frame
<1>2. l \in Labels /\ j \in 1..LENGTH
  BY <1>1, Positive DEF Labels
<1>3. drive.phase = "in" => drive.buffer[drive.n] \in Words
  BY DEF TypeOK, DriveState, Data
<1>4. PICK w \in Words :
        /\ frame' = [frame EXCEPT ![s].pc = l, ![s].buffer[i] = w, ![s].i = j]
        /\ drive.phase = "in" => w = drive.buffer[drive.n]
  BY <1>3 DEF DataIn
<1> DEFINE b == [frame[s].buffer EXCEPT ![i] = w]
<1>5. b \in Data
  BY <1>1 DEF Data
<1> DEFINE f == [frame[s] EXCEPT !.pc = l, !.buffer = b, !.i = j]
<1>6. frame' = [frame EXCEPT ![s] = f]
  BY <1>4
<1>7. /\ frame[s].pc = "data" /\ frame[s].op = "read" /\ UNCHANGED <<disk, trouble>>
      /\ drive' = IF drive.phase # "in" THEN drive
                  ELSE IF drive.n < LENGTH THEN [drive EXCEPT !.n = @ + 1] ELSE Idle(drive)
  BY DEF DataIn, At
<1> HIDE DEF l, j, b
<1>8. frame[s] \in Frame
  BY DEF TypeOK
<1>9. /\ f \in Frame /\ f.pc = l /\ f.op = frame[s].op /\ f.lba = frame[s].lba
      /\ f.buffer = b /\ f.i = j
  BY <1>2, <1>5, <1>8 DEF Frame
<1> HIDE DEF f
<1>10. /\ frame' \in [Contexts -> Frame] /\ frame'[s] = f
       /\ \A c \in Contexts \ {s} : frame'[c] = frame[c]
  BY <1>6, <1>9 DEF TypeOK
<1> QED BY <1>4, <1>7, <1>9, <1>10 DEF l, j, b

LEMMA DataOutEffect ==
  ASSUME TypeOK, NEW s \in Contexts, DataOut(s)
  PROVE  LET i == frame[s].i
         IN  /\ frame' \in [Contexts -> Frame]
             /\ frame[s].pc = "data" /\ frame[s].op = "write"
             /\ frame'[s].pc = IF i < LENGTH THEN "data" ELSE "flush"
             /\ frame'[s].op = frame[s].op /\ frame'[s].lba = frame[s].lba
             /\ frame'[s].buffer = frame[s].buffer
             /\ frame'[s].i = IF i < LENGTH THEN i + 1 ELSE 1
             /\ \A c \in Contexts \ {s} : frame'[c] = frame[c]
             /\ UNCHANGED <<disk, trouble>>
<1> DEFINE i == frame[s].i
           l == IF i < LENGTH THEN "data" ELSE "flush"
           j == IF i < LENGTH THEN i + 1 ELSE 1
<1>1. i \in 1..LENGTH /\ frame[s] \in Frame
  BY DEF TypeOK, Frame
<1>2. l \in Labels /\ j \in 1..LENGTH
  BY <1>1, Positive DEF Labels
<1> DEFINE f == [frame[s] EXCEPT !.pc = l, !.i = j]
<1>3. frame' = [frame EXCEPT ![s] = f]
  BY DEF DataOut
<1>4. /\ frame[s].pc = "data" /\ frame[s].op = "write" /\ UNCHANGED <<disk, trouble>>
  BY DEF DataOut, At
<1> HIDE DEF l, j
<1>5. /\ f \in Frame /\ f.pc = l /\ f.op = frame[s].op /\ f.lba = frame[s].lba
      /\ f.buffer = frame[s].buffer /\ f.i = j
  BY <1>1, <1>2 DEF Frame
<1> HIDE DEF f
<1>6. /\ frame' \in [Contexts -> Frame] /\ frame'[s] = f
      /\ \A c \in Contexts \ {s} : frame'[c] = frame[c]
  BY <1>3, <1>5 DEF TypeOK
<1> QED BY <1>4, <1>5, <1>6 DEF l, j

LEMMA IdleEffect ==
  ASSUME NEW d \in DriveState
  PROVE  /\ Idle(d) \in DriveState /\ Idle(d).phase = "idle" /\ Idle(d).n = 1
         /\ Idle(d).lba = d.lba /\ Idle(d).err = d.err
BY AtaAssumption, Positive DEF Idle, DriveState, Phases

LEMMA DriveWorksEffect ==
  ASSUME TypeOK, DriveWorks
  PROVE  /\ UNCHANGED <<frame, trouble>>
         /\ drive' \in DriveState /\ drive'.lba = drive.lba /\ drive'.err = drive.err
         /\ \/ /\ drive.phase = "read" /\ drive'.phase = "in" /\ drive'.n = drive.n
               /\ drive'.buffer = disk[drive.lba] /\ disk' = disk
            \/ /\ drive.phase = "write" /\ drive'.phase = "out" /\ drive'.n = drive.n
               /\ disk' = disk
            \/ /\ drive.phase = "commit" /\ drive'.phase = "idle" /\ drive'.n = 1
               /\ disk' = [disk EXCEPT ![drive.lba] = drive.buffer]
            \/ /\ drive.phase = "flush" /\ drive'.phase = "idle" /\ drive'.n = 1
               /\ disk' = disk
<1>1. drive \in DriveState /\ disk[drive.lba] \in Data
  BY DEF TypeOK, DriveState
<1>2. CASE drive.phase = "read"
  BY <1>1, <1>2 DEF DriveWorks, DriveState, Phases
<1>3. CASE drive.phase = "write"
  BY <1>1, <1>3 DEF DriveWorks, DriveState, Phases
<1>4. CASE drive.phase \in {"commit", "flush"}
  BY <1>1, <1>4, IdleEffect DEF DriveWorks
<1> QED BY <1>2, <1>3, <1>4 DEF DriveWorks

LEMMA DriveFailsEffect ==
  ASSUME TypeOK, DriveFails
  PROVE  /\ UNCHANGED <<frame, disk, trouble>>
         /\ drive' \in DriveState /\ drive'.lba = drive.lba /\ drive'.err = TRUE
         /\ drive'.phase = "idle" /\ drive'.n = 1
<1> DEFINE d == Idle(drive)
<1>1. d \in DriveState /\ d.phase = "idle" /\ d.n = 1 /\ d.lba = drive.lba
  BY IdleEffect DEF TypeOK
<1>2. drive' = [d EXCEPT !.err = TRUE] /\ UNCHANGED <<frame, disk, trouble>>
  BY DEF DriveFails
<1> HIDE DEF d
<1> QED BY <1>1, <1>2 DEF DriveState

LEMMA CommandedEffect ==
  ASSUME TypeOK, NEW p \in Phases, Commanded(p)
  PROVE  /\ drive' \in DriveState /\ drive'.lba = drive.lba /\ drive'.n = drive.n
         /\ drive'.buffer = drive.buffer
         /\ IF BSY \/ DRQ THEN drive' = drive ELSE drive'.phase = p /\ drive'.err = FALSE
BY DEF TypeOK, Commanded, DriveState

LEMMA AddressEffect ==
  ASSUME TypeOK, NEW s \in Contexts, Address(s)
  PROVE  /\ frame[s].pc = "address" /\ Goto(s, "command") /\ UNCHANGED <<disk, trouble>>
         /\ drive' \in DriveState /\ drive'.phase = drive.phase /\ drive'.n = drive.n
         /\ drive'.buffer = drive.buffer /\ drive'.err = drive.err
         /\ IF BSY \/ DRQ THEN drive' = drive ELSE drive'.lba = frame[s].lba
<1>1. frame[s].lba \in Sectors
  BY DEF TypeOK, Frame
<1> QED BY <1>1 DEF TypeOK, Address, At, DriveState

(* The drive as it gives a word, or takes one.                             *)
LEMMA WordInEffect ==
  ASSUME TypeOK, NEW s \in Contexts, DataIn(s)
  PROVE  /\ drive' \in DriveState /\ drive'.lba = drive.lba /\ drive'.err = drive.err
         /\ drive.phase # "in" => drive' = drive
         /\ drive.phase = "in" =>
              IF drive.n < LENGTH
              THEN /\ drive'.phase = "in" /\ drive'.n = drive.n + 1
                   /\ drive'.buffer = drive.buffer
              ELSE drive'.phase = "idle" /\ drive'.n = 1
<1>1. drive \in DriveState /\ drive.n \in 1..LENGTH
  BY DEF TypeOK, DriveState
<1>2. CASE drive.phase # "in"
  BY <1>1, <1>2, DataInEffect
<1>3. CASE drive.phase = "in" /\ drive.n < LENGTH
  <2>1. drive' = [drive EXCEPT !.n = drive.n + 1]
    BY <1>3, DataInEffect
  <2>2. drive.n + 1 \in 1..LENGTH
    BY <1>1, <1>3, Positive
  <2> QED BY <1>1, <1>3, <2>1, <2>2 DEF DriveState
<1>4. CASE drive.phase = "in" /\ ~(drive.n < LENGTH)
  <2>1. drive' = Idle(drive)
    BY <1>4, DataInEffect
  <2> QED BY <1>1, <1>4, <2>1, IdleEffect
<1> QED BY <1>2, <1>3, <1>4

LEMMA WordOutEffect ==
  ASSUME TypeOK, NEW s \in Contexts, DataOut(s)
  PROVE  /\ drive' \in DriveState /\ drive'.lba = drive.lba /\ drive'.err = drive.err
         /\ drive.phase # "out" => drive' = drive
         /\ drive.phase = "out" =>
              /\ drive'.buffer = [drive.buffer EXCEPT ![drive.n] = frame[s].buffer[frame[s].i]]
              /\ IF drive.n < LENGTH
                 THEN drive'.phase = "out" /\ drive'.n = drive.n + 1
                 ELSE drive'.phase = "commit" /\ drive'.n = 1
<1>1. drive \in DriveState /\ drive.n \in 1..LENGTH /\ drive.buffer \in Data
        /\ frame[s].buffer[frame[s].i] \in Words
  BY DEF TypeOK, DriveState, Frame, Data
<1>2. CASE drive.phase # "out"
  BY <1>1, <1>2 DEF DataOut
<1>3. CASE drive.phase = "out"
  <2> DEFINE b == [drive.buffer EXCEPT ![drive.n] = frame[s].buffer[frame[s].i]]
             p == IF drive.n < LENGTH THEN "out" ELSE "commit"
             n == IF drive.n < LENGTH THEN drive.n + 1 ELSE 1
  <2>1. drive' = [drive EXCEPT !.buffer = b, !.phase = p, !.n = n]
    BY <1>3 DEF DataOut, Outgoing
  <2>2. b \in Data /\ p \in Phases /\ n \in 1..LENGTH
    BY <1>1, Positive DEF Data, Phases
  <2> HIDE DEF b, p, n
  <2>3. /\ drive' \in DriveState /\ drive'.lba = drive.lba /\ drive'.err = drive.err
        /\ drive'.buffer = b /\ drive'.phase = p /\ drive'.n = n
    BY <1>1, <2>1, <2>2 DEF DriveState
  <2> QED BY <1>3, <2>3 DEF b, p, n
<1> QED BY <1>2, <1>3

LEMMA FinishEffect ==
  ASSUME TypeOK, NEW s \in Contexts, Finish(s)
  PROVE  /\ frame[s].pc \in {"ok", "failed"} /\ UNCHANGED <<drive, disk, trouble>>
         /\ frame' \in [Contexts -> Frame] /\ \A c \in Contexts \ {s} : frame'[c] = frame[c]
         /\ \/ frame'[s].pc = "idle"
            \/ frame'[s].pc = "ready" /\ frame'[s].op = "read"
<1>1. CASE At(s, "ok") /\ frame[s].test /\ frame[s].op = "write"
  <2>1. Begin(s, "read", DISK_TEST_SECTOR, Zeros, TRUE)
    BY <1>1 DEF Finish
  <2> QED BY <2>1, AtaAssumption, BeginEffect DEF Finish
<1>2. CASE ~(At(s, "ok") /\ frame[s].test /\ frame[s].op = "write")
  <2>1. frame' = [frame EXCEPT ![s] = NoCall]
    BY <1>2 DEF Finish
  <2>2. NoCall.pc = "idle"
    BY DEF NoCall
  <2> QED BY <2>1, <2>2, NoCallTyped DEF Finish, TypeOK
<1> QED BY <1>1, <1>2

LEMMA BeginsEffect ==
  ASSUME TypeOK, NEW s \in Contexts, Transfer(s) \/ DiskTest(s)
  PROVE  /\ frame[s].pc = "idle" /\ UNCHANGED <<drive, disk>>
         /\ frame' \in [Contexts -> Frame] /\ \A c \in Contexts \ {s} : frame'[c] = frame[c]
         /\ frame'[s].pc = "ready"
         /\ trouble' = IF Alone THEN trouble ELSE trouble \cup {"overlap"}
<1>1. \A data \in Payloads \cup {Pattern, Zeros} : data \in Data
  BY AtaAssumption
<1> QED BY <1>1, AtaAssumption, BeginEffect DEF Transfer, DiskTest, MayBegin, At

(* A poll: nothing yet, an answer, or the end of the patience.             *)
LEMMA PollEffect ==
  ASSUME TypeOK, NEW s \in Contexts, Polls(s)
  PROVE  /\ UNCHANGED <<drive, disk>> /\ frame' \in [Contexts -> Frame]
         /\ frame[s].pc \in {"ready", "busy", "drq", "flushed"}
         /\ frame'[s].op = frame[s].op /\ frame'[s].lba = frame[s].lba
         /\ frame'[s].buffer = frame[s].buffer
         /\ \A c \in Contexts \ {s} : frame'[c] = frame[c]
         /\ \/ /\ frame'[s].pc = frame[s].pc /\ frame'[s].i = frame[s].i /\ trouble' = trouble
            \/ /\ frame'[s].pc = "failed" /\ trouble' = trouble \cup {"late"}
            \/ /\ frame'[s].i = 1 /\ trouble' = trouble
               /\ \/ /\ frame'[s].pc = "failed" /\ drive.err
                     /\ frame[s].pc = "drq" \/ ~BSY
                  \/ /\ ~drive.err
                     /\ \/ frame[s].pc = "ready" /\ frame'[s].pc = "address" /\ ~BSY
                        \/ frame[s].pc = "busy" /\ frame'[s].pc = "drq" /\ ~BSY
                        \/ frame[s].pc = "drq" /\ frame'[s].pc = "data" /\ DRQ
                        \/ frame[s].pc = "flushed" /\ frame'[s].pc = "ok" /\ ~BSY
<1>1. UNCHANGED <<drive, disk>> /\ frame[s].pc \in {"ready", "busy", "drq", "flushed"}
  BY DEF Polls, At
<1>2. CASE Wait(s) /\ ~GivesUp(s)
  BY <1>1, <1>2, WaitEffect
<1>3. CASE Wait(s) /\ GivesUp(s)
  <2>1. Goto(s, "failed") /\ trouble' = trouble \cup {"late"}
    BY <1>3 DEF Wait
  <2>2. "failed" \in Labels
    BY DEF Labels
  <2> QED BY <1>1, <2>1, <2>2, GotoEffect
<1>4. CASE ~Wait(s)
  <2>1. PICK l \in {"address", "drq", "data", "ok", "failed"} :
          /\ Goto(s, l) /\ trouble' = trouble
          /\ \/ l = "failed" /\ drive.err /\ (frame[s].pc = "drq" \/ ~BSY)
             \/ /\ ~drive.err
                /\ \/ frame[s].pc = "ready" /\ l = "address" /\ ~BSY
                   \/ frame[s].pc = "busy" /\ l = "drq" /\ ~BSY
                   \/ frame[s].pc = "drq" /\ l = "data" /\ DRQ
                   \/ frame[s].pc = "flushed" /\ l = "ok" /\ ~BSY
    BY <1>4 DEF Polls, ata_wait_not_busy, ata_wait_drq, Answer, At
  <2>2. l \in Labels
    BY DEF Labels
  <2> QED BY <1>1, <2>1, <2>2, GotoEffect
<1> QED BY <1>2, <1>3, <1>4

-----------------------------------------------------------------------------
(* Types, and an error stays.                                              *)
LEMMA Typed ==
  ASSUME TypeOK
  PROVE  /\ drive.n \in 1..LENGTH /\ drive.phase \in Phases /\ drive.lba \in Sectors
         /\ \A s \in Contexts : frame[s] \in Frame /\ frame[s].pc \in Labels
BY DEF TypeOK, DriveState, Frame

LEMMA AtaInit == Init => TypeOK /\ ErrorInv
<1> SUFFICES ASSUME Init PROVE TypeOK /\ ErrorInv
  OBVIOUS
<1>1. TypeOK
  BY NoCallTyped, ResetTyped, AtaAssumption DEF Init, TypeOK
<1>2. \A s \in Contexts : frame[s].pc = "idle"
  BY DEF Init, NoCall
<1>3. drive.phase = "idle" /\ drive.n = 1
  BY DEF Init, Reset
<1> QED BY <1>1, <1>2, <1>3 DEF ErrorInv, At

LEMMA TypeDriver ==
  ASSUME TypeOK, NEW s \in Contexts, DriverStep(s)
  PROVE  TypeOK'
<1>0. "idle" \in Labels /\ "command" \in Labels /\ "busy" \in Labels /\ "flushed" \in Labels
        /\ "flush" \in Phases
  BY DEF Labels, Phases
<1>1. CASE Polls(s)
  BY <1>1, PollEffect DEF TypeOK
<1>2. CASE Address(s)
  BY <1>0, <1>2, AddressEffect, GotoEffect DEF TypeOK
<1>3. CASE Command(s)
  <2>1. frame[s].op \in Phases
    BY DEF TypeOK, Frame, Phases
  <2> QED BY <1>0, <1>3, <2>1, CommandedEffect, GotoEffect DEF Command, TypeOK
<1>4. CASE DataIn(s)
  BY <1>4, DataInEffect, WordInEffect DEF TypeOK
<1>5. CASE DataOut(s)
  BY <1>5, DataOutEffect, WordOutEffect DEF TypeOK
<1>6. CASE Flush(s)
  BY <1>0, <1>6, CommandedEffect, GotoEffect DEF Flush, TypeOK
<1>7. CASE Finish(s)
  BY <1>7, FinishEffect DEF TypeOK
<1> QED BY <1>1, <1>2, <1>3, <1>4, <1>5, <1>6, <1>7 DEF DriverStep

LEMMA TypeStep == TypeOK /\ [Next]_vars => TypeOK'
<1> SUFFICES ASSUME TypeOK, [Next]_vars PROVE TypeOK'
  OBVIOUS
<1>1. CASE DriveWorks
  <2>1. drive.lba \in Sectors /\ drive.buffer \in Data
    BY DEF TypeOK, DriveState
  <2> QED BY <1>1, <2>1, DriveWorksEffect DEF TypeOK
<1>2. CASE DriveFails
  BY <1>2, DriveFailsEffect DEF TypeOK
<1>3. CASE Reboot
  BY <1>3, ResetTyped DEF Reboot, TypeOK
<1>4. ASSUME NEW s \in Contexts, Transfer(s) \/ DiskTest(s) PROVE TypeOK'
  BY <1>4, BeginsEffect DEF TypeOK
<1>5. CASE UNCHANGED vars
  BY <1>5 DEF vars, TypeOK
<1> QED BY <1>1, <1>2, <1>3, <1>4, <1>5, TypeDriver DEF Next, Drive

(* The other context does nothing while no two calls have met.             *)
LEMMA OthersIdle ==
  ASSUME ErrorInv, "overlap" \notin trouble, NEW s \in Contexts, frame[s].pc # "idle"
  PROVE  \A c \in Contexts \ {s} : frame[c].pc = "idle"
BY DEF ErrorInv, At

LEMMA ErrorDriver ==
  ASSUME TypeOK, ErrorInv, NEW s \in Contexts, DriverStep(s)
  PROVE  ErrorInv'
<1>0. "idle" \in Labels /\ "command" \in Labels /\ "busy" \in Labels /\ "flushed" \in Labels
        /\ "flush" \in Phases /\ frame[s].op \in Phases /\ frame[s].op \in {"read", "write"}
  BY Typed DEF Labels, Phases, Frame
<1>1. frame[s].pc # "idle" /\ \A c \in Contexts \ {s} : frame'[c] = frame[c]
  <2>1. Polls(s) \/ Address(s) \/ Command(s) \/ DataIn(s) \/ DataOut(s) \/ Flush(s) \/ Finish(s)
    BY DEF DriverStep
  <2>2. Command(s) \/ Flush(s) => frame[s].pc # "idle" /\ \E l \in Labels : Goto(s, l)
    BY <1>0 DEF Command, Flush, At
  <2> QED BY <1>0, <2>1, <2>2, PollEffect, AddressEffect, GotoEffect, DataInEffect, DataOutEffect,
             FinishEffect
<1>2. "overlap" \in trouble => "overlap" \in trouble'
  BY PollEffect, AddressEffect, DataInEffect, DataOutEffect, FinishEffect
     DEF DriverStep, Command, Flush
<1>3. \A c, d \in Contexts : "overlap" \notin trouble' /\ ~At(c, "idle")' /\ ~At(d, "idle")' => c = d
  BY <1>1, <1>2, OthersIdle DEF At
<1>4. \A c \in Contexts \ {s} : "overlap" \notin trouble' => ~At(c, "address")' /\ ~At(c, "command")'
  BY <1>1, <1>2, OthersIdle DEF At
<1>5. ASSUME drive' = drive,
             At(s, "address")' \/ At(s, "command")' => ~BSY /\ ~drive.err
      PROVE  ErrorInv'
  BY <1>3, <1>4, <1>5 DEF ErrorInv, BSY
<1>6. ASSUME drive'.err => drive'.phase = "idle", drive'.phase \notin {"in", "out"} => drive'.n = 1,
             frame'[s].pc \notin {"address", "command"}
      PROVE  ErrorInv'
  BY <1>3, <1>4, <1>6 DEF ErrorInv, At
<1>7. CASE Polls(s)
  BY <1>5, <1>7, PollEffect DEF At
<1>8. CASE Address(s)
  <2>1. frame[s].pc = "address" /\ drive'.phase = drive.phase /\ drive'.err = drive.err
          /\ drive'.n = drive.n /\ trouble' = trouble
    BY <1>8, AddressEffect
  <2> QED BY <1>3, <1>4, <2>1 DEF ErrorInv, BSY, At
<1>9. CASE Command(s)
  <2>1. Commanded(frame[s].op) /\ frame'[s].pc = "busy"
    BY <1>0, <1>9, GotoEffect DEF Command
  <2>2. IF BSY \/ DRQ THEN drive' = drive
        ELSE drive'.n = drive.n /\ drive'.phase = frame[s].op /\ drive'.err = FALSE
    BY <1>0, <2>1, CommandedEffect
  <2>3. ~(BSY \/ DRQ) => drive.phase = "idle"
    BY Typed DEF BSY, DRQ, Phases
  <2> QED BY <1>0, <1>6, <2>1, <2>2, <2>3 DEF ErrorInv
<1>10. CASE DataIn(s)
  <2>1. frame'[s].pc \in {"data", "ok"} /\ drive'.err = drive.err
    BY <1>10, DataInEffect, WordInEffect
  <2> QED BY <1>6, <1>10, <2>1, WordInEffect DEF ErrorInv
<1>11. CASE DataOut(s)
  <2>1. frame'[s].pc \in {"data", "flush"} /\ drive'.err = drive.err
    BY <1>11, DataOutEffect, WordOutEffect
  <2> QED BY <1>6, <1>11, <2>1, WordOutEffect DEF ErrorInv
<1>12. CASE Flush(s)
  <2>1. Commanded("flush") /\ frame'[s].pc = "flushed"
    BY <1>0, <1>12, GotoEffect DEF Flush
  <2>2. IF BSY \/ DRQ THEN drive' = drive
        ELSE drive'.n = drive.n /\ drive'.phase = "flush" /\ drive'.err = FALSE
    BY <1>0, <2>1, CommandedEffect
  <2>3. ~(BSY \/ DRQ) => drive.phase = "idle"
    BY Typed DEF BSY, DRQ, Phases
  <2> QED BY <1>6, <2>1, <2>2, <2>3 DEF ErrorInv
<1>13. CASE Finish(s)
  BY <1>5, <1>13, FinishEffect DEF At
<1> QED BY <1>7, <1>8, <1>9, <1>10, <1>11, <1>12, <1>13 DEF DriverStep

LEMMA ErrorStep == TypeOK /\ ErrorInv /\ [Next]_vars => ErrorInv'
<1> SUFFICES ASSUME TypeOK, ErrorInv, [Next]_vars PROVE ErrorInv'
  OBVIOUS
<1>1. CASE DriveWorks
  BY <1>1, DriveWorksEffect DEF ErrorInv, At, BSY
<1>2. CASE DriveFails
  BY <1>2, DriveFailsEffect DEF ErrorInv, At, BSY, DriveFails
<1>3. CASE Reboot
  <2>1. drive'.phase = "idle" /\ drive'.n = 1
    BY <1>3 DEF Reboot, Reset
  <2> QED BY <1>3, <2>1 DEF Reboot, Alone, ErrorInv, At
<1>4. ASSUME NEW s \in Contexts, Transfer(s) \/ DiskTest(s) PROVE ErrorInv'
  <2>1. /\ frame'[s].pc = "ready" /\ \A c \in Contexts \ {s} : frame'[c] = frame[c]
        /\ drive' = drive
        /\ trouble' = IF Alone THEN trouble ELSE trouble \cup {"overlap"}
    BY <1>4, BeginsEffect
  <2> QED BY <2>1 DEF ErrorInv, Alone, At, BSY
<1>5. CASE UNCHANGED vars
  BY <1>5 DEF vars, ErrorInv, At, BSY
<1> QED BY <1>1, <1>2, <1>3, <1>4, <1>5, ErrorDriver DEF Next, Drive

LEMMA ErrorInductive == Spec => [](TypeOK /\ ErrorInv)
<1>1. TypeOK /\ ErrorInv /\ [Next]_vars => (TypeOK /\ ErrorInv)'
  BY TypeStep, ErrorStep
<1> QED BY <1>1, AtaInit, PTL DEF Spec

(* After an error no sector changes and the error stays until a reboot,    *)
(* whatever later calls do, but for the flush sent without a look at it.   *)
THEOREM AtaErrorSticks == Spec => ErrorSticks
<1>1. TypeOK /\ ErrorInv /\ [Next]_vars =>
        [/\ drive.err /\ "overlap" \notin trouble
         /\ \A s \in Contexts : ~At(s, "flush")
         => disk' = disk /\ (drive'.err \/ drive' = Reset)]_vars
  <2> SUFFICES ASSUME TypeOK, ErrorInv, Next, drive.err, "overlap" \notin trouble,
                      \A s \in Contexts : ~At(s, "flush")
               PROVE  disk' = disk /\ (drive'.err \/ drive' = Reset)
    OBVIOUS
  <2>1. drive.phase = "idle" /\ ~BSY
    BY DEF ErrorInv, BSY
  <2>2. ~DriveWorks /\ ~DriveFails
    BY <2>1 DEF DriveWorks, DriveFails
  <2>3. CASE Reboot
    BY <2>3 DEF Reboot
  <2>4. ASSUME NEW s \in Contexts, Transfer(s) \/ DiskTest(s)
        PROVE  disk' = disk /\ drive'.err
    BY <2>4, BeginsEffect
  <2>5. ASSUME NEW s \in Contexts, DriverStep(s)
        PROVE  disk' = disk /\ drive'.err
    <3>1. ~Address(s) /\ ~Command(s) /\ ~Flush(s)
      BY DEF Address, Command, Flush, ErrorInv
    <3>2. Polls(s) \/ DataIn(s) \/ DataOut(s) \/ Finish(s)
      BY <2>5, <3>1 DEF DriverStep
    <3> QED BY <2>1, <3>2, PollEffect, DataInEffect, WordInEffect, DataOutEffect, WordOutEffect,
               FinishEffect
  <2> QED BY <2>2, <2>3, <2>4, <2>5 DEF Next, Drive
<1> QED BY <1>1, ErrorInductive, PTL DEF Spec, ErrorSticks

-----------------------------------------------------------------------------
(* The driver and the drive keep step until there is trouble: who talks to *)
(* a drive without a command, which sector it is at, how far the words     *)
(* have come on each side, and that what is in the buffers is, or is to    *)
(* be, what the sector holds.                                              *)
InStep(s) ==
  LET f == frame[s]
  IN  /\ f.pc \in {"ready", "address", "command", "ok", "failed"} => drive.phase = "idle"
      /\ f.pc \in {"command", "busy", "drq", "data", "flush", "flushed"} => drive.lba = f.lba
      /\ f.pc = "busy" => IF drive.err THEN drive.phase = "idle"
                          ELSE IF f.op = "read" THEN drive.phase \in {"read", "in"}
                          ELSE drive.phase \in {"write", "out"}
      /\ f.pc \in {"drq", "data"} => drive.phase = IF f.op = "read" THEN "in" ELSE "out"
      /\ f.pc \in {"busy", "drq"} => drive.n = 1
      /\ f.pc = "data" => drive.n = f.i
      /\ f.pc \in {"busy", "drq", "data"} /\ drive.phase = "in" => drive.buffer = disk[f.lba]
      /\ f.pc = "data" => \A j \in 1..LENGTH : j < f.i => drive.buffer[j] = f.buffer[j]
      /\ f.pc \in {"flush", "flushed"} =>
           /\ f.op = "write"
           /\ \/ drive.phase = "commit" /\ drive.buffer = f.buffer
              \/ drive.phase \in {"idle", "flush"} /\ (drive.err \/ disk[f.lba] = f.buffer)
      /\ f.pc = "ok" => disk[f.lba] = f.buffer

StoreInv ==
  trouble = {} => /\ Alone => drive.phase = "idle"
                  /\ \A s \in Contexts : ~At(s, "idle") => InStep(s)

LEMMA StoreInit == Init => StoreInv
<1> SUFFICES ASSUME Init PROVE StoreInv
  OBVIOUS
<1>1. \A s \in Contexts : frame[s].pc = "idle"
  BY DEF Init, NoCall
<1>2. drive.phase = "idle"
  BY DEF Init, Reset
<1> QED BY <1>1, <1>2 DEF StoreInv, At

LEMMA StoreDriver ==
  ASSUME TypeOK, ErrorInv, StoreInv, NEW s \in Contexts, DriverStep(s), trouble' = {}
  PROVE  StoreInv'
<1>0. /\ "command" \in Labels /\ "busy" \in Labels /\ "flushed" \in Labels
      /\ "flush" \in Phases /\ frame[s].op \in Phases /\ frame[s].op \in {"read", "write"}
      /\ frame[s].i \in 1..LENGTH /\ frame[s].buffer \in Data
      /\ drive.buffer \in Data /\ disk[frame[s].lba] \in Data
  BY Typed DEF TypeOK, Labels, Phases, Frame, DriveState
<1>1. frame[s].pc # "idle" /\ \A c \in Contexts \ {s} : frame'[c] = frame[c]
  <2>1. Polls(s) \/ Address(s) \/ Command(s) \/ DataIn(s) \/ DataOut(s) \/ Flush(s) \/ Finish(s)
    BY DEF DriverStep
  <2>2. Command(s) \/ Flush(s) => frame[s].pc # "idle" /\ \E l \in Labels : Goto(s, l)
    BY <1>0 DEF Command, Flush, At
  <2> QED BY <1>0, <2>1, <2>2, PollEffect, AddressEffect, GotoEffect, DataInEffect, DataOutEffect,
             FinishEffect
<1>2. trouble = {}
  BY PollEffect, AddressEffect, DataInEffect, DataOutEffect, FinishEffect
     DEF DriverStep, Command, Flush
<1>3. InStep(s) /\ \A c \in Contexts \ {s} : frame[c].pc = "idle"
  BY <1>1, <1>2, OthersIdle DEF StoreInv, At
<1>4. SUFFICES IF frame'[s].pc = "idle" THEN drive'.phase = "idle" ELSE InStep(s)'
  BY <1>1, <1>3 DEF StoreInv, At, Alone
<1>5. CASE Polls(s)
  <2>1. drive' = drive /\ disk' = disk /\ frame'[s].op = frame[s].op
          /\ frame'[s].lba = frame[s].lba /\ frame'[s].buffer = frame[s].buffer
    BY <1>5, PollEffect
  <2>2. CASE frame'[s].pc = frame[s].pc /\ frame'[s].i = frame[s].i
    BY <1>1, <1>3, <2>1, <2>2 DEF InStep
  <2>3. CASE frame'[s].pc = "failed" /\ drive.err
    BY <2>1, <2>3 DEF InStep, ErrorInv
  <2>4. CASE ~drive.err /\ frame'[s].i = 1
    <3>1. CASE frame[s].pc = "ready" /\ frame'[s].pc = "address"
      BY <1>3, <2>1, <3>1 DEF InStep
    <3>2. CASE frame[s].pc = "busy" /\ frame'[s].pc = "drq" /\ ~BSY
      BY <1>0, <1>3, <2>1, <2>4, <3>2 DEF InStep, BSY
    <3>3. CASE frame[s].pc = "drq" /\ frame'[s].pc = "data"
      BY <1>0, <1>3, <2>1, <2>4, <3>3 DEF InStep
    <3>4. CASE frame[s].pc = "flushed" /\ frame'[s].pc = "ok" /\ ~BSY
      BY <1>0, <1>3, <2>1, <2>4, <3>4 DEF InStep, BSY
    <3>5. frame'[s].pc # "failed" \/ frame'[s].pc = frame[s].pc
      BY <1>5, <1>2, <2>4, PollEffect
    <3> QED BY <1>5, <2>2, <2>4, <3>1, <3>2, <3>3, <3>4, <3>5, PollEffect
  <2> QED BY <1>2, <1>5, <2>2, <2>3, <2>4, PollEffect
<1>6. CASE Address(s)
  <2>1. frame[s].pc = "address" /\ drive'.phase = drive.phase /\ disk' = disk
          /\ IF BSY \/ DRQ THEN drive' = drive ELSE drive'.lba = frame[s].lba
    BY <1>6, AddressEffect
  <2>2. frame'[s].pc = "command" /\ frame'[s].lba = frame[s].lba
    BY <1>0, <1>6, AddressEffect, GotoEffect
  <2>3. drive.phase = "idle"
    BY <1>3, <2>1 DEF InStep
  <2> QED BY <2>1, <2>2, <2>3 DEF InStep, BSY, DRQ
<1>7. CASE Command(s)
  <2>1. /\ frame[s].pc = "command" /\ Commanded(frame[s].op) /\ frame'[s].pc = "busy"
        /\ frame'[s].lba = frame[s].lba /\ frame'[s].op = frame[s].op /\ disk' = disk
    BY <1>0, <1>7, GotoEffect DEF Command, At
  <2>2. drive.phase = "idle" /\ drive.lba = frame[s].lba /\ drive.n = 1
    BY <1>3, <2>1 DEF InStep, ErrorInv
  <2>3. drive'.lba = drive.lba /\ drive'.n = 1 /\ drive'.phase = frame[s].op /\ drive'.err = FALSE
    BY <1>0, <2>1, <2>2, CommandedEffect DEF BSY, DRQ
  <2> QED BY <1>0, <2>1, <2>2, <2>3 DEF InStep
<1>8. CASE DataIn(s)
  <2> DEFINE i == frame[s].i
  <2>1. /\ frame[s].pc = "data" /\ frame[s].op = "read" /\ disk' = disk
        /\ frame'[s].lba = frame[s].lba /\ frame'[s].op = frame[s].op
    BY <1>8, DataInEffect
  <2>2. /\ drive.phase = "in" /\ drive.n = i /\ drive.lba = frame[s].lba
        /\ drive.buffer = disk[frame[s].lba]
        /\ \A j \in 1..LENGTH : j < i => drive.buffer[j] = frame[s].buffer[j]
    BY <1>3, <2>1 DEF InStep
  <2>3. frame'[s].buffer = [frame[s].buffer EXCEPT ![i] = drive.buffer[i]]
    BY <1>8, <2>2, DataInEffect
  <2>4. CASE i < LENGTH
    <3>1. frame'[s].pc = "data" /\ frame'[s].i = i + 1
      BY <1>8, <2>4, DataInEffect
    <3>2. /\ drive'.phase = "in" /\ drive'.n = i + 1 /\ drive'.buffer = drive.buffer
          /\ drive'.lba = drive.lba
      BY <1>8, <2>2, <2>4, WordInEffect
    <3>3. ASSUME NEW j \in 1..LENGTH, j < i + 1
          PROVE  drive.buffer[j] = frame'[s].buffer[j]
      <4>1. CASE j = i
        BY <1>0, <2>3, <4>1 DEF Data
      <4>2. CASE j # i
        BY <1>0, <2>2, <2>3, <3>3, <4>2, Positive DEF Data
      <4> QED BY <4>1, <4>2
    <3> QED BY <2>1, <2>2, <3>1, <3>2, <3>3 DEF InStep
  <2>5. CASE ~(i < LENGTH)
    <3>1. frame'[s].pc = "ok"
      BY <1>8, <2>5, DataInEffect
    <3>2. drive'.phase = "idle"
      BY <1>8, <2>2, <2>5, WordInEffect
    <3>3. i = LENGTH
      BY <1>0, <2>5, Positive
    <3>4. ASSUME NEW j \in 1..LENGTH
          PROVE  disk[frame[s].lba][j] = frame'[s].buffer[j]
      BY <1>0, <2>2, <2>3, <3>3, Positive DEF Data
    <3>5. frame'[s].buffer \in Data
      BY <1>8, DataInEffect DEF Frame
    <3>6. disk[frame[s].lba] = frame'[s].buffer
      BY <1>0, <3>4, <3>5, SameWords
    <3> QED BY <2>1, <3>1, <3>2, <3>6 DEF InStep
  <2> QED BY <2>4, <2>5
<1>9. CASE DataOut(s)
  <2> DEFINE i == frame[s].i
  <2>1. /\ frame[s].pc = "data" /\ frame[s].op = "write" /\ disk' = disk
        /\ frame'[s].lba = frame[s].lba /\ frame'[s].op = frame[s].op
        /\ frame'[s].buffer = frame[s].buffer
    BY <1>9, DataOutEffect
  <2>2. /\ drive.phase = "out" /\ drive.n = i /\ drive.lba = frame[s].lba
        /\ \A j \in 1..LENGTH : j < i => drive.buffer[j] = frame[s].buffer[j]
    BY <1>3, <2>1 DEF InStep
  <2>3. drive'.lba = drive.lba /\ drive'.buffer = [drive.buffer EXCEPT ![i] = frame[s].buffer[i]]
    BY <1>9, <2>2, WordOutEffect
  <2>4. CASE i < LENGTH
    <3>1. frame'[s].pc = "data" /\ frame'[s].i = i + 1
      BY <1>9, <2>4, DataOutEffect
    <3>2. drive'.phase = "out" /\ drive'.n = i + 1
      BY <1>9, <2>2, <2>4, WordOutEffect
    <3>3. ASSUME NEW j \in 1..LENGTH, j < i + 1
          PROVE  drive'.buffer[j] = frame[s].buffer[j]
      BY <1>0, <2>2, <2>3, <3>3, Positive DEF Data
    <3> QED BY <2>1, <2>2, <2>3, <3>1, <3>2, <3>3 DEF InStep
  <2>5. CASE ~(i < LENGTH)
    <3>1. frame'[s].pc = "flush"
      BY <1>9, <2>5, DataOutEffect
    <3>2. drive'.phase = "commit"
      BY <1>9, <2>2, <2>5, WordOutEffect
    <3>3. i = LENGTH
      BY <1>0, <2>5, Positive
    <3>4. ASSUME NEW j \in 1..LENGTH
          PROVE  drive'.buffer[j] = frame[s].buffer[j]
      BY <1>0, <2>2, <2>3, <3>3, Positive DEF Data
    <3>5. drive'.buffer \in Data
      BY <1>0, <2>3 DEF Data
    <3>6. drive'.buffer = frame[s].buffer
      BY <1>0, <3>4, <3>5, SameWords
    <3> QED BY <2>1, <2>2, <2>3, <3>1, <3>2, <3>6 DEF InStep
  <2> QED BY <2>4, <2>5
<1>10. CASE Flush(s)
  <2>1. /\ frame[s].pc = "flush" /\ Commanded("flush") /\ frame'[s].pc = "flushed"
        /\ frame'[s].lba = frame[s].lba /\ frame'[s].op = frame[s].op
        /\ frame'[s].buffer = frame[s].buffer /\ disk' = disk
    BY <1>0, <1>10, GotoEffect DEF Flush, At
  <2>2. ~drive.err
    BY <1>10 DEF Flush
  <2>3. IF BSY \/ DRQ THEN drive' = drive ELSE drive'.phase = "flush" /\ drive'.err = FALSE
    BY <1>0, <2>1, CommandedEffect
  <2>4. drive'.lba = drive.lba /\ drive'.buffer = drive.buffer
    BY <1>0, <2>1, CommandedEffect
  <2>5. ~(BSY \/ DRQ) => drive.phase = "idle"
    BY Typed DEF BSY, DRQ, Phases
  <2> QED BY <1>3, <2>1, <2>2, <2>3, <2>4, <2>5 DEF InStep
<1>11. CASE Finish(s)
  <2>1. drive.phase = "idle" /\ drive' = drive
    BY <1>3, <1>11, FinishEffect DEF InStep
  <2>2. frame'[s].pc \in {"idle", "ready"}
    BY <1>11, FinishEffect
  <2> QED BY <2>1, <2>2 DEF InStep
<1> QED BY <1>5, <1>6, <1>7, <1>8, <1>9, <1>10, <1>11 DEF DriverStep

LEMMA StoreStep == TypeOK /\ ErrorInv /\ StoreInv /\ [Next]_vars => StoreInv'
<1> SUFFICES ASSUME TypeOK, ErrorInv, StoreInv, [Next]_vars, trouble' = {} PROVE StoreInv'
  BY DEF StoreInv
<1>1. CASE DriveWorks
  <2>1. trouble = {} /\ frame' = frame /\ drive'.lba = drive.lba /\ drive'.err = drive.err
    BY <1>1, DriveWorksEffect
  <2>2. ~Alone
    BY <1>1, <2>1 DEF DriveWorks, StoreInv
  <2>3. ASSUME NEW s \in Contexts, frame[s].pc # "idle" PROVE InStep(s)'
    <3>1. InStep(s) /\ frame[s].pc \in Labels /\ frame[s].op \in {"read", "write"}
      BY <2>1, <2>3, Typed DEF StoreInv, At, Frame
    <3>2. drive.err => drive.phase = "idle"
      BY DEF ErrorInv
    <3>3. frame[s].lba \in Sectors /\ drive.lba \in Sectors /\ disk \in [Sectors -> Data]
      BY Typed DEF TypeOK, Frame
    <3>4. CASE drive.phase = "read"
      <4>1. drive'.phase = "in" /\ disk' = disk /\ drive'.buffer = disk[drive.lba]
              /\ drive'.n = drive.n
        BY <1>1, <3>4, DriveWorksEffect
      <4>2. frame[s].pc = "busy"
        BY <2>3, <3>1, <3>2, <3>4 DEF InStep, Labels
      <4> QED BY <2>1, <3>1, <3>2, <3>4, <4>1, <4>2 DEF InStep
    <3>5. CASE drive.phase = "write"
      <4>1. drive'.phase = "out" /\ disk' = disk /\ drive'.n = drive.n
        BY <1>1, <3>5, DriveWorksEffect
      <4>2. frame[s].pc = "busy"
        BY <2>3, <3>1, <3>2, <3>5 DEF InStep, Labels
      <4> QED BY <2>1, <3>1, <3>2, <3>5, <4>1, <4>2 DEF InStep
    <3>6. CASE drive.phase = "commit"
      <4>1. drive'.phase = "idle" /\ disk' = [disk EXCEPT ![drive.lba] = drive.buffer]
        BY <1>1, <3>6, DriveWorksEffect
      <4>2. frame[s].pc \in {"flush", "flushed"}
        BY <2>3, <3>1, <3>2, <3>6 DEF InStep, Labels
      <4>3. drive.lba = frame[s].lba /\ drive.buffer = frame[s].buffer /\ frame[s].op = "write"
        BY <3>1, <3>6, <4>2 DEF InStep
      <4> QED BY <2>1, <3>3, <4>1, <4>2, <4>3 DEF InStep
    <3>7. CASE drive.phase = "flush"
      <4>1. drive'.phase = "idle" /\ disk' = disk
        BY <1>1, <3>7, DriveWorksEffect
      <4>2. frame[s].pc \in {"flush", "flushed"}
        BY <2>3, <3>1, <3>2, <3>7 DEF InStep, Labels
      <4> QED BY <2>1, <3>1, <3>7, <4>1, <4>2 DEF InStep
    <3> QED BY <1>1, <3>4, <3>5, <3>6, <3>7 DEF DriveWorks
  <2> QED BY <2>1, <2>2, <2>3 DEF StoreInv, At, Alone
<1>2. CASE DriveFails
  <2>1. trouble = {} /\ frame' = frame /\ disk' = disk /\ drive'.lba = drive.lba
          /\ drive'.err = TRUE /\ drive'.phase = "idle" /\ drive'.n = 1
    BY <1>2, DriveFailsEffect
  <2>2. ASSUME NEW s \in Contexts, frame[s].pc # "idle" PROVE InStep(s)'
    <3>1. InStep(s) /\ frame[s].pc \in Labels
      BY <2>1, <2>2, Typed DEF StoreInv, At
    <3>2. frame[s].pc \in {"busy", "flush", "flushed"}
      BY <1>2, <2>2, <3>1 DEF DriveFails, BSY, InStep, Labels
    <3> QED BY <2>1, <3>1, <3>2 DEF InStep
  <2> QED BY <2>1, <2>2 DEF StoreInv, At
<1>3. CASE Reboot
  <2>1. drive'.phase = "idle" /\ frame' = frame
    BY <1>3 DEF Reboot, Reset
  <2> QED BY <1>3, <2>1 DEF Reboot, Alone, StoreInv, At
<1>4. ASSUME NEW s \in Contexts, Transfer(s) \/ DiskTest(s) PROVE StoreInv'
  <2>1. /\ frame'[s].pc = "ready" /\ \A c \in Contexts \ {s} : frame'[c] = frame[c]
        /\ drive' = drive /\ Alone /\ trouble = {}
    BY <1>4, BeginsEffect
  <2>2. drive.phase = "idle" /\ \A c \in Contexts \ {s} : frame'[c].pc = "idle"
    BY <2>1 DEF StoreInv, Alone, At
  <2>3. InStep(s)'
    BY <2>1, <2>2 DEF InStep
  <2> QED BY <2>1, <2>2, <2>3 DEF StoreInv, At, Alone
<1>5. CASE UNCHANGED vars
  BY <1>5 DEF vars, StoreInv, Alone, At, InStep
<1> QED BY <1>1, <1>2, <1>3, <1>4, <1>5, StoreDriver DEF Next, Drive

LEMMA StoreInductive == Spec => [](TypeOK /\ ErrorInv /\ StoreInv)
<1>1. TypeOK /\ ErrorInv /\ StoreInv /\ [Next]_vars => (TypeOK /\ ErrorInv /\ StoreInv)'
  BY TypeStep, ErrorStep, StoreStep
<1> QED BY <1>1, AtaInit, StoreInit, PTL DEF Spec

-----------------------------------------------------------------------------
(* The refinement.  What a caller sees of its frame, as a function of it.  *)
CallAs(f) ==
  IF f.pc = "idle" THEN [state |-> "idle"]
  ELSE [state |-> IF f.pc \in {"ok", "failed"} THEN f.pc ELSE "running", op |-> f.op,
        lba |-> f.lba, data |-> IF f.op = "read" /\ f.pc # "ok" THEN <<>> ELSE f.buffer]

LEMMA CallsAre ==
  /\ Calls = [s \in Contexts |-> CallAs(frame[s])]
  /\ Calls' = [s \in Contexts |-> CallAs(frame'[s])]
BY Zenon DEF Calls, CallOf, CallAs, StateOf, At

LEMMA NoDataIsNoData == <<>> \notin Data
<1>1. ASSUME <<>> \in Data PROVE FALSE
  <2>1. DOMAIN <<>> = 1..LENGTH
    BY <1>1 DEF Data
  <2>2. DOMAIN <<>> = {}
    OBVIOUS
  <2> QED BY <2>1, <2>2, Positive
<1> QED BY <1>1

(* One call changes at a time, or none.                                    *)
LEMMA OneCallChanges ==
  ASSUME NEW s \in Contexts, \A c \in Contexts \ {s} : frame'[c] = frame[c]
  PROVE  Calls' = [Calls EXCEPT ![s] = CallAs(frame'[s])]
BY CallsAre

LEMMA NoCallChanges ==
  ASSUME NEW s \in Contexts, \A c \in Contexts \ {s} : frame'[c] = frame[c],
         CallAs(frame'[s]) = CallAs(frame[s])
  PROVE  Calls' = Calls
BY CallsAre

LEMMA BeginMaps ==
  ASSUME TypeOK, NEW s \in Contexts, frame[s].pc \in {"idle", "ok", "failed"}, disk' = disk,
         frame' \in [Contexts -> Frame], frame'[s].pc = "ready",
         \A c \in Contexts \ {s} : frame'[c] = frame[c]
  PROVE  \E c \in Store!Calls : Store!Begin(s, c)
<1> DEFINE c == CallAs(frame'[s])
<1>1. frame'[s] \in Frame
  OBVIOUS
<1>2. c = [state |-> "running", op |-> frame'[s].op, lba |-> frame'[s].lba,
           data |-> IF frame'[s].op = "read" THEN <<>> ELSE frame'[s].buffer]
  BY DEF CallAs
<1>3. c \in Store!Calls /\ ((c.op = "read") <=> (c.data = <<>>))
  BY <1>1, <1>2, NoDataIsNoData DEF Store!Calls, Frame
<1>4. Calls[s].state # "running"
  BY CallsAre DEF CallAs
<1>5. Calls' = [Calls EXCEPT ![s] = c]
  BY OneCallChanges
<1> HIDE DEF c
<1> QED BY <1>3, <1>4, <1>5 DEF Store!Begin

LEMMA FailMaps ==
  ASSUME TypeOK, NEW s \in Contexts, frame[s].pc \notin {"idle", "ok", "failed"}, disk' = disk,
         frame'[s].pc = "failed", frame'[s].op = frame[s].op,
         frame'[s].lba = frame[s].lba, frame'[s].buffer = frame[s].buffer,
         \A c \in Contexts \ {s} : frame'[c] = frame[c]
  PROVE  Store!Fail(s)
<1> DEFINE d == IF frame[s].op = "read" THEN <<>> ELSE frame[s].buffer
<1>1. CallAs(frame[s]) = [state |-> "running", op |-> frame[s].op, lba |-> frame[s].lba, data |-> d]
  BY DEF CallAs
<1>2. CallAs(frame'[s]) = [state |-> "failed", op |-> frame[s].op, lba |-> frame[s].lba, data |-> d]
  BY DEF CallAs
<1> HIDE DEF d
<1>3. CallAs(frame'[s]) = [CallAs(frame[s]) EXCEPT !.state = "failed"]
  BY <1>1, <1>2
<1>4. Calls[s] = CallAs(frame[s]) /\ Calls[s].state = "running"
  BY <1>1, CallsAre
<1>5. Calls' = [Calls EXCEPT ![s] = [Calls[s] EXCEPT !.state = "failed"]]
  BY <1>3, <1>4, OneCallChanges
<1> QED BY <1>4, <1>5 DEF Store!Fail

LEMMA SucceedMaps ==
  ASSUME TypeOK, NEW s \in Contexts, frame[s].pc \notin {"idle", "ok", "failed"}, disk' = disk,
         frame'[s].pc = "ok", frame'[s].op = frame[s].op,
         frame'[s].lba = frame[s].lba, frame'[s].buffer = disk[frame[s].lba],
         frame[s].op = "write" => frame[s].buffer = disk[frame[s].lba],
         \A c \in Contexts \ {s} : frame'[c] = frame[c]
  PROVE  Store!Succeed(s)
<1> DEFINE d == IF frame[s].op = "read" THEN <<>> ELSE frame[s].buffer
           x == disk[frame[s].lba]
<1>1. CallAs(frame[s]) = [state |-> "running", op |-> frame[s].op, lba |-> frame[s].lba, data |-> d]
  BY DEF CallAs
<1>2. CallAs(frame'[s]) = [state |-> "ok", op |-> frame[s].op, lba |-> frame[s].lba, data |-> x]
  BY DEF CallAs
<1>3. frame[s].op = "write" => d = x
  OBVIOUS
<1> HIDE DEF d, x
<1> DEFINE c == [state |-> "ok", op |-> frame[s].op, lba |-> frame[s].lba, data |-> d]
<1>4. CallAs(frame'[s]) = [[CallAs(frame[s]) EXCEPT !.state = "ok"] EXCEPT !.data = x]
  <2>1. [CallAs(frame[s]) EXCEPT !.state = "ok"] = c
    BY <1>1
  <2>2. [c EXCEPT !.data = x]
          = [state |-> "ok", op |-> frame[s].op, lba |-> frame[s].lba, data |-> x]
    OBVIOUS
  <2> HIDE DEF c
  <2> QED BY <1>2, <2>1, <2>2
<1>5. /\ Calls[s] = CallAs(frame[s]) /\ Calls[s].state = "running" /\ Calls[s].op = frame[s].op
      /\ Calls[s].lba = frame[s].lba /\ Calls[s].data = d
  BY <1>1, CallsAre
<1>6. Calls' = [Calls EXCEPT ![s] = [[Calls[s] EXCEPT !.state = "ok"] EXCEPT !.data = x]]
  BY <1>4, <1>5, OneCallChanges
<1>7. Calls' = [Calls EXCEPT ![s].state = "ok", ![s].data = x]
  BY <1>6
<1> QED BY <1>3, <1>5, <1>7 DEF Store!Succeed, x

LEMMA FinishMaps ==
  ASSUME TypeOK, NEW s \in Contexts, Finish(s)
  PROVE  Store!Finish(s) \/ \E c \in Store!Calls : Store!Begin(s, c)
<1>1. CASE frame'[s].pc = "idle"
  <2>1. CallAs(frame'[s]) = Store!Idle
    BY <1>1 DEF CallAs, Store!Idle
  <2>2. Calls[s].state # "running"
    BY <1>1, CallsAre, FinishEffect DEF CallAs
  <2>3. Calls' = [Calls EXCEPT ![s] = Store!Idle]
    BY <2>1, FinishEffect, OneCallChanges
  <2> QED BY <2>2, <2>3, FinishEffect DEF Store!Finish
<1>2. CASE frame'[s].pc = "ready"
  BY <1>2, FinishEffect, BeginMaps
<1> QED BY <1>1, <1>2, FinishEffect

LEMMA DriverMaps ==
  ASSUME TypeOK, ErrorInv, StoreInv, StoreInv', NEW s \in Contexts, DriverStep(s), trouble' = {}
  PROVE  Store!Next \/ UNCHANGED <<disk, Calls>>
<1>0. /\ "command" \in Labels /\ "busy" \in Labels /\ "flushed" \in Labels
      /\ frame[s].op \in {"read", "write"}
  BY Typed DEF Labels, Frame
<1>1. frame'[s].pc # "idle" => InStep(s)'
  BY DEF StoreInv, At
<1>2. ASSUME disk' = disk, \A c \in Contexts \ {s} : frame'[c] = frame[c],
             frame[s].pc \notin {"idle", "ok", "failed"},
             frame'[s].pc \notin {"idle", "ok", "failed"},
             frame'[s].op = frame[s].op, frame'[s].lba = frame[s].lba,
             frame[s].op = "write" => frame'[s].buffer = frame[s].buffer
      PROVE  UNCHANGED <<disk, Calls>>
  <2>1. CallAs(frame'[s]) = CallAs(frame[s])
    BY <1>0, <1>2 DEF CallAs
  <2> QED BY <1>2, <2>1, NoCallChanges
<1>3. Store!Fail(s) \/ Store!Succeed(s) \/ Store!Finish(s) \/ (\E c \in Store!Calls : Store!Begin(s, c))
        => Store!Next
  BY DEF Store!Next
<1>4. CASE Polls(s)
  <2>1. /\ disk' = disk /\ \A c \in Contexts \ {s} : frame'[c] = frame[c]
        /\ frame[s].pc \notin {"idle", "ok", "failed"}
        /\ frame'[s].op = frame[s].op /\ frame'[s].lba = frame[s].lba
        /\ frame'[s].buffer = frame[s].buffer
    BY <1>4, PollEffect
  <2>2. CASE frame'[s].pc = "failed"
    BY <1>3, <2>1, <2>2, FailMaps
  <2>3. CASE frame'[s].pc = "ok"
    <3>1. disk[frame[s].lba] = frame[s].buffer
      BY <1>1, <2>1, <2>3 DEF InStep
    <3> QED BY <1>3, <2>1, <2>3, <3>1, SucceedMaps
  <2>4. CASE frame'[s].pc \notin {"ok", "failed"}
    <3>1. frame'[s].pc # "idle"
      BY <1>4, <2>1, <2>4, PollEffect
    <3> QED BY <1>2, <2>1, <2>4, <3>1
  <2> QED BY <2>2, <2>3, <2>4
<1>5. CASE Address(s) \/ Command(s) \/ Flush(s)
  <2>1. PICK l \in {"command", "busy", "flushed"} : Goto(s, l)
    BY <1>5 DEF Address, Command, Flush
  <2>2. disk' = disk /\ frame[s].pc \in {"address", "command", "flush"}
    BY <1>5 DEF Address, Command, Flush, At
  <2> QED BY <1>0, <1>2, <2>1, <2>2, GotoEffect
<1>6. CASE DataIn(s)
  <2>1. /\ disk' = disk /\ \A c \in Contexts \ {s} : frame'[c] = frame[c]
        /\ frame[s].pc = "data" /\ frame[s].op = "read" /\ frame'[s].pc \in {"data", "ok"}
        /\ frame'[s].op = frame[s].op /\ frame'[s].lba = frame[s].lba
    BY <1>6, DataInEffect
  <2>2. CASE frame'[s].pc = "ok"
    <3>1. disk[frame[s].lba] = frame'[s].buffer
      BY <1>1, <2>1, <2>2 DEF InStep
    <3> QED BY <1>3, <2>1, <2>2, <3>1, SucceedMaps
  <2> QED BY <1>2, <2>1, <2>2
<1>7. CASE DataOut(s)
  BY <1>2, <1>7, DataOutEffect
<1>8. CASE Finish(s)
  BY <1>3, <1>8, FinishMaps
<1> QED BY <1>4, <1>5, <1>6, <1>7, <1>8 DEF DriverStep

(* Storing the sector is the drive's step, for the call that waits for it. *)
LEMMA DriveMaps ==
  ASSUME TypeOK, ErrorInv, StoreInv, DriveWorks, trouble' = {}
  PROVE  Store!Next \/ UNCHANGED <<disk, Calls>>
<1>1. frame' = frame /\ trouble = {}
  BY DriveWorksEffect
<1>2. Calls' = Calls
  BY <1>1, CallsAre
<1>3. CASE drive.phase = "commit"
  <2>1. disk' = [disk EXCEPT ![drive.lba] = drive.buffer]
    BY <1>3, DriveWorksEffect
  <2>2. PICK s \in Contexts : frame[s].pc # "idle"
    BY <1>1, <1>3 DEF StoreInv, Alone, At
  <2>3. InStep(s) /\ frame[s].pc \in Labels /\ frame[s].op \in {"read", "write"}
    BY <1>1, <2>2, Typed DEF StoreInv, At, Frame
  <2>4. frame[s].pc \in {"flush", "flushed"}
    BY <1>3, <2>2, <2>3 DEF InStep, Labels, ErrorInv
  <2>5. drive.lba = frame[s].lba /\ drive.buffer = frame[s].buffer /\ frame[s].op = "write"
    BY <1>3, <2>3, <2>4 DEF InStep
  <2>6. Calls[s] = [state |-> "running", op |-> "write", lba |-> drive.lba, data |-> drive.buffer]
    BY <2>4, <2>5, CallsAre DEF CallAs
  <2>7. Store!Store(s)
    BY <1>2, <2>1, <2>6 DEF Store!Store
  <2> QED BY <2>7 DEF Store!Next
<1>4. CASE drive.phase # "commit"
  BY <1>2, <1>4, DriveWorksEffect
<1> QED BY <1>3, <1>4

(* What the driver reports written is stored, what it reports read was     *)
(* stored, and no other sector changes, until one of the three kinds of    *)
(* trouble; a reboot mends it.                                             *)
THEOREM AtaImplementsStore == Spec => StoreUntilTrouble
<1>1. Init => Store!Init
  <2> SUFFICES ASSUME Init PROVE Store!Init
    OBVIOUS
  <2>1. \A s \in Contexts : CallAs(frame[s]) = Store!Idle
    BY DEF Init, NoCall, CallAs, Store!Idle
  <2>2. Calls = [s \in Contexts |-> Store!Idle]
    BY <2>1, CallsAre
  <2>3. disk \in [Sectors -> Data]
    BY AtaInit DEF TypeOK
  <2> QED BY <2>2, <2>3 DEF Store!Init
<1>2. TypeOK /\ ErrorInv /\ StoreInv /\ (TypeOK /\ ErrorInv /\ StoreInv)' /\ [Next]_vars
        => [Store!Next \/ trouble' # {}]_<<disk, Calls>>
  <2> SUFFICES ASSUME TypeOK, ErrorInv, StoreInv, StoreInv', [Next]_vars, trouble' = {}
               PROVE  Store!Next \/ UNCHANGED <<disk, Calls>>
    OBVIOUS
  <2>1. CASE DriveFails
    BY <2>1, CallsAre, DriveFailsEffect
  <2>2. CASE Reboot
    BY <2>2, CallsAre DEF Reboot
  <2>3. ASSUME NEW s \in Contexts, Transfer(s) \/ DiskTest(s) PROVE Store!Next
    <3>1. \E c \in Store!Calls : Store!Begin(s, c)
      BY <2>3, BeginsEffect, BeginMaps
    <3> QED BY <3>1 DEF Store!Next
  <2>4. CASE UNCHANGED vars
    BY <2>4, CallsAre DEF vars
  <2> QED BY <2>1, <2>2, <2>3, <2>4, DriveMaps, DriverMaps DEF Next, Drive
<1> QED BY <1>1, <1>2, StoreInductive, PTL DEF Spec, StoreUntilTrouble
=============================================================================
