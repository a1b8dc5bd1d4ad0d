---------------------------- MODULE SdTransaction ----------------------------
(***************************************************************************)
(* Reading a sector of the SD card, bare_metal/minion_helper.c:            *)
(* sd_read_sector tries sd_read_sector1 up to four times; that gives the   *)
(* controller a block-length command and a read command, each through      *)
(* sd_transaction_finish and the attempts of sd_transaction_finish2.       *)
(*                                                                         *)
(* The SD controller of the board is external.  Its registers are reached  *)
(* through the command queue, which performs the operations in order; the  *)
(* host's action is a group of them between which nothing it depends on    *)
(* changes.  A block is the number of its sector.                          *)
(*                                                                         *)
(* An operator named ..._bug is a variant of the next one with a plausible *)
(* fault; it is in no specification and serves to see that a property      *)
(* depends on that line of the code.                                       *)
(***************************************************************************)
EXTENDS Integers

CONSTANTS
  Sectors,    \* the sector numbers, from 1
  MaxPolls    \* polls of a command without an end (1000000 in the code)

ASSUME SdAssumption ==
  /\ Sectors \subseteq Nat \ {0}
  /\ MaxPolls \in Nat

None    == 0      \* an empty FIFO
Garbage == -1     \* part of a block, or memory that was not initialised
Blocks  == Sectors \cup {None, Garbage}

VARIABLES
  pc,       \* where the host is
  sect,     \* the sector asked for
  try,      \* i in sd_read_sector
  cmd,      \* the command given: "len" or "read"
  retry,    \* retry in sd_transaction_finish2
  rslt,     \* rslt there
  timeout,  \* timeout there
  status,   \* card_status, what is used of it
  iobuf,    \* minion_iobuf
  told,     \* history: the words in iobuf were reported not to be a block
  out,      \* the caller's buffer
  ret,      \* what sd_read_sector returned
  ctl,      \* the controller's registers
  fifo,     \* its receive FIFO
  idleDone  \* what its data-done bit reads when no data phase was started

vars == <<pc, sect, try, cmd, retry, rslt, timeout, status, iobuf, told, out, ret,
          ctl, fifo, idleDone>>

\* One status array is read in the order of its registers while the controller
\* runs; as its phases only advance, the array shows one state of it.
Status(c) ==
  [done  |-> c.cmd = "done",                                     \* [5] & 0x100
   late  |-> c.cmd = "late",                                     \* [4] >= [25]
   ddone |-> c.dat = "done" \/ (c.dat = "idle" /\ idleDone),     \* [5] & 0x400
   dlate |-> c.dat = "late",                                     \* [8] >= [25]
   count |-> c.count,                                            \* [9] # 0
   data  |-> c.data]                                             \* [20] & 0x14

Quiet == [start |-> FALSE, data |-> FALSE, arg |-> None,
          cmd |-> "idle", dat |-> "idle", count |-> FALSE]

Init ==
  /\ idleDone \in BOOLEAN
  /\ pc = "Idle" /\ sect = None /\ try = 0 /\ cmd = "len"
  /\ retry = 0 /\ rslt = 0 /\ timeout = 0 /\ status = Status(Quiet)
  /\ iobuf = Garbage /\ told = FALSE /\ out = Garbage /\ ret = 0
  /\ ctl = Quiet /\ fifo = None

-----------------------------------------------------------------------------
(* The host *)

SdReadSector(s) ==
  /\ pc = "Idle"
  /\ sect' = s /\ try' = 0 /\ cmd' = "len" /\ pc' = "Setup"
  /\ UNCHANGED <<retry, rslt, timeout, status, iobuf, told, out, ret, ctl, fifo>>

\* queue_block_read1(NULL, 0)
Drained == None

\* sd_transaction_finish: the controller is stopped, reset and given a command
Setup ==
  /\ pc = "Setup"
  /\ ctl' = [Quiet EXCEPT !.data = (cmd = "read"),
                          !.arg  = IF cmd = "read" THEN sect ELSE None]
  /\ status' = Status(ctl')
  /\ fifo' = Drained
  /\ rslt' = 0 /\ retry' = 0
  /\ pc' = "Start"
  /\ UNCHANGED <<sect, try, cmd, timeout, iobuf, told, out, ret>>

\* Only a command that timed out leaves the start bit down: after one whose
\* data did, the write of 1 may mean a new start to the controller or nothing.
Start ==
  /\ pc = "Start"
  /\ \/ ctl' = [ctl EXCEPT !.start = TRUE, !.cmd = "run", !.dat = "idle",
                           !.count = FALSE]
     \/ ctl.start /\ ctl' = ctl
  /\ status' = Status(ctl')
  /\ timeout' = 0
  /\ pc' = "CmdPoll"
  /\ UNCHANGED <<sect, try, cmd, retry, rslt, iobuf, told, out, ret, fifo>>

CmdPoll ==
  /\ pc = "CmdPoll"
  /\ status' = Status(ctl)
  /\ IF status'.done \/ status'.late \/ timeout >= MaxPolls
       THEN pc' = "CmdCheck" /\ UNCHANGED timeout
       ELSE timeout' = timeout + 1 /\ UNCHANGED pc
  /\ UNCHANGED <<sect, try, cmd, retry, rslt, iobuf, told, out, ret, ctl, fifo>>

\* sd_cmd_start(0); sd_setting(0)
Stopped_bug(c) == [c EXCEPT !.data = FALSE]
Stopped(c) == [c EXCEPT !.start = FALSE, !.data = FALSE,
                        !.cmd = "idle", !.dat = "idle"]

CmdCheck ==
  /\ pc = "CmdCheck"
  /\ status' = Status(ctl)
  /\ IF status'.late THEN ctl' = Stopped(ctl) /\ rslt' = -1
                     ELSE UNCHANGED <<ctl, rslt>>
  /\ pc' = IF status'.data THEN "DataPoll" ELSE "AttemptEnd"
  /\ UNCHANGED <<sect, try, cmd, retry, timeout, iobuf, told, out, ret, fifo>>

\* tmp is on the stack: the words the FIFO did not have are left as they were
Copied(block) == IF block \in Sectors THEN block ELSE Garbage

\* cnt != 129 is printed, and the block taken as read
Counted(block) == block \notin Sectors

DataFailed(st) == st.dlate \/ ~st.count

\* the loop that waits for the data has no other end
DataWait_bug(st) == ~st.ddone
DataWait(st) == ~st.ddone /\ ~st.dlate

DataPoll ==
  /\ pc = "DataPoll"
  /\ status' = Status(ctl)
  /\ IF DataWait(status')
       THEN UNCHANGED <<pc, rslt, iobuf, told, fifo>>
       ELSE /\ pc' = "AttemptEnd"
            /\ IF DataFailed(status')
                 THEN rslt' = -1 /\ UNCHANGED <<iobuf, told, fifo>>
                 ELSE /\ rslt' = rslt
                      /\ IF status'.data
                           THEN /\ iobuf' = Copied(fifo) /\ fifo' = None
                                /\ told' = Counted(fifo)
                           ELSE UNCHANGED <<iobuf, told, fifo>>
  /\ UNCHANGED <<sect, try, cmd, retry, timeout, out, ret, ctl>>

\* ++retry < 3
MoreAttempts_bug == retry < 3
MoreAttempts == retry + 1 < 3

\* rslt keeps the -1 of the attempt that failed, whatever the next one does
Retry ==
  /\ pc = "AttemptEnd" /\ rslt = -1 /\ MoreAttempts
  /\ retry' = retry + 1
  /\ pc' = "Start"
  /\ UNCHANGED <<sect, try, cmd, rslt, timeout, status, iobuf, told, out, ret,
                 ctl, fifo>>

\* sd_read_sector1: the read command follows, whatever came of the first one
AfterLen == cmd' = "read" /\ pc' = "Setup" /\ UNCHANGED <<try, out, ret>>

CopyOut_bug == iobuf
CopyOut == IF rslt = 0 THEN iobuf ELSE out

\* sd_read_sector: another sd_read_sector1, or the end
AfterRead ==
  IF rslt # 0 /\ try < 3
    THEN cmd' = "len" /\ try' = try + 1 /\ pc' = "Setup" /\ UNCHANGED <<out, ret>>
    ELSE pc' = "Idle" /\ ret' = rslt /\ out' = CopyOut /\ UNCHANGED <<cmd, try>>

\* the end of sd_transaction_finish2
Finish ==
  /\ pc = "AttemptEnd" /\ (rslt = 0 \/ ~MoreAttempts)
  /\ ctl' = Stopped(ctl)
  /\ retry' = IF rslt = 0 THEN retry ELSE retry + 1
  /\ IF cmd = "len" THEN AfterLen ELSE AfterRead
  /\ UNCHANGED <<sect, rslt, timeout, status, iobuf, told, fifo>>

-----------------------------------------------------------------------------
(* The controller *)

CmdEnds ==
  /\ ctl.start /\ ctl.cmd = "run"
  /\ \/ ctl' = [ctl EXCEPT !.cmd = "done",
                           !.dat = IF ctl.data THEN "run" ELSE "idle"]
     \/ ctl' = [ctl EXCEPT !.cmd = "late"]
  /\ UNCHANGED <<pc, sect, try, cmd, retry, rslt, timeout, status, iobuf, told, out,
                 ret, fifo>>

\* what the FIFO holds when the block b has been added to it
Added(b) == IF fifo = None THEN b ELSE Garbage

DataEnds ==
  /\ ctl.start /\ ctl.dat = "run"
  /\ \/ /\ ctl' = [ctl EXCEPT !.dat = "done", !.count = TRUE]
        /\ fifo' \in {Added(ctl.arg), Garbage}       \* or words are missing
     \/ /\ ctl' = [ctl EXCEPT !.dat = "late", !.count = TRUE]
        /\ fifo' = Garbage
     \/ ctl' = [ctl EXCEPT !.dat = "late"] /\ fifo' = fifo
  /\ UNCHANGED <<pc, sect, try, cmd, retry, rslt, timeout, status, iobuf, told, out,
                 ret>>

-----------------------------------------------------------------------------
Host == Setup \/ Start \/ CmdPoll \/ CmdCheck \/ DataPoll \/ Retry \/ Finish

Next ==
  /\ (\E s \in Sectors : SdReadSector(s)) \/ Host \/ CmdEnds \/ DataEnds
  /\ UNCHANGED idleDone

Spec == Init /\ [][Next]_vars

\* The host's loops never block; the controller ends or times out each phase.
FairSpec ==
  /\ Spec
  /\ WF_vars(Host /\ UNCHANGED idleDone)
  /\ WF_vars((CmdEnds \/ DataEnds) /\ UNCHANGED idleDone)

-----------------------------------------------------------------------------
(* Properties *)

\* The variables have their types.
TypeOK ==
  /\ pc \in {"Idle", "Setup", "Start", "CmdPoll", "CmdCheck", "DataPoll",
             "AttemptEnd"}
  /\ sect \in Sectors \cup {None} /\ try \in 0..3 /\ cmd \in {"len", "read"}
  /\ retry \in 0..3 /\ rslt \in {0, -1} /\ timeout \in 0..MaxPolls
  /\ status \in [done : BOOLEAN, late : BOOLEAN, ddone : BOOLEAN, dlate : BOOLEAN,
                 count : BOOLEAN, data : BOOLEAN]
  /\ iobuf \in Blocks /\ told \in BOOLEAN /\ out \in Blocks /\ ret \in {0, -1}
  /\ ctl \in [start : BOOLEAN, data : BOOLEAN, arg : Sectors \cup {None},
              cmd : {"idle", "run", "done", "late"},
              dat : {"idle", "run", "done", "late"}, count : BOOLEAN]
  /\ fifo \in Blocks /\ idleDone \in BOOLEAN

\* Between calls, whatever timed out, the controller is stopped: no phase of an
\* abandoned command can end during the next one.
StoppedBetweenCalls ==
  pc \in {"Idle", "Setup"} => ctl.cmd # "run" /\ ctl.dat # "run" /\ ~ctl.start

\* A call of sd_read_sector returns, when the controller ends what it starts
\* and shows no data phase outstanding where none was started.
ReadReturns == idleDone /\ pc # "Idle" ~> pc = "Idle"
=============================================================================
