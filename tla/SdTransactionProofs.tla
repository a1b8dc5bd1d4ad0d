------------------------- MODULE SdTransactionProofs -------------------------
(* Theorems about SdTransaction for every card size and every limit of the  *)
(* polls, up to the refinement of SectorReader.                             *)
EXTENDS MCSdTransaction, TLAPS

Busy == pc \notin {"Idle", "Setup"}

\* During a call nothing is asked of the card, and nothing is in the FIFO, but
\* the sector of the call.
ThisSector ==
  Busy => ctl.arg \in {None, sect} /\ fifo \in {None, Garbage, sect}

\* An attempt that has not failed has not been stopped: its data are still
\* asked for, and the block it ends with is the sector or was reported.
GoodSoFar ==
  cmd = "read" /\ rslt = 0 =>
    /\ pc \in {"Start", "CmdPoll", "CmdCheck", "DataPoll"} => ctl.data
    /\ pc = "AttemptEnd" => iobuf = IF told THEN Garbage ELSE sect

Counters ==
  /\ Busy => retry <= 2
  /\ pc # "Idle" => sect \in Sectors

IInv == TypeOK /\ StoppedBetweenCalls /\ ThisSector /\ GoodSoFar /\ Counters

\* A step of the controller: it touches its registers and the FIFO only, while
\* it is started, and keeps what it was asked.
Controller == CmdEnds \/ DataEnds

Flags == [done : BOOLEAN, late : BOOLEAN, ddone : BOOLEAN, dlate : BOOLEAN,
          count : BOOLEAN, data : BOOLEAN]
Phase == {"idle", "run", "done", "late"}
Registers == [start : BOOLEAN, data : BOOLEAN, arg : Sectors \cup {None},
              cmd : Phase, dat : Phase, count : BOOLEAN]

-----------------------------------------------------------------------------
LEMMA NumberFacts ==
  /\ None \notin Sectors /\ Garbage \notin Sectors /\ None # Garbage
  /\ None \in Blocks /\ Garbage \in Blocks /\ Sectors \subseteq Blocks
  /\ MaxPolls \in Nat
BY SdAssumption DEF None, Garbage, Blocks

LEMMA StatusType ==
  ASSUME NEW c \in Registers, idleDone \in BOOLEAN
  PROVE  Status(c) \in Flags /\ Status(c).data = c.data
BY DEF Status, Flags, Registers, Phase

LEMMA StoppedType ==
  ASSUME NEW c \in Registers
  PROVE  /\ Stopped(c) \in Registers
         /\ Stopped(c).start = FALSE /\ Stopped(c).data = FALSE
         /\ Stopped(c).cmd = "idle" /\ Stopped(c).dat = "idle"
         /\ Stopped(c).arg = c.arg
BY DEF Stopped, Registers, Phase

LEMMA QuietType == Quiet \in Registers
BY DEF Quiet, Registers, Phase, None

LEMMA TypeParts ==
  TypeOK <=>
    /\ pc \in {"Idle", "Setup", "Start", "CmdPoll", "CmdCheck", "DataPoll",
               "AttemptEnd"}
    /\ sect \in Sectors \cup {None} /\ try \in 0..3 /\ cmd \in {"len", "read"}
    /\ retry \in 0..3 /\ rslt \in {0, -1} /\ timeout \in 0..MaxPolls
    /\ status \in Flags /\ iobuf \in Blocks /\ told \in BOOLEAN
    /\ out \in Blocks /\ ret \in {0, -1}
    /\ ctl \in Registers /\ fifo \in Blocks /\ idleDone \in BOOLEAN
BY DEF TypeOK, Flags, Registers, Phase

LEMMA InitOK == Init => IInv
<1> SUFFICES ASSUME Init PROVE IInv
  OBVIOUS
<1>1. TypeOK
  <2>1. ctl \in Registers /\ status \in Flags /\ idleDone \in BOOLEAN
    BY QuietType, StatusType DEF Init
  <2>2. /\ pc = "Idle" /\ sect = None /\ try = 0 /\ cmd = "len" /\ retry = 0
        /\ rslt = 0 /\ timeout = 0 /\ iobuf = Garbage /\ told = FALSE
        /\ out = Garbage /\ ret = 0 /\ fifo = None
    BY DEF Init
  <2>3. /\ sect \in Sectors \cup {None} /\ try \in 0..3 /\ retry \in 0..3
        /\ timeout \in 0..MaxPolls /\ iobuf \in Blocks /\ out \in Blocks
        /\ fifo \in Blocks
    BY <2>2, NumberFacts
  <2> QED BY <2>1, <2>2, <2>3, TypeParts
<1>2. StoppedBetweenCalls
  BY DEF Init, StoppedBetweenCalls, Quiet
<1> QED BY <1>1, <1>2 DEF Init, IInv, ThisSector, GoodSoFar, Counters, Busy

-----------------------------------------------------------------------------
(* The steps of the host *)

LEMMA CallOK ==
  ASSUME IInv, NEW s \in Sectors, SdReadSector(s), UNCHANGED idleDone
  PROVE  IInv'
<1>1. /\ pc = "Idle" /\ pc' = "Setup" /\ sect' = s /\ try' = 0 /\ cmd' = "len"
      /\ UNCHANGED <<retry, rslt, timeout, status, iobuf, told, out, ret, ctl, fifo>>
  BY DEF SdReadSector
<1>2. TypeOK'
  BY <1>1, TypeParts DEF IInv, TypeOK
<1> QED BY <1>1, <1>2
        DEF IInv, StoppedBetweenCalls, ThisSector, GoodSoFar, Counters, Busy

LEMMA SetupOK == ASSUME IInv, Setup, UNCHANGED idleDone PROVE IInv'
<1>1. /\ pc = "Setup" /\ pc' = "Start" /\ fifo' = None /\ rslt' = 0 /\ retry' = 0
      /\ ctl' = [Quiet EXCEPT !.data = (cmd = "read"),
                              !.arg  = IF cmd = "read" THEN sect ELSE None]
      /\ status' = Status(ctl')
      /\ UNCHANGED <<sect, try, cmd, timeout, iobuf, told, out, ret, idleDone>>
  BY DEF Setup, Drained
<1>2. sect \in Sectors /\ TypeOK
  BY <1>1 DEF IInv, Counters
<1>3. /\ ctl' \in Registers /\ ctl'.arg \in {None, sect}
      /\ ctl'.data = (cmd = "read")
  BY <1>1, <1>2, TypeParts DEF Quiet, Registers, Phase
<1>4. status' \in Flags
  BY <1>1, <1>2, <1>3, StatusType, TypeParts
<1>5. TypeOK'
  BY <1>1, <1>2, <1>3, <1>4, NumberFacts DEF TypeOK, Flags, Registers, Phase
<1>6. StoppedBetweenCalls' /\ ThisSector' /\ Counters'
  BY <1>1, <1>2, <1>3 DEF StoppedBetweenCalls, ThisSector, Counters, Busy
<1>7. GoodSoFar'
  BY <1>1, <1>3 DEF GoodSoFar
<1> QED BY <1>5, <1>6, <1>7 DEF IInv

LEMMA StartOK == ASSUME IInv, Start, UNCHANGED idleDone PROVE IInv'
<1>1. /\ pc = "Start" /\ pc' = "CmdPoll" /\ timeout' = 0 /\ status' = Status(ctl')
      /\ \/ ctl' = [ctl EXCEPT !.start = TRUE, !.cmd = "run", !.dat = "idle",
                               !.count = FALSE]
         \/ ctl' = ctl
      /\ UNCHANGED <<sect, try, cmd, retry, rslt, iobuf, told, out, ret, fifo, idleDone>>
  BY DEF Start
<1>2. TypeOK /\ ctl \in Registers
  BY TypeParts DEF IInv
<1>3. ctl' \in Registers /\ ctl'.arg = ctl.arg /\ ctl'.data = ctl.data
  BY <1>1, <1>2 DEF Registers, Phase
<1>4. status' \in Flags
  BY <1>1, <1>2, <1>3, StatusType, TypeParts
<1>5. TypeOK'
  BY <1>1, <1>2, <1>3, <1>4, NumberFacts DEF TypeOK, Flags, Registers, Phase
<1> QED BY <1>1, <1>3, <1>5
        DEF IInv, StoppedBetweenCalls, ThisSector, GoodSoFar, Counters, Busy

LEMMA CmdPollOK == ASSUME IInv, CmdPoll, UNCHANGED idleDone PROVE IInv'
<1>1. /\ pc = "CmdPoll" /\ pc' \in {"CmdPoll", "CmdCheck"} /\ status' = Status(ctl)
      /\ \/ timeout' = timeout
         \/ ~(timeout >= MaxPolls) /\ timeout' = timeout + 1
      /\ UNCHANGED <<sect, try, cmd, retry, rslt, iobuf, told, out, ret, ctl, fifo,
                    idleDone>>
  BY DEF CmdPoll
<1>2. TypeOK /\ ctl \in Registers /\ timeout \in 0..MaxPolls
  BY TypeParts DEF IInv
<1>3. status' \in Flags /\ timeout' \in 0..MaxPolls
  BY <1>1, <1>2, StatusType, TypeParts, NumberFacts
<1>4. TypeOK'
  BY <1>1, <1>2, <1>3 DEF TypeOK, Flags
<1> QED BY <1>1, <1>4
        DEF IInv, StoppedBetweenCalls, ThisSector, GoodSoFar, Counters, Busy

\* A command that timed out is stopped and its attempt has failed.
LEMMA CmdCheckOK == ASSUME IInv, CmdCheck, UNCHANGED idleDone PROVE IInv'
<1>1. /\ pc = "CmdCheck" /\ status' = Status(ctl)
      /\ \/ ctl' = Stopped(ctl) /\ rslt' = -1
         \/ ctl' = ctl /\ rslt' = rslt
      /\ pc' = IF status'.data THEN "DataPoll" ELSE "AttemptEnd"
      /\ UNCHANGED <<sect, try, cmd, retry, timeout, iobuf, told, out, ret, fifo,
                    idleDone>>
  BY DEF CmdCheck
<1>2. TypeOK /\ ctl \in Registers
  BY TypeParts DEF IInv
<1>3. status' \in Flags /\ status'.data = ctl.data
  BY <1>1, <1>2, StatusType, TypeParts
<1>4. ctl' \in Registers /\ ctl'.arg = ctl.arg /\ (rslt' = 0 => ctl' = ctl)
  <2>1. CASE ctl' = Stopped(ctl) /\ rslt' = -1
    <3>1. Stopped(ctl) \in Registers /\ Stopped(ctl).arg = ctl.arg
      BY <1>2, StoppedType
    <3> QED BY <2>1, <3>1
  <2>2. CASE ctl' = ctl /\ rslt' = rslt
    BY <2>2, <1>2
  <2> QED BY <1>1, <2>1, <2>2
<1>5. TypeOK'
  BY <1>1, <1>2, <1>3, <1>4 DEF TypeOK, Flags, Registers, Phase
<1>6. GoodSoFar'
  BY <1>1, <1>3, <1>4 DEF IInv, GoodSoFar
<1> QED BY <1>1, <1>4, <1>5, <1>6
        DEF IInv, StoppedBetweenCalls, ThisSector, Counters, Busy

\* The block taken is the sector, unless what is not one was reported.
LEMMA DataPollOK == ASSUME IInv, DataPoll, UNCHANGED idleDone PROVE IInv'
<1>1. /\ pc = "DataPoll" /\ status' = Status(ctl)
      /\ UNCHANGED <<sect, try, cmd, retry, timeout, out, ret, ctl, idleDone>>
  BY DEF DataPoll
<1>2. TypeOK /\ ctl \in Registers /\ fifo \in Blocks
  BY TypeParts DEF IInv
<1>3. status' \in Flags /\ status'.data = ctl.data
  BY <1>1, <1>2, StatusType, TypeParts
<1>4. \/ pc' = pc /\ UNCHANGED <<rslt, iobuf, told, fifo>>
      \/ pc' = "AttemptEnd" /\ rslt' = -1 /\ UNCHANGED <<iobuf, told, fifo>>
      \/ /\ pc' = "AttemptEnd" /\ rslt' = rslt /\ ctl.data
         /\ iobuf' = Copied(fifo) /\ fifo' = None /\ told' = Counted(fifo)
      \/ /\ pc' = "AttemptEnd" /\ rslt' = rslt /\ ~ctl.data
         /\ UNCHANGED <<iobuf, told, fifo>>
  BY <1>1, <1>3 DEF DataPoll
<1>5. /\ Copied(fifo) \in Blocks /\ Counted(fifo) \in BOOLEAN
      /\ fifo \in {None, Garbage, sect} =>
           Copied(fifo) = IF Counted(fifo) THEN Garbage ELSE sect
  BY <1>2, NumberFacts DEF Copied, Counted
<1>6. TypeOK'
  BY <1>1, <1>2, <1>3, <1>4, <1>5, NumberFacts DEF TypeOK, Flags
<1>7. ThisSector' /\ Counters' /\ StoppedBetweenCalls'
  BY <1>1, <1>4 DEF IInv, StoppedBetweenCalls, ThisSector, Counters, Busy
<1>8. GoodSoFar'
  BY <1>1, <1>4, <1>5 DEF IInv, GoodSoFar, ThisSector, Busy
<1> QED BY <1>6, <1>7, <1>8 DEF IInv

\* Another attempt of a command that failed cannot make it succeed.
LEMMA RetryOK == ASSUME IInv, Retry, UNCHANGED idleDone PROVE IInv'
<1>1. /\ pc = "AttemptEnd" /\ pc' = "Start" /\ rslt = -1 /\ retry + 1 < 3
      /\ retry' = retry + 1
      /\ UNCHANGED <<sect, try, cmd, rslt, timeout, status, iobuf, told, out, ret,
                    ctl, fifo, idleDone>>
  BY DEF Retry, MoreAttempts
<1>2. TypeOK /\ retry \in 0..3
  BY TypeParts DEF IInv
<1>3. retry' \in 0..3 /\ retry' <= 2
  BY <1>1, <1>2
<1>4. TypeOK'
  BY <1>1, <1>2, <1>3 DEF TypeOK
<1> QED BY <1>1, <1>3, <1>4
        DEF IInv, StoppedBetweenCalls, ThisSector, GoodSoFar, Counters, Busy

LEMMA FinishOK == ASSUME IInv, Finish, UNCHANGED idleDone PROVE IInv'
<1>1. /\ pc = "AttemptEnd" /\ ctl' = Stopped(ctl)
      /\ retry' = (IF rslt = 0 THEN retry ELSE retry + 1)
      /\ UNCHANGED <<sect, rslt, timeout, status, iobuf, told, fifo, idleDone>>
  BY DEF Finish
<1>2. TypeOK /\ ctl \in Registers /\ retry \in 0..3 /\ try \in 0..3 /\ rslt \in {0, -1}
      /\ iobuf \in Blocks /\ out \in Blocks /\ ret \in {0, -1} /\ cmd \in {"len", "read"}
  BY TypeParts DEF IInv
<1>3. /\ pc' \in {"Idle", "Setup"} /\ cmd' \in {"len", "read"}
      /\ try' \in 0..3 /\ out' \in Blocks /\ ret' \in {0, -1}
  <2>1. CASE cmd = "len"
    BY <1>2, <2>1 DEF Finish, AfterLen
  <2>2. CASE cmd # "len" /\ rslt # 0 /\ try < 3
    BY <1>2, <2>2 DEF Finish, AfterRead
  <2>3. CASE cmd # "len" /\ ~(rslt # 0 /\ try < 3)
    BY <1>2, <2>3 DEF Finish, AfterRead, CopyOut
  <2> QED BY <2>1, <2>2, <2>3
<1>4. /\ ctl' \in Registers /\ ctl'.cmd = "idle" /\ ctl'.dat = "idle"
      /\ ctl'.start = FALSE
  BY <1>1, <1>2, StoppedType
<1>5. retry' \in 0..3 /\ sect \in Sectors
  BY <1>1, <1>2 DEF IInv, Counters, Busy
<1>6. TypeOK'
  BY <1>1, <1>2, <1>3, <1>4, <1>5 DEF TypeOK, Registers, Phase
<1>7. StoppedBetweenCalls'
  BY <1>4 DEF StoppedBetweenCalls
<1> QED BY <1>1, <1>3, <1>5, <1>6, <1>7 DEF IInv, ThisSector, GoodSoFar, Counters, Busy

-----------------------------------------------------------------------------
(* The steps of the controller *)

\* What it adds to the FIFO is the sector of the call; between calls it is
\* stopped and adds nothing.
LEMMA ControllerStep ==
  ASSUME IInv, Controller
  PROVE  /\ ctl.start
         /\ ctl' \in Registers /\ ctl'.arg = ctl.arg /\ ctl'.data = ctl.data
         /\ fifo' \in Blocks
         /\ Busy /\ fifo' \in {None, Garbage, sect}
         /\ UNCHANGED <<pc, sect, try, cmd, retry, rslt, timeout, status, iobuf, told,
                       out, ret>>
<1>1. TypeOK /\ ctl \in Registers /\ fifo \in Blocks
  BY TypeParts DEF IInv
<1>2. ctl.start /\ Busy
  BY DEF Controller, CmdEnds, DataEnds, IInv, StoppedBetweenCalls, Busy
<1>3. ctl.arg \in {None, sect} /\ fifo \in {None, Garbage, sect} /\ sect \in Sectors
  BY <1>2 DEF IInv, ThisSector, Counters, Busy
<1>4. CASE CmdEnds
  <2>1. ctl' \in Registers /\ ctl'.arg = ctl.arg /\ ctl'.data = ctl.data
    BY <1>1, <1>4 DEF CmdEnds, Registers, Phase
  <2> QED BY <1>1, <1>2, <1>3, <1>4, <2>1 DEF CmdEnds
<1>5. CASE DataEnds
  <2>1. ctl' \in Registers /\ ctl'.arg = ctl.arg /\ ctl'.data = ctl.data
    BY <1>1, <1>5 DEF DataEnds, Registers, Phase
  <2>2. Added(ctl.arg) \in {None, Garbage, sect}
    BY <1>3 DEF Added
  <2>3. fifo' \in {None, Garbage, sect}
    BY <1>3, <1>5, <2>2 DEF DataEnds
  <2> QED BY <1>2, <1>3, <1>5, <2>1, <2>3, NumberFacts DEF DataEnds
<1> QED BY <1>4, <1>5 DEF Controller

LEMMA ControllerOK == ASSUME IInv, Controller, UNCHANGED idleDone PROVE IInv'
<1>1. /\ ctl' \in Registers /\ ctl'.arg = ctl.arg /\ ctl'.data = ctl.data
      /\ fifo' \in Blocks /\ Busy /\ fifo' \in {None, Garbage, sect}
      /\ UNCHANGED <<pc, sect, try, cmd, retry, rslt, timeout, status, iobuf, told,
                    out, ret, idleDone>>
  BY ControllerStep
<1>2. TypeOK'
  BY <1>1 DEF IInv, TypeOK, Registers, Phase
<1> QED BY <1>1, <1>2
        DEF IInv, StoppedBetweenCalls, ThisSector, GoodSoFar, Counters, Busy

-----------------------------------------------------------------------------
LEMMA Steps ==
  ASSUME Next
  PROVE  /\ idleDone' = idleDone
         /\ \/ \E s \in Sectors : SdReadSector(s)
            \/ Setup \/ Start \/ CmdPoll \/ CmdCheck \/ DataPoll \/ Retry \/ Finish
            \/ Controller
BY DEF Next, Host, Controller

LEMMA NextOK == IInv /\ [Next]_vars => IInv'
<1> SUFFICES ASSUME IInv, [Next]_vars PROVE IInv'
  OBVIOUS
<1>1. CASE UNCHANGED vars
  BY <1>1 DEF vars, IInv, TypeOK, StoppedBetweenCalls, ThisSector, GoodSoFar,
              Counters, Busy
<1>2. CASE Next
  BY <1>2, Steps, CallOK, SetupOK, StartOK, CmdPollOK, CmdCheckOK, DataPollOK,
     RetryOK, FinishOK, ControllerOK
<1> QED BY <1>1, <1>2

LEMMA Inductive == Spec => []IInv
<1>1. IInv /\ [Next]_vars => IInv'
  BY NextOK
<1> QED BY InitOK, <1>1, PTL DEF Spec

\* The variables of the sector read keep their types: no more than three attempts
\* of a command, no more than four of a sector.
THEOREM SdTypeOK == Spec => []TypeOK
<1>1. IInv => TypeOK
  BY DEF IInv
<1> QED BY Inductive, <1>1, PTL

\* Whatever timed out, the controller is stopped when sd_read_sector returns and
\* before each command is set up.
THEOREM SdStopped == Spec => []StoppedBetweenCalls
<1>1. IInv => StoppedBetweenCalls
  BY DEF IInv
<1> QED BY Inductive, <1>1, PTL

-----------------------------------------------------------------------------
(* The refinement *)

LEMMA InitRefines == Init => Promise!Init
BY DEF Init, Promise!Init

\* What disk_read sees of the end of sd_transaction_finish: nothing, unless it
\* is the last one, and then the sector or a failure.
LEMMA FinishRefines ==
  ASSUME IInv, Finish
  PROVE  Promise!Next \/ UNCHANGED Promise!vars
<1>1. /\ pc = "AttemptEnd" /\ sect \in Sectors /\ sect # 0 /\ sect' = sect
      /\ told' = told /\ rslt \in {0, -1} /\ cmd \in {"len", "read"} /\ told \in BOOLEAN
  BY TypeParts, NumberFacts DEF Finish, IInv, Counters, None
<1>2. CASE cmd = "len"
  BY <1>1, <1>2 DEF Finish, AfterLen, Promise!vars
<1>3. CASE cmd = "read" /\ rslt # 0 /\ try < 3
  BY <1>1, <1>3 DEF Finish, AfterRead, Promise!vars
<1>4. CASE cmd = "read" /\ ~(rslt # 0 /\ try < 3)
  <2>1. pc' = "Idle" /\ ret' = rslt /\ out' = IF rslt = 0 THEN iobuf ELSE out
    BY <1>4 DEF Finish, AfterRead, CopyOut
  <2>2. CASE rslt = 0
    <3>1. iobuf = IF told THEN Garbage ELSE sect
      BY <1>1, <1>4, <2>2 DEF IInv, GoodSoFar
    <3>2. Promise!Succeed \/ Promise!Garbled
      BY <1>1, <2>1, <2>2, <3>1 DEF Promise!Succeed, Promise!Garbled
    <3> QED BY <1>1, <3>2 DEF Promise!Next
  <2>3. CASE rslt = -1
    <3>1. Promise!Fail
      BY <1>1, <2>1, <2>3 DEF Promise!Fail
    <3> QED BY <1>1, <3>1 DEF Promise!Next
  <2> QED BY <1>1, <2>2, <2>3
<1> QED BY <1>1, <1>2, <1>3, <1>4

LEMMA StepRefines == IInv /\ [Next]_vars => [Promise!Next]_(Promise!vars)
<1> SUFFICES ASSUME IInv, [Next]_vars PROVE Promise!Next \/ UNCHANGED Promise!vars
  OBVIOUS
<1>1. CASE UNCHANGED vars
  BY <1>1 DEF vars, Promise!vars
<1>2. CASE \E s \in Sectors : SdReadSector(s)
  <2>1. PICK s \in Sectors : SdReadSector(s)
    BY <1>2
  <2>2. Promise!Call
    BY <2>1, NumberFacts DEF SdReadSector, Promise!Call, None
  <2> QED BY <2>2 DEF Promise!Next
<1>3. CASE Setup \/ Start \/ CmdPoll \/ CmdCheck \/ Retry
  BY <1>3 DEF Setup, Start, CmdPoll, CmdCheck, Retry, Promise!vars
<1>4. CASE DataPoll
  <2>1. /\ pc = "DataPoll" /\ pc' # "Idle" /\ UNCHANGED <<sect, out, ret>>
        /\ told' \in BOOLEAN
    <3>1. told \in BOOLEAN
      BY TypeParts DEF IInv
    <3> QED BY <1>4, <3>1 DEF DataPoll, Counted
  <2>2. sect # 0
    BY <2>1, NumberFacts DEF IInv, Counters, None
  <2>3. Promise!Take
    BY <2>1, <2>2 DEF Promise!Take
  <2> QED BY <2>3 DEF Promise!Next
<1>5. CASE Finish
  BY <1>5, FinishRefines
<1>6. CASE Controller
  BY <1>6, ControllerStep DEF Promise!vars
<1> QED BY <1>1, <1>2, <1>3, <1>4, <1>5, <1>6, Steps

\* sd_read_sector delivers the sector asked for or says that it failed, through
\* timeouts, attempts that cannot succeed and blocks with words missing; only a
\* block it reported may be another.
THEOREM SdRefines == Spec => ImplementsSectorReader
<1>1. IInv /\ [Next]_vars => [Promise!Next]_(Promise!vars)
  BY StepRefines
<1> QED BY InitRefines, Inductive, <1>1, PTL DEF Spec, ImplementsSectorReader, Promise!Spec
=============================================================================
