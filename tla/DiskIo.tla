------------------------------- MODULE DiskIo -------------------------------
(***************************************************************************)
(* The disk layer below FatFs, bare_metal/diskio.c: drive 0 is the SD card *)
(* of the board.  sd_read_sector is what SectorReader says: a step of      *)
(* disk_read is one call of it, and the user may take the card out or put  *)
(* it back between the steps.  send_cmd, rcvr_datablock and xmit_datablock *)
(* of minion_helper.c are stubs that always fail.                          *)
(*                                                                         *)
(* An operator named ..._bug is a variant of the next one with a plausible *)
(* fault; it is in no specification and serves to see that a property      *)
(* depends on that line of the code.                                       *)
(***************************************************************************)
EXTENDS Integers

CONSTANTS
  LastSector,  \* bound: the calls ask for sectors 1 .. LastSector
  MaxCount     \* bound: and for at most so many of them (128 in the code)

DiskAssumption == LastSector \in Nat \ {0} /\ MaxCount \in Nat \ {0}

Untouched == 0                      \* what the caller had in its buffer
Results == {"OK", "ERROR", "NOTRDY", "PARERR"}

VARIABLES
  noinit,    \* Stat & STA_NOINIT
  CardType,  \* its flags
  card,      \* a card is in the slot
  call,      \* the call in progress, or the last: "init", "read", "other"
  pc,        \* "Idle", or "Read" in the loop of disk_read
  asked,     \* [sector, count] of the last disk_read that got there
  sector, count,  \* the locals of disk_read
  buff,      \* the caller's buffer, a sector number per 512 bytes
  missed,    \* history: some sd_read_sector of the last read failed
  res        \* what the last call returned

read == <<asked, sector, count, buff, missed>>
vars == <<noinit, CardType, card, call, pc, read, res>>

Init ==
  /\ noinit = TRUE /\ CardType = {}
  /\ card \in BOOLEAN
  /\ call = "other" /\ pc = "Idle" /\ res = "OK"
  /\ asked = [sector |-> 1, count |-> 0] /\ sector = 1 /\ count = 0
  /\ buff = [k \in 1..MaxCount |-> Untouched] /\ missed = FALSE

Return(c, r) == pc' = "Idle" /\ call' = c /\ res' = r

\* STA_NOINIT of the status returned is noinit.  init_sd says -1 to nobody.
KnownType_bug == {"SD2"}
KnownType == {"SD2", "BLOCK"}

DiskInitialize ==
  /\ pc = "Idle"
  /\ CardType' = KnownType
  /\ noinit' = FALSE
  /\ Return("init", "OK")
  /\ UNCHANGED <<card, read>>

\* a drive number other than 0, no sectors, or no disk_initialize before
Refused(pdrv, n) ==
  \/ (pdrv # 0 \/ n = 0) /\ res' = "PARERR"
  \/ pdrv = 0 /\ n # 0 /\ noinit /\ res' = "NOTRDY"

DiskRead(pdrv, s, n) ==
  /\ pc = "Idle"
  /\ call' = "read"
  /\ \/ Refused(pdrv, n) /\ UNCHANGED <<pc, read>>
     \/ /\ pdrv = 0 /\ n # 0 /\ ~noinit
        /\ asked' = [sector |-> s, count |-> n]
        /\ sector' = IF "BLOCK" \in CardType THEN s ELSE s * 512
        /\ count' = n
        /\ buff' = [k \in 1..MaxCount |-> Untouched] /\ missed' = FALSE
        /\ pc' = "Read" /\ UNCHANGED res
  /\ UNCHANGED <<noinit, CardType, card>>

\* the condition of the loop, --count
MoreSectors(n) == n - 1 > 0

\* One sd_read_sector; what it returns is not looked at.
ReadSector(ok) ==
  LET k == asked.count - count + 1 IN
  /\ pc = "Read"
  /\ ok => card
  /\ buff' = IF ok THEN [buff EXCEPT ![k] = sector] ELSE buff
  /\ missed' = (missed \/ ~ok)
  /\ sector' = sector + 1
  /\ count' = count - 1
  /\ IF MoreSectors(count) THEN UNCHANGED <<pc, call, res>> ELSE Return("read", "OK")
  /\ UNCHANGED <<noinit, CardType, card, asked>>

\* send_cmd always fails: count is left as it is
DiskWrite(pdrv, n) ==
  /\ pc = "Idle"
  /\ \/ Refused(pdrv, n)
     \/ pdrv = 0 /\ n # 0 /\ ~noinit /\ res' = "ERROR"
  /\ call' = "other"
  /\ UNCHANGED <<noinit, CardType, card, pc, read>>

\* the commands that ask the card fail with send_cmd
DiskIoctl(pdrv, cmd) ==
  /\ pc = "Idle"
  /\ \/ Refused(pdrv, 1) /\ UNCHANGED noinit
     \/ /\ pdrv = 0 /\ ~noinit
        /\ noinit' = (cmd = "CTRL_POWER_OFF")
        /\ res' = CASE cmd \in {"CTRL_SYNC", "MMC_GET_TYPE", "CTRL_POWER_OFF"} -> "OK"
                    [] cmd = "GET_SECTOR_COUNT" -> "ERROR"
                    [] OTHER -> "PARERR"
  /\ call' = "other"
  /\ UNCHANGED <<CardType, card, pc, read>>

\* the user
MoveCard == card' = ~card /\ UNCHANGED <<noinit, CardType, call, pc, read, res>>

Next ==
  \/ DiskInitialize
  \/ \E pdrv \in {0, 1}, n \in 0..MaxCount :
       \/ \E s \in 1..LastSector : DiskRead(pdrv, s, n)
       \/ DiskWrite(pdrv, n)
  \/ \E pdrv \in {0, 1},
        cmd \in {"CTRL_SYNC", "GET_SECTOR_COUNT", "MMC_GET_TYPE",
                 "CTRL_POWER_OFF", "CTRL_TRIM"} : DiskIoctl(pdrv, cmd)
  \/ \E ok \in BOOLEAN : ReadSector(ok)
  \/ MoveCard

Spec == Init /\ [][Next]_vars

-----------------------------------------------------------------------------
(* Properties *)

\* The variables have their types.
TypeOK ==
  /\ noinit \in BOOLEAN /\ CardType \subseteq {"SD2", "BLOCK"} /\ card \in BOOLEAN
  /\ call \in {"init", "read", "other"} /\ pc \in {"Idle", "Read"}
  /\ asked \in [sector : 1..LastSector, count : 0..MaxCount]
  /\ sector \in 1..(LastSector + MaxCount) /\ count \in 0..MaxCount
  /\ buff \in [1..MaxCount -> 0..(LastSector + MaxCount)]
  /\ missed \in BOOLEAN /\ res \in Results

\* disk_read puts each sector where it belongs in the buffer, also after one
\* that failed, and leaves the rest of the buffer as it was; when it returns
\* only sectors that failed are missing.
SectorsInPlace ==
  /\ \A k \in 1..MaxCount : buff[k] \in {Untouched, asked.sector + k - 1}
  /\ pc = "Idle" /\ ~missed =>
       \A k \in 1..MaxCount : buff[k] # Untouched <=> k <= asked.count

\* diskio.h: RES_OK is "Successful", RES_ERROR is "R/W Error".  A disk_read that
\* returns RES_OK has read every sector.
ReadErrorReported ==
  [][pc = "Read" /\ pc' = "Idle" /\ res' = "OK" => ~missed']_vars

\* diskio.c says of the branch that clears STA_NOINIT "Initialization succeded":
\* disk_initialize of an empty slot leaves the drive not initialized.
EmptySlotReported ==
  [][pc = "Idle" /\ call' = "init" /\ ~card /\ ~card' /\ noinit => noinit']_vars
=============================================================================
