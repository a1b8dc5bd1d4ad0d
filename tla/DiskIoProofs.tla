---------------------------- MODULE DiskIoProofs ----------------------------
(* Theorems about DiskIo for every card size and every number of sectors    *)
(* asked for, with the writes and the controls that no run makes.           *)
EXTENDS DiskIo, TLAPS

\* The sectors the loop of disk_read has been through.
Done == asked.count - count

\* disk_initialize always finds a card addressed by blocks, so the address the
\* loop starts from is the sector's number.
ByBlocks == ~noinit => "BLOCK" \in CardType

\* sector and buff move together, and a drive that is idle has none left.
InStep ==
  /\ count <= asked.count
  /\ pc = "Idle" => count = 0
  /\ pc = "Read" => count >= 1 /\ sector = asked.sector + Done

Placed ==
  \A k \in 1..MaxCount :
    /\ k > Done => buff[k] = Untouched
    /\ buff[k] \in {Untouched, asked.sector + k - 1}
    /\ k <= Done /\ ~missed => buff[k] # Untouched

IInv == TypeOK /\ ByBlocks /\ InStep /\ Placed

-----------------------------------------------------------------------------
LEMMA InitOK == ASSUME DiskAssumption PROVE Init => IInv
<1> SUFFICES ASSUME Init PROVE IInv
  OBVIOUS
<1>1. TypeOK
  <2>1. asked \in [sector : 1..LastSector, count : 0..MaxCount]
    BY DEF Init, DiskAssumption
  <2>2. buff \in [1..MaxCount -> 0..(LastSector + MaxCount)]
    BY DEF Init, DiskAssumption, Untouched
  <2>3. sector \in 1..(LastSector + MaxCount) /\ count \in 0..MaxCount
    BY DEF Init, DiskAssumption
  <2>4. /\ noinit \in BOOLEAN /\ CardType \subseteq {"SD2", "BLOCK"} /\ card \in BOOLEAN
        /\ call = "other" /\ pc = "Idle" /\ res = "OK" /\ missed \in BOOLEAN
    BY DEF Init
  <2> QED BY <2>1, <2>2, <2>3, <2>4 DEF TypeOK, Results
<1>2. ByBlocks
  BY DEF Init, ByBlocks
<1>3. InStep /\ Done = 0
  BY DEF Init, InStep, Done
<1>4. Placed
  BY <1>3 DEF Init, Placed
<1> QED BY <1>1, <1>2, <1>3, <1>4 DEF IInv

\* A drive is refused what it is asked for and keeps its state.
LEMMA RefusedType ==
  ASSUME NEW pdrv, NEW n, Refused(pdrv, n)
  PROVE  res' \in Results
BY DEF Refused, Results

LEMMA InitializeOK ==
  ASSUME DiskAssumption, IInv, DiskInitialize
  PROVE  IInv'
<1>1. UNCHANGED read /\ noinit' = FALSE /\ CardType' = {"SD2", "BLOCK"} /\ pc = "Idle"
      /\ pc' = "Idle" /\ call' = "init" /\ res' = "OK" /\ card' = card
  BY DEF DiskInitialize, KnownType, Return
<1>2. TypeOK'
  BY <1>1 DEF IInv, TypeOK, read, Results
<1> QED BY <1>1, <1>2 DEF IInv, ByBlocks, InStep, Placed, Done, read

\* The start of the loop: nothing done, nothing in the buffer.
LEMMA ReadOK ==
  ASSUME DiskAssumption, IInv,
         NEW pdrv \in {0, 1}, NEW n \in 0..MaxCount, NEW s \in 1..LastSector,
         DiskRead(pdrv, s, n)
  PROVE  IInv'
<1>1. CASE Refused(pdrv, n) /\ UNCHANGED <<pc, read>>
  <2>1. UNCHANGED <<noinit, CardType, card, pc, read>> /\ call' = "read"
        /\ res' \in Results
    BY <1>1, RefusedType DEF DiskRead
  <2>2. TypeOK'
    BY <2>1 DEF IInv, TypeOK, read
  <2> QED BY <2>1, <2>2 DEF IInv, ByBlocks, InStep, Placed, Done, read
<1>2. CASE ~(Refused(pdrv, n) /\ UNCHANGED <<pc, read>>)
  <2>1. /\ n # 0 /\ ~noinit /\ call' = "read"
        /\ asked' = [sector |-> s, count |-> n]
        /\ sector' = (IF "BLOCK" \in CardType THEN s ELSE s * 512)
        /\ count' = n /\ buff' = [k \in 1..MaxCount |-> Untouched]
        /\ missed' = FALSE /\ pc' = "Read" /\ res' = res
        /\ UNCHANGED <<noinit, CardType, card>>
    BY <1>2 DEF DiskRead
  <2>2. sector' = s
    BY <2>1 DEF IInv, ByBlocks
  <2>3. TypeOK'
    <3>1. asked' \in [sector : 1..LastSector, count : 0..MaxCount]
      BY <2>1
    <3>2. buff' \in [1..MaxCount -> 0..(LastSector + MaxCount)]
      BY <2>1 DEF DiskAssumption, Untouched
    <3>3. /\ sector' \in 1..(LastSector + MaxCount) /\ count' \in 0..MaxCount
          /\ missed' = FALSE /\ pc' = "Read" /\ call' = "read"
      BY <2>1, <2>2 DEF DiskAssumption
    <3>4. UNCHANGED <<noinit, CardType, card, res>>
      BY <2>1
    <3> QED BY <3>1, <3>2, <3>3, <3>4 DEF IInv, TypeOK
  <2>4. ByBlocks' /\ InStep'
    BY <2>1, <2>2 DEF IInv, ByBlocks, InStep, Done
  <2>5. Placed'
    BY <2>1 DEF Placed, Done
  <2> QED BY <2>3, <2>4, <2>5 DEF IInv
<1> QED BY <1>1, <1>2

\* The heart of the invariant: the sector read goes where the loop has got to,
\* and a step that fails leaves the place of its sector as the caller had it.
LEMMA ReadSectorOK ==
  ASSUME DiskAssumption, IInv, NEW ok \in BOOLEAN, ReadSector(ok)
  PROVE  IInv'
<1> DEFINE k == asked.count - count + 1
<1>1. /\ pc = "Read" /\ count >= 1 /\ count <= asked.count
      /\ count \in 0..MaxCount /\ asked.count \in 0..MaxCount
      /\ asked.sector \in 1..LastSector /\ sector = asked.sector + Done
  BY DEF ReadSector, IInv, TypeOK, InStep
<1>2. /\ k \in 1..MaxCount /\ sector = asked.sector + k - 1
      /\ sector \in 1..(LastSector + MaxCount - 1)
  BY <1>1 DEF DiskAssumption, Done
<1>3. /\ buff' = (IF ok THEN [buff EXCEPT ![k] = sector] ELSE buff)
      /\ missed' = (missed \/ ~ok) /\ sector' = sector + 1 /\ count' = count - 1
      /\ UNCHANGED <<noinit, CardType, card, asked>>
      /\ \/ count > 1 /\ UNCHANGED <<pc, call, res>>
         \/ count = 1 /\ pc' = "Idle" /\ call' = "read" /\ res' = "OK"
  BY <1>1 DEF ReadSector, MoreSectors, Return
<1>4. TypeOK'
  <2>1. buff' \in [1..MaxCount -> 0..(LastSector + MaxCount)]
    <3>1. buff \in [1..MaxCount -> 0..(LastSector + MaxCount)]
      BY DEF IInv, TypeOK
    <3>2. sector \in 0..(LastSector + MaxCount)
      BY <1>2 DEF DiskAssumption
    <3> QED BY <1>3, <3>1, <3>2
  <2>2. sector' \in 1..(LastSector + MaxCount) /\ count' \in 0..MaxCount
    BY <1>1, <1>2, <1>3 DEF DiskAssumption
  <2>3. missed' \in BOOLEAN
    BY <1>3 DEF IInv, TypeOK
  <2> QED BY <1>3, <2>1, <2>2, <2>3 DEF IInv, TypeOK, Results
<1>5. ByBlocks'
  BY <1>3 DEF IInv, ByBlocks
<1>6. InStep'
  BY <1>1, <1>3 DEF InStep, Done, DiskAssumption
<1>7. Placed'
  <2> SUFFICES ASSUME NEW j \in 1..MaxCount
               PROVE  /\ j > Done' => buff'[j] = Untouched
                      /\ buff'[j] \in {Untouched, asked'.sector + j - 1}
                      /\ j <= Done' /\ ~missed' => buff'[j] # Untouched
    BY DEF Placed
  <2>1. Done' = k /\ Done = k - 1
    BY <1>1, <1>3 DEF Done, DiskAssumption
  <2>2. /\ j > Done => buff[j] = Untouched
        /\ buff[j] \in {Untouched, asked.sector + j - 1}
        /\ j <= Done /\ ~missed => buff[j] # Untouched
    BY DEF IInv, Placed
  <2>3. CASE j = k
    <3>1. buff'[j] = IF ok THEN sector ELSE buff[j]
      BY <1>2, <1>3, <2>3 DEF IInv, TypeOK
    <3>2. sector # Untouched
      BY <1>2 DEF Untouched, DiskAssumption
    <3>3. ~(j > Done')
      BY <2>1, <2>3, <1>1
    <3>4. asked' = asked /\ sector = asked.sector + j - 1
      BY <1>2, <1>3, <2>3
    <3>5. CASE ok
      BY <3>1, <3>2, <3>3, <3>4, <3>5
    <3>6. CASE ~ok
      BY <1>3, <2>2, <3>1, <3>3, <3>4, <3>6
    <3> QED BY <3>5, <3>6
  <2>4. CASE j # k
    <3>1. buff'[j] = buff[j]
      BY <1>2, <1>3, <2>4 DEF IInv, TypeOK
    <3>2. Done \in Nat /\ Done' = Done + 1 /\ j # Done + 1 /\ asked' = asked
      BY <1>1, <1>3, <2>1, <2>4 DEF Done
    <3>3. (j > Done' => j > Done) /\ (j <= Done' => j <= Done)
      BY <3>2
    <3>4. ~missed' => ~missed
      BY <1>3
    <3> QED BY <2>2, <3>1, <3>2, <3>3, <3>4
  <2> QED BY <2>3, <2>4
<1> QED BY <1>4, <1>5, <1>6, <1>7 DEF IInv

\* A write or a control changes nothing a read depends on: at most it makes the
\* drive ask for another disk_initialize.
LEMMA OtherOK ==
  ASSUME DiskAssumption, IInv,
         \/ \E pdrv \in {0, 1}, n \in 0..MaxCount : DiskWrite(pdrv, n)
         \/ \E pdrv \in {0, 1},
               cmd \in {"CTRL_SYNC", "GET_SECTOR_COUNT", "MMC_GET_TYPE",
                        "CTRL_POWER_OFF", "CTRL_TRIM"} : DiskIoctl(pdrv, cmd)
         \/ MoveCard
  PROVE  IInv'
<1>1. /\ UNCHANGED <<CardType, pc, read>> /\ (noinit' = noinit \/ ~noinit)
      /\ noinit' \in BOOLEAN /\ card' \in BOOLEAN
      /\ call' \in {"init", "read", "other"} /\ res' \in Results
  <2>1. CASE \E pdrv \in {0, 1}, n \in 0..MaxCount : DiskWrite(pdrv, n)
    BY <2>1, RefusedType DEF DiskWrite, IInv, TypeOK, Results
  <2>2. CASE \E pdrv \in {0, 1},
                cmd \in {"CTRL_SYNC", "GET_SECTOR_COUNT", "MMC_GET_TYPE",
                         "CTRL_POWER_OFF", "CTRL_TRIM"} : DiskIoctl(pdrv, cmd)
    BY <2>2, RefusedType DEF DiskIoctl, IInv, TypeOK, Results
  <2>3. CASE MoveCard
    BY <2>3 DEF MoveCard, IInv, TypeOK
  <2> QED BY <2>1, <2>2, <2>3
<1>2. TypeOK'
  BY <1>1 DEF IInv, TypeOK, read
<1>3. ByBlocks'
  BY <1>1 DEF IInv, ByBlocks
<1> QED BY <1>1, <1>2, <1>3 DEF IInv, InStep, Placed, Done, read

LEMMA NextOK == ASSUME DiskAssumption PROVE IInv /\ [Next]_vars => IInv'
<1> SUFFICES ASSUME IInv, [Next]_vars PROVE IInv'
  OBVIOUS
<1>1. CASE UNCHANGED vars
  BY <1>1 DEF vars, read, IInv, TypeOK, ByBlocks, InStep, Placed, Done
<1>2. CASE DiskInitialize
  BY <1>2, InitializeOK
<1>3. CASE \E pdrv \in {0, 1}, n \in 0..MaxCount, s \in 1..LastSector :
             DiskRead(pdrv, s, n)
  BY <1>3, ReadOK
<1>4. CASE \E ok \in BOOLEAN : ReadSector(ok)
  BY <1>4, ReadSectorOK
<1>5. CASE \/ \E pdrv \in {0, 1}, n \in 0..MaxCount : DiskWrite(pdrv, n)
           \/ \E pdrv \in {0, 1},
                 cmd \in {"CTRL_SYNC", "GET_SECTOR_COUNT", "MMC_GET_TYPE",
                          "CTRL_POWER_OFF", "CTRL_TRIM"} : DiskIoctl(pdrv, cmd)
           \/ MoveCard
  BY <1>5, OtherOK
<1> QED BY <1>1, <1>2, <1>3, <1>4, <1>5 DEF Next

\* The variables of the disk layer keep their types: the loop of disk_read never
\* leaves the caller's buffer nor asks for a sector outside what was asked for.
THEOREM DiskTypeOK == ASSUME DiskAssumption PROVE Spec => []TypeOK
<1>1. Init => IInv
  BY InitOK
<1>2. IInv /\ [Next]_vars => IInv'
  BY NextOK
<1>3. IInv => TypeOK
  BY DEF IInv
<1> QED BY <1>1, <1>2, <1>3, PTL DEF Spec

\* disk_read puts every sector where it belongs in the caller's buffer, whichever
\* of them failed and whatever writes and controls came before.
THEOREM DiskSectorsInPlace == ASSUME DiskAssumption PROVE Spec => []SectorsInPlace
<1>1. Init => IInv
  BY InitOK
<1>2. IInv /\ [Next]_vars => IInv'
  BY NextOK
<1>3. IInv => SectorsInPlace
  BY DEF IInv, TypeOK, InStep, Placed, Done, SectorsInPlace, Untouched, DiskAssumption
<1> QED BY <1>1, <1>2, <1>3, PTL DEF Spec
=============================================================================
