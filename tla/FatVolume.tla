----------------------------- MODULE FatVolume ------------------------------
(***************************************************************************)
(* bare_metal/ff.c as the program uses it: mounting the volume of the SD   *)
(* card, opening, reading and seeking a file, listing a directory.  The    *)
(* user may exchange the card at any time.                                 *)
(*                                                                         *)
(* A step is one sector asked of the disk layer with the code up to the    *)
(* next one.  As DiskIo shows, disk_read says RES_OK also when the sector  *)
(* was not read and the buffer is unchanged: that is "missed".  "error" is *)
(* what a disk layer that reports failures would do; ff.c is written for   *)
(* such a one.  disk_status is never STA_NOINIT after disk_initialize.     *)
(*                                                                         *)
(* Sectors and buffers hold what FatFormat says.  The path is a sequence   *)
(* of names, what create_name makes of the string; f_chdir is never        *)
(* called, so paths start at the root.                                     *)
(*                                                                         *)
(* Nothing is ever written (wflag, FA__DIRTY and FA__WRITTEN stay clear).  *)
(*                                                                         *)
(* An operator named ..._bug is a variant of the next one with a plausible *)
(* fault; it is in no specification and serves to see that a property      *)
(* depends on that line of the code.                                       *)
(***************************************************************************)
EXTENDS FatFormat

CONSTANTS
  Paths,       \* bound: the paths opened
  ReadSizes,   \* bound: the lengths given to f_read (63 and 4096 in selftest.c)
  SeekTo,      \* bound: the offsets given to f_lseek
  MaxFaults,   \* bound: sectors missed or reported as errors, cards exchanged
  MaxMounts    \* bound: volumes mounted

ASSUME VolumeAssumption ==
  /\ Paths \subseteq Seq(STRING)
  /\ ReadSizes \subseteq Nat /\ SeekTo \subseteq Nat
  /\ MaxFaults \in Nat /\ MaxMounts \in Nat

NoSector == -1   \* 0xFFFFFFFF in winsect

VARIABLES
  card,    \* the card in the slot
  ready,   \* and it was initialized since it was put in
  reg,     \* FatFs[0] points to the file system object
  fs,      \* its fields that describe the volume
  Fsid,
  win, winsect,
  fil,     \* the program's FIL
  dirp,    \* the program's DIR
  pc,      \* the next sector is for: see Next
  op,      \* the call in progress, or the last
  loc,     \* the locals of the functions it is in, see NoLocals
  out,     \* f_read: the bytes in the caller's buffer
  more,    \* displaydir goes on
  res,     \* what the last call returned
  hist,    \* history of the disk, and of the calls: see Init
  call

slot   == <<card, ready>>
disk   == <<win, winsect, hist>>
volume == <<reg, fs, Fsid>>
vars   == <<slot, disk, volume, fil, dirp, pc, op, loc, out, more, res, call>>

NoVolume == [fs_type |-> "", id |-> 0, csize |-> 1, n_rootdir |-> 0, n_fatent |-> 2,
             volbase |-> 0, fatbase |-> 0, database |-> 0, dirbase |-> 0]
NoFile == [open |-> FALSE, id |-> 0, err |-> "OK", sclust |-> 0, fsize |-> 0,
           fptr |-> 0, clust |-> 0, dsect |-> 0, buf |-> Zeros]
\* one that is closed, or that is being opened: the next f_open leaves its buffer
Closed(f) == [NoFile EXCEPT !.dsect = f.dsect, !.buf = f.buf]
NoDir  == [open |-> FALSE, id |-> 0, sclust |-> 0, clust |-> 0, sect |-> 0, index |-> 0]
NoLocals ==
  [path |-> <<>>,       \* the names still to follow, the current one first
   dj |-> NoDir,        \* the DIR that follow_path works on
   part |-> 0, br |-> <<0, 0, 0, 0>>,  \* find_volume: the partition under test, the table
   clst |-> 0, lo |-> Zeros, \* get_fat: its argument; what FAT12's first byte came from
   todo |-> 0,          \* f_read: bytes still to read; f_lseek: still to go
   idx |-> 0,           \* displaydir: the index before the call
   steps |-> 0]         \* history: steps of the call so far
NoCall ==
  [file |-> <<>>,       \* the path of the last f_open
   pos |-> 0,           \* where its file should be read from next
   from |-> 0, size |-> 0, \* where f_read was to read, how much
   dir |-> <<>>,        \* the path of the last f_opendir
   names |-> <<>>]      \* the names that were listed

Init ==
  /\ card \in DOMAIN Cards /\ ready = FALSE
  /\ reg = FALSE /\ fs = NoVolume /\ Fsid = 0
  /\ win = Zeros /\ winsect = 0
  /\ fil = NoFile /\ dirp = NoDir
  /\ pc = "Idle" /\ op = "none" /\ loc = NoLocals
  /\ out = <<>> /\ more = FALSE /\ res = "OK"
  /\ hist = [missed |-> FALSE,   \* a sector was missed since the last mount
             failed |-> FALSE,   \* or reported as an error
             faults |-> 0,
             on |-> 0,           \* the card at the last mount
             inside |-> TRUE]    \* all sectors asked for lay in the volume
  /\ call = NoCall

Return(r) == pc' = "Idle" /\ res' = r /\ loc' = NoLocals
GoOn(p, l) == pc' = p /\ loc' = [l EXCEPT !.steps = @ + 1] /\ UNCHANGED res

-----------------------------------------------------------------------------
(* disk_read *)

Outcomes == {"read", "missed", "error"}

\* Without a fault a sector is read, unless the card was exchanged: one that
\* is not initialized answers nothing.
NoFault(o) == o = IF ready THEN "read" ELSE "missed"

VolumeEnd == fs.database + (fs.n_fatent - 2) * fs.csize

\* n sectors from s on
Ask(s, n, o) ==
  /\ o = "read" => ready
  /\ NoFault(o) \/ hist.faults < MaxFaults
  /\ hist' = [hist EXCEPT
                !.inside = @ /\ (fs.fs_type # "" => s >= fs.volbase /\ s + n <= VolumeEnd),
                !.faults = IF NoFault(o) THEN @ ELSE @ + 1,
                !.missed = @ \/ o = "missed", !.failed = @ \/ o = "error"]

MoveWindow(sector, o) ==
  \/ sector = winsect /\ o = "read" /\ UNCHANGED disk
  \/ /\ sector # winsect
     /\ Ask(sector, 1, o)
     /\ win' = IF o = "read" THEN <<card, sector>> ELSE win
     /\ winsect' = IF o = "error" THEN NoSector ELSE sector

clust2sect_bug(f, c) ==
  IF c - 2 \notin 0..(f.n_fatent - 2) THEN 0 ELSE (c - 2) * f.csize + f.database
clust2sect(f, c) ==
  IF c - 2 \notin 0..(f.n_fatent - 3) THEN 0 ELSE (c - 2) * f.csize + f.database

-----------------------------------------------------------------------------
(* Directories *)

\* dir_sdi(dp, 0), as [ok, d]
dir_sdi(f, d) ==
  LET c == IF d.sclust = 0 /\ f.fs_type = "FAT32" THEN f.dirbase ELSE d.sclust
      s == IF c = 0 THEN f.dirbase ELSE clust2sect(f, c)
  IN [ok |-> /\ d.sclust # 1 /\ d.sclust < f.n_fatent
             /\ (c = 0 => f.n_rootdir > 0) /\ s # 0,
      d  |-> [d EXCEPT !.index = 0, !.clust = c, !.sect = s]]

\* The parts of dir_next.  It needs the FAT at the end of a cluster.
NextIndex(d) == (d.index + 1) % IndexLimit
SectorEnds(d) == NextIndex(d) % DirPer = 0
AtLimit_bug(d) == d.sect = 0
AtLimit(d) == NextIndex(d) = 0 \/ d.sect = 0
NeedsFat(d) ==
  /\ ~AtLimit(d) /\ SectorEnds(d) /\ d.clust # 0
  /\ (NextIndex(d) \div DirPer) % fs.csize = 0

\* the end of the root directory of FAT12 and FAT16
TableEnds_bug(d) == NextIndex(d) > fs.n_rootdir
TableEnds(d) == NextIndex(d) >= fs.n_rootdir

\* what it does where it needs no FAT, as [d, res]
dir_next(d) ==
  LET e == IF SectorEnds(d) THEN [d EXCEPT !.sect = @ + 1] ELSE d
  IN CASE AtLimit(d) -> [d |-> d, res |-> "NO_FILE"]
       [] ~AtLimit(d) /\ SectorEnds(d) /\ d.clust = 0 /\ TableEnds(d) ->
            [d |-> e, res |-> "NO_FILE"]
       [] OTHER -> [d |-> [e EXCEPT !.index = NextIndex(d)], res |-> "OK"]

\* what it does with the FAT entry
dir_next_fat(d, v) ==
  LET e == [d EXCEPT !.sect = @ + 1]
  IN CASE v <= 1 -> [d |-> e, res |-> "INT_ERR"]
       [] v = Bad -> [d |-> e, res |-> "DISK_ERR"]
       [] v # Bad /\ v >= fs.n_fatent -> [d |-> e, res |-> "NO_FILE"]
       [] OTHER -> [d |-> [d EXCEPT !.clust = v, !.sect = clust2sect(fs, v),
                                    !.index = NextIndex(d)],
                    res |-> "OK"]

-----------------------------------------------------------------------------
(* follow_path, and what f_open and f_opendir do at its end *)

IsDot(n) == n \in Dots

OpenDir(f, d) ==
  LET s == dir_sdi(f, d)
  IN /\ dirp' = [s.d EXCEPT !.open = s.ok, !.id = f.id]
     /\ Return(IF s.ok THEN "OK" ELSE "INT_ERR")
     /\ UNCHANGED fil

NotOpened(r) ==
  /\ Return(IF op = "opendir" /\ r = "NO_FILE" THEN "NO_PATH" ELSE r)
  /\ dirp' = IF op = "opendir" THEN NoDir ELSE dirp
  /\ UNCHANGED fil

\* the path names the root itself: there is no entry
Origin(f) ==
  IF op = "open" THEN NotOpened("INVALID_NAME") ELSE OpenDir(f, NoDir)

\* f_open leaves the buffer and clust of the FIL as they are
OpenFile(e) ==
  /\ fil' = [fil EXCEPT !.open = TRUE, !.id = fs.id, !.err = "OK", !.sclust = e.clust,
               !.fsize = e.size, !.fptr = 0, !.dsect = 0]
  /\ Return("OK")
  /\ UNCHANGED dirp

\* the search for the next name starts, in the directory at cluster c
DirFind(f, c, names) ==
  LET s == dir_sdi(f, [NoDir EXCEPT !.sclust = c])
  IN IF ~s.ok THEN NotOpened("INT_ERR")
     ELSE /\ GoOn("Find", [loc EXCEPT !.path = names, !.dj = s.d])
          /\ UNCHANGED <<fil, dirp>>

FollowPath(f) ==
  IF loc.path = <<>> THEN Origin(f) ELSE DirFind(f, 0, loc.path)

name == Head(loc.path)
NS_LAST == Len(loc.path) = 1

\* dir_find returned FR_NO_FILE
NoSuchName ==
  CASE IsDot(name) /\ ~NS_LAST -> DirFind(fs, 0, Tail(loc.path))
    [] IsDot(name) /\ NS_LAST -> Origin(fs)
    [] OTHER -> NotOpened(IF NS_LAST THEN "NO_FILE" ELSE "NO_PATH")

Matched(e) ==
  CASE ~NS_LAST /\ e.attr = "DIR" -> DirFind(fs, e.clust, Tail(loc.path))
    [] NS_LAST /\ op = "open" /\ e.attr = "FILE" -> OpenFile(e)
    [] NS_LAST /\ op = "opendir" /\ e.attr = "DIR" ->
         OpenDir(fs, [NoDir EXCEPT !.sclust = e.clust])
    [] OTHER -> NotOpened(IF NS_LAST /\ op = "open" THEN "NO_FILE" ELSE "NO_PATH")

\* dir_find has gone to the next entry, or failed to
Searched(n) ==
  CASE n.res = "OK" -> GoOn("Find", [loc EXCEPT !.dj = n.d]) /\ UNCHANGED <<fil, dirp>>
    [] n.res = "NO_FILE" -> NoSuchName
    [] OTHER -> NotOpened(n.res)

-----------------------------------------------------------------------------
(* find_volume *)

\* the boot record's fields do not make a volume
BadBpb(b) ==
  \/ b.BytsPerSec # SS \/ b.NumFATs \notin {1, 2} \/ b.SecPerClus \notin ClusterSizes
  \/ b.RootEntCnt % DirPer # 0 \/ b.RsvdSecCnt = 0
  \/ b.TotSec < b.RsvdSecCnt + b.NumFATs * b.FATSz + b.RootEntCnt \div DirPer
  \/ Clusters(b) = 0
  \/ (Type(b) = "FAT32") # (b.RootEntCnt = 0)
  \/ LET n == Clusters(b) + 2
         szbfat == CASE Type(b) = "FAT32" -> n * 4
                     [] Type(b) = "FAT16" -> n * 2
                     [] OTHER -> (n * 3) \div 2 + (n % 2)
     IN b.FATSz < (szbfat + SS - 1) \div SS

Volume(b, bsect) ==
  LET fasize == b.FATSz * b.NumFATs
      fatbase == bsect + b.RsvdSecCnt
  IN [fs_type |-> Type(b), id |-> Fsid + 1, csize |-> b.SecPerClus,
      n_rootdir |-> b.RootEntCnt, n_fatent |-> Clusters(b) + 2, volbase |-> bsect,
      fatbase |-> fatbase,
      database |-> fatbase + fasize + b.RootEntCnt \div DirPer,
      dirbase |-> IF Type(b) = "FAT32" THEN b.RootClus ELSE fatbase + fasize]

\* find_volume was called by f_mount, f_open or f_opendir
Found(f) ==
  IF op = "mount" THEN Return("OK") /\ UNCHANGED <<fil, dirp>> ELSE FollowPath(f)

NotFound(r) ==
  /\ fs' = [fs EXCEPT !.fs_type = ""] /\ UNCHANGED Fsid
  /\ IF op = "mount" THEN Return(r) /\ UNCHANGED <<fil, dirp>> ELSE NotOpened(r)

Mounted(b, bsect) ==
  IF BadBpb(b) THEN NotFound("NO_FILESYSTEM")
  ELSE /\ fs' = Volume(b, bsect)
       /\ IF Type(b) = "FAT32" /\ b.FSInfo = 1
          THEN GoOn("Info", loc) /\ UNCHANGED <<Fsid, fil, dirp>>
          ELSE Fsid' = Fsid + 1 /\ Found(Volume(b, bsect))

\* check_fs: what the window holds counts for nothing
Invalid_bug(sector) == sector # winsect
Invalid(sector) == TRUE

CheckFs(o) ==
  LET part == loc.part
      sector == IF part = 0 THEN 0 ELSE loc.br[part]
  IN /\ pc = "Check"
     /\ IF Invalid(sector)
        THEN /\ Ask(sector, 1, o)
             /\ win' = IF o = "read" THEN <<card, sector>> ELSE win
             /\ winsect' = IF o = "error" THEN NoSector ELSE sector
        ELSE o = "read" /\ UNCHANGED disk
     /\ LET fmt == IF o = "error" THEN 3 ELSE BootKind(win')
            br == IF part = 0 THEN PartsIn(win') ELSE loc.br
            later == {p \in (part + 1)..4 : br[p] # 0}
        IN CASE fmt = 0 -> Mounted(Cards[win'[1]].bpb, sector)
             [] fmt # 0 /\ (part > 0 \/ fmt = 1) /\ later # {} ->
                  /\ GoOn("Check", [loc EXCEPT !.br = br,
                            !.part = CHOOSE p \in later : \A q \in later : p <= q])
                  /\ UNCHANGED <<fs, Fsid, fil, dirp>>
             [] OTHER -> NotFound(IF fmt = 3 /\ part \in {0, 4} THEN "DISK_ERR"
                                  ELSE "NO_FILESYSTEM")
     /\ UNCHANGED <<slot, reg, op, out, more, call>>

\* the free cluster count, which only matters to writers
FsInfo(o) ==
  /\ pc = "Info"
  /\ MoveWindow(fs.volbase + 1, o)
  /\ Fsid' = Fsid + 1
  /\ Found(fs)
  /\ UNCHANGED <<slot, reg, fs, op, out, more, call>>

\* the start of find_volume, once reg' and fs' are known
FindVolume(names) ==
  CASE ~reg' -> Return("NOT_ENABLED") /\ UNCHANGED <<ready, hist>>
    [] reg' /\ fs'.fs_type # "" ->
         GoOn("Follow", [loc EXCEPT !.path = names]) /\ UNCHANGED <<ready, hist>>
    [] OTHER -> /\ Fsid < MaxMounts
                /\ ready' = TRUE      \* disk_initialize
                /\ hist' = [hist EXCEPT !.missed = FALSE, !.failed = FALSE, !.on = card]
                /\ GoOn("Check", [loc EXCEPT !.path = names])

\* The volume was mounted before.
Follow ==
  /\ pc = "Follow"
  /\ FollowPath(fs)
  /\ UNCHANGED <<slot, disk, volume, op, out, more, call>>

\* f_mount(&fs, "", now), or f_mount(0, "", 1)
f_mount(on, now) ==
  /\ pc = "Idle"
  /\ op' = "mount" /\ call' = NoCall /\ out' = <<>>
  /\ reg' = on /\ fs' = [fs EXCEPT !.fs_type = ""]
  /\ IF on /\ now THEN FindVolume(<<>>) ELSE Return("OK") /\ UNCHANGED <<ready, hist>>
  /\ UNCHANGED <<card, win, winsect, Fsid, fil, dirp, more>>

f_open(p) ==
  /\ pc = "Idle"
  /\ op' = "open" /\ out' = <<>>
  /\ ~dirp.open
  /\ fil' = Closed(fil)
  /\ UNCHANGED <<reg, fs>> /\ FindVolume(p)
  /\ call' = [call EXCEPT !.file = p, !.pos = 0, !.from = 0, !.size = 0]
  /\ UNCHANGED <<card, win, winsect, Fsid, dirp, more>>

f_opendir(p) ==
  /\ pc = "Idle"
  /\ op' = "opendir" /\ out' = <<>>
  /\ ~fil.open
  /\ UNCHANGED <<reg, fs>> /\ FindVolume(p)
  /\ call' = [call EXCEPT !.dir = p, !.names = <<>>]
  /\ more' = TRUE
  /\ UNCHANGED <<card, win, winsect, Fsid, fil, dirp>>

-----------------------------------------------------------------------------
(* find_volume aside, every call begins with validate *)

Valid_bug(o) == o.open /\ fs.fs_type # ""
Valid(o) == o.open /\ fs.fs_type # "" /\ fs.id = o.id

\* get_fat, see GetFat
FatCallers == {"FatFind", "FatSkip", "FatNext", "FatRead", "FatSeek"}
InFat(c) == c \in 2..(fs.n_fatent - 1)
Ask_fat(c, caller) == GoOn(caller, [loc EXCEPT !.clst = c, !.lo = Zeros])

Find(o) ==
  LET dj == loc.dj IN
  /\ pc = "Find"
  /\ MoveWindow(dj.sect, o)
  /\ IF o = "error" THEN NotOpened("DISK_ERR")
     ELSE \E e \in EntriesAt(win', dj.index % DirPer) :
            CASE e = End -> NoSuchName
              [] e.attr \in Listed /\ e.name = name -> Matched(e)
              [] OTHER -> IF NeedsFat(dj)
                          THEN Ask_fat(dj.clust, "FatFind") /\ UNCHANGED <<fil, dirp>>
                          ELSE Searched(dir_next(dj))
  /\ UNCHANGED <<slot, volume, op, out, more, call>>

-----------------------------------------------------------------------------
(* f_readdir, called by displaydir until the index stays or a call fails *)

Shown(d, r) == dirp' = d /\ Return(r) /\ more' = (r = "OK" /\ d.index # loc.idx)

\* dir_next after an entry that is not shown, and after one that is
Skipped(n) ==
  IF n.res = "OK" THEN dirp' = n.d /\ GoOn("Entry", loc) /\ UNCHANGED more
  ELSE Shown([n.d EXCEPT !.sect = 0], IF n.res = "NO_FILE" THEN "OK" ELSE n.res)
Stepped(n) ==
  IF n.res = "NO_FILE" THEN Shown([n.d EXCEPT !.sect = 0], "OK")
  ELSE Shown(n.d, n.res)

f_readdir ==
  /\ pc = "Idle" /\ more
  /\ op' = "readdir" /\ out' = <<>>
  /\ IF Valid(dirp) /\ dirp.sect # 0
     THEN GoOn("Entry", [loc EXCEPT !.idx = dirp.index]) /\ UNCHANGED more
     ELSE more' = FALSE /\ Return(IF Valid(dirp) THEN "OK" ELSE "INVALID_OBJECT")
  /\ UNCHANGED <<slot, disk, volume, fil, dirp, call>>

Entry(o) ==
  /\ pc = "Entry"
  /\ MoveWindow(dirp.sect, o)
  /\ IF o = "error" THEN Shown([dirp EXCEPT !.sect = 0], "DISK_ERR") /\ UNCHANGED call
     ELSE \E e \in EntriesAt(win', dirp.index % DirPer) :
            LET show == e.attr \in Listed IN
            /\ call' = IF show THEN [call EXCEPT !.names = Append(@, e.name)] ELSE call
            /\ CASE e = End -> Shown([dirp EXCEPT !.sect = 0], "OK")
                 [] e # End /\ NeedsFat(dirp) ->
                      /\ Ask_fat(dirp.clust, IF show THEN "FatNext" ELSE "FatSkip")
                      /\ UNCHANGED <<dirp, more>>
                 [] e # End /\ ~NeedsFat(dirp) /\ show -> Stepped(dir_next(dirp))
                 [] OTHER -> Skipped(dir_next(dirp))
  /\ UNCHANGED <<slot, volume, fil, op, out>>

f_close ==
  /\ pc = "Idle" /\ Valid(fil)
  /\ fil' = Closed(fil) /\ op' = "close" /\ out' = <<>> /\ Return("OK")
  /\ call' = NoCall
  /\ UNCHANGED <<slot, disk, volume, dirp, more>>

f_closedir ==
  /\ pc = "Idle" /\ ~more /\ Valid(dirp)
  /\ dirp' = NoDir /\ op' = "close" /\ out' = <<>> /\ Return("OK")
  /\ call' = NoCall
  /\ UNCHANGED <<slot, disk, volume, fil, more>>

-----------------------------------------------------------------------------
(* f_read *)

MinOf(a, b) == IF a < b THEN a ELSE b

Abort(r) == fil' = [fil EXCEPT !.err = r] /\ Return(r)

\* what stops f_read and f_lseek at once
Refusal == IF Valid(fil) THEN fil.err ELSE "INVALID_OBJECT"

\* what is left of the file bounds the bytes read
Truncated_bug(n) == n
Truncated(n) == MinOf(n, fil.fsize - fil.fptr)

f_read(n) ==
  LET btr == Truncated(n) IN
  /\ pc = "Idle"
  /\ op' = "read" /\ out' = <<>>
  /\ IF Refusal # "OK" THEN Return(Refusal) /\ UNCHANGED call
     ELSE /\ call' = [call EXCEPT !.from = call.pos, !.size = n, !.pos = @ + btr]
          /\ IF btr = 0 THEN Return("OK") ELSE GoOn("Read", [loc EXCEPT !.todo = btr])
  /\ UNCHANGED <<slot, disk, volume, fil, dirp, more>>

\* n more bytes, b, in the caller's buffer
Deliver(f, n, b) ==
  /\ fil' = [f EXCEPT !.fptr = @ + n]
  /\ out' = out \o b
  /\ IF loc.todo = n THEN Return("OK") ELSE GoOn("Read", [loc EXCEPT !.todo = @ - n])

\* from the sector buffer, which f holds
Part(f) ==
  LET at == f.fptr % SS
      n == MinOf(SS - at, loc.todo)
  IN Deliver(f, n, [k \in 1..n |-> <<f.buf[1], f.buf[2], at + k - 1>>])

ReadCluster(v) ==
  IF v < 2 \/ v = Bad THEN Abort(IF v < 2 THEN "INT_ERR" ELSE "DISK_ERR")
  ELSE fil' = [fil EXCEPT !.clust = v] /\ GoOn("Data", loc)

csect == (fil.fptr \div SS) % fs.csize

\* the top of the loop
Read ==
  /\ pc = "Read"
  /\ CASE fil.fptr % SS # 0 -> Part(fil)
       [] fil.fptr % SS = 0 /\ csect # 0 -> GoOn("Data", loc) /\ UNCHANGED <<fil, out>>
       [] fil.fptr = 0 -> ReadCluster(fil.sclust) /\ UNCHANGED out
       [] OTHER -> Ask_fat(fil.clust, "FatRead") /\ UNCHANGED <<fil, out>>
  /\ UNCHANGED <<slot, disk, volume, dirp, op, more, call>>

\* As many whole sectors of the cluster as are wanted go to the caller at once;
\* lost are those of them that were missed.
Clip(cc) == MinOf(cc, fs.csize - csect)

Data(o, lost) ==
  LET first == clust2sect(fs, fil.clust)
      sect == first + csect
      cc == Clip(loc.todo \div SS)
  IN /\ pc = "Data"
     /\ (lost # {}) = (o = "missed" /\ first # 0 /\ cc > 0)
     /\ CASE first = 0 -> o = "read" /\ Abort("INT_ERR") /\ UNCHANGED <<hist, out>>
          [] first # 0 /\ cc > 0 ->
               /\ lost \subseteq 0..(cc - 1)
               /\ ~ready /\ o = "missed" => lost = 0..(cc - 1)
               /\ Ask(sect, cc, o)
               /\ IF o = "error" THEN Abort("DISK_ERR") /\ UNCHANGED out
                  ELSE Deliver(fil, cc * SS,
                         [k \in 1..(cc * SS) |->
                            IF (k - 1) \div SS \in lost THEN <<0, 0, 0>>
                            ELSE <<card, sect + (k - 1) \div SS, (k - 1) % SS>>])
          [] first # 0 /\ cc = 0 /\ fil.dsect = sect -> o = "read" /\ Part(fil) /\ UNCHANGED hist
          [] OTHER ->
               /\ Ask(sect, 1, o)
               /\ IF o = "error" THEN Abort("DISK_ERR") /\ UNCHANGED out
                  ELSE Part([fil EXCEPT !.dsect = sect,
                              !.buf = IF o = "read" THEN <<card, sect>> ELSE @])
     /\ UNCHANGED <<slot, win, winsect, volume, dirp, op, more, call>>

-----------------------------------------------------------------------------
(* f_lseek of a file opened for reading, without a link map *)

bcs == fs.csize * SS

\* the wanted offset is in the current cluster or a later one
Forward(ofs, ifptr) == ifptr > 0 /\ (ofs - 1) \div bcs >= (ifptr - 1) \div bcs

f_lseek(n) ==
  LET ofs == MinOf(n, fil.fsize)
      base == ((fil.fptr - 1) \div bcs) * bcs
  IN /\ pc = "Idle"
     /\ op' = "lseek" /\ out' = <<>>
     /\ call' = IF Refusal = "OK" THEN [call EXCEPT !.pos = ofs] ELSE call
     /\ CASE Refusal # "OK" -> Return(Refusal) /\ UNCHANGED fil
          [] Refusal = "OK" /\ ofs = 0 -> fil' = [fil EXCEPT !.fptr = 0] /\ Return("OK")
          [] Refusal = "OK" /\ ofs # 0 /\ Forward(ofs, fil.fptr) ->
               /\ fil' = [fil EXCEPT !.fptr = base]
               /\ GoOn("Seek", [loc EXCEPT !.todo = ofs - base])
          [] OTHER ->
               /\ fil.sclust # 0    \* the code would give it a cluster
               /\ fil' = [fil EXCEPT !.fptr = 0, !.clust = fil.sclust]
               /\ GoOn("Seek", [loc EXCEPT !.todo = ofs])
     /\ UNCHANGED <<slot, disk, volume, dirp, more>>

SeekCluster(v) ==
  IF v = Bad \/ ~InFat(v) THEN Abort(IF v = Bad THEN "DISK_ERR" ELSE "INT_ERR")
  ELSE /\ fil' = [fil EXCEPT !.clust = v, !.fptr = @ + bcs]
       /\ GoOn("Seek", [loc EXCEPT !.todo = @ - bcs])

\* the sector of the offset that is left in the last cluster
nsect == clust2sect(fs, fil.clust) + loc.todo \div SS

Seek ==
  LET there == [fil EXCEPT !.fptr = @ + loc.todo]
      inside == loc.todo % SS # 0
  IN /\ pc = "Seek"
     /\ CASE loc.todo > bcs -> Ask_fat(fil.clust, "FatSeek") /\ UNCHANGED fil
          [] loc.todo <= bcs /\ inside /\ clust2sect(fs, fil.clust) = 0 ->
               fil' = [there EXCEPT !.err = "INT_ERR"] /\ Return("INT_ERR")
          [] loc.todo <= bcs /\ inside /\ clust2sect(fs, fil.clust) # 0 /\ nsect # fil.dsect ->
               fil' = there /\ GoOn("Fill", loc)
          [] OTHER -> fil' = there /\ Return("OK")
     /\ UNCHANGED <<slot, disk, volume, dirp, op, out, more, call>>

Fill(o) ==
  /\ pc = "Fill"
  /\ Ask(nsect, 1, o)
  /\ IF o = "error" THEN Abort("DISK_ERR")
     ELSE /\ fil' = [fil EXCEPT !.dsect = nsect, !.buf = IF o = "read" THEN <<card, nsect>> ELSE @]
          /\ Return("OK")
  /\ UNCHANGED <<slot, win, winsect, volume, dirp, op, out, more, call>>

-----------------------------------------------------------------------------
(* get_fat *)

\* the sector of the entry's first byte, and of its second in FAT12
FatAt(c, i) ==
  fs.fatbase + (CASE fs.fs_type = "FAT12" -> c + c \div 2 + i
                  [] fs.fs_type = "FAT16" -> c * 2
                  [] OTHER -> c * 4) \div SS

\* The caller goes on with value v.
GotFat(v) ==
  CASE pc = "FatFind" -> Searched(dir_next_fat(loc.dj, v)) /\ UNCHANGED more
    [] pc = "FatSkip" -> Skipped(dir_next_fat(dirp, v)) /\ UNCHANGED fil
    [] pc = "FatNext" -> Stepped(dir_next_fat(dirp, v)) /\ UNCHANGED fil
    [] pc = "FatRead" -> ReadCluster(v) /\ UNCHANGED <<dirp, more>>
    [] OTHER -> SeekCluster(v) /\ UNCHANGED <<dirp, more>>

GetFat(o) ==
  LET c == loc.clst
      second == loc.lo # Zeros
  IN /\ pc \in FatCallers
     /\ IF ~InFat(c) THEN o = "read" /\ UNCHANGED disk
        ELSE MoveWindow(FatAt(c, IF second THEN 1 ELSE 0), o)
     /\ CASE ~InFat(c) -> GotFat(1)
          [] InFat(c) /\ o = "error" -> GotFat(Bad)
          [] InFat(c) /\ o # "error" /\ fs.fs_type = "FAT12" /\ ~second ->
               GoOn(pc, [loc EXCEPT !.lo = win']) /\ UNCHANGED <<fil, dirp, more>>
          [] OTHER -> \E v \in FatValues(IF second THEN loc.lo ELSE win', win', c) : GotFat(v)
     /\ UNCHANGED <<slot, volume, op, out, call>>

-----------------------------------------------------------------------------

\* the user puts in another card; a bound: always the next one
SwapCard ==
  /\ hist.faults < MaxFaults
  /\ card' = (card % Len(Cards)) + 1 /\ ready' = FALSE
  /\ hist' = [hist EXCEPT !.faults = @ + 1]
  /\ UNCHANGED <<win, winsect, volume, fil, dirp, pc, op, loc, out, more, res, call>>

Call ==
  \/ f_mount(TRUE, TRUE) \/ f_mount(TRUE, FALSE) \/ f_mount(FALSE, TRUE)
  \/ \E p \in Paths : f_open(p) \/ f_opendir(p)
  \/ f_readdir \/ f_close \/ f_closedir
  \/ \E n \in ReadSizes : f_read(n)
  \/ \E n \in SeekTo : f_lseek(n)

Step ==
  \/ Follow \/ Read \/ Seek
  \/ \E o \in Outcomes :
       \/ CheckFs(o) \/ FsInfo(o) \/ Find(o) \/ Entry(o) \/ GetFat(o) \/ Fill(o)
       \/ \E lost \in SUBSET (0..(Clip(loc.todo \div SS) - 1)) : Data(o, lost)

Next == Call \/ Step \/ SwapCard

Spec == Init /\ [][Next]_vars

-----------------------------------------------------------------------------
(* Properties *)

Buffers == {Zeros} \cup ((DOMAIN Cards) \X Nat)
Errors == {"OK", "DISK_ERR", "INT_ERR", "NO_FILE", "NO_PATH", "INVALID_NAME",
           "NO_FILESYSTEM", "NOT_ENABLED", "INVALID_OBJECT"}

\* The variables have their types; the FIL's pointer stays in the file.
TypeOK ==
  /\ card \in DOMAIN Cards /\ ready \in BOOLEAN /\ reg \in BOOLEAN
  /\ fs.fs_type \in {"", "FAT12", "FAT16", "FAT32"} /\ Fsid \in 0..MaxMounts
  /\ win \in Buffers /\ loc.lo \in Buffers /\ winsect \in Nat \cup {NoSector}
  /\ fil.fptr \in 0..fil.fsize /\ fil.err \in Errors /\ fil.buf \in Buffers
  /\ dirp.index \in 0..(IndexLimit - 1) /\ loc.dj.index \in 0..(IndexLimit - 1)
  /\ op \in {"none", "mount", "open", "opendir", "readdir", "close", "read", "lseek"}
  /\ loc.part \in 0..4 /\ loc.todo \in Nat
  /\ more \in BOOLEAN /\ res \in Errors

\* the path of the last f_open or f_opendir
Names == IF op = "open" THEN call.file ELSE call.dir

Done(o) == pc = "Idle" /\ op = o
Mine == Cards[hist.on]

\* f_read that returns FR_OK gave the bytes of the file that was opened, from
\* where the last f_open, f_read or f_lseek left off, as many as were asked for
\* or are left; unless a sector was missed since the mount.
ReadGivesFile ==
  Done("read") /\ res = "OK" /\ ~hist.missed =>
    LET e == Lookup(Mine, call.file) IN
    /\ Len(out) = MinOf(call.size, e.size - call.from)
    /\ \A k \in DOMAIN out : out[k] = ByteOf(hist.on, e, call.from + k - 1)

\* f_open and f_opendir say FR_OK of what the path leads to and of nothing else,
\* and the file opened is that one.  On a sound volume, with no fault since the
\* mount, they find it, and the file can be read to its end.
Trusted == Mine.dirs # {} /\ ~hist.missed
FindsWhatIsThere ==
  LET e == Lookup(Mine, Names)
      wanted == IF op = "open" THEN "FILE" ELSE "DIR"
  IN /\ (Done("open") \/ Done("opendir")) /\ reg /\ ~hist.missed =>
          /\ res = "OK" => e.attr = wanted
          /\ e.attr = wanted /\ Trusted => (res = "OK" \/ hist.failed)
          /\ op = "open" /\ res = "OK" => fil.sclust = e.clust /\ fil.fsize = e.size
     /\ (Done("read") \/ Done("lseek")) /\ Valid(fil) /\ Trusted =>
          (res = "OK" \/ hist.failed)

\* displaydir shows each file and directory once, in order, if it ends well.
ListsEachOnce ==
  Done("readdir") /\ ~more /\ res = "OK" /\ ~hist.missed =>
    IsListing(call.names, Mine, Lookup(Mine, call.dir).clust)

\* No sector outside the mounted volume is ever asked for, whatever the sectors
\* that were missed leave in the window and whatever the FAT contains.
AsksInsideVolume == hist.inside

\* the bytes that f_read or f_lseek move over
Distance == CASE op = "read" -> call.size [] op = "lseek" -> call.pos [] OTHER -> 0

\* No call is endless, also on a volume whose chains are circular: the directory
\* of each name has at most IndexLimit entries, which take three steps each or
\* less, and a sector or cluster of a file takes four or less.
NoEndlessCall ==
  loc.steps <= 10 + 3 * IndexLimit * (Len(Names) + 1) + 4 * Distance
=============================================================================
