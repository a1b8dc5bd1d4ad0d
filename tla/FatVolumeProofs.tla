-------------------------- MODULE FatVolumeProofs ---------------------------
(* Theorems about FatVolume for every set of cards, whatever is on them:    *)
(* no sector outside the mounted volume is asked for, no call is endless.   *)
EXTENDS FatVolume, TLAPS

-----------------------------------------------------------------------------
(* The inductive invariant *)

OpenSteps == {"Check", "Info", "Follow", "Find", "FatFind"}
ListSteps == {"Entry", "FatSkip", "FatNext"}
ReadSteps == {"Read", "Data", "FatRead"}
SeekSteps == {"Seek", "FatSeek", "Fill"}

FsType ==
  [fs_type : {"", "FAT12", "FAT16", "FAT32"}, id : Nat, csize : Nat \ {0},
   n_rootdir : Nat, n_fatent : Nat, volbase : Nat, fatbase : Nat, database : Nat,
   dirbase : Nat]
FilType ==
  [open : BOOLEAN, id : Nat, err : Errors, sclust : Nat, fsize : Nat, fptr : Nat,
   clust : Nat, dsect : Nat, buf : Buffers]
DirType ==
  [open : BOOLEAN, id : Nat, sclust : Nat, clust : Nat, sect : Nat,
   index : 0..(IndexLimit - 1)]
LocType ==
  [path : Seq(STRING), dj : DirType, part : 0..4, br : [1..4 -> Nat], clst : Nat,
   lo : Buffers, todo : Nat, idx : Nat, steps : Nat]
HistType ==
  [missed : BOOLEAN, failed : BOOLEAN, faults : 0..MaxFaults, on : Nat, inside : {TRUE}]
\* STRING; the provers do not know that a literal is an element of it
Words == STRING \cup {""}
CallType ==
  [file : Seq(STRING), pos : Nat, from : Nat, size : Nat, dir : Seq(STRING),
   names : Seq(Words)]
Ops == {"none", "mount", "open", "opendir", "readdir", "close", "read", "lseek"}

\* the slot and the window
DiskOK ==
  /\ card \in DOMAIN Cards /\ ready \in BOOLEAN
  /\ win \in Buffers /\ winsect \in Nat \cup {NoSector}
  /\ hist \in HistType
  /\ fs.fs_type # "" => win # Zeros

\* What a volume that was mounted is like: the FAT holds an entry for every
\* cluster, and the root directory of FAT12 and FAT16 lies before the data.
FatByte(t, c, i) ==
  CASE t = "FAT12" -> c + c \div 2 + i [] t = "FAT16" -> c * 2 [] OTHER -> c * 4
Geometry(f) ==
  /\ f.n_fatent >= 3
  /\ f.volbase < f.fatbase /\ f.fatbase < f.database
  /\ \A c \in 2..(f.n_fatent - 1), i \in 0..1 :
       f.fatbase + FatByte(f.fs_type, c, i) \div SS < f.database
  /\ f.fs_type = "FAT32" => f.n_rootdir = 0
  /\ f.fs_type # "FAT32" =>
       /\ f.volbase <= f.dirbase /\ f.n_rootdir % DirPer = 0
       /\ f.dirbase + f.n_rootdir \div DirPer <= f.database

VolumeOK ==
  /\ reg \in BOOLEAN /\ fs \in FsType /\ Fsid \in 0..MaxMounts
  /\ ~reg => fs.fs_type = ""
  /\ fs.fs_type # "" => Geometry(fs) /\ fs.id = (IF pc = "Info" THEN Fsid + 1 ELSE Fsid)
  /\ pc \in {"Check", "Info"} => reg /\ Fsid < MaxMounts
  /\ pc = "Check" => fs.fs_type = ""
  /\ pc \notin {"Idle", "Check"} => fs.fs_type # ""

\* The sector of a directory is the one of its index, and lies in the volume.
At(f, d) ==
  IF d.clust = 0
  THEN d.index < f.n_rootdir /\ d.sect = f.dirbase + d.index \div DirPer
  ELSE /\ d.clust \in 2..(f.n_fatent - 1)
       /\ d.sect = clust2sect(f, d.clust) + ((d.index \div DirPer) % f.csize)

Typed ==
  /\ fil \in FilType /\ dirp \in DirType /\ loc \in LocType /\ call \in CallType
  /\ op \in Ops /\ more \in BOOLEAN /\ res \in Errors
  /\ pc \in {"Idle"} \cup OpenSteps \cup ListSteps \cup ReadSteps \cup SeekSteps
  /\ fil.fptr <= fil.fsize

\* what call each step is part of, and where it is in the path or the file
Within ==
  /\ pc = "Idle" => loc = NoLocals
  /\ pc \in {"Check", "Info"} => op \in {"mount", "open", "opendir"}
  /\ pc \in {"Follow", "Find", "FatFind"} => op \in {"open", "opendir"}
  /\ pc \in {"Check", "Info", "Follow"} => loc.path = Names
  /\ pc \in {"Find", "FatFind"} => loc.path # <<>> /\ Len(loc.path) <= Len(Names)
  /\ pc \in ListSteps => op = "readdir"
  /\ pc \in ReadSteps =>
       /\ op = "read" /\ loc.todo > 0 /\ loc.todo <= call.size
       /\ fil.fptr + loc.todo <= fil.fsize
  /\ pc \in SeekSteps => op = "lseek" /\ loc.todo > 0 /\ loc.todo <= call.pos
  /\ pc \in {"Seek", "FatSeek"} => fil.fptr + loc.todo <= fil.fsize
  /\ pc = "FatSeek" => loc.todo > bcs
  /\ pc = "Fill" => clust2sect(fs, fil.clust) # 0 /\ loc.todo \div SS < fs.csize

\* the directories that are being read, or may be next
Directories ==
  /\ dirp.id <= Fsid
  /\ pc = "Find" => At(fs, loc.dj)
  /\ pc = "FatFind" => NeedsFat(loc.dj)
  /\ pc = "Entry" => At(fs, dirp)
  /\ pc \in {"FatSkip", "FatNext"} => NeedsFat(dirp)
  /\ pc \in OpenSteps /\ op = "open" => ~dirp.open
  /\ pc \in {"Idle"} \cup ReadSteps \cup SeekSteps =>
       (more /\ Valid(dirp) /\ dirp.sect # 0 => At(fs, dirp))

Second == IF loc.lo = Zeros THEN 0 ELSE 1
PathDone == 3 * IndexLimit * (Len(Names) - Len(loc.path))
Counted ==
  /\ pc = "Check" => loc.steps <= 1 + loc.part
  /\ pc = "Info" => loc.steps <= 6
  /\ pc = "Follow" => loc.steps <= 1
  /\ pc = "Find" => loc.steps <= 7 + PathDone + 3 * loc.dj.index
  /\ pc = "FatFind" => loc.steps <= 8 + PathDone + 3 * loc.dj.index + Second
  /\ pc = "Entry" => loc.steps <= 1 + 3 * dirp.index
  /\ pc \in {"FatSkip", "FatNext"} => loc.steps <= 2 + 3 * dirp.index + Second
  /\ pc = "Read" => loc.steps <= 1 + 4 * (call.size - loc.todo)
  /\ pc = "FatRead" => loc.steps <= 2 + 4 * (call.size - loc.todo) + Second
  /\ pc = "Data" => loc.steps <= 4 + 4 * (call.size - loc.todo)
  /\ pc = "Seek" => loc.steps <= 1 + 3 * (call.pos - loc.todo)
  /\ pc = "FatSeek" => loc.steps <= 2 + 3 * (call.pos - loc.todo) + Second
  /\ pc = "Fill" => loc.steps <= 2 + 3 * call.pos

IInv == DiskOK /\ VolumeOK /\ Typed /\ Within /\ Directories /\ Counted


-----------------------------------------------------------------------------
(* Division *)

LEMMA DivMod ==
  ASSUME NEW a \in Nat, NEW b \in Nat \ {0}
  PROVE  a \div b \in Nat /\ a % b \in 0..(b - 1) /\ a = b * (a \div b) + (a % b)
OBVIOUS

LEMMA LessProduct ==
  ASSUME NEW b \in Nat, NEW q \in Int, NEW p \in Int, q < p
  PROVE  b * q + b <= b * p
OBVIOUS

LEMMA DivUnique ==
  ASSUME NEW a \in Nat, NEW b \in Nat \ {0}, NEW q \in Int, NEW r \in 0..(b - 1),
         a = b * q + r
  PROVE  a \div b = q /\ a % b = r
<1> DEFINE p == a \div b
<1>1. /\ p \in Int /\ a % b \in 0..(b - 1) /\ a = b * p + (a % b)
      /\ b * p \in Int /\ b * q \in Int
  BY DivMod
<1>2. ~(p < q)
  BY <1>1, LessProduct
<1>3. ~(q < p)
  BY <1>1, LessProduct
<1> QED BY <1>1, <1>2, <1>3

LEMMA DivLess ==
  ASSUME NEW a \in Nat, NEW b \in Nat \ {0}, NEW q \in Int, a < b * q
  PROVE  a \div b < q
<1> DEFINE p == a \div b
<1>1. /\ p \in Int /\ a % b \in 0..(b - 1) /\ a = b * p + (a % b)
      /\ b * p \in Int /\ b * q \in Int
  BY DivMod
<1>2. q <= p => b * q <= b * p
  BY <1>1, LessProduct
<1> QED BY <1>1, <1>2

LEMMA DivSmall ==
  ASSUME NEW a \in Nat, NEW b \in Nat \ {0}, a < b
  PROVE  a \div b = 0 /\ a % b = a
<1>1. a = b * 0 + a /\ a \in 0..(b - 1)
  OBVIOUS
<1> QED BY <1>1, DivUnique

\* the quotient of the next number
LEMMA DivNext ==
  ASSUME NEW a \in Nat, NEW b \in Nat \ {0}
  PROVE  /\ (a + 1) % b = 0 => (a + 1) \div b = (a \div b) + 1
         /\ (a + 1) % b # 0 => /\ (a + 1) \div b = a \div b
                               /\ (a + 1) % b = (a % b) + 1
<1> DEFINE p == a \div b
<1> DEFINE r == a % b
<1> DEFINE n == a + 1
<1>0. p \in Nat /\ r \in 0..(b - 1) /\ a = b * p + r
  BY DivMod
<1>1. p \in Nat /\ r \in 0..(b - 1) /\ n \in Nat
  BY <1>0
<1>2. n = b * p + (r + 1)
  <2> HIDE DEF p, r
  <2> QED BY <1>0, <1>1
<1> HIDE DEF p, r, n
<1>3. CASE r = b - 1
  <2>1. p + 1 \in Int /\ n = b * (p + 1) + 0 /\ 0 \in 0..(b - 1)
    BY <1>1, <1>2, <1>3
  <2>2. n \div b = p + 1 /\ n % b = 0
    BY <1>1, <2>1, DivUnique
  <2> QED BY <2>2 DEF p, r, n
<1>4. CASE r # b - 1
  <2>1. p \in Int /\ r + 1 \in 0..(b - 1)
    BY <1>1, <1>4
  <2>2. n \div b = p /\ n % b = r + 1
    BY <1>1, <1>2, <2>1, DivUnique
  <2>3. n % b # 0
    BY <1>1, <2>2
  <2> QED BY <2>2, <2>3 DEF p, r, n
<1> QED BY <1>3, <1>4

LEMMA SizeFacts ==
  /\ SS \in Nat \ {0} /\ DirPer \in Nat \ {0} /\ IndexLimit \in Nat \ {0}
  /\ MaxFaults \in Nat /\ MaxMounts \in Nat
<1>1. /\ SS \in Nat \ {0} /\ SZ_DIRE \in Nat \ {0} /\ SS % SZ_DIRE = 0
      /\ IndexLimit \in Nat \ {0}
  BY FormatAssumption
<1>2. SS = SZ_DIRE * (SS \div SZ_DIRE) + (SS % SZ_DIRE) /\ SS \div SZ_DIRE \in Nat
  BY <1>1, DivMod
<1>3. DirPer \in Nat \ {0}
  BY <1>1, <1>2 DEF DirPer
<1> QED BY <1>1, <1>3, VolumeAssumption

-----------------------------------------------------------------------------
(* Where clusters, directories and the FAT lie *)

EndOf(f) == f.database + (f.n_fatent - 2) * f.csize

LEMMA FsFields ==
  ASSUME NEW f \in FsType
  PROVE  /\ f.fs_type \in {"", "FAT12", "FAT16", "FAT32"} /\ f.id \in Nat
         /\ f.csize \in Nat \ {0} /\ f.n_rootdir \in Nat /\ f.n_fatent \in Nat
         /\ f.volbase \in Nat /\ f.fatbase \in Nat /\ f.database \in Nat
         /\ f.dirbase \in Nat
BY DEF FsType

LEMMA DirFields ==
  ASSUME NEW d \in DirType
  PROVE  /\ d.open \in BOOLEAN /\ d.id \in Nat /\ d.sclust \in Nat /\ d.clust \in Nat
         /\ d.sect \in Nat /\ d.index \in 0..(IndexLimit - 1) /\ d.index \in Nat
BY DEF DirType

LEMMA ClusterPlace ==
  ASSUME NEW f \in FsType, NEW c \in Nat
  PROVE  /\ clust2sect(f, c) \in Nat
         /\ clust2sect(f, c) # 0 => c \in 2..(f.n_fatent - 1)
         /\ c \in 2..(f.n_fatent - 1) =>
              f.database <= clust2sect(f, c) /\ clust2sect(f, c) + f.csize <= EndOf(f)
<1>1. f.csize \in Nat \ {0} /\ f.n_fatent \in Nat /\ f.database \in Nat
  BY FsFields
<1>2. CASE c \in 2..(f.n_fatent - 1)
  <2>1. c - 2 \in 0..(f.n_fatent - 3)
    BY <1>1, <1>2
  <2>2. clust2sect(f, c) = (c - 2) * f.csize + f.database
    BY <2>1 DEF clust2sect
  <2> DEFINE k == f.csize
  <2> DEFINE n == f.n_fatent - 2
  <2> DEFINE i == c - 2
  <2>3. k \in Nat /\ n \in Int /\ i \in Nat /\ i < n
    BY <1>1, <1>2
  <2>4. k * i + k <= k * n /\ k * i \in Nat /\ k * i = i * k /\ k * n = n * k
    BY <2>3, LessProduct
  <2> HIDE DEF k, n, i
  <2>5. i * k + f.database + k <= f.database + n * k /\ f.database <= i * k + f.database
        /\ i * k + f.database \in Nat
    BY <1>1, <2>3, <2>4
  <2> QED BY <1>2, <2>2, <2>5 DEF k, n, i, EndOf
<1>3. CASE c \notin 2..(f.n_fatent - 1)
  <2>1. c - 2 \notin 0..(f.n_fatent - 3)
    BY <1>1, <1>3
  <2>2. clust2sect(f, c) = 0
    BY <2>1 DEF clust2sect
  <2> QED BY <1>3, <2>2
<1> QED BY <1>2, <1>3

\* A sector of a directory lies in the volume.
LEMMA AtInside ==
  ASSUME NEW f \in FsType, Geometry(f), NEW d \in DirType, At(f, d)
  PROVE  f.volbase <= d.sect /\ d.sect + 1 <= EndOf(f)
<1>1. /\ f.csize \in Nat \ {0} /\ f.n_fatent \in Nat /\ f.database \in Nat
      /\ f.volbase \in Nat /\ f.fatbase \in Nat /\ f.dirbase \in Nat /\ f.n_rootdir \in Nat
      /\ f.volbase < f.fatbase /\ f.fatbase < f.database /\ f.n_fatent >= 3
  BY FsFields DEF Geometry
<1>2. d.clust \in Nat /\ d.sect \in Nat /\ d.index \in Nat
  BY DirFields
<1>3. DirPer \in Nat \ {0}
  BY SizeFacts
<1>4. CASE d.clust = 0
  <2>1. d.index < f.n_rootdir /\ d.sect = f.dirbase + d.index \div DirPer
    BY <1>4 DEF At
  <2>2. /\ f.volbase <= f.dirbase /\ f.n_rootdir % DirPer = 0
        /\ f.dirbase + f.n_rootdir \div DirPer <= f.database
    BY <1>1, <1>2, <2>1 DEF Geometry
  <2> DEFINE q == f.n_rootdir \div DirPer
  <2>3. q \in Nat /\ f.n_rootdir = DirPer * q
    <3>1. q \in Nat /\ f.n_rootdir = DirPer * q + (f.n_rootdir % DirPer)
      BY <1>1, <1>3, DivMod
    <3> QED BY <1>3, <2>2, <3>1
  <2> HIDE DEF q
  <2>4. d.index \div DirPer < q /\ d.index \div DirPer \in Nat
    <3>1. d.index < DirPer * q /\ q \in Int
      BY <2>1, <2>3
    <3> QED BY <1>2, <1>3, <3>1, DivLess, DivMod
  <2>5. d.sect + 1 <= f.database
    BY <1>1, <1>2, <2>1, <2>2, <2>3, <2>4 DEF q
  <2>6. (f.n_fatent - 2) * f.csize \in Nat
    BY <1>1
  <2> QED BY <1>1, <1>2, <2>1, <2>2, <2>4, <2>5, <2>6 DEF EndOf
<1>5. CASE d.clust # 0
  <2>1. /\ d.clust \in 2..(f.n_fatent - 1)
        /\ d.sect = clust2sect(f, d.clust) + ((d.index \div DirPer) % f.csize)
    BY <1>5 DEF At
  <2>2. (d.index \div DirPer) % f.csize \in 0..(f.csize - 1)
    <3>1. d.index \div DirPer \in Nat
      BY <1>2, <1>3, DivMod
    <3> QED BY <1>1, <3>1, DivMod
  <2>3. /\ clust2sect(f, d.clust) \in Nat /\ f.database <= clust2sect(f, d.clust)
        /\ clust2sect(f, d.clust) + f.csize <= EndOf(f)
    BY <1>2, <2>1, ClusterPlace
  <2>4. EndOf(f) \in Int
    BY <1>1 DEF EndOf
  <2> QED BY <1>1, <2>1, <2>2, <2>3, <2>4
<1> QED BY <1>4, <1>5

\* So does a sector of the FAT.
LEMMA FatInside ==
  ASSUME fs \in FsType, Geometry(fs), NEW c \in 2..(fs.n_fatent - 1), NEW i \in 0..1
  PROVE  /\ FatAt(c, i) \in Nat
         /\ fs.volbase <= FatAt(c, i) /\ FatAt(c, i) + 1 <= EndOf(fs)
<1>1. /\ fs.csize \in Nat \ {0} /\ fs.n_fatent \in Nat /\ fs.database \in Nat
      /\ fs.volbase \in Nat /\ fs.fatbase \in Nat
      /\ fs.volbase < fs.fatbase /\ fs.n_fatent >= 3
  BY FsFields DEF Geometry
<1>2. FatAt(c, i) = fs.fatbase + FatByte(fs.fs_type, c, i) \div SS
  BY DEF FatAt, FatByte
<1>3. FatByte(fs.fs_type, c, i) \in Nat
  <2>1. c \in Nat /\ c \div 2 \in Nat
    BY <1>1
  <2>2. c + c \div 2 + i \in Nat /\ c * 2 \in Nat /\ c * 4 \in Nat
    BY <2>1
  <2> QED BY <2>2 DEF FatByte
<1>4. FatByte(fs.fs_type, c, i) \div SS \in Nat
  BY <1>3, SizeFacts, DivMod
<1>5. fs.fatbase + FatByte(fs.fs_type, c, i) \div SS < fs.database
  BY DEF Geometry
<1>6. (fs.n_fatent - 2) * fs.csize \in Nat
  BY <1>1
<1> QED BY <1>1, <1>2, <1>4, <1>5, <1>6 DEF EndOf

\* what a number of bytes, rounded up to sectors, means for each of them
LEMMA RoundedUp ==
  ASSUME NEW z \in Nat, NEW n \in Nat, (z + SS - 1) \div SS <= n, NEW y \in Nat, y < z
  PROVE  y \div SS < n
<1> DEFINE q == (z + SS - 1) \div SS
<1> DEFINE r == (z + SS - 1) % SS
<1>1. SS \in Nat \ {0} /\ z + SS - 1 \in Nat
  BY SizeFacts
<1>2. q \in Nat /\ r \in 0..(SS - 1) /\ z + SS - 1 = SS * q + r
  BY <1>1, DivMod
<1>3. q <= n
  OBVIOUS
<1> HIDE DEF q, r
<1>4. SS * q \in Nat
  BY <1>1, <1>2
<1>5. y < SS * q
  BY <1>1, <1>2, <1>4
<1>6. y \div SS < q
  BY <1>1, <1>2, <1>5, DivLess
<1>7. y \div SS \in Nat
  BY <1>1, DivMod
<1> QED BY <1>2, <1>3, <1>6, <1>7

\* A boot record that passes the tests of check_fs and find_volume is of a
\* volume whose parts lie where they should.
LEMMA MountedVolume ==
  ASSUME NEW b \in BootRecord, ~BadBpb(b), NEW bsect \in Nat, Fsid \in Nat
  PROVE  /\ Volume(b, bsect) \in FsType /\ Geometry(Volume(b, bsect))
         /\ Volume(b, bsect).fs_type # "" /\ Volume(b, bsect).id = Fsid + 1
<1> DEFINE f == Volume(b, bsect)
<1> DEFINE n == Clusters(b)
<1> DEFINE root == b.RootEntCnt \div DirPer
<1> DEFINE fats == b.FATSz * b.NumFATs
<1> DEFINE num == b.TotSec - b.RsvdSecCnt - b.NumFATs * b.FATSz - root
<1>1. /\ b.BytsPerSec \in Nat /\ b.RsvdSecCnt \in Nat /\ b.NumFATs \in Nat /\ b.FATSz \in Nat
      /\ b.SecPerClus \in Nat /\ b.RootEntCnt \in Nat /\ b.TotSec \in Nat /\ b.RootClus \in Nat
  BY DEF BootRecord
<1>2. SS \in Nat \ {0} /\ DirPer \in Nat \ {0}
  BY SizeFacts
<1>3. /\ b.NumFATs \in {1, 2} /\ b.SecPerClus \in Nat \ {0} /\ b.RsvdSecCnt # 0
      /\ b.RootEntCnt % DirPer = 0 /\ n # 0
      /\ b.TotSec >= b.RsvdSecCnt + b.NumFATs * b.FATSz + root
      /\ Type(b) = "FAT32" <=> b.RootEntCnt = 0
  <2>1. b.TotSec \in Int /\ b.RsvdSecCnt + b.NumFATs * b.FATSz + root \in Int
    <3>1. root \in Nat
      BY <1>1, <1>2, DivMod
    <3> HIDE DEF root
    <3> QED BY <1>1, <3>1
  <2>2. ~(b.TotSec < b.RsvdSecCnt + b.NumFATs * b.FATSz + root)
    BY DEF BadBpb
  <2>3. b.TotSec >= b.RsvdSecCnt + b.NumFATs * b.FATSz + root
    <3> HIDE DEF root
    <3> QED BY <2>1, <2>2
  <2>4. (Type(b) = "FAT32") = (b.RootEntCnt = 0)
    BY DEF BadBpb
  <2>5. b.NumFATs \in {1, 2} /\ b.SecPerClus \in ClusterSizes /\ b.RsvdSecCnt # 0
    BY DEF BadBpb
  <2>7. b.SecPerClus \in Nat \ {0}
    BY <2>5 DEF ClusterSizes
  <2>6. b.RootEntCnt % DirPer = 0 /\ n # 0
    BY DEF BadBpb
  <2> QED BY <2>3, <2>4, <2>5, <2>6, <2>7
<1>4. root \in Nat
  BY <1>1, <1>2, DivMod
<1>5. fats \in Nat /\ fats = b.NumFATs * b.FATSz /\ b.FATSz <= fats
  BY <1>1, <1>3
<1>6. n \in Nat /\ n >= 1
  <2>1. num \in Nat
    <3> HIDE DEF root
    <3> QED BY <1>1, <1>3, <1>4, <1>5
  <2>2. n = num \div b.SecPerClus
    BY DEF Clusters
  <2>3. n \in Nat
    <3> HIDE DEF num, n
    <3> QED BY <1>3, <2>1, <2>2, DivMod
  <2> QED BY <1>3, <2>3
<1>7. Type(b) \in {"FAT12", "FAT16", "FAT32"}
  BY DEF Type
<1>8. /\ f.fs_type = Type(b) /\ f.id = Fsid + 1 /\ f.csize = b.SecPerClus
      /\ f.n_rootdir = b.RootEntCnt /\ f.n_fatent = n + 2 /\ f.volbase = bsect
      /\ f.fatbase = bsect + b.RsvdSecCnt
      /\ f.database = bsect + b.RsvdSecCnt + fats + root
      /\ Type(b) # "FAT32" => f.dirbase = bsect + b.RsvdSecCnt + fats
  BY DEF Volume
<1>9. f \in FsType
  <2>1. /\ bsect + b.RsvdSecCnt \in Nat /\ bsect + b.RsvdSecCnt + fats + root \in Nat
        /\ bsect + b.RsvdSecCnt + fats \in Nat /\ n + 2 \in Nat /\ Fsid + 1 \in Nat
        /\ b.SecPerClus \in Nat \ {0}
    <3> HIDE DEF root, fats, n
    <3> QED BY <1>1, <1>3, <1>4, <1>5, <1>6
  <2> HIDE DEF root, fats, n
  <2> QED BY <1>1, <1>7, <2>1 DEF Volume, FsType, root, fats, n
<1> HIDE DEF f, root, fats, n, num
<1>10. ASSUME NEW c \in 2..(n + 1), NEW i \in 0..1
       PROVE  FatByte(Type(b), c, i) \div SS < b.FATSz /\ FatByte(Type(b), c, i) \div SS \in Nat
  <2> DEFINE szbfat == CASE Type(b) = "FAT32" -> (n + 2) * 4
                         [] Type(b) = "FAT16" -> (n + 2) * 2
                         [] OTHER -> ((n + 2) * 3) \div 2 + ((n + 2) % 2)
  <2>1. ~(b.FATSz < (szbfat + SS - 1) \div SS)
    BY DEF BadBpb, n
  <2>2. FatByte(Type(b), c, i) \in Nat /\ szbfat \in Nat /\ FatByte(Type(b), c, i) < szbfat
    <3>1. CASE Type(b) = "FAT32"
      BY <1>6, <3>1 DEF FatByte
    <3>2. CASE Type(b) = "FAT16"
      BY <1>6, <3>2 DEF FatByte
    <3>3. CASE Type(b) = "FAT12"
      <4>1. /\ c + c \div 2 + i \in Nat
            /\ ((n + 2) * 3) \div 2 + ((n + 2) % 2) \in Nat
            /\ c + c \div 2 + i < ((n + 2) * 3) \div 2 + ((n + 2) % 2)
        BY <1>6
      <4> QED BY <3>3, <4>1 DEF FatByte
    <3> QED BY <1>7, <3>1, <3>2, <3>3
  <2> HIDE DEF szbfat
  <2>3. (szbfat + SS - 1) \div SS \in Nat
    <3>1. szbfat + SS - 1 \in Nat
      BY <1>2, <2>2
    <3> QED BY <1>2, <3>1, DivMod
  <2>4. (szbfat + SS - 1) \div SS <= b.FATSz
    BY <1>1, <2>1, <2>3
  <2> QED BY <1>1, <1>2, <2>2, <2>4, RoundedUp, DivMod
<1>11. b.FATSz >= 1
  <2>1. 2 \in 2..(n + 1) /\ 0 \in 0..1
    BY <1>6
  <2> QED BY <1>1, <1>10, <2>1
<1>12. Geometry(f)
  <2>1. f.n_fatent >= 3 /\ f.volbase < f.fatbase /\ f.fatbase < f.database
    BY <1>1, <1>3, <1>4, <1>5, <1>6, <1>8, <1>11
  <2>2. ASSUME NEW c \in 2..(f.n_fatent - 1), NEW i \in 0..1
        PROVE  f.fatbase + FatByte(f.fs_type, c, i) \div SS < f.database
    <3>1. c \in 2..(n + 1)
      BY <1>6, <1>8
    <3>2. FatByte(f.fs_type, c, i) \div SS < b.FATSz /\ FatByte(f.fs_type, c, i) \div SS \in Nat
      BY <1>8, <1>10, <3>1
    <3> QED BY <1>1, <1>4, <1>5, <1>8, <3>2
  <2>3. f.fs_type = "FAT32" => f.n_rootdir = 0
    BY <1>3, <1>8
  <2>4. f.fs_type # "FAT32" =>
          /\ f.volbase <= f.dirbase /\ f.n_rootdir % DirPer = 0
          /\ f.dirbase + f.n_rootdir \div DirPer <= f.database
    BY <1>1, <1>3, <1>4, <1>5, <1>8 DEF root
  <2> QED BY <2>1, <2>2, <2>3, <2>4 DEF Geometry
<1> QED BY <1>7, <1>8, <1>9, <1>12 DEF f

-----------------------------------------------------------------------------
(* Directories *)

LEMMA NoDirType == NoDir \in DirType
<1>1. 0 \in 0..(IndexLimit - 1)
  BY SizeFacts
<1> QED BY <1>1 DEF NoDir, DirType

\* dir_sdi leaves a directory at its first sector, or fails.
LEMMA SdiOK ==
  ASSUME NEW f \in FsType, NEW d \in DirType
  PROVE  /\ dir_sdi(f, d).d \in DirType /\ dir_sdi(f, d).ok \in BOOLEAN
         /\ dir_sdi(f, d).d.index = 0
         /\ dir_sdi(f, d).d.open = d.open /\ dir_sdi(f, d).d.id = d.id
         /\ dir_sdi(f, d).ok /\ Geometry(f) => At(f, dir_sdi(f, d).d)
<1> DEFINE c == IF d.sclust = 0 /\ f.fs_type = "FAT32" THEN f.dirbase ELSE d.sclust
<1> DEFINE s == IF c = 0 THEN f.dirbase ELSE clust2sect(f, c)
<1> DEFINE e == [d EXCEPT !.index = 0, !.clust = c, !.sect = s]
<1>1. /\ dir_sdi(f, d).d = e
      /\ dir_sdi(f, d).ok = (/\ d.sclust # 1 /\ d.sclust < f.n_fatent
                             /\ (c = 0 => f.n_rootdir > 0) /\ s # 0)
  BY DEF dir_sdi
<1>2. c \in Nat
  BY FsFields, DirFields
<1> HIDE DEF c
<1>3. s \in Nat
  BY <1>2, FsFields, ClusterPlace
<1> HIDE DEF s
<1>4. 0 \in 0..(IndexLimit - 1)
  BY SizeFacts
<1>5. /\ e \in DirType /\ e.index = 0 /\ e.clust = c /\ e.sect = s
      /\ e.open = d.open /\ e.id = d.id
  BY <1>2, <1>3, <1>4 DEF DirType
<1> HIDE DEF e
<1>6. ASSUME dir_sdi(f, d).ok, Geometry(f) PROVE At(f, e)
  <2>1. DirPer \in Nat \ {0} /\ f.csize \in Nat \ {0} /\ f.dirbase \in Nat
    BY SizeFacts, FsFields
  <2>2. 0 \div DirPer = 0 /\ 0 % f.csize = 0
    BY <2>1, DivSmall
  <2>3. CASE c = 0
    <3>1. s = f.dirbase /\ 0 < f.n_rootdir
      <4>1. f.n_rootdir > 0 /\ f.n_rootdir \in Nat
        BY <1>1, <1>6, <2>3, FsFields
      <4> QED BY <2>3, <4>1 DEF s
    <3> QED BY <1>5, <2>1, <2>2, <2>3, <3>1 DEF At
  <2>4. CASE c # 0
    <3>1. s = clust2sect(f, c) /\ s # 0
      BY <1>1, <1>6, <2>4 DEF s
    <3>2. c \in 2..(f.n_fatent - 1)
      BY <1>2, <3>1, ClusterPlace
    <3> QED BY <1>3, <1>5, <2>2, <2>4, <3>1, <3>2 DEF At
  <2> QED BY <2>3, <2>4
<1> QED BY <1>1, <1>5, <1>6

LEMMA IndexFacts ==
  ASSUME NEW d \in DirType
  PROVE  /\ NextIndex(d) \in 0..(IndexLimit - 1)
         /\ NextIndex(d) # 0 => NextIndex(d) = d.index + 1
<1>1. IndexLimit \in Nat \ {0} /\ d.index \in 0..(IndexLimit - 1)
  BY SizeFacts, DirFields
<1>2. CASE d.index + 1 < IndexLimit
  <2>1. NextIndex(d) = d.index + 1
    BY <1>1, <1>2, DivSmall DEF NextIndex
  <2> QED BY <1>1, <1>2, <2>1
<1>3. CASE d.index + 1 = IndexLimit
  <2>1. d.index + 1 = IndexLimit * 1 + 0 /\ 0 \in 0..(IndexLimit - 1) /\ d.index + 1 \in Nat
    BY <1>1, <1>3
  <2>2. NextIndex(d) = 0
    BY <1>1, <2>1, DivUnique DEF NextIndex
  <2> QED BY <1>1, <2>2
<1> QED BY <1>1, <1>2, <1>3

\* A directory that went to the next entry is at the sector of that entry.
LEMMA NextOK ==
  ASSUME fs \in FsType, Geometry(fs), NEW d \in DirType, At(fs, d), ~NeedsFat(d)
  PROVE  /\ dir_next(d).d \in DirType /\ dir_next(d).res \in {"OK", "NO_FILE"}
         /\ dir_next(d).d.open = d.open /\ dir_next(d).d.id = d.id
         /\ dir_next(d).res = "OK" =>
              At(fs, dir_next(d).d) /\ dir_next(d).d.index = d.index + 1
<1> DEFINE e == IF SectorEnds(d) THEN [d EXCEPT !.sect = @ + 1] ELSE d
<1> DEFINE n == [e EXCEPT !.index = NextIndex(d)]
<1>1. /\ d.clust \in Nat /\ d.sect \in Nat /\ d.index \in Nat
      /\ NextIndex(d) \in 0..(IndexLimit - 1)
      /\ DirPer \in Nat \ {0} /\ fs.csize \in Nat \ {0} /\ fs.dirbase \in Nat
      /\ fs.n_rootdir \in Nat
  BY DirFields, IndexFacts, SizeFacts, FsFields
<1>2. e \in DirType /\ e.open = d.open /\ e.id = d.id /\ e.clust = d.clust
      /\ e.sect = IF SectorEnds(d) THEN d.sect + 1 ELSE d.sect
  BY <1>1 DEF DirType
<1>3. \/ AtLimit(d) /\ dir_next(d) = [d |-> d, res |-> "NO_FILE"]
      \/ /\ ~AtLimit(d) /\ SectorEnds(d) /\ d.clust = 0 /\ TableEnds(d)
         /\ dir_next(d) = [d |-> e, res |-> "NO_FILE"]
      \/ /\ ~AtLimit(d) /\ ~(SectorEnds(d) /\ d.clust = 0 /\ TableEnds(d))
         /\ dir_next(d) = [d |-> n, res |-> "OK"]
  BY DEF dir_next
<1> HIDE DEF e
<1>4. /\ n \in DirType /\ n.open = d.open /\ n.id = d.id /\ n.clust = d.clust
      /\ n.sect = e.sect /\ n.index = NextIndex(d)
  BY <1>1, <1>2 DEF DirType
<1> HIDE DEF n
<1>5. ASSUME ~AtLimit(d), ~(SectorEnds(d) /\ d.clust = 0 /\ TableEnds(d))
      PROVE  At(fs, n) /\ n.index = d.index + 1
  <2>1. NextIndex(d) = d.index + 1
    BY <1>5, IndexFacts DEF AtLimit
  <2> DEFINE q == d.index \div DirPer
  <2>2. /\ q \in Nat
        /\ SectorEnds(d) => (d.index + 1) \div DirPer = q + 1
        /\ ~SectorEnds(d) => (d.index + 1) \div DirPer = q
    <3>1. d.index \in Nat /\ DirPer \in Nat \ {0}
      BY <1>1
    <3>2. q \in Nat
      BY <3>1, DivMod
    <3>3. /\ (d.index + 1) % DirPer = 0 => (d.index + 1) \div DirPer = q + 1
          /\ (d.index + 1) % DirPer # 0 => (d.index + 1) \div DirPer = q
      BY <3>1, DivNext
    <3>4. SectorEnds(d) <=> (d.index + 1) % DirPer = 0
      BY <2>1 DEF SectorEnds
    <3> HIDE DEF q
    <3> QED BY <3>2, <3>3, <3>4
  <2> HIDE DEF q
  <2>3. CASE d.clust = 0
    <3>1. d.index < fs.n_rootdir /\ d.sect = fs.dirbase + q
      BY <2>3 DEF At, q
    <3>2. n.sect = fs.dirbase + (d.index + 1) \div DirPer
      BY <1>1, <1>2, <1>4, <2>2, <3>1
    <3>3. d.index + 1 < fs.n_rootdir
      <4>1. CASE SectorEnds(d)
        BY <1>1, <1>5, <2>1, <2>3, <4>1 DEF TableEnds
      <4>2. CASE ~SectorEnds(d)
        <5>1. d.index + 1 # fs.n_rootdir
          <6>1. (d.index + 1) % DirPer # 0
            BY <2>1, <4>2 DEF SectorEnds
          <6>2. fs.n_rootdir % DirPer = 0
            BY <1>1, <3>1 DEF Geometry
          <6> QED BY <6>1, <6>2
        <5> QED BY <1>1, <3>1, <5>1
      <4> QED BY <4>1, <4>2
    <3> QED BY <1>4, <2>1, <2>3, <3>2, <3>3 DEF At
  <2>4. CASE d.clust # 0
    <3>1. /\ d.clust \in 2..(fs.n_fatent - 1)
          /\ d.sect = clust2sect(fs, d.clust) + (q % fs.csize)
      BY <2>4 DEF At, q
    <3>2. clust2sect(fs, d.clust) \in Nat /\ q % fs.csize \in Nat
      <4>1. clust2sect(fs, d.clust) \in Nat
        BY <1>1, ClusterPlace
      <4>2. q % fs.csize \in Nat
        <5>1. q \in Nat /\ fs.csize \in Nat \ {0}
          BY <1>1, <2>2
        <5>2. q % fs.csize \in 0..(fs.csize - 1)
          BY <5>1, DivMod
        <5> QED BY <5>1, <5>2
      <4> QED BY <4>1, <4>2
    <3>3. CASE SectorEnds(d)
      <4>1. (q + 1) % fs.csize # 0
        BY <1>5, <2>1, <2>2, <2>4, <3>3 DEF NeedsFat
      <4>2. (q + 1) % fs.csize = (q % fs.csize) + 1
        BY <1>1, <2>2, <4>1, DivNext
      <4>3. n.sect = clust2sect(fs, d.clust) + (((d.index + 1) \div DirPer) % fs.csize)
        BY <1>2, <1>4, <2>2, <3>1, <3>2, <3>3, <4>2
      <4> QED BY <1>4, <2>1, <2>4, <3>1, <4>3 DEF At
    <3>4. CASE ~SectorEnds(d)
      BY <1>2, <1>4, <2>1, <2>2, <2>4, <3>1, <3>4 DEF At
    <3> QED BY <3>3, <3>4
  <2> QED BY <1>4, <2>1, <2>3, <2>4
<1> QED BY <1>2, <1>3, <1>4, <1>5

LEMMA NextFatOK ==
  ASSUME fs \in FsType, NEW d \in DirType, NeedsFat(d), NEW v \in Nat
  PROVE  /\ dir_next_fat(d, v).d \in DirType
         /\ dir_next_fat(d, v).res \in {"OK", "NO_FILE", "INT_ERR", "DISK_ERR"}
         /\ dir_next_fat(d, v).d.open = d.open /\ dir_next_fat(d, v).d.id = d.id
         /\ dir_next_fat(d, v).res = "OK" =>
              /\ At(fs, dir_next_fat(d, v).d)
              /\ dir_next_fat(d, v).d.index = d.index + 1
<1> DEFINE e == [d EXCEPT !.sect = @ + 1]
<1> DEFINE n == [d EXCEPT !.clust = v, !.sect = clust2sect(fs, v), !.index = NextIndex(d)]
<1>1. /\ d.sect \in Nat /\ clust2sect(fs, v) \in Nat
      /\ NextIndex(d) \in 0..(IndexLimit - 1) /\ NextIndex(d) = d.index + 1
      /\ DirPer \in Nat \ {0} /\ fs.csize \in Nat \ {0} /\ fs.n_fatent \in Nat
  BY DirFields, IndexFacts, SizeFacts, FsFields, ClusterPlace DEF NeedsFat, AtLimit
<1>2. e \in DirType /\ e.open = d.open /\ e.id = d.id
  BY <1>1 DEF DirType
<1>3. /\ n \in DirType /\ n.open = d.open /\ n.id = d.id /\ n.clust = v
      /\ n.sect = clust2sect(fs, v) /\ n.index = d.index + 1
  BY <1>1 DEF DirType
<1>4. \/ dir_next_fat(d, v) = [d |-> e, res |-> "INT_ERR"]
      \/ dir_next_fat(d, v) = [d |-> e, res |-> "DISK_ERR"]
      \/ dir_next_fat(d, v) = [d |-> e, res |-> "NO_FILE"]
      \/ /\ dir_next_fat(d, v) = [d |-> n, res |-> "OK"]
         /\ ~(v <= 1) /\ v # Bad /\ ~(v >= fs.n_fatent)
  BY DEF dir_next_fat
<1> HIDE DEF e, n
<1>5. ASSUME ~(v <= 1), ~(v >= fs.n_fatent) PROVE At(fs, n)
  <2>1. v \in 2..(fs.n_fatent - 1) /\ v # 0
    BY <1>1, <1>5
  <2>2. ((d.index + 1) \div DirPer) % fs.csize = 0
    BY <1>1 DEF NeedsFat
  <2> QED BY <1>1, <1>3, <2>1, <2>2 DEF At
<1> QED BY <1>2, <1>3, <1>4, <1>5

-----------------------------------------------------------------------------
(* What the sectors give *)

LEMMA CardFacts ==
  ASSUME NEW n \in DOMAIN Cards
  PROVE  /\ n \in Nat \ {0} /\ Cards[n].parts \in [1..4 -> Nat]
         /\ Cards[n].bpb \in BootRecord
         /\ \A c \in DOMAIN Cards[n].fat : Cards[n].fat[c] \in Nat
         /\ \A s \in DOMAIN Cards[n].ent, k \in 1..DirPer : Cards[n].ent[s][k] \in DirEntry
BY CardsAssumption

LEMMA BufferFacts ==
  ASSUME NEW w \in Buffers, w # Zeros
  PROVE  w[1] \in DOMAIN Cards /\ w[2] \in Nat
BY DEF Buffers

LEMMA SectorRead ==
  ASSUME NEW n \in DOMAIN Cards, NEW s \in Nat
  PROVE  <<n, s>> \in Buffers /\ <<n, s>> # Zeros
<1>1. n # 0
  BY CardFacts
<1> QED BY <1>1 DEF Buffers, Zeros

LEMMA BootFacts ==
  ASSUME NEW w \in Buffers, BootKind(w) \in {0, 1}
  PROVE  w # Zeros /\ Cards[w[1]].bpb \in BootRecord /\ PartsIn(w) \in [1..4 -> Nat]
<1>1. w # Zeros
  BY DEF BootKind
<1>2. w[1] \in DOMAIN Cards
  BY <1>1, BufferFacts
<1>3. <<0, 0, 0, 0>> \in [1..4 -> Nat]
  OBVIOUS
<1> QED BY <1>1, <1>2, <1>3, CardFacts DEF PartsIn

LEMMA EntryFacts ==
  ASSUME NEW w \in Buffers, NEW k \in Nat, NEW e \in EntriesAt(w, k % DirPer)
  PROVE  e.clust \in Nat /\ e.size \in Nat /\ e.name \in Words
<1>1. CASE e = End
  BY <1>1 DEF End, Words
<1>2. CASE e \in DirEntry
  BY <1>2 DEF DirEntry, Words
<1>3. CASE w # Zeros /\ w[2] >= RootStart(Cards[w[1]])
  <2> DEFINE v == Cards[w[1]]
  <2>1. w[1] \in DOMAIN Cards
    BY <1>3, BufferFacts
  <2>2. (k % DirPer) + 1 \in 1..DirPer
    <3>1. k % DirPer \in 0..(DirPer - 1) /\ DirPer \in Nat \ {0}
      BY SizeFacts, DivMod
    <3> QED BY <3>1
  <2>3. e = EntryIn(v, w[2], k % DirPer)
    BY <1>3 DEF EntriesAt
  <2>4. e = End \/ (w[2] \in DOMAIN v.ent /\ e = v.ent[w[2]][(k % DirPer) + 1])
    BY <2>3 DEF EntryIn
  <2>5. e = End \/ e \in DirEntry
    BY <2>1, <2>2, <2>4, CardFacts
  <2> QED BY <1>1, <1>2, <2>5
<1>4. e = End \/ e \in Strays \/ (w # Zeros /\ w[2] >= RootStart(Cards[w[1]]))
  BY DEF EntriesAt
<1>5. Strays \subseteq DirEntry
  BY FormatAssumption
<1> QED BY <1>1, <1>2, <1>3, <1>4, <1>5

LEMMA EntryType ==
  ASSUME NEW n \in DOMAIN Cards, NEW c
  PROVE  FatEntry(Cards[n], c) \in Nat /\ FatEntry(Cards[n], c) # Bad
<1>1. Bad \in Nat \ {0, 1}
  BY FormatAssumption
<1>2. \A i \in DOMAIN Cards[n].fat : Cards[n].fat[i] \in Nat \ {Bad}
  BY CardsAssumption
<1> QED BY <1>1, <1>2 DEF FatEntry

LEMMA FatFacts ==
  ASSUME NEW first, NEW last \in Buffers, NEW c, NEW v \in FatValues(first, last, c)
  PROVE  v \in Nat
<1>1. v \in Values \/ (last # Zeros /\ v = FatEntry(Cards[last[1]], c))
  BY DEF FatValues
<1>2. Values \subseteq Nat
  BY FormatAssumption
<1> QED BY <1>1, <1>2, BufferFacts, EntryType

-----------------------------------------------------------------------------
(* The disk *)

LEMMA EndFacts ==
  ASSUME fs \in FsType
  PROVE  VolumeEnd = EndOf(fs) /\ EndOf(fs) \in Int
<1>1. VolumeEnd = EndOf(fs)
  BY DEF VolumeEnd, EndOf
<1>2. fs.database \in Nat /\ fs.n_fatent \in Nat /\ fs.csize \in Nat
  BY FsFields
<1>3. (fs.n_fatent - 2) * fs.csize \in Int
  BY <1>2
<1> QED BY <1>1, <1>2, <1>3 DEF EndOf

LEMMA OneMore ==
  ASSUME NEW m \in Nat, NEW k \in 0..m, k < m
  PROVE  k + 1 \in 0..m
OBVIOUS

\* what is asked of the volume keeps the history good
LEMMA AskOK ==
  ASSUME DiskOK, fs \in FsType, NEW s \in Nat, NEW n \in Nat, NEW o \in Outcomes, Ask(s, n, o),
         fs.fs_type # "" => fs.volbase <= s /\ s + n <= EndOf(fs)
  PROVE  hist' \in HistType
<1>1. hist \in HistType /\ ready \in BOOLEAN /\ MaxFaults \in Nat
  BY SizeFacts DEF DiskOK
<1>2. fs.fs_type # "" => s >= fs.volbase /\ s + n <= VolumeEnd
  BY EndFacts, FsFields
<1> DEFINE x == IF NoFault(o) THEN hist.faults ELSE hist.faults + 1
<1>3. x \in 0..MaxFaults
  <2>1. hist.faults \in 0..MaxFaults
    BY <1>1 DEF HistType
  <2>2. NoFault(o) \/ hist.faults < MaxFaults
    BY DEF Ask
  <2>3. CASE NoFault(o)
    BY <2>1, <2>3
  <2>4. CASE ~NoFault(o)
    <3>1. hist.faults < MaxFaults /\ x = hist.faults + 1
      BY <2>2, <2>4
    <3> QED BY <1>1, <2>1, <3>1, OneMore
  <2> QED BY <2>3, <2>4
<1>4. (hist.missed \/ o = "missed") \in BOOLEAN /\ (hist.failed \/ o = "error") \in BOOLEAN
  OBVIOUS
<1>5. hist.inside /\ (fs.fs_type # "" => s >= fs.volbase /\ s + n <= VolumeEnd) = TRUE
  BY <1>1, <1>2 DEF HistType
<1> QED BY <1>1, <1>2, <1>3, <1>4, <1>5 DEF Ask, HistType

LEMMA MoveWindowOK ==
  ASSUME DiskOK, fs \in FsType, NEW s \in Nat, NEW o \in Outcomes, MoveWindow(s, o),
         fs.fs_type # "" => fs.volbase <= s /\ s + 1 <= EndOf(fs)
  PROVE  /\ win' \in Buffers /\ winsect' \in Nat \cup {NoSector} /\ hist' \in HistType
         /\ win # Zeros => win' # Zeros
<1>1. CASE s = winsect
  BY <1>1 DEF MoveWindow, DiskOK, disk
<1>2. CASE s # winsect
  <2>1. /\ Ask(s, 1, o)
        /\ win' = IF o = "read" THEN <<card, s>> ELSE win
        /\ winsect' = IF o = "error" THEN NoSector ELSE s
    BY <1>2 DEF MoveWindow
  <2>2. hist' \in HistType
    BY <2>1, AskOK
  <2>3. <<card, s>> \in Buffers /\ <<card, s>> # Zeros
    BY SectorRead DEF DiskOK
  <2> QED BY <2>1, <2>2, <2>3 DEF DiskOK
<1> QED BY <1>1, <1>2

\* What is left of the disk when the slot and the volume stay as they are.
LEMMA DiskKept ==
  ASSUME DiskOK, UNCHANGED slot, fs'.fs_type # "" => win' # Zeros,
         win' \in Buffers, winsect' \in Nat \cup {NoSector}, hist' \in HistType
  PROVE  DiskOK'
BY DEF DiskOK, slot

-----------------------------------------------------------------------------
(* How a call goes on, and how it returns *)

CallOK == Typed /\ Within /\ Directories /\ Counted

LEMMA LocFields ==
  ASSUME NEW l \in LocType
  PROVE  /\ l.path \in Seq(STRING) /\ l.dj \in DirType /\ l.part \in 0..4
         /\ l.br \in [1..4 -> Nat] /\ l.clst \in Nat /\ l.lo \in Buffers /\ l.todo \in Nat
         /\ l.idx \in Nat /\ l.steps \in Nat
BY DEF LocType

LEMMA CallFields ==
  ASSUME NEW c \in CallType
  PROVE  /\ c.file \in Seq(STRING) /\ c.dir \in Seq(STRING) /\ c.names \in Seq(Words)
         /\ c.pos \in Nat /\ c.from \in Nat /\ c.size \in Nat
BY DEF CallType

LEMMA FilFields ==
  ASSUME NEW f \in FilType
  PROVE  /\ f.open \in BOOLEAN /\ f.id \in Nat /\ f.err \in Errors /\ f.sclust \in Nat
         /\ f.fsize \in Nat /\ f.fptr \in Nat /\ f.clust \in Nat /\ f.dsect \in Nat
         /\ f.buf \in Buffers
BY DEF FilType

LEMMA NamesType ==
  ASSUME Typed
  PROVE  Names \in Seq(STRING)
BY CallFields DEF Typed, Names

LEMMA NoLocalsType ==
  /\ NoLocals \in LocType
  /\ NoLocals.steps = 0 /\ NoLocals.path = <<>> /\ NoLocals.lo = Zeros /\ NoLocals.dj = NoDir
  /\ NoLocals.part = 0
<1>1. <<>> \in Seq(STRING) /\ Zeros \in Buffers /\ 0 \in 0..4
  BY DEF Buffers
<1>2. <<0, 0, 0, 0>> \in [1..4 -> Nat]
  OBVIOUS
<1>3. NoLocals \in LocType
  BY <1>1, <1>2, NoDirType DEF NoLocals, LocType
<1> QED BY <1>3 DEF NoLocals

\* the locals after a step that goes on
LEMMA GoneOn ==
  ASSUME NEW p, NEW l \in LocType, GoOn(p, l)
  PROVE  /\ pc' = p /\ res' = res /\ loc' \in LocType
         /\ loc'.path = l.path /\ loc'.dj = l.dj /\ loc'.part = l.part /\ loc'.br = l.br
         /\ loc'.clst = l.clst /\ loc'.lo = l.lo /\ loc'.todo = l.todo /\ loc'.idx = l.idx
         /\ loc'.steps = l.steps + 1
<1>1. l.steps + 1 \in Nat
  BY LocFields
<1> QED BY <1>1 DEF GoOn, LocType

\* A call that returns leaves a directory that can be read on, or an end.
LEMMA Returned ==
  ASSUME NEW r \in Errors, Return(r),
         fil' \in FilType, fil'.fptr <= fil'.fsize, dirp' \in DirType, call' \in CallType,
         op' \in Ops, more' \in BOOLEAN, dirp'.id <= Fsid',
         more' /\ dirp'.open /\ fs'.fs_type # "" /\ fs'.id = dirp'.id /\ dirp'.sect # 0
           => At(fs', dirp')
  PROVE  CallOK' /\ pc' = "Idle"
<1>1. pc' = "Idle" /\ res' = r /\ loc' = NoLocals
  BY DEF Return
<1>2. Typed'
  BY <1>1, NoLocalsType DEF Typed
<1>3. Within'
  BY <1>1 DEF Within, ReadSteps, SeekSteps, ListSteps
<1>4. Directories'
  BY <1>1 DEF Directories, OpenSteps, Valid
<1>5. Counted'
  BY <1>1 DEF Counted
<1> QED BY <1>1, <1>2, <1>3, <1>4, <1>5 DEF CallOK

\* f_open or f_opendir returns, or searches on
Opened == CallOK /\ pc \in {"Idle", "Find"}

\* what f_open and f_opendir rely on when the volume f is found
Opening(f) ==
  /\ Typed /\ dirp.id <= Fsid' /\ Fsid' \in Nat
  /\ op \in {"open", "opendir"} /\ op' = op /\ call' = call /\ more' = more
  /\ op = "open" => ~dirp.open
  /\ fs' = f /\ f \in FsType /\ Geometry(f) /\ f.fs_type # "" /\ f.id = Fsid'

LEMMA NotOpenedOK ==
  ASSUME Typed, dirp.id <= Fsid', Fsid' \in Nat,
         op \in {"open", "opendir"}, op' = op, call' = call, more' = more,
         op = "open" => ~dirp.open,
         NEW r \in Errors, NotOpened(r)
  PROVE  Opened'
<1> DEFINE s == IF op = "opendir" /\ r = "NO_FILE" THEN "NO_PATH" ELSE r
<1>1. Return(s) /\ fil' = fil /\ dirp' = IF op = "opendir" THEN NoDir ELSE dirp
  BY DEF NotOpened
<1>2. s \in Errors
  BY DEF Errors
<1> HIDE DEF s
<1>3. NoDir.open = FALSE /\ NoDir.id = 0
  BY DEF NoDir
<1>4. ~dirp'.open /\ dirp' \in DirType /\ dirp'.id <= Fsid'
  BY <1>1, <1>3, NoDirType DEF Typed
<1> QED BY <1>1, <1>2, <1>4, Returned DEF Typed, Opened

LEMMA OpenDirOK ==
  ASSUME NEW f, Opening(f), NEW d \in DirType, op = "opendir", OpenDir(f, d)
  PROVE  Opened'
<1> DEFINE s == dir_sdi(f, d)
<1>1. /\ s.d \in DirType /\ s.ok \in BOOLEAN
      /\ s.ok => At(f, s.d)
  BY SdiOK DEF Opening
<1> HIDE DEF s
<1>2. /\ dirp' = [s.d EXCEPT !.open = s.ok, !.id = f.id] /\ fil' = fil
      /\ Return(IF s.ok THEN "OK" ELSE "INT_ERR")
  BY DEF OpenDir, s
<1>3. f.id \in Nat /\ f.id = Fsid'
  BY FsFields DEF Opening
<1>4. /\ dirp' \in DirType /\ dirp'.id = f.id /\ dirp'.open = s.ok
      /\ dirp'.index = s.d.index /\ dirp'.clust = s.d.clust /\ dirp'.sect = s.d.sect
  BY <1>1, <1>2, <1>3 DEF DirType
<1>5. s.ok => At(f, dirp')
  BY <1>1, <1>4 DEF At
<1>6. "OK" \in Errors /\ "INT_ERR" \in Errors
  BY DEF Errors
<1>7. (IF s.ok THEN "OK" ELSE "INT_ERR") \in Errors
  BY <1>6
<1>8. /\ fil' \in FilType /\ fil'.fptr <= fil'.fsize /\ call' \in CallType
      /\ op' \in Ops /\ more' \in BOOLEAN /\ fs' = f
  BY <1>2 DEF Opening, Typed
<1>9. dirp'.id <= Fsid'
  BY <1>3, <1>4
<1> QED BY <1>2, <1>4, <1>5, <1>7, <1>8, <1>9, Returned DEF Opened

LEMMA OriginOK ==
  ASSUME NEW f, Opening(f), Origin(f)
  PROVE  Opened'
<1>1. CASE op = "open"
  <2>1. NotOpened("INVALID_NAME") /\ "INVALID_NAME" \in Errors
    BY <1>1 DEF Origin, Errors
  <2> QED BY <1>1, <2>1, NotOpenedOK DEF Opening
<1>2. CASE op # "open"
  <2>1. OpenDir(f, NoDir) /\ op = "opendir"
    BY <1>2 DEF Origin, Opening
  <2> QED BY <2>1, NoDirType, OpenDirOK
<1> QED BY <1>1, <1>2

LEMMA OpenFileOK ==
  ASSUME Opening(fs), op = "open", NEW e, e.clust \in Nat, e.size \in Nat, OpenFile(e)
  PROVE  Opened'
<1>1. fs.id \in Nat
  BY FsFields DEF Opening
<1>2. /\ fil' = [fil EXCEPT !.open = TRUE, !.id = fs.id, !.err = "OK", !.sclust = e.clust,
                   !.fsize = e.size, !.fptr = 0, !.dsect = 0]
      /\ Return("OK") /\ dirp' = dirp
  BY DEF OpenFile
<1>3. "OK" \in Errors /\ fil \in FilType
  BY DEF Errors, Opening, Typed
<1>4. fil' \in FilType /\ fil'.fptr = 0 /\ fil'.fsize = e.size
  BY <1>1, <1>2, <1>3 DEF FilType
<1>5. /\ dirp' \in DirType /\ ~dirp'.open /\ dirp'.id <= Fsid'
      /\ call' \in CallType /\ op' \in Ops /\ more' \in BOOLEAN
  BY <1>2 DEF Opening, Typed
<1>6. fil'.fptr <= fil'.fsize
  BY <1>4
<1> QED BY <1>2, <1>3, <1>4, <1>5, <1>6, Returned DEF Opened

\* the steps to find names that were followed already
Followed(n) == 3 * IndexLimit * (Len(Names) - n)

LEMMA FollowedOne ==
  ASSUME Names \in Seq(STRING), NEW n \in Nat
  PROVE  Followed(n) \in Int /\ Followed(n) = Followed(n + 1) + 3 * IndexLimit
<1> DEFINE m == Len(Names) - n
<1> DEFINE k == 3 * IndexLimit
<1>1. m \in Int /\ k \in Int /\ Len(Names) - (n + 1) = m - 1
  BY SizeFacts
<1>2. Followed(n) = k * m /\ Followed(n + 1) = k * (m - 1)
  BY <1>1 DEF Followed
<1> HIDE DEF m, k
<1>3. k * m \in Int /\ k * (m - 1) = k * m - k
  BY <1>1
<1>4. Followed(n) \in Int /\ Followed(n) = Followed(n + 1) + k
  BY <1>1, <1>2, <1>3
<1> QED BY <1>4 DEF k

LEMMA DirFindOK ==
  ASSUME NEW f, Opening(f), NEW c \in Nat, NEW names \in Seq(STRING), names # <<>>,
         Len(names) <= Len(Names), loc.steps + 1 <= 7 + Followed(Len(names)),
         DirFind(f, c, names)
  PROVE  Opened'
<1> DEFINE d == [NoDir EXCEPT !.sclust = c]
<1> DEFINE s == dir_sdi(f, d)
<1>1. d \in DirType
  BY NoDirType DEF DirType
<1>2. /\ s.d \in DirType /\ s.ok \in BOOLEAN /\ s.d.index = 0
      /\ s.ok => At(f, s.d)
  <2> HIDE DEF d
  <2> QED BY <1>1, SdiOK DEF Opening
<1> HIDE DEF d
<1>3. \/ ~s.ok /\ NotOpened("INT_ERR")
      \/ /\ s.ok /\ GoOn("Find", [loc EXCEPT !.path = names, !.dj = s.d])
         /\ fil' = fil /\ dirp' = dirp
  BY DEF DirFind, d
<1> HIDE DEF s
<1>4. CASE ~s.ok /\ NotOpened("INT_ERR")
  <2>1. "INT_ERR" \in Errors
    BY DEF Errors
  <2> QED BY <1>4, <2>1, NotOpenedOK DEF Opening
<1>5. CASE /\ s.ok /\ GoOn("Find", [loc EXCEPT !.path = names, !.dj = s.d])
           /\ fil' = fil /\ dirp' = dirp
  <2> DEFINE l == [loc EXCEPT !.path = names, !.dj = s.d]
  <2>1. l \in LocType /\ l.path = names /\ l.dj = s.d /\ l.steps = loc.steps
    BY <1>2 DEF Opening, Typed, LocType
  <2>2. GoOn("Find", l)
    BY <1>5
  <2> HIDE DEF l
  <2>3. /\ pc' = "Find" /\ res' = res /\ loc' \in LocType
        /\ loc'.path = names /\ loc'.dj = s.d /\ loc'.steps = loc.steps + 1
    BY <2>1, <2>2, GoneOn
  <2>4. Typed'
    BY <1>5, <2>3 DEF Opening, Typed, OpenSteps
  <2>5. Names' = Names
    BY DEF Opening, Names
  <2>6. Within'
    BY <2>3, <2>5 DEF Within, Opening, ListSteps, ReadSteps, SeekSteps
  <2>7. Directories'
    BY <1>2, <1>5, <2>3 DEF Directories, Opening, ReadSteps, SeekSteps
  <2>8. Counted'
    <3>1. PathDone' = Followed(Len(names))
      BY <2>3, <2>5 DEF PathDone, Followed
    <3>2. loc'.steps <= 7 + PathDone' + 3 * loc'.dj.index
      <4>1. loc'.steps <= 7 + PathDone' /\ loc'.dj.index = 0
        BY <1>2, <2>3, <3>1
      <4>2. PathDone' \in Int
        <5>1. Len(names) \in Nat
          OBVIOUS
        <5>2. Names \in Seq(STRING)
          BY NamesType DEF Opening
        <5> QED BY <3>1, <5>1, <5>2, FollowedOne
      <4> QED BY <4>1, <4>2
    <3> QED BY <2>3, <3>2 DEF Counted
  <2> QED BY <2>3, <2>4, <2>6, <2>7, <2>8 DEF CallOK, Opened
<1> QED BY <1>3, <1>4, <1>5

LEMMA FollowPathOK ==
  ASSUME NEW f, Opening(f), loc.path = Names, loc.steps <= 6, FollowPath(f)
  PROVE  Opened'
<1>1. Names \in Seq(STRING) /\ loc.steps \in Nat
  BY NamesType, LocFields DEF Opening, Typed
<1>2. CASE loc.path = <<>>
  BY <1>2, OriginOK DEF FollowPath
<1>3. CASE loc.path # <<>>
  <2>1. DirFind(f, 0, loc.path)
    BY <1>3 DEF FollowPath
  <2>2. Followed(Len(loc.path)) = 0
    <3>1. Len(Names) - Len(Names) = 0 /\ 3 * IndexLimit \in Int
      BY <1>1, SizeFacts
    <3>2. 3 * IndexLimit * (Len(Names) - Len(Names)) = 0
      BY <3>1
    <3> QED BY <3>2 DEF Followed
  <2>3. loc.steps + 1 <= 7 + Followed(Len(loc.path)) /\ Len(loc.path) <= Len(Names)
    BY <1>1, <2>2
  <2> QED BY <1>1, <1>3, <2>1, <2>3, DirFindOK
<1> QED BY <1>2, <1>3

\* dir_find is at an entry of the directory, or has just left it
Looking ==
  /\ loc.path # <<>> /\ Len(loc.path) <= Len(Names)
  /\ loc.steps <= 9 + PathDone + 3 * loc.dj.index

LEMMA TailFacts ==
  ASSUME NEW S, NEW s \in Seq(S), s # <<>>
  PROVE  Tail(s) \in Seq(S) /\ Len(Tail(s)) = Len(s) - 1 /\ Len(s) \in Nat \ {0}
OBVIOUS

LEMMA NamePaid ==
  ASSUME NEW s \in Nat, NEW p \in Int, NEW m \in Nat \ {0}, NEW i \in 0..(m - 1),
         s <= 9 + p + 3 * i, NEW d, d = p + 3 * m
  PROVE  s + 1 <= 7 + d
OBVIOUS

LEMMA NextNameOK ==
  ASSUME Opening(fs), Looking, ~NS_LAST, NEW c \in Nat, DirFind(fs, c, Tail(loc.path))
  PROVE  Opened'
<1> DEFINE t == Tail(loc.path)
<1> DEFINE n == Len(loc.path) - 1
<1>1. loc.path \in Seq(STRING) /\ loc.steps \in Nat /\ loc.dj \in DirType
  BY LocFields DEF Opening, Typed
<1>2. Names \in Seq(STRING)
  BY NamesType DEF Opening
<1>3. Len(loc.path) \in Nat /\ Len(loc.path) # 0 /\ Len(loc.path) # 1
  BY <1>1 DEF Looking, NS_LAST
<1>4. t \in Seq(STRING) /\ Len(t) = n
  BY <1>1, TailFacts DEF Looking
<1>5. n \in Nat /\ n # 0 /\ n + 1 = Len(loc.path)
  BY <1>3
<1> HIDE DEF n, t
<1>6. t # <<>>
  BY <1>4, <1>5
<1>7. Len(t) <= Len(Names)
  BY <1>2, <1>3, <1>4, <1>5 DEF Looking
<1>8. loc.dj.index \in 0..(IndexLimit - 1) /\ IndexLimit \in Nat \ {0}
  BY <1>1, DirFields, SizeFacts
<1>9. loc.steps + 1 <= 7 + Followed(n)
  <2>1. Followed(n) = PathDone + 3 * IndexLimit /\ Followed(n) \in Int
    BY <1>2, <1>5, FollowedOne DEF PathDone, Followed
  <2>2. loc.steps <= 9 + PathDone + 3 * loc.dj.index
    BY DEF Looking
  <2>3. PathDone \in Int
    <3>1. PathDone = Followed(n + 1) /\ n + 1 \in Nat
      BY <1>5 DEF PathDone, Followed
    <3> QED BY <1>2, <3>1, FollowedOne
  <2> QED BY <1>1, <1>8, <2>1, <2>2, <2>3, NamePaid
<1> QED BY <1>4, <1>6, <1>7, <1>9, DirFindOK DEF t

LEMMA NoSuchNameOK ==
  ASSUME Opening(fs), Looking, NoSuchName
  PROVE  Opened'
<1>1. CASE IsDot(name) /\ ~NS_LAST
  <2>1. DirFind(fs, 0, Tail(loc.path))
    BY <1>1 DEF NoSuchName
  <2> QED BY <1>1, <2>1, NextNameOK
<1>2. CASE IsDot(name) /\ NS_LAST
  <2>1. Origin(fs)
    BY <1>2 DEF NoSuchName
  <2> QED BY <2>1, OriginOK
<1>3. CASE ~IsDot(name)
  <2>1. PICK r \in {"NO_FILE", "NO_PATH"} : NotOpened(r)
    BY <1>3 DEF NoSuchName
  <2>2. r \in Errors
    BY DEF Errors
  <2> QED BY <2>1, <2>2, NotOpenedOK DEF Opening
<1> QED BY <1>1, <1>2, <1>3

LEMMA MatchedOK ==
  ASSUME Opening(fs), Looking, NEW e, e.clust \in Nat, e.size \in Nat, Matched(e)
  PROVE  Opened'
<1>1. CASE ~NS_LAST /\ e.attr = "DIR"
  <2>1. DirFind(fs, e.clust, Tail(loc.path))
    BY <1>1 DEF Matched
  <2> QED BY <1>1, <2>1, NextNameOK
<1>2. CASE NS_LAST /\ op = "open" /\ e.attr = "FILE"
  <2>1. OpenFile(e)
    BY <1>2 DEF Matched
  <2> QED BY <1>2, <2>1, OpenFileOK
<1>3. CASE NS_LAST /\ op = "opendir" /\ e.attr = "DIR"
  <2>1. OpenDir(fs, [NoDir EXCEPT !.sclust = e.clust])
    BY <1>3 DEF Matched
  <2>2. [NoDir EXCEPT !.sclust = e.clust] \in DirType
    BY NoDirType DEF DirType
  <2> QED BY <1>3, <2>1, <2>2, OpenDirOK
<1>4. CASE /\ ~(~NS_LAST /\ e.attr = "DIR")
           /\ ~(NS_LAST /\ op = "open" /\ e.attr = "FILE")
           /\ ~(NS_LAST /\ op = "opendir" /\ e.attr = "DIR")
  <2>1. PICK r \in {"NO_FILE", "NO_PATH"} : NotOpened(r)
    BY <1>4 DEF Matched
  <2>2. r \in Errors
    BY DEF Errors
  <2> QED BY <2>1, <2>2, NotOpenedOK DEF Opening
<1> QED BY <1>1, <1>2, <1>3, <1>4

\* the search goes on in the same directory, at n.d
LEMMA SearchedOK ==
  ASSUME Opening(fs), Looking, NEW n, n.d \in DirType, n.res \in Errors,
         n.res = "OK" => At(fs, n.d) /\ n.d.index = loc.dj.index + 1,
         Searched(n)
  PROVE  Opened'
<1>1. CASE n.res = "OK"
  <2> DEFINE l == [loc EXCEPT !.dj = n.d]
  <2>1. /\ l \in LocType /\ l.path = loc.path /\ l.dj = n.d /\ l.steps = loc.steps
        /\ loc.steps \in Nat
    BY LocFields DEF Opening, Typed, LocType
  <2>2. GoOn("Find", l) /\ fil' = fil /\ dirp' = dirp
    BY <1>1 DEF Searched
  <2> HIDE DEF l
  <2>3. /\ pc' = "Find" /\ res' = res /\ loc' \in LocType
        /\ loc'.path = loc.path /\ loc'.dj = n.d /\ loc'.steps = loc.steps + 1
    BY <2>1, <2>2, GoneOn
  <2>4. Typed'
    BY <2>2, <2>3 DEF Opening, Typed, OpenSteps
  <2>5. Names' = Names
    BY DEF Opening, Names
  <2>6. Within'
    BY <2>3, <2>5 DEF Within, Opening, Looking, ListSteps, ReadSteps, SeekSteps
  <2>7. Directories'
    BY <1>1, <2>2, <2>3 DEF Directories, Opening, ReadSteps, SeekSteps
  <2>8. Counted'
    <3>1. PathDone' = PathDone
      BY <2>3, <2>5 DEF PathDone
    <3>2. PathDone \in Int
      <4>1. PathDone = Followed(Len(loc.path)) /\ loc.path \in Seq(STRING)
        BY LocFields DEF PathDone, Followed, Opening, Typed
      <4>2. Len(loc.path) \in Nat
        BY <4>1
      <4>3. Names \in Seq(STRING)
        BY NamesType DEF Opening
      <4> QED BY <4>1, <4>2, <4>3, FollowedOne
    <3>3. loc'.steps <= 7 + PathDone' + 3 * loc'.dj.index
      <4>1. loc'.dj.index = loc.dj.index + 1 /\ loc'.steps = loc.steps + 1
        BY <1>1, <2>3
      <4>2. loc.dj.index \in Nat
        BY LocFields, DirFields DEF Opening, Typed
      <4>3. loc.steps <= 9 + PathDone + 3 * loc.dj.index
        BY DEF Looking
      <4> QED BY <2>1, <3>1, <3>2, <4>1, <4>2, <4>3
    <3> QED BY <2>3, <3>3 DEF Counted
  <2> QED BY <2>3, <2>4, <2>6, <2>7, <2>8 DEF CallOK, Opened
<1>2. CASE n.res = "NO_FILE"
  <2>1. NoSuchName
    BY <1>2 DEF Searched
  <2> QED BY <2>1, NoSuchNameOK
<1>3. CASE n.res \notin {"OK", "NO_FILE"}
  <2>1. NotOpened(n.res)
    BY <1>3 DEF Searched
  <2> QED BY <2>1, NotOpenedOK DEF Opening
<1> QED BY <1>1, <1>2, <1>3

-----------------------------------------------------------------------------
(* Opening: the steps *)

LEMMA VolumeKept ==
  ASSUME VolumeOK, UNCHANGED volume, pc # "Info", pc' \notin {"Check", "Info"},
         pc' # "Idle" => fs.fs_type # ""
  PROVE  VolumeOK'
BY DEF VolumeOK, volume

\* what holds at any step of a call that found its volume
LEMMA Steady ==
  ASSUME IInv, pc \notin {"Idle", "Check"}
  PROVE  /\ fs \in FsType /\ Geometry(fs) /\ fs.fs_type # "" /\ Fsid \in Nat
         /\ pc # "Info" => fs.id = Fsid
         /\ dirp.id <= Fsid /\ loc \in LocType /\ dirp \in DirType /\ fil \in FilType
         /\ call \in CallType
<1>1. Fsid \in Nat
  <2>1. Fsid \in 0..MaxMounts
    BY DEF IInv, VolumeOK
  <2> QED BY <2>1, SizeFacts
<1> QED BY <1>1 DEF IInv, VolumeOK, Directories, Typed

LEMMA SearchSteady ==
  ASSUME IInv, pc \in {"Follow", "Find", "FatFind"}, UNCHANGED <<volume, op, call, more>>
  PROVE  Opening(fs)
<1>1. op \in {"open", "opendir"} /\ (op = "open" => ~dirp.open)
  BY DEF IInv, Within, Directories, OpenSteps
<1>2. Fsid' = Fsid /\ fs' = fs
  BY DEF volume
<1> QED BY <1>1, <1>2, Steady DEF Opening, IInv

LEMMA FollowStep ==
  ASSUME IInv, Follow
  PROVE  IInv'
<1>1. pc = "Follow" /\ FollowPath(fs) /\ UNCHANGED <<slot, disk, volume, op, out, more, call>>
  BY DEF Follow
<1>2. Opening(fs)
  BY <1>1, SearchSteady
<1>3. loc.path = Names /\ loc.steps <= 6
  <2>1. loc.steps <= 1 /\ loc.steps \in Nat
    BY <1>1, LocFields DEF IInv, Counted, Typed
  <2> QED BY <1>1, <2>1 DEF IInv, Within
<1>4. Opened'
  BY <1>1, <1>2, <1>3, FollowPathOK
<1>5. VolumeOK'
  BY <1>1, <1>4, VolumeKept, Steady DEF Opened, IInv
<1>6. DiskOK'
  BY <1>1 DEF IInv, DiskOK, slot, disk, volume
<1> QED BY <1>4, <1>5, <1>6 DEF IInv, Opened, CallOK

\* get_fat is called; its caller goes on at p with the same directories
LEMMA AskedFat ==
  ASSUME NEW c \in Nat, NEW p, loc \in LocType, Ask_fat(c, p)
  PROVE  /\ pc' = p /\ res' = res /\ loc' \in LocType /\ loc'.lo = Zeros
         /\ loc'.path = loc.path /\ loc'.dj = loc.dj /\ loc'.todo = loc.todo
         /\ loc'.idx = loc.idx /\ loc'.clst = c /\ loc'.steps = loc.steps + 1
<1> DEFINE l == [loc EXCEPT !.clst = c, !.lo = Zeros]
<1>1. Zeros \in Buffers
  BY DEF Buffers
<1>2. /\ l \in LocType /\ l.lo = Zeros /\ l.path = loc.path /\ l.dj = loc.dj
      /\ l.todo = loc.todo /\ l.idx = loc.idx /\ l.clst = c /\ l.steps = loc.steps
  BY <1>1 DEF LocType
<1>3. GoOn(p, l)
  BY DEF Ask_fat
<1> HIDE DEF l
<1> QED BY <1>2, <1>3, GoneOn

LEMMA PathDoneType ==
  ASSUME Typed
  PROVE  PathDone \in Int
<1>1. PathDone = Followed(Len(loc.path)) /\ loc.path \in Seq(STRING)
  BY LocFields DEF PathDone, Followed, Typed
<1>2. Len(loc.path) \in Nat
  BY <1>1
<1> QED BY <1>1, <1>2, NamesType, FollowedOne

LEMMA WithinBudget ==
  ASSUME NEW s \in Nat, NEW a \in Nat, NEW b \in Nat, NEW p \in Int, NEW i \in Nat,
         s <= a + p + 3 * i
  PROVE  /\ s + b <= (a + b) + p + 3 * i /\ s <= (a + b) + p + 3 * i
         /\ (a + b) + p + 3 * i = (a + b) + p + 3 * i + 0
OBVIOUS

LEMMA FindStep ==
  ASSUME IInv, NEW o \in Outcomes, Find(o)
  PROVE  IInv'
<1> DEFINE dj == loc.dj
<1>1. /\ pc = "Find" /\ MoveWindow(dj.sect, o)
      /\ UNCHANGED <<slot, volume, op, out, more, call>>
  BY DEF Find
<1>2. Opening(fs) /\ Fsid \in Nat
  BY <1>1, SearchSteady, Steady
<1>3. /\ fs \in FsType /\ Geometry(fs) /\ fs.fs_type # "" /\ loc \in LocType /\ dj \in DirType
      /\ dj.sect \in Nat /\ dj.index \in Nat /\ dj.clust \in Nat
  BY <1>1, Steady, LocFields, DirFields
<1>4. At(fs, dj) /\ loc.path # <<>> /\ Len(loc.path) <= Len(Names)
      /\ loc.steps <= 7 + PathDone + 3 * dj.index
  BY <1>1 DEF IInv, Directories, Within, Counted
<1>5. /\ win' \in Buffers /\ winsect' \in Nat \cup {NoSector} /\ hist' \in HistType
      /\ win # Zeros => win' # Zeros
  <2>1. fs.volbase <= dj.sect /\ dj.sect + 1 <= EndOf(fs)
    BY <1>3, <1>4, AtInside
  <2> QED BY <1>1, <1>3, <2>1, MoveWindowOK DEF IInv
<1>6. DiskOK'
  BY <1>1, <1>3, <1>5, DiskKept DEF IInv, DiskOK
<1>7. Looking
  <2>1. loc.steps \in Nat
    BY <1>3, LocFields
  <2>2. PathDone \in Int
    BY PathDoneType DEF IInv
  <2>3. loc.steps <= 9 + PathDone + 3 * dj.index
    <3>1. loc.steps <= (7 + 2) + PathDone + 3 * dj.index
      BY <1>3, <1>4, <2>1, <2>2, WithinBudget
    <3>2. 7 + 2 = 9
      OBVIOUS
    <3> QED BY <3>1, <3>2
  <2> QED BY <1>4, <2>3 DEF Looking
<1>8. CASE Opened'
  <2>1. VolumeOK'
    BY <1>1, <1>3, <1>8, VolumeKept DEF Opened, IInv
  <2> QED BY <1>6, <1>8, <2>1 DEF IInv, Opened, CallOK
<1>9. CASE Ask_fat(dj.clust, "FatFind") /\ UNCHANGED <<fil, dirp>> /\ NeedsFat(dj)
  <2>1. /\ pc' = "FatFind" /\ res' = res /\ loc' \in LocType /\ loc'.lo = Zeros
        /\ loc'.path = loc.path /\ loc'.dj = dj /\ loc'.steps = loc.steps + 1
    BY <1>3, <1>9, AskedFat
  <2>2. VolumeOK'
    BY <1>1, <1>3, <2>1, VolumeKept DEF IInv
  <2>3. Typed'
    BY <1>1, <1>9, <2>1 DEF IInv, Typed, OpenSteps
  <2>4. Names' = Names
    BY <1>1 DEF Names
  <2>5. Within'
    BY <1>1, <1>2, <1>4, <2>1, <2>4 DEF Opening, Within, ListSteps, ReadSteps, SeekSteps
  <2>6. Directories'
    <3>1. NeedsFat(loc.dj)'
      BY <1>1, <1>9, <2>1 DEF NeedsFat, AtLimit, SectorEnds, NextIndex, volume
    <3> QED BY <1>1, <1>2, <1>9, <2>1, <3>1 DEF Opening, Directories, ReadSteps, SeekSteps
  <2>7. Counted'
    <3>1. PathDone' = PathDone /\ Second' = 0
      BY <2>1, <2>4 DEF PathDone, Second
    <3>2. PathDone \in Int /\ loc.steps \in Nat
      <4>1. PathDone \in Int
        BY PathDoneType DEF IInv
      <4> QED BY <1>3, <4>1, LocFields
    <3>3. /\ loc.steps + 1 <= (7 + 1) + PathDone + 3 * dj.index
          /\ (7 + 1) + PathDone + 3 * dj.index = (7 + 1) + PathDone + 3 * dj.index + 0
      <4>1. loc.steps <= 7 + PathDone + 3 * dj.index
        BY <1>4
      <4>2. loc.steps \in Nat /\ 7 \in Nat /\ 1 \in Nat /\ PathDone \in Int /\ dj.index \in Nat
        BY <1>3, <3>2
      <4> HIDE DEF dj
      <4> QED BY <4>1, <4>2, WithinBudget
    <3>4. 7 + 1 = 8
      OBVIOUS
    <3>5. loc'.steps <= 8 + PathDone' + 3 * loc'.dj.index + Second'
      BY <2>1, <3>1, <3>3, <3>4
    <3> QED BY <2>1, <3>5 DEF Counted
  <2> QED BY <1>6, <2>2, <2>3, <2>5, <2>6, <2>7 DEF IInv
<1>10. CASE o = "error"
  <2>1. NotOpened("DISK_ERR") /\ "DISK_ERR" \in Errors
    BY <1>10 DEF Find, Errors
  <2>2. Opened'
    BY <1>2, <2>1, NotOpenedOK DEF Opening
  <2> QED BY <1>8, <2>2
<1>11. CASE o # "error"
  <2>1. PICK e \in EntriesAt(win', dj.index % DirPer) :
          CASE e = End -> NoSuchName
            [] e.attr \in Listed /\ e.name = name -> Matched(e)
            [] OTHER -> IF NeedsFat(dj)
                        THEN Ask_fat(dj.clust, "FatFind") /\ UNCHANGED <<fil, dirp>>
                        ELSE Searched(dir_next(dj))
    BY <1>11 DEF Find
  <2>2. e.clust \in Nat /\ e.size \in Nat
    BY <1>3, <1>5, EntryFacts
  <2>3. \/ NoSuchName
        \/ Matched(e)
        \/ Ask_fat(dj.clust, "FatFind") /\ UNCHANGED <<fil, dirp>> /\ NeedsFat(dj)
        \/ Searched(dir_next(dj)) /\ ~NeedsFat(dj)
    BY <2>1
  <2>4. CASE NoSuchName
    BY <1>2, <1>7, <1>8, <2>4, NoSuchNameOK
  <2>5. CASE Matched(e)
    BY <1>2, <1>7, <1>8, <2>2, <2>5, MatchedOK
  <2>6. CASE Searched(dir_next(dj)) /\ ~NeedsFat(dj)
    <3>1. /\ dir_next(dj).d \in DirType /\ dir_next(dj).res \in {"OK", "NO_FILE"}
          /\ dir_next(dj).res = "OK" =>
               At(fs, dir_next(dj).d) /\ dir_next(dj).d.index = dj.index + 1
      BY <1>3, <1>4, <2>6, NextOK
    <3>2. dir_next(dj).res \in Errors
      BY <3>1 DEF Errors
    <3>3. Opened'
      BY <1>2, <1>7, <2>6, <3>1, <3>2, SearchedOK
    <3> QED BY <1>8, <3>3
  <2> QED BY <1>9, <2>3, <2>4, <2>5, <2>6
<1> QED BY <1>10, <1>11

-----------------------------------------------------------------------------
(* Listing *)

\* what f_readdir relies on
OnList ==
  /\ Typed /\ dirp.id <= Fsid /\ op' = "readdir" /\ fil' = fil /\ UNCHANGED volume
  /\ call' \in CallType

LEMMA ShownOK ==
  ASSUME OnList, NEW d \in DirType, d.id = dirp.id, NEW r \in Errors, Shown(d, r),
         r = "OK" /\ d.sect # 0 => At(fs, d)
  PROVE  CallOK' /\ pc' = "Idle"
<1>1. dirp' = d /\ Return(r) /\ more' = (r = "OK" /\ d.index # loc.idx)
  BY DEF Shown
<1>2. more' \in BOOLEAN /\ (more' => r = "OK")
  BY <1>1
<1>3. fs' = fs /\ Fsid' = Fsid
  BY DEF OnList, volume
<1>4. fil' \in FilType /\ fil'.fptr <= fil'.fsize /\ call' \in CallType /\ op' \in Ops
  BY DEF OnList, Typed, Ops
<1>5. dirp'.id <= Fsid' /\ dirp' \in DirType
  BY <1>1, <1>3 DEF OnList
<1>6. more' /\ dirp'.open /\ fs'.fs_type # "" /\ fs'.id = dirp'.id /\ dirp'.sect # 0
        => At(fs', dirp')
  BY <1>1, <1>2, <1>3
<1> QED BY <1>1, <1>2, <1>4, <1>5, <1>6, Returned

\* the end of the listing, or a failure that closes it
LEMMA ShownEnd ==
  ASSUME OnList, NEW d \in DirType, d.id = dirp.id, NEW r \in Errors,
         Shown([d EXCEPT !.sect = 0], r)
  PROVE  CallOK' /\ pc' = "Idle"
<1> DEFINE e == [d EXCEPT !.sect = 0]
<1>1. e \in DirType /\ e.id = d.id /\ e.sect = 0
  BY DEF DirType
<1>2. Shown(e, r)
  OBVIOUS
<1> HIDE DEF e
<1> QED BY <1>1, <1>2, ShownOK

LEMMA SteppedOK ==
  ASSUME OnList, NEW n, n.d \in DirType, n.d.id = dirp.id, n.res \in Errors,
         n.res = "OK" => At(fs, n.d), Stepped(n)
  PROVE  CallOK' /\ pc' = "Idle"
<1>1. CASE n.res = "NO_FILE"
  <2>1. Shown([n.d EXCEPT !.sect = 0], "OK") /\ "OK" \in Errors
    BY <1>1 DEF Stepped, Errors
  <2> QED BY <2>1, ShownEnd
<1>2. CASE n.res # "NO_FILE"
  <2>1. Shown(n.d, n.res)
    BY <1>2 DEF Stepped
  <2> QED BY <2>1, ShownOK
<1> QED BY <1>1, <1>2

LEMMA SkippedOK ==
  ASSUME OnList, NEW n, n.d \in DirType, n.d.id = dirp.id, n.res \in Errors,
         n.res = "OK" => At(fs, n.d) /\ n.d.index = dirp.index + 1,
         loc.steps <= 3 + 3 * dirp.index, Skipped(n)
  PROVE  CallOK' /\ pc' \in {"Idle", "Entry"}
<1>1. CASE n.res = "OK"
  <2>1. dirp' = n.d /\ GoOn("Entry", loc) /\ more' = more
    BY <1>1 DEF Skipped
  <2>2. loc \in LocType /\ loc.steps \in Nat /\ dirp.index \in Nat
    BY LocFields, DirFields DEF OnList, Typed
  <2>3. pc' = "Entry" /\ res' = res /\ loc' \in LocType /\ loc'.steps = loc.steps + 1
    BY <2>1, <2>2, GoneOn
  <2>4. Typed'
    BY <2>1, <2>3 DEF OnList, Typed, Ops, ListSteps
  <2>5. Within'
    BY <2>3 DEF Within, OnList, ReadSteps, SeekSteps
  <2>6. Directories'
    BY <1>1, <2>1, <2>3 DEF Directories, OnList, volume, OpenSteps, ReadSteps, SeekSteps
  <2>7. Counted'
    <3>1. dirp'.index = dirp.index + 1
      BY <1>1, <2>1
    <3>2. loc'.steps <= 1 + 3 * dirp'.index
      BY <2>2, <2>3, <3>1
    <3> QED BY <2>3, <3>2 DEF Counted
  <2> QED BY <2>3, <2>4, <2>5, <2>6, <2>7 DEF CallOK
<1>2. CASE n.res # "OK"
  <2> DEFINE r == IF n.res = "NO_FILE" THEN "OK" ELSE n.res
  <2>1. Shown([n.d EXCEPT !.sect = 0], r)
    BY <1>2 DEF Skipped
  <2>2. r \in Errors
    BY DEF Errors
  <2> HIDE DEF r
  <2> QED BY <2>1, <2>2, ShownEnd
<1> QED BY <1>1, <1>2

LEMMA EntryStep ==
  ASSUME IInv, NEW o \in Outcomes, Entry(o)
  PROVE  IInv'
<1>1. pc = "Entry" /\ MoveWindow(dirp.sect, o) /\ UNCHANGED <<slot, volume, fil, op, out>>
  BY DEF Entry
<1>2. /\ fs \in FsType /\ Geometry(fs) /\ fs.fs_type # "" /\ loc \in LocType
      /\ dirp \in DirType /\ call \in CallType
  BY <1>1, Steady
<1>3. dirp.sect \in Nat /\ dirp.index \in Nat /\ dirp.clust \in Nat /\ loc.steps \in Nat
  BY <1>2, LocFields, DirFields
<1>4. At(fs, dirp) /\ op = "readdir" /\ loc.steps <= 1 + 3 * dirp.index
  BY <1>1 DEF IInv, Directories, Within, Counted, ListSteps
<1>5. /\ win' \in Buffers /\ winsect' \in Nat \cup {NoSector} /\ hist' \in HistType
      /\ win # Zeros => win' # Zeros
  <2>1. fs.volbase <= dirp.sect /\ dirp.sect + 1 <= EndOf(fs)
    BY <1>2, <1>4, AtInside
  <2> QED BY <1>1, <1>2, <1>3, <2>1, MoveWindowOK DEF IInv
<1>6. DiskOK'
  <2>1. fs' = fs /\ win # Zeros
    BY <1>1, <1>2 DEF volume, IInv, DiskOK
  <2> QED BY <1>1, <1>5, <2>1, DiskKept DEF IInv
<1>7. ASSUME call' \in CallType PROVE OnList
  BY <1>1, <1>4, <1>7, Steady DEF OnList, IInv
<1>8. ASSUME CallOK', pc' \in {"Idle", "Entry", "FatSkip", "FatNext"} PROVE IInv'
  <2>1. VolumeOK'
    BY <1>1, <1>2, <1>8, VolumeKept DEF IInv
  <2> QED BY <1>6, <1>8, <2>1 DEF IInv, CallOK
<1>9. CASE o = "error"
  <2>1. Shown([dirp EXCEPT !.sect = 0], "DISK_ERR") /\ call' = call
    BY <1>9 DEF Entry
  <2>2. "DISK_ERR" \in Errors
    BY DEF Errors
  <2> QED BY <1>2, <1>7, <1>8, <2>1, <2>2, ShownEnd
<1>10. CASE o # "error"
  <2>1. PICK e \in EntriesAt(win', dirp.index % DirPer) :
          LET show == e.attr \in Listed IN
          /\ call' = IF show THEN [call EXCEPT !.names = Append(@, e.name)] ELSE call
          /\ CASE e = End -> Shown([dirp EXCEPT !.sect = 0], "OK")
               [] e # End /\ NeedsFat(dirp) ->
                    /\ Ask_fat(dirp.clust, IF show THEN "FatNext" ELSE "FatSkip")
                    /\ UNCHANGED <<dirp, more>>
               [] e # End /\ ~NeedsFat(dirp) /\ show -> Stepped(dir_next(dirp))
               [] OTHER -> Skipped(dir_next(dirp))
    BY <1>10 DEF Entry
  <2>2. call' \in CallType
    <3>1. e.name \in Words /\ call.names \in Seq(Words)
      BY <1>2, <1>3, <1>5, EntryFacts, CallFields
    <3>2. Append(call.names, e.name) \in Seq(Words)
      BY <3>1
    <3>3. [call EXCEPT !.names = Append(@, e.name)] \in CallType
      BY <1>2, <3>2 DEF CallType
    <3> QED BY <1>2, <2>1, <3>3
  <2>3. OnList
    BY <1>7, <2>2
  <2>4. \/ Shown([dirp EXCEPT !.sect = 0], "OK")
        \/ /\ NeedsFat(dirp) /\ UNCHANGED <<dirp, more>>
           /\ Ask_fat(dirp.clust, "FatNext") \/ Ask_fat(dirp.clust, "FatSkip")
        \/ ~NeedsFat(dirp) /\ (Stepped(dir_next(dirp)) \/ Skipped(dir_next(dirp)))
    BY <2>1
  <2>5. CASE Shown([dirp EXCEPT !.sect = 0], "OK")
    <3>1. "OK" \in Errors
      BY DEF Errors
    <3> QED BY <1>2, <1>8, <2>3, <2>5, <3>1, ShownEnd
  <2>6. CASE /\ NeedsFat(dirp) /\ UNCHANGED <<dirp, more>>
             /\ Ask_fat(dirp.clust, "FatNext") \/ Ask_fat(dirp.clust, "FatSkip")
    <3>1. PICK p \in {"FatNext", "FatSkip"} : Ask_fat(dirp.clust, p)
      BY <2>6
    <3>2. /\ pc' = p /\ res' = res /\ loc' \in LocType /\ loc'.lo = Zeros
          /\ loc'.steps = loc.steps + 1
      BY <1>2, <1>3, <3>1, AskedFat
    <3>3. Typed'
      BY <1>1, <2>2, <2>6, <3>2 DEF IInv, Typed, ListSteps
    <3>4. Within'
      BY <1>1, <1>4, <3>2 DEF Within, ReadSteps, SeekSteps
    <3>5. Directories'
      <4>1. NeedsFat(dirp)'
        BY <1>1, <2>6 DEF NeedsFat, AtLimit, SectorEnds, NextIndex, volume
      <4>2. dirp'.id <= Fsid'
        BY <1>1, <2>6 DEF IInv, Directories, volume
      <4> QED BY <1>1, <1>4, <3>2, <4>1, <4>2 DEF Directories, OpenSteps, ReadSteps, SeekSteps
    <3>6. Counted'
      <4>1. Second' = 0 /\ dirp' = dirp
        BY <2>6, <3>2 DEF Second
      <4>2. loc'.steps <= 2 + 3 * dirp'.index + Second'
        BY <1>3, <1>4, <3>2, <4>1
      <4> QED BY <3>2, <4>2 DEF Counted
    <3> QED BY <1>8, <3>2, <3>3, <3>4, <3>5, <3>6 DEF CallOK
  <2>7. CASE ~NeedsFat(dirp) /\ (Stepped(dir_next(dirp)) \/ Skipped(dir_next(dirp)))
    <3> DEFINE n == dir_next(dirp)
    <3>1. /\ n.d \in DirType /\ n.res \in {"OK", "NO_FILE"} /\ n.d.id = dirp.id
          /\ n.res = "OK" => At(fs, n.d) /\ n.d.index = dirp.index + 1
      BY <1>2, <1>4, <2>7, NextOK
    <3>2. n.res \in Errors
      BY <3>1 DEF Errors
    <3>3. loc.steps <= 3 + 3 * dirp.index
      BY <1>3, <1>4
    <3>4. Stepped(n) \/ Skipped(n)
      BY <2>7
    <3> HIDE DEF n
    <3>5. CASE Stepped(n)
      BY <1>8, <2>3, <3>1, <3>2, <3>5, SteppedOK
    <3>6. CASE Skipped(n)
      BY <1>8, <2>3, <3>1, <3>2, <3>3, <3>6, SkippedOK
    <3> QED BY <3>4, <3>5, <3>6
  <2> QED BY <2>4, <2>5, <2>6, <2>7
<1> QED BY <1>9, <1>10

-----------------------------------------------------------------------------
(* Reading *)

\* what f_read and f_lseek rely on, and leave to a listing in progress
OnFile ==
  /\ Typed /\ dirp.id <= Fsid /\ dirp' = dirp /\ op' = op /\ call' = call /\ more' = more
  /\ UNCHANGED volume
  /\ more /\ Valid(dirp) /\ dirp.sect # 0 => At(fs, dirp)

\* f_read still has bytes to read, and the file has them
Reading ==
  /\ OnFile /\ op = "read" /\ loc.todo > 0 /\ loc.todo <= call.size
  /\ fil.fptr + loc.todo <= fil.fsize

LEMMA FileReturned ==
  ASSUME OnFile, NEW r \in Errors, Return(r), fil' \in FilType, fil'.fptr <= fil'.fsize
  PROVE  CallOK' /\ pc' = "Idle"
<1>1. fs' = fs /\ Fsid' = Fsid
  BY DEF OnFile, volume
<1>2. dirp' \in DirType /\ call' \in CallType /\ op' \in Ops /\ more' \in BOOLEAN
  BY DEF OnFile, Typed
<1>3. dirp'.id <= Fsid'
  BY <1>1 DEF OnFile
<1>4. more' /\ dirp'.open /\ fs'.fs_type # "" /\ fs'.id = dirp'.id /\ dirp'.sect # 0
        => At(fs', dirp')
  BY <1>1 DEF OnFile, Valid
<1> QED BY <1>2, <1>3, <1>4, Returned

\* f_read or f_lseek goes on: the directories are as they were
LEMMA FileGoesOn ==
  ASSUME OnFile, pc' \in ReadSteps \cup SeekSteps, res' = res, loc' \in LocType,
         fil' \in FilType, fil'.fptr <= fil'.fsize
  PROVE  Typed' /\ Directories'
<1>1. fs' = fs /\ Fsid' = Fsid
  BY DEF OnFile, volume
<1>2. Typed'
  BY DEF OnFile, Typed
<1>3. dirp'.id <= Fsid'
  BY <1>1 DEF OnFile
<1>4. (more /\ Valid(dirp) /\ dirp.sect # 0 => At(fs, dirp))'
  BY <1>1 DEF OnFile, Valid, At, clust2sect
<1>5. Directories'
  BY <1>3, <1>4 DEF Directories, OpenSteps, ReadSteps, SeekSteps
<1> QED BY <1>2, <1>5

LEMMA AbortOK ==
  ASSUME OnFile, NEW r \in Errors, Abort(r)
  PROVE  CallOK' /\ pc' = "Idle"
<1>1. fil' = [fil EXCEPT !.err = r] /\ Return(r)
  BY DEF Abort
<1>2. fil' \in FilType /\ fil'.fptr <= fil'.fsize
  BY <1>1 DEF OnFile, Typed, FilType
<1> QED BY <1>1, <1>2, FileReturned

LEMMA DeliverOK ==
  ASSUME Reading, NEW f \in FilType, f.fptr = fil.fptr, f.fsize = fil.fsize,
         NEW n \in Nat, n > 0, n <= loc.todo, NEW b, Deliver(f, n, b),
         loc.steps <= 4 + 4 * (call.size - loc.todo)
  PROVE  CallOK' /\ pc' \in {"Idle", "Read"}
<1>1. /\ fil' = [f EXCEPT !.fptr = @ + n]
      /\ IF loc.todo = n THEN Return("OK") ELSE GoOn("Read", [loc EXCEPT !.todo = @ - n])
  BY DEF Deliver
<1>2. /\ fil \in FilType /\ fil.fptr \in Nat /\ fil.fsize \in Nat /\ loc \in LocType
      /\ loc.todo \in Nat /\ loc.steps \in Nat /\ call.size \in Nat
  BY LocFields, FilFields, CallFields DEF Reading, OnFile, Typed
<1>3. /\ fil.fptr + loc.todo <= fil.fsize /\ loc.todo <= call.size /\ op = "read"
      /\ OnFile
  BY DEF Reading
<1>4. f.fptr + n \in Nat
  BY <1>2
<1>5. fil' \in FilType /\ fil'.fptr = fil.fptr + n /\ fil'.fsize = fil.fsize
  BY <1>1, <1>4 DEF FilType
<1>6. fil'.fptr <= fil'.fsize
  BY <1>2, <1>3, <1>5
<1>7. CASE loc.todo = n
  <2>1. Return("OK") /\ "OK" \in Errors
    BY <1>1, <1>7 DEF Errors
  <2> QED BY <1>3, <1>5, <1>6, <2>1, FileReturned
<1>8. CASE loc.todo # n
  <2> DEFINE l == [loc EXCEPT !.todo = @ - n]
  <2>1. loc.todo - n \in Nat /\ loc.todo - n > 0
    BY <1>2, <1>8
  <2>2. l \in LocType /\ l.todo = loc.todo - n /\ l.steps = loc.steps
    BY <1>2, <2>1 DEF LocType
  <2>3. GoOn("Read", l)
    BY <1>1, <1>8
  <2> HIDE DEF l
  <2>4. /\ pc' = "Read" /\ res' = res /\ loc' \in LocType
        /\ loc'.todo = loc.todo - n /\ loc'.steps = loc.steps + 1
    BY <2>2, <2>3, GoneOn
  <2>5. Typed' /\ Directories'
    BY <1>3, <1>5, <1>6, <2>4, FileGoesOn DEF ReadSteps
  <2>6. op' = op /\ call' = call
    BY <1>3 DEF OnFile
  <2>7. Within'
    <3>1. loc'.todo > 0 /\ loc'.todo <= call'.size /\ fil'.fptr + loc'.todo <= fil'.fsize
      BY <1>2, <1>3, <1>5, <2>1, <2>4, <2>6
    <3> QED BY <1>3, <2>4, <2>6, <3>1 DEF Within, ListSteps, SeekSteps
  <2>8. Counted'
    <3>1. loc.steps + 1 <= 1 + 4 * (call.size - (loc.todo - n))
      BY <1>2, <1>3
    <3>2. loc'.steps <= 1 + 4 * (call'.size - loc'.todo)
      BY <2>4, <2>6, <3>1
    <3> QED BY <2>4, <3>2 DEF Counted
  <2> QED BY <2>4, <2>5, <2>7, <2>8 DEF CallOK
<1> QED BY <1>7, <1>8

LEMMA PartOK ==
  ASSUME Reading, NEW f \in FilType, f.fptr = fil.fptr, f.fsize = fil.fsize, Part(f),
         loc.steps <= 4 + 4 * (call.size - loc.todo)
  PROVE  CallOK' /\ pc' \in {"Idle", "Read"}
<1> DEFINE at == f.fptr % SS
<1> DEFINE n == MinOf(SS - at, loc.todo)
<1> DEFINE b == [k \in 1..n |-> <<f.buf[1], f.buf[2], at + k - 1>>]
<1>1. Deliver(f, n, b)
  BY DEF Part
<1>2. at \in 0..(SS - 1) /\ SS \in Nat \ {0}
  <2>1. SS \in Nat \ {0} /\ f.fptr \in Nat
    BY SizeFacts, FilFields
  <2> QED BY <2>1, DivMod
<1>3. loc.todo \in Nat /\ loc.todo > 0
  BY LocFields DEF Reading, OnFile, Typed
<1> HIDE DEF at
<1>4. n \in Nat /\ n > 0 /\ n <= loc.todo
  BY <1>2, <1>3 DEF MinOf
<1> HIDE DEF n, b
<1> QED BY <1>1, <1>4, DeliverOK

LEMMA ReadClusterOK ==
  ASSUME Reading, NEW v \in Nat, ReadCluster(v),
         loc.steps <= 3 + 4 * (call.size - loc.todo)
  PROVE  CallOK' /\ pc' \in {"Idle", "Data"}
<1>1. CASE v < 2 \/ v = Bad
  <2>1. PICK r \in {"INT_ERR", "DISK_ERR"} : Abort(r)
    BY <1>1 DEF ReadCluster
  <2>2. r \in Errors
    BY DEF Errors
  <2> QED BY <2>1, <2>2, AbortOK DEF Reading
<1>2. CASE ~(v < 2 \/ v = Bad)
  <2>1. fil' = [fil EXCEPT !.clust = v] /\ GoOn("Data", loc)
    BY <1>2 DEF ReadCluster
  <2>2. loc \in LocType /\ fil \in FilType /\ OnFile
    BY DEF Reading, OnFile, Typed
  <2>3. /\ pc' = "Data" /\ res' = res /\ loc' \in LocType
        /\ loc'.todo = loc.todo /\ loc'.steps = loc.steps + 1
    BY <2>1, <2>2, GoneOn
  <2>4. /\ fil' \in FilType /\ fil'.fptr = fil.fptr /\ fil'.fsize = fil.fsize
        /\ fil'.fptr <= fil'.fsize
    BY <2>1, <2>2 DEF FilType, OnFile, Typed
  <2>5. Typed' /\ Directories'
    BY <2>2, <2>3, <2>4, FileGoesOn DEF ReadSteps
  <2>6. op' = op /\ call' = call
    BY <2>2 DEF OnFile
  <2>7. Within'
    BY <2>3, <2>4, <2>6 DEF Within, Reading, ListSteps, SeekSteps
  <2>8. Counted'
    <3>1. loc.todo \in Nat /\ loc.steps \in Nat /\ call.size \in Nat
      BY <2>2, LocFields, CallFields DEF OnFile, Typed
    <3>2. loc.steps + 1 <= 4 + 4 * (call.size - loc.todo)
      BY <3>1
    <3>3. loc'.steps <= 4 + 4 * (call'.size - loc'.todo)
      BY <2>3, <2>6, <3>2
    <3> QED BY <2>3, <3>3 DEF Counted
  <2> QED BY <2>3, <2>5, <2>7, <2>8 DEF CallOK
<1> QED BY <1>1, <1>2

LEMMA FileSteady ==
  ASSUME IInv, pc \in ReadSteps \cup SeekSteps, UNCHANGED <<volume, dirp, op, call, more>>
  PROVE  OnFile /\ (pc \in ReadSteps => Reading)
<1>1. pc \notin {"Idle", "Check"}
  BY DEF ReadSteps, SeekSteps
<1>2. more /\ Valid(dirp) /\ dirp.sect # 0 => At(fs, dirp)
  BY DEF IInv, Directories
<1>3. OnFile
  BY <1>1, <1>2, Steady DEF OnFile, IInv
<1>4. pc \in ReadSteps => Reading
  BY <1>3 DEF IInv, Within, Reading
<1> QED BY <1>3, <1>4

\* a step of a call that found its volume, when it does not leave it
LEMMA StepKept ==
  ASSUME IInv, pc \notin {"Idle", "Check", "Info"}, UNCHANGED volume, DiskOK', CallOK',
         pc' \notin {"Check", "Info"}
  PROVE  IInv'
<1>1. VolumeOK'
  BY VolumeKept, Steady DEF IInv
<1> QED BY <1>1 DEF IInv, CallOK

LEMMA SameDisk ==
  ASSUME IInv, UNCHANGED <<slot, disk, volume>>
  PROVE  DiskOK'
BY DEF IInv, DiskOK, slot, disk, volume

LEMMA ReadStep ==
  ASSUME IInv, Read
  PROVE  IInv'
<1> DEFINE part == fil.fptr % SS
<1>1. pc = "Read" /\ UNCHANGED <<slot, disk, volume, dirp, op, more, call>>
  BY DEF Read
<1>0. \/ Part(fil)
      \/ GoOn("Data", loc) /\ fil' = fil
      \/ ReadCluster(fil.sclust)
      \/ Ask_fat(fil.clust, "FatRead") /\ fil' = fil
  <2>1. /\ CASE part # 0 -> Part(fil)
             [] part = 0 /\ csect # 0 -> GoOn("Data", loc) /\ UNCHANGED <<fil, out>>
             [] fil.fptr = 0 -> ReadCluster(fil.sclust) /\ UNCHANGED out
             [] OTHER -> Ask_fat(fil.clust, "FatRead") /\ UNCHANGED <<fil, out>>
    BY DEF Read
  <2> HIDE DEF part
  <2> QED BY <2>1
<1>2. OnFile /\ Reading
  BY <1>1, FileSteady DEF ReadSteps
<1>3. /\ loc \in LocType /\ fil \in FilType /\ fil.fptr <= fil.fsize /\ fil.sclust \in Nat
      /\ fil.clust \in Nat /\ loc.todo \in Nat /\ loc.steps \in Nat /\ call.size \in Nat
      /\ loc.todo <= call.size
  BY <1>2, LocFields, FilFields, CallFields DEF Reading, OnFile, Typed
<1>4. loc.steps <= 1 + 4 * (call.size - loc.todo)
  BY <1>1 DEF IInv, Counted
<1>5. /\ loc.steps <= 3 + 4 * (call.size - loc.todo)
      /\ loc.steps <= 4 + 4 * (call.size - loc.todo)
      /\ loc.steps + 1 <= 4 + 4 * (call.size - loc.todo)
      /\ loc.steps + 1 <= 2 + 4 * (call.size - loc.todo) + 0
  BY <1>3, <1>4
<1>6. DiskOK'
  BY <1>1, SameDisk
<1>7. ASSUME CallOK', pc' \in {"Idle", "Read", "Data", "FatRead"} PROVE IInv'
  BY <1>1, <1>6, <1>7, StepKept
<1>8. op' = op /\ call' = call /\ op = "read" /\ fil.fptr + loc.todo <= fil.fsize
      /\ loc.todo > 0
  BY <1>2 DEF OnFile, Reading
<1>9. CASE Part(fil)
  BY <1>2, <1>3, <1>5, <1>7, <1>9, PartOK
<1>10. CASE GoOn("Data", loc) /\ fil' = fil
  <2>2. /\ pc' = "Data" /\ res' = res /\ loc' \in LocType
        /\ loc'.todo = loc.todo /\ loc'.steps = loc.steps + 1
    BY <1>3, <1>10, GoneOn
  <2>3. Typed' /\ Directories'
    BY <1>2, <1>3, <1>10, <2>2, FileGoesOn DEF ReadSteps
  <2>4. Within'
    BY <1>3, <1>8, <1>10, <2>2 DEF Within, ListSteps, SeekSteps
  <2>5. Counted'
    BY <1>5, <1>8, <2>2 DEF Counted
  <2> QED BY <1>7, <2>2, <2>3, <2>4, <2>5 DEF CallOK
<1>11. CASE ReadCluster(fil.sclust)
  BY <1>2, <1>3, <1>5, <1>7, <1>11, ReadClusterOK
<1>12. CASE Ask_fat(fil.clust, "FatRead") /\ fil' = fil
  <2>2. /\ pc' = "FatRead" /\ res' = res /\ loc' \in LocType /\ loc'.lo = Zeros
        /\ loc'.todo = loc.todo /\ loc'.steps = loc.steps + 1
    BY <1>3, <1>12, AskedFat
  <2>3. Typed' /\ Directories'
    BY <1>2, <1>3, <1>12, <2>2, FileGoesOn DEF ReadSteps
  <2>4. Within'
    BY <1>3, <1>8, <1>12, <2>2 DEF Within, ListSteps, SeekSteps
  <2>5. Counted'
    <3>1. Second' = 0
      BY <2>2 DEF Second
    <3> QED BY <1>5, <1>8, <2>2, <3>1 DEF Counted
  <2> QED BY <1>7, <2>2, <2>3, <2>4, <2>5 DEF CallOK
<1> QED BY <1>0, <1>9, <1>10, <1>11, <1>12

LEMMA TimesSS ==
  ASSUME NEW c \in Nat, NEW a \in Nat, c <= a \div SS, c > 0
  PROVE  c * SS \in Nat /\ c * SS > 0 /\ c * SS <= a
<1> DEFINE q == a \div SS
<1>1. SS \in Nat \ {0}
  BY SizeFacts
<1>2. q \in Nat /\ a % SS \in 0..(SS - 1) /\ a = SS * q + (a % SS)
  BY <1>1, DivMod
<1>3. c <= q
  OBVIOUS
<1> HIDE DEF q
<1>4. SS * c <= SS * q /\ SS * c \in Nat /\ SS * q \in Nat /\ SS * c >= SS
  <2>1. SS * c \in Nat /\ SS * q \in Nat
    BY <1>1, <1>2
  <2>2. c < q => SS * c + SS <= SS * q
    BY <1>1, <1>2, LessProduct
  <2>3. SS * 0 + SS <= SS * c /\ SS * 0 = 0
    BY <1>1, LessProduct
  <2> QED BY <1>1, <1>2, <1>3, <2>1, <2>2, <2>3
<1>5. c * SS = SS * c
  BY <1>1
<1> QED BY <1>1, <1>2, <1>4, <1>5

\* where f_read is in the cluster
LEMMA CsectFacts ==
  ASSUME fs \in FsType, fil \in FilType
  PROVE  csect \in 0..(fs.csize - 1)
<1>1. fs.csize \in Nat \ {0} /\ SS \in Nat \ {0} /\ fil.fptr \in Nat
  BY FsFields, FilFields, SizeFacts
<1>2. fil.fptr \div SS \in Nat
  BY <1>1, DivMod
<1> QED BY <1>1, <1>2, DivMod DEF csect

LEMMA DataStep ==
  ASSUME IInv, NEW o \in Outcomes, NEW lost, Data(o, lost)
  PROVE  IInv'
<1> DEFINE first == clust2sect(fs, fil.clust)
<1> DEFINE sect == first + csect
<1> DEFINE cc == Clip(loc.todo \div SS)
<1>1. pc = "Data" /\ UNCHANGED <<slot, win, winsect, volume, dirp, op, more, call>>
  BY DEF Data
<1>2. \/ first = 0 /\ Abort("INT_ERR") /\ hist' = hist
      \/ /\ first # 0 /\ cc > 0 /\ Ask(sect, cc, o)
         /\ Abort("DISK_ERR") \/ \E b : Deliver(fil, cc * SS, b)
      \/ first # 0 /\ Part(fil) /\ hist' = hist
      \/ /\ first # 0 /\ Ask(sect, 1, o)
         /\ \/ Abort("DISK_ERR")
            \/ Part([fil EXCEPT !.dsect = sect, !.buf = IF o = "read" THEN <<card, sect>> ELSE @])
  <2> DEFINE b == [k \in 1..(cc * SS) |->
                     IF (k - 1) \div SS \in lost THEN <<0, 0, 0>>
                     ELSE <<card, sect + (k - 1) \div SS, (k - 1) % SS>>]
  <2>1. /\ CASE first = 0 -> o = "read" /\ Abort("INT_ERR") /\ UNCHANGED <<hist, out>>
             [] first # 0 /\ cc > 0 ->
                  /\ lost \subseteq 0..(cc - 1)
                  /\ ~ready /\ o = "missed" => lost = 0..(cc - 1)
                  /\ Ask(sect, cc, o)
                  /\ IF o = "error" THEN Abort("DISK_ERR") /\ UNCHANGED out
                     ELSE Deliver(fil, cc * SS, b)
             [] first # 0 /\ cc = 0 /\ fil.dsect = sect ->
                  o = "read" /\ Part(fil) /\ UNCHANGED hist
             [] OTHER ->
                  /\ Ask(sect, 1, o)
                  /\ IF o = "error" THEN Abort("DISK_ERR") /\ UNCHANGED out
                     ELSE Part([fil EXCEPT !.dsect = sect,
                                 !.buf = IF o = "read" THEN <<card, sect>> ELSE @])
    BY DEF Data
  <2> HIDE DEF first, sect, cc, b
  <2> QED BY <2>1
<1>3. OnFile /\ Reading
  BY <1>1, FileSteady DEF ReadSteps
<1>4. /\ fs \in FsType /\ Geometry(fs) /\ fs.fs_type # "" /\ fil \in FilType /\ loc \in LocType
  BY <1>1, Steady
<1>5. /\ fil.clust \in Nat /\ loc.todo \in Nat /\ fs.csize \in Nat \ {0} /\ fs.volbase \in Nat
      /\ fs.fatbase \in Nat /\ fs.database \in Nat
      /\ fs.volbase < fs.fatbase /\ fs.fatbase < fs.database
  BY <1>4, LocFields, FilFields, FsFields DEF Geometry
<1>6. csect \in 0..(fs.csize - 1)
  BY <1>4, CsectFacts
<1>7. /\ first \in Nat
      /\ first # 0 => fs.volbase <= first /\ first + fs.csize <= EndOf(fs)
  <2>1. /\ first \in Nat
        /\ first # 0 => fs.database <= first /\ first + fs.csize <= EndOf(fs)
    BY <1>4, <1>5, ClusterPlace
  <2> HIDE DEF first
  <2> QED BY <1>5, <2>1
<1>8. loc.steps <= 4 + 4 * (call.size - loc.todo)
  BY <1>1 DEF IInv, Counted
<1>9. EndOf(fs) \in Int
  BY <1>4, EndFacts
<1> DEFINE q == loc.todo \div SS
<1>10. q \in Nat /\ SS \in Nat \ {0}
  BY <1>5, SizeFacts, DivMod
<1>11. cc \in Nat /\ cc <= q /\ cc <= fs.csize - csect
  <2>1. cc = MinOf(q, fs.csize - csect)
    BY DEF Clip
  <2>2. fs.csize - csect \in Nat
    BY <1>5, <1>6
  <2> HIDE DEF cc, q
  <2> QED BY <1>10, <2>1, <2>2 DEF MinOf
<1>12. ASSUME CallOK', pc' \in {"Idle", "Read"}, hist' \in HistType PROVE IInv'
  <2>1. DiskOK'
    <3>1. fs' = fs /\ win' = win /\ winsect' = winsect
      BY <1>1 DEF volume
    <3> QED BY <1>1, <1>12, <3>1, DiskKept DEF IInv, DiskOK
  <2> QED BY <1>1, <1>12, <2>1, StepKept
<1>13. hist \in HistType
  BY DEF IInv, DiskOK
<1>14. CASE first = 0 /\ Abort("INT_ERR") /\ hist' = hist
  <2>1. "INT_ERR" \in Errors
    BY DEF Errors
  <2> QED BY <1>3, <1>12, <1>13, <1>14, <2>1, AbortOK
<1>15. ASSUME Abort("DISK_ERR"), hist' \in HistType PROVE IInv'
  <2>1. "DISK_ERR" \in Errors
    BY DEF Errors
  <2> QED BY <1>3, <1>12, <1>15, <2>1, AbortOK
<1>16. CASE /\ first # 0 /\ cc > 0 /\ Ask(sect, cc, o)
            /\ Abort("DISK_ERR") \/ \E b : Deliver(fil, cc * SS, b)
  <2>1. sect \in Nat /\ fs.volbase <= sect /\ sect + cc <= EndOf(fs)
    <3>1. csect \in Nat /\ csect + cc <= fs.csize
      BY <1>5, <1>6, <1>11
    <3> HIDE DEF first, cc
    <3> QED BY <1>5, <1>7, <1>9, <1>11, <1>16, <3>1
  <2> HIDE DEF first, sect, cc, q
  <2>2. hist' \in HistType
    BY <1>4, <1>11, <1>16, <2>1, AskOK DEF IInv
  <2>3. ASSUME NEW b, Deliver(fil, cc * SS, b) PROVE IInv'
    <3>1. cc * SS \in Nat /\ cc * SS > 0 /\ cc * SS <= loc.todo
      BY <1>5, <1>11, <1>16, TimesSS DEF q
    <3>2. CallOK' /\ pc' \in {"Idle", "Read"}
      BY <1>3, <1>4, <1>8, <2>3, <3>1, DeliverOK
    <3> QED BY <1>12, <2>2, <3>2
  <2> QED BY <1>15, <1>16, <2>2, <2>3
<1>17. CASE first # 0 /\ Part(fil) /\ hist' = hist
  BY <1>3, <1>4, <1>8, <1>12, <1>13, <1>17, PartOK
<1>18. CASE /\ first # 0 /\ Ask(sect, 1, o)
            /\ \/ Abort("DISK_ERR")
               \/ Part([fil EXCEPT !.dsect = sect,
                         !.buf = IF o = "read" THEN <<card, sect>> ELSE @])
  <2>1. sect \in Nat /\ fs.volbase <= sect /\ sect + 1 <= EndOf(fs)
    <3>1. csect \in Nat /\ csect + 1 <= fs.csize
      BY <1>5, <1>6
    <3> HIDE DEF first
    <3> QED BY <1>5, <1>7, <1>9, <1>18, <3>1
  <2> HIDE DEF first, sect
  <2>2. hist' \in HistType
    BY <1>4, <1>18, <2>1, AskOK DEF IInv
  <2> DEFINE f == [fil EXCEPT !.dsect = sect, !.buf = IF o = "read" THEN <<card, sect>> ELSE @]
  <2>3. f \in FilType /\ f.fptr = fil.fptr /\ f.fsize = fil.fsize
    <3>1. <<card, sect>> \in Buffers
      BY <2>1, SectorRead DEF IInv, DiskOK
    <3> QED BY <1>4, <2>1, <3>1 DEF FilType
  <2>4. ASSUME Part(f) PROVE IInv'
    <3> HIDE DEF f
    <3> QED BY <1>3, <1>8, <1>12, <2>2, <2>3, <2>4, PartOK
  <2> QED BY <1>15, <1>18, <2>2, <2>4
<1> QED BY <1>2, <1>14, <1>16, <1>17, <1>18

-----------------------------------------------------------------------------
(* Seeking *)

LEMMA BcsFacts ==
  ASSUME fs \in FsType
  PROVE  bcs \in Nat \ {0} /\ bcs = SS * fs.csize
<1>1. fs.csize \in Nat \ {0} /\ SS \in Nat \ {0}
  BY FsFields, SizeFacts
<1> DEFINE k == fs.csize
<1>2. k \in Nat \ {0} /\ SS \in Nat \ {0}
  BY <1>1
<1> HIDE DEF k
<1>3. k * SS \in Nat \ {0} /\ k * SS = SS * k
  BY <1>2
<1> QED BY <1>3 DEF bcs, k

\* f_lseek still has bytes to go, and the file has them
Seeking ==
  /\ OnFile /\ op = "lseek" /\ loc.todo > 0 /\ loc.todo <= call.pos
  /\ fil.fptr + loc.todo <= fil.fsize

LEMMA SeekClusterOK ==
  ASSUME fs \in FsType, Seeking, loc.todo > bcs, NEW v \in Nat, SeekCluster(v),
         loc.steps <= 3 + 3 * (call.pos - loc.todo)
  PROVE  CallOK' /\ pc' \in {"Idle", "Seek"}
<1>1. CASE v = Bad \/ ~InFat(v)
  <2>1. PICK r \in {"INT_ERR", "DISK_ERR"} : Abort(r)
    BY <1>1 DEF SeekCluster
  <2>2. r \in Errors
    BY DEF Errors
  <2> QED BY <2>1, <2>2, AbortOK DEF Seeking
<1>2. CASE ~(v = Bad \/ ~InFat(v))
  <2> DEFINE l == [loc EXCEPT !.todo = @ - bcs]
  <2>1. fil' = [fil EXCEPT !.clust = v, !.fptr = @ + bcs] /\ GoOn("Seek", l)
    BY <1>2 DEF SeekCluster
  <2>2. /\ loc \in LocType /\ fil \in FilType /\ OnFile /\ fil.fptr \in Nat /\ loc.todo \in Nat
        /\ loc.steps \in Nat /\ call.pos \in Nat /\ fil.fsize \in Nat
    BY LocFields, FilFields, CallFields DEF Seeking, OnFile, Typed
  <2>3. bcs \in Nat \ {0}
    BY BcsFacts
  <2>4. loc.todo - bcs \in Nat /\ loc.todo - bcs > 0
    BY <2>2, <2>3
  <2>5. l \in LocType /\ l.todo = loc.todo - bcs /\ l.steps = loc.steps
    BY <2>2, <2>4 DEF LocType
  <2> HIDE DEF l
  <2>6. /\ pc' = "Seek" /\ res' = res /\ loc' \in LocType
        /\ loc'.todo = loc.todo - bcs /\ loc'.steps = loc.steps + 1
    BY <2>1, <2>5, GoneOn
  <2>7. fil.fptr + bcs \in Nat
    BY <2>2, <2>3
  <2>8. fil' \in FilType /\ fil'.fptr = fil.fptr + bcs /\ fil'.fsize = fil.fsize
    BY <2>1, <2>2, <2>7 DEF FilType
  <2>9. fil'.fptr <= fil'.fsize /\ fil'.fptr + loc'.todo <= fil'.fsize
    BY <2>2, <2>3, <2>6, <2>8 DEF Seeking
  <2>10. Typed' /\ Directories'
    BY <2>2, <2>6, <2>8, <2>9, FileGoesOn DEF SeekSteps
  <2>11. op' = op /\ call' = call
    BY <2>2 DEF OnFile
  <2>12. Within'
    <3>1. loc'.todo > 0 /\ loc'.todo <= call'.pos
      BY <2>2, <2>3, <2>4, <2>6, <2>11 DEF Seeking
    <3>2. op' = "lseek"
      BY <2>11 DEF Seeking
    <3> QED BY <2>6, <2>9, <3>1, <3>2 DEF Within, ListSteps, ReadSteps
  <2>13. Counted'
    <3>1. loc.steps + 1 <= 1 + 3 * (call.pos - (loc.todo - bcs))
      BY <2>2, <2>3
    <3>2. loc'.steps <= 1 + 3 * (call'.pos - loc'.todo)
      BY <2>6, <2>11, <3>1
    <3> QED BY <2>6, <3>2 DEF Counted
  <2> QED BY <2>6, <2>10, <2>12, <2>13 DEF CallOK
<1> QED BY <1>1, <1>2

\* less than a cluster, and not whole sectors, ends in one of its sectors
LEMMA LastSector ==
  ASSUME fs \in FsType, NEW t \in Nat, t <= bcs, t % SS # 0
  PROVE  t \div SS \in Nat /\ t \div SS < fs.csize
<1>1. SS \in Nat \ {0} /\ fs.csize \in Nat \ {0} /\ bcs \in Nat /\ bcs = SS * fs.csize
  BY SizeFacts, FsFields, BcsFacts
<1> DEFINE k == fs.csize
<1>2. SS \in Nat \ {0} /\ k \in Nat /\ 0 \in 0..(SS - 1) /\ SS * k + 0 = SS * k
  BY <1>1
<1>3. bcs \in Nat /\ bcs = SS * k
  BY <1>1
<1> HIDE DEF k
<1>4. t # bcs
  <2>1. bcs = SS * k + 0 /\ k \in Int
    BY <1>2, <1>3
  <2>2. bcs % SS = 0
    BY <1>2, <1>3, <2>1, DivUnique
  <2> QED BY <2>2
<1>5. t < SS * k
  BY <1>3, <1>4
<1>6. t \div SS < k
  BY <1>2, <1>5, DivLess
<1>7. t \div SS \in Nat
  BY <1>2, DivMod
<1> QED BY <1>6, <1>7 DEF k

LEMMA SeekSteady ==
  ASSUME IInv, pc \in {"Seek", "FatSeek"}, UNCHANGED <<volume, dirp, op, call, more>>
  PROVE  /\ Seeking /\ fs \in FsType /\ fil \in FilType /\ loc \in LocType /\ call \in CallType
         /\ OnFile
<1>1. pc \in SeekSteps /\ pc \notin {"Idle", "Check"}
  BY DEF SeekSteps
<1>2. OnFile
  BY <1>1, FileSteady
<1>3. Seeking
  BY <1>1, <1>2 DEF IInv, Within, Seeking
<1> QED BY <1>1, <1>2, <1>3, Steady

LEMMA SeekStep ==
  ASSUME IInv, Seek
  PROVE  IInv'
<1> DEFINE there == [fil EXCEPT !.fptr = @ + loc.todo]
<1> DEFINE part == loc.todo % SS
<1> DEFINE first == clust2sect(fs, fil.clust)
<1>1. pc = "Seek" /\ UNCHANGED <<slot, disk, volume, dirp, op, out, more, call>>
  BY DEF Seek
<1>2. \/ loc.todo > bcs /\ Ask_fat(fil.clust, "FatSeek") /\ fil' = fil
      \/ fil' = [there EXCEPT !.err = "INT_ERR"] /\ Return("INT_ERR")
      \/ loc.todo <= bcs /\ part # 0 /\ first # 0 /\ fil' = there /\ GoOn("Fill", loc)
      \/ fil' = there /\ Return("OK")
  <2>1. /\ CASE loc.todo > bcs -> Ask_fat(fil.clust, "FatSeek") /\ UNCHANGED fil
             [] loc.todo <= bcs /\ part # 0 /\ first = 0 ->
                  fil' = [there EXCEPT !.err = "INT_ERR"] /\ Return("INT_ERR")
             [] loc.todo <= bcs /\ part # 0 /\ first # 0 /\ nsect # fil.dsect ->
                  fil' = there /\ GoOn("Fill", loc)
             [] OTHER -> fil' = there /\ Return("OK")
    BY DEF Seek
  <2> HIDE DEF there, part, first
  <2> QED BY <2>1
<1>3. /\ Seeking /\ fs \in FsType /\ fil \in FilType /\ loc \in LocType /\ call \in CallType
      /\ OnFile
  BY <1>1, SeekSteady
<1>4. /\ fil.fptr \in Nat /\ fil.fsize \in Nat /\ fil.clust \in Nat /\ loc.todo \in Nat
      /\ loc.steps \in Nat /\ call.pos \in Nat
  BY <1>3, LocFields, FilFields, CallFields
<1>5. /\ loc.todo > 0 /\ loc.todo <= call.pos /\ fil.fptr + loc.todo <= fil.fsize
      /\ op = "lseek" /\ loc.steps <= 1 + 3 * (call.pos - loc.todo)
  BY <1>1, <1>3 DEF Seeking, IInv, Counted
<1>6. op' = op /\ call' = call /\ fs' = fs
  BY <1>1 DEF volume
<1>7. DiskOK'
  BY <1>1, SameDisk
<1>8. ASSUME CallOK', pc' \in {"Idle", "Seek", "FatSeek", "Fill"} PROVE IInv'
  BY <1>1, <1>7, <1>8, StepKept
<1>9. /\ there \in FilType /\ there.fptr = fil.fptr + loc.todo /\ there.fsize = fil.fsize
      /\ there.clust = fil.clust /\ there.fptr <= there.fsize
  <2>1. fil.fptr + loc.todo \in Nat
    BY <1>4
  <2> QED BY <1>3, <1>5, <2>1 DEF FilType
<1> HIDE DEF there
<1>10. CASE loc.todo > bcs /\ Ask_fat(fil.clust, "FatSeek") /\ fil' = fil
  <2>1. /\ pc' = "FatSeek" /\ res' = res /\ loc' \in LocType /\ loc'.lo = Zeros
        /\ loc'.todo = loc.todo /\ loc'.steps = loc.steps + 1
    BY <1>3, <1>4, <1>10, AskedFat
  <2>2. fil'.fptr <= fil'.fsize
    BY <1>10 DEF IInv, Typed
  <2>3. Typed' /\ Directories'
    BY <1>3, <1>10, <2>1, <2>2, FileGoesOn DEF SeekSteps
  <2>4. bcs' = bcs
    BY <1>6 DEF bcs
  <2>5. Within'
    BY <1>5, <1>6, <1>10, <2>1, <2>4 DEF Within, ListSteps, ReadSteps
  <2>6. Counted'
    <3>1. Second' = 0
      BY <2>1 DEF Second
    <3>2. loc.steps + 1 <= 2 + 3 * (call.pos - loc.todo) + 0
      BY <1>4, <1>5
    <3> QED BY <1>6, <2>1, <3>1, <3>2 DEF Counted
  <2> QED BY <1>8, <2>1, <2>3, <2>5, <2>6 DEF CallOK
<1>11. CASE fil' = [there EXCEPT !.err = "INT_ERR"] /\ Return("INT_ERR")
  <2>1. "INT_ERR" \in Errors
    BY DEF Errors
  <2>2. fil' \in FilType /\ fil'.fptr = there.fptr /\ fil'.fsize = there.fsize
    BY <1>9, <1>11, <2>1 DEF FilType
  <2> QED BY <1>3, <1>8, <1>9, <1>11, <2>1, <2>2, FileReturned
<1>12. CASE loc.todo <= bcs /\ part # 0 /\ first # 0 /\ fil' = there /\ GoOn("Fill", loc)
  <2>1. /\ pc' = "Fill" /\ res' = res /\ loc' \in LocType
        /\ loc'.todo = loc.todo /\ loc'.steps = loc.steps + 1
    BY <1>3, <1>12, GoneOn
  <2>2. fil' \in FilType /\ fil'.fptr <= fil'.fsize
    BY <1>9, <1>12
  <2>3. Typed' /\ Directories'
    BY <1>3, <2>1, <2>2, FileGoesOn DEF SeekSteps
  <2>4. loc.todo \div SS < fs.csize
    BY <1>3, <1>4, <1>12, LastSector
  <2>5. clust2sect(fs', fil'.clust) # 0
    BY <1>6, <1>9, <1>12
  <2>6. Within'
    <3>1. loc'.todo \div SS < fs'.csize
      BY <1>6, <2>1, <2>4
    <3> QED BY <1>5, <1>6, <2>1, <2>5, <3>1 DEF Within, ListSteps, ReadSteps, clust2sect
  <2>7. Counted'
    <3>1. loc.steps + 1 <= 2 + 3 * call.pos
      BY <1>4, <1>5
    <3> QED BY <1>6, <2>1, <3>1 DEF Counted
  <2> QED BY <1>8, <2>1, <2>3, <2>6, <2>7 DEF CallOK
<1>13. CASE fil' = there /\ Return("OK")
  <2>1. "OK" \in Errors
    BY DEF Errors
  <2> QED BY <1>3, <1>8, <1>9, <1>13, <2>1, FileReturned
<1> QED BY <1>2, <1>10, <1>11, <1>12, <1>13

LEMMA FillStep ==
  ASSUME IInv, NEW o \in Outcomes, Fill(o)
  PROVE  IInv'
<1>1. /\ pc = "Fill" /\ Ask(nsect, 1, o)
      /\ UNCHANGED <<slot, win, winsect, volume, dirp, op, out, more, call>>
  BY DEF Fill
<1>2. OnFile
  BY <1>1, FileSteady DEF SeekSteps
<1>3. /\ fs \in FsType /\ Geometry(fs) /\ fs.fs_type # "" /\ fil \in FilType /\ loc \in LocType
  BY <1>1, Steady
<1> DEFINE first == clust2sect(fs, fil.clust)
<1> DEFINE i == loc.todo \div SS
<1>4. first # 0 /\ i < fs.csize
  BY <1>1 DEF IInv, Within
<1>5. /\ fil.clust \in Nat /\ loc.todo \in Nat /\ fs.csize \in Nat \ {0} /\ fs.volbase \in Nat
      /\ fs.database \in Nat /\ fs.fatbase \in Nat
      /\ fs.volbase < fs.fatbase /\ fs.fatbase < fs.database
  BY <1>3, LocFields, FilFields, FsFields DEF Geometry
<1>6. i \in Nat
  BY <1>5, SizeFacts, DivMod
<1>7. first \in Nat /\ fs.database <= first /\ first + fs.csize <= EndOf(fs)
  BY <1>3, <1>4, <1>5, ClusterPlace
<1>8. nsect = first + i /\ EndOf(fs) \in Int
  BY <1>3, EndFacts DEF nsect
<1> HIDE DEF first, i
<1>9. nsect \in Nat /\ fs.volbase <= nsect /\ nsect + 1 <= EndOf(fs)
  BY <1>4, <1>5, <1>6, <1>7, <1>8
<1>10. hist' \in HistType
  BY <1>1, <1>3, <1>9, AskOK DEF IInv
<1>11. DiskOK'
  <2>1. fs' = fs /\ win' = win /\ winsect' = winsect
    BY <1>1 DEF volume
  <2> QED BY <1>1, <1>10, <2>1, DiskKept DEF IInv, DiskOK
<1>12. ASSUME CallOK', pc' = "Idle" PROVE IInv'
  BY <1>1, <1>11, <1>12, StepKept
<1>13. CASE o = "error"
  <2>1. Abort("DISK_ERR") /\ "DISK_ERR" \in Errors
    BY <1>13 DEF Fill, Errors
  <2> QED BY <1>2, <1>12, <2>1, AbortOK
<1>14. CASE o # "error"
  <2>1. /\ fil' = [fil EXCEPT !.dsect = nsect, !.buf = IF o = "read" THEN <<card, nsect>> ELSE @]
        /\ Return("OK")
    BY <1>14 DEF Fill
  <2>2. <<card, nsect>> \in Buffers /\ "OK" \in Errors
    BY <1>9, SectorRead DEF IInv, DiskOK, Errors
  <2> HIDE DEF IInv
  <2>3. fil' \in FilType /\ fil'.fptr = fil.fptr /\ fil'.fsize = fil.fsize
    BY <1>3, <1>9, <2>1, <2>2 DEF FilType
  <2>4. fil'.fptr <= fil'.fsize
    BY <2>3 DEF IInv, Typed
  <2> QED BY <1>2, <1>12, <2>1, <2>2, <2>3, <2>4, FileReturned
<1> QED BY <1>13, <1>14

-----------------------------------------------------------------------------
(* get_fat *)

LEMMA OneLess ==
  ASSUME NEW s \in Nat, NEW b \in Int, s <= b + 0
  PROVE  s + 1 <= b + 1
OBVIOUS

LEMMA Bounds ==
  ASSUME NEW p \in Int, NEW i \in Nat
  PROVE  8 + p + 3 * i \in Int /\ 2 + 3 * i \in Int /\ 2 + 4 * (p - i) \in Int
         /\ 2 + 3 * (p - i) \in Int
OBVIOUS

\* FAT12: the entry may lie in two sectors; the second one is still to be read.
LEMMA SecondOK ==
  ASSUME IInv, pc \in FatCallers, loc.lo = Zeros, win' \in Buffers, win' # Zeros,
         GoOn(pc, [loc EXCEPT !.lo = win']),
         UNCHANGED <<volume, fil, dirp, op, call, more>>
  PROVE  CallOK' /\ pc' = pc
<1> DEFINE l == [loc EXCEPT !.lo = win']
<1>1. /\ loc \in LocType /\ dirp \in DirType /\ fil \in FilType /\ call \in CallType
      /\ fs' = fs /\ Fsid' = Fsid /\ dirp.id <= Fsid
  BY Steady DEF FatCallers, volume
<1>2. /\ l \in LocType /\ l.lo = win' /\ l.path = loc.path /\ l.dj = loc.dj
      /\ l.todo = loc.todo /\ l.steps = loc.steps
  BY <1>1 DEF LocType
<1>3. GoOn(pc, l)
  OBVIOUS
<1> HIDE DEF l
<1>4. /\ pc' = pc /\ res' = res /\ loc' \in LocType /\ loc'.lo = win' /\ loc'.path = loc.path
      /\ loc'.dj = loc.dj /\ loc'.todo = loc.todo /\ loc'.steps = loc.steps + 1
  BY <1>2, <1>3, GoneOn
<1>5. Typed'
  BY <1>4 DEF IInv, Typed
<1>6. Names' = Names /\ bcs' = bcs
  BY <1>1 DEF Names, bcs
<1>7. Within'
  BY <1>4, <1>6 DEF IInv, Within, FatCallers
<1>8. Directories'
  <2>1. pc = "FatFind" => NeedsFat(loc.dj)'
    BY <1>1, <1>4 DEF IInv, Directories, NeedsFat, AtLimit, SectorEnds, NextIndex
  <2>2. pc \in {"FatSkip", "FatNext"} => NeedsFat(dirp)'
    BY <1>1, <1>4 DEF IInv, Directories, NeedsFat, AtLimit, SectorEnds, NextIndex
  <2>3. pc \in ReadSteps \cup SeekSteps =>
          (more /\ Valid(dirp) /\ dirp.sect # 0 => At(fs, dirp))'
    BY <1>1, <1>4 DEF IInv, Directories, Valid, At, clust2sect
  <2>4. pc \in OpenSteps /\ op = "open" => ~dirp.open
    BY DEF IInv, Directories
  <2>5. pc' \notin {"Idle", "Find", "Entry"}
    BY <1>4 DEF FatCallers
  <2> QED BY <1>1, <1>4, <2>1, <2>2, <2>3, <2>4, <2>5 DEF Directories
<1>9. Counted'
  <2>1. Second = 0 /\ Second' = 1 /\ PathDone' = PathDone
    BY <1>4, <1>6 DEF Second, PathDone
  <2>2. loc.steps \in Nat /\ loc.dj.index \in Nat /\ dirp.index \in Nat /\ loc.todo \in Nat
    BY <1>1, LocFields, DirFields
  <2>3. call.size \in Int /\ call.pos \in Int
    BY <1>1, CallFields
  <2>4. PathDone \in Int
    BY PathDoneType DEF IInv
  <2>5. /\ 8 + PathDone + 3 * loc.dj.index \in Int /\ 2 + 3 * dirp.index \in Int
        /\ 2 + 4 * (call.size - loc.todo) \in Int /\ 2 + 3 * (call.pos - loc.todo) \in Int
    BY <2>2, <2>3, <2>4, Bounds
  <2>6. CASE pc = "FatFind"
    <3>1. loc.steps <= 8 + PathDone + 3 * loc.dj.index + 0
      BY <2>1, <2>6 DEF IInv, Counted
    <3>2. loc.steps + 1 <= 8 + PathDone + 3 * loc.dj.index + 1
      BY <2>2, <2>5, <3>1, OneLess
    <3> QED BY <1>4, <2>1, <2>6, <3>2 DEF Counted
  <2>7. CASE pc \in {"FatSkip", "FatNext"}
    <3>1. loc.steps <= 2 + 3 * dirp.index + 0
      BY <2>1, <2>7 DEF IInv, Counted
    <3>2. loc.steps + 1 <= 2 + 3 * dirp.index + 1
      BY <2>2, <2>5, <3>1, OneLess
    <3> QED BY <1>4, <2>1, <2>7, <3>2 DEF Counted
  <2>8. CASE pc = "FatRead"
    <3>1. loc.steps <= 2 + 4 * (call.size - loc.todo) + 0
      BY <2>1, <2>8 DEF IInv, Counted
    <3>2. loc.steps + 1 <= 2 + 4 * (call.size - loc.todo) + 1
      BY <2>2, <2>5, <3>1, OneLess
    <3> QED BY <1>4, <2>1, <2>8, <3>2 DEF Counted
  <2>9. CASE pc = "FatSeek"
    <3>1. loc.steps <= 2 + 3 * (call.pos - loc.todo) + 0
      BY <2>1, <2>9 DEF IInv, Counted
    <3>2. loc.steps + 1 <= 2 + 3 * (call.pos - loc.todo) + 1
      BY <2>2, <2>5, <3>1, OneLess
    <3> QED BY <1>4, <2>1, <2>9, <3>2 DEF Counted
  <2> QED BY <2>6, <2>7, <2>8, <2>9 DEF FatCallers
<1> QED BY <1>4, <1>5, <1>7, <1>8, <1>9 DEF CallOK

LEMMA SecondType ==
  Second \in {0, 1}
BY DEF Second

\* The caller of get_fat goes on well, whatever the value.
LEMMA GotFatOK ==
  ASSUME IInv, pc \in FatCallers, NEW v \in Nat, GotFat(v),
         UNCHANGED <<volume, op, call>>
  PROVE  CallOK' /\ pc' \notin {"Check", "Info"}
<1>1. /\ fs \in FsType /\ Geometry(fs) /\ loc \in LocType /\ dirp \in DirType
      /\ fil \in FilType /\ call \in CallType /\ dirp.id <= Fsid
  BY Steady DEF FatCallers
<1>2. loc.steps \in Nat /\ loc.dj \in DirType /\ loc.todo \in Nat /\ loc.dj.index \in Nat
      /\ dirp.index \in Nat /\ call.size \in Nat /\ call.pos \in Nat
  BY <1>1, LocFields, DirFields, CallFields
<1>3. {"OK", "NO_FILE", "INT_ERR", "DISK_ERR"} \subseteq Errors
  BY DEF Errors
<1>4. CASE pc = "FatFind"
  <2> DEFINE n == dir_next_fat(loc.dj, v)
  <2>1. Searched(n) /\ more' = more
    BY <1>4 DEF GotFat
  <2>2. NeedsFat(loc.dj) /\ loc.path # <<>> /\ Len(loc.path) <= Len(Names)
        /\ loc.steps <= 8 + PathDone + 3 * loc.dj.index + Second
    BY <1>4 DEF IInv, Directories, Within, Counted
  <2>3. /\ n.d \in DirType /\ n.res \in {"OK", "NO_FILE", "INT_ERR", "DISK_ERR"}
        /\ n.res = "OK" => At(fs, n.d) /\ n.d.index = loc.dj.index + 1
    BY <1>1, <1>2, <2>2, NextFatOK
  <2> HIDE DEF n
  <2>4. Looking
    <3>1. PathDone \in Int
      BY PathDoneType DEF IInv
    <3>2. loc.steps <= 9 + PathDone + 3 * loc.dj.index
      <4> DEFINE i == loc.dj.index
      <4>1. i \in Nat /\ loc.steps <= 8 + PathDone + 3 * i + Second
        BY <1>2, <2>2
      <4> HIDE DEF i
      <4>2. loc.steps <= 9 + PathDone + 3 * i
        BY <1>2, <3>1, <4>1, SecondType
      <4> QED BY <4>2 DEF i
    <3> QED BY <2>2, <3>2 DEF Looking
  <2>5. Opening(fs)
    BY <1>4, <2>1, SearchSteady
  <2>6. Opened'
    BY <1>3, <2>1, <2>3, <2>4, <2>5, SearchedOK
  <2> QED BY <2>6 DEF Opened
<1>5. CASE pc \in {"FatSkip", "FatNext"}
  <2> DEFINE n == dir_next_fat(dirp, v)
  <2>1. /\ fil' = fil
        /\ pc = "FatSkip" => Skipped(n)
        /\ pc = "FatNext" => Stepped(n)
    BY <1>5 DEF GotFat
  <2>2. NeedsFat(dirp) /\ loc.steps <= 2 + 3 * dirp.index + Second /\ op = "readdir"
    BY <1>5 DEF IInv, Directories, Within, Counted, ListSteps
  <2>3. /\ n.d \in DirType /\ n.res \in {"OK", "NO_FILE", "INT_ERR", "DISK_ERR"}
        /\ n.d.id = dirp.id
        /\ n.res = "OK" => At(fs, n.d) /\ n.d.index = dirp.index + 1
    BY <1>1, <2>2, NextFatOK
  <2> HIDE DEF n
  <2>4. OnList
    BY <1>1, <2>1, <2>2 DEF OnList, IInv
  <2>5. loc.steps <= 3 + 3 * dirp.index
    BY <1>2, <2>2, SecondType
  <2>6. CASE pc = "FatSkip"
    <3>1. CallOK' /\ pc' \in {"Idle", "Entry"}
      BY <1>3, <2>1, <2>3, <2>4, <2>5, <2>6, SkippedOK
    <3> QED BY <3>1
  <2>7. CASE pc = "FatNext"
    <3>1. CallOK' /\ pc' = "Idle"
      BY <1>3, <2>1, <2>3, <2>4, <2>7, SteppedOK
    <3> QED BY <3>1
  <2> QED BY <1>5, <2>6, <2>7
<1>6. CASE pc = "FatRead"
  <2>1. ReadCluster(v) /\ UNCHANGED <<dirp, more>>
    BY <1>6 DEF GotFat
  <2>2. Reading
    BY <1>6, <2>1, FileSteady DEF ReadSteps
  <2>3. loc.steps <= 2 + 4 * (call.size - loc.todo) + Second
    BY <1>6 DEF IInv, Counted
  <2>4. loc.steps <= 3 + 4 * (call.size - loc.todo)
    BY <1>2, <2>3, SecondType
  <2>5. CallOK' /\ pc' \in {"Idle", "Data"}
    BY <2>1, <2>2, <2>4, ReadClusterOK
  <2> QED BY <2>5
<1>7. CASE pc = "FatSeek"
  <2>1. SeekCluster(v) /\ UNCHANGED <<dirp, more>>
    BY <1>7 DEF GotFat
  <2>2. Seeking
    BY <1>7, <2>1, SeekSteady
  <2>3. loc.steps <= 2 + 3 * (call.pos - loc.todo) + Second /\ loc.todo > bcs
    BY <1>7 DEF IInv, Counted, Within
  <2>4. loc.steps <= 3 + 3 * (call.pos - loc.todo)
    BY <1>2, <2>3, SecondType
  <2>5. CallOK' /\ pc' \in {"Idle", "Seek"}
    BY <1>1, <2>1, <2>2, <2>3, <2>4, SeekClusterOK
  <2> QED BY <2>5
<1> QED BY <1>4, <1>5, <1>6, <1>7 DEF FatCallers

LEMMA GetFatStep ==
  ASSUME IInv, NEW o \in Outcomes, GetFat(o)
  PROVE  IInv'
<1> DEFINE c == loc.clst
<1> DEFINE i == IF loc.lo # Zeros THEN 1 ELSE 0
<1>1. pc \in FatCallers /\ UNCHANGED <<slot, volume, op, out, call>>
  BY DEF GetFat
<1>2. /\ fs \in FsType /\ Geometry(fs) /\ fs.fs_type # "" /\ loc \in LocType
      /\ pc \notin {"Idle", "Check", "Info"}
  BY <1>1, Steady DEF FatCallers
<1>3. /\ win \in Buffers /\ win # Zeros /\ winsect \in Nat \cup {NoSector} /\ hist \in HistType
  BY <1>2 DEF IInv, DiskOK
<1>4. /\ ~InFat(c) => UNCHANGED disk
      /\ InFat(c) => MoveWindow(FatAt(c, i), o)
  BY DEF GetFat
<1>5. /\ win' \in Buffers /\ win' # Zeros /\ winsect' \in Nat \cup {NoSector}
      /\ hist' \in HistType
  <2>1. CASE ~InFat(c)
    BY <1>3, <1>4, <2>1 DEF disk
  <2>2. CASE InFat(c)
    <3>1. c \in 2..(fs.n_fatent - 1) /\ i \in 0..1
      BY <2>2 DEF InFat
    <3> HIDE DEF c, i
    <3>2. /\ FatAt(c, i) \in Nat /\ fs.volbase <= FatAt(c, i)
          /\ FatAt(c, i) + 1 <= EndOf(fs)
      BY <1>2, <3>1, FatInside
    <3>3. MoveWindow(FatAt(c, i), o)
      BY <1>4, <2>2
    <3> QED BY <1>2, <1>3, <3>2, <3>3, MoveWindowOK DEF IInv
  <2> QED BY <2>1, <2>2
<1>6. DiskOK'
  <2>1. fs' = fs
    BY <1>1 DEF volume
  <2> QED BY <1>1, <1>5, <2>1, DiskKept DEF IInv
<1>7. \/ \E v \in Nat : GotFat(v)
      \/ /\ loc.lo = Zeros /\ GoOn(pc, [loc EXCEPT !.lo = win'])
         /\ UNCHANGED <<fil, dirp, more>>
  <2>1. 1 \in Nat /\ Bad \in Nat
    BY FormatAssumption
  <2>2. \/ GotFat(1) \/ GotFat(Bad)
        \/ /\ loc.lo = Zeros /\ GoOn(pc, [loc EXCEPT !.lo = win'])
           /\ UNCHANGED <<fil, dirp, more>>
        \/ \E v \in FatValues(IF loc.lo # Zeros THEN loc.lo ELSE win', win', c) : GotFat(v)
    BY DEF GetFat
  <2> QED BY <1>5, <2>1, <2>2, FatFacts
<1>8. ASSUME CallOK', pc' \notin {"Check", "Info"} PROVE IInv'
  BY <1>1, <1>2, <1>6, <1>8, StepKept
<1>9. CASE \E v \in Nat : GotFat(v)
  BY <1>1, <1>8, <1>9, GotFatOK
<1>10. CASE /\ loc.lo = Zeros /\ GoOn(pc, [loc EXCEPT !.lo = win'])
            /\ UNCHANGED <<fil, dirp, more>>
  BY <1>1, <1>2, <1>5, <1>8, <1>10, SecondOK
<1> QED BY <1>7, <1>9, <1>10

-----------------------------------------------------------------------------
(* Mounting *)

\* what find_volume relies on
Finding ==
  /\ Typed /\ Fsid \in Nat /\ dirp.id <= Fsid
  /\ op \in {"mount", "open", "opendir"} /\ op' = op /\ call' = call /\ more' = more
  /\ op = "open" => ~dirp.open

LEMMA NextId ==
  ASSUME NEW n \in Nat, NEW i \in Nat, i <= n
  PROVE  n + 1 \in Nat /\ i <= n + 1 /\ i # n + 1
OBVIOUS

LEMMA FoundOK ==
  ASSUME Finding, Fsid' = Fsid + 1, NEW f \in FsType, Geometry(f), f.fs_type # "", fs' = f,
         f.id = Fsid', loc.path = Names, loc.steps <= 6, Found(f)
  PROVE  Opened'
<1>0. Fsid' \in Nat /\ dirp.id <= Fsid' /\ dirp.id # Fsid'
  <2>1. Fsid \in Nat /\ dirp.id \in Nat /\ dirp.id <= Fsid
    BY DirFields DEF Finding, Typed
  <2>2. Fsid + 1 \in Nat /\ dirp.id <= Fsid + 1 /\ dirp.id # Fsid + 1
    BY <2>1, NextId
  <2> QED BY <2>2
<1>1. CASE op = "mount"
  <2>1. Return("OK") /\ fil' = fil /\ dirp' = dirp /\ "OK" \in Errors
    BY <1>1 DEF Found, Errors
  <2>2. /\ fil' \in FilType /\ fil'.fptr <= fil'.fsize /\ dirp' \in DirType /\ call' \in CallType
        /\ op' \in Ops /\ more' \in BOOLEAN
    BY <2>1 DEF Finding, Typed
  <2>3. dirp'.id <= Fsid' /\ fs'.id # dirp'.id
    BY <1>0, <2>1
  <2> QED BY <2>1, <2>2, <2>3, Returned DEF Opened
<1>2. CASE op # "mount"
  <2>1. Opening(f)
    BY <1>0, <1>2 DEF Finding, Opening
  <2>2. FollowPath(f)
    BY <1>2 DEF Found
  <2> QED BY <2>1, <2>2, FollowPathOK
<1> QED BY <1>1, <1>2

LEMMA NotFoundOK ==
  ASSUME Finding, fs \in FsType, NEW r \in Errors, NotFound(r)
  PROVE  Opened' /\ fs' \in FsType /\ fs'.fs_type = "" /\ Fsid' = Fsid
<1>1. fs' = [fs EXCEPT !.fs_type = ""] /\ Fsid' = Fsid
  BY DEF NotFound
<1>2. fs' \in FsType /\ fs'.fs_type = ""
  BY <1>1 DEF FsType
<1>3. Fsid' \in Nat /\ dirp.id <= Fsid'
  BY <1>1 DEF Finding
<1>4. CASE op = "mount"
  <2>1. Return(r) /\ fil' = fil /\ dirp' = dirp
    BY <1>4 DEF NotFound
  <2>2. /\ fil' \in FilType /\ fil'.fptr <= fil'.fsize /\ dirp' \in DirType /\ call' \in CallType
        /\ op' \in Ops /\ more' \in BOOLEAN /\ dirp'.id <= Fsid'
    BY <1>3, <2>1 DEF Finding, Typed
  <2>3. Opened'
    BY <1>2, <2>1, <2>2, Returned DEF Opened
  <2> QED BY <1>1, <1>2, <2>3
<1>5. CASE op # "mount"
  <2>1. NotOpened(r) /\ op \in {"open", "opendir"}
    BY <1>5 DEF NotFound, Finding
  <2>2. Opened'
    BY <1>3, <2>1, NotOpenedOK DEF Finding
  <2> QED BY <1>1, <1>2, <2>2
<1> QED BY <1>4, <1>5

LEMMA FindingSteady ==
  ASSUME IInv, pc \in {"Check", "Info"}, UNCHANGED <<op, call, more>>
  PROVE  /\ Finding /\ fs \in FsType /\ loc \in LocType /\ loc.path = Names
         /\ loc.steps \in Nat /\ Fsid < MaxMounts /\ Fsid \in Nat /\ reg = TRUE
<1>1. Fsid \in Nat
  <2>1. Fsid \in 0..MaxMounts
    BY DEF IInv, VolumeOK
  <2> QED BY <2>1, SizeFacts
<1>2. /\ op \in {"mount", "open", "opendir"} /\ loc.path = Names
      /\ (op = "open" => ~dirp.open) /\ dirp.id <= Fsid /\ Fsid < MaxMounts /\ fs \in FsType
      /\ reg \in BOOLEAN /\ reg
  BY DEF IInv, Within, Directories, VolumeOK, OpenSteps
<1>3. Finding /\ loc \in LocType
  BY <1>1, <1>2 DEF Finding, IInv, Typed
<1> QED BY <1>1, <1>2, <1>3, LocFields

\* the volume after a step of find_volume
LEMMA VolumeFound ==
  ASSUME reg \in BOOLEAN, reg' = reg, Opened', fs' \in FsType, Fsid' \in 0..MaxMounts,
         fs'.fs_type = "" \/ (reg /\ Geometry(fs') /\ fs'.id = Fsid'),
         pc' = "Find" => fs'.fs_type # ""
  PROVE  VolumeOK'
BY DEF Opened, VolumeOK, Geometry, FatByte

LEMMA LeastOf ==
  ASSUME NEW P \in SUBSET (1..4), P # {}
  PROVE  (CHOOSE p \in P : \A q \in P : p <= q) \in P
<1>1. \E p \in P : \A q \in P : p <= q
  <2>1. P \subseteq {1, 2, 3, 4}
    OBVIOUS
  <2>2. CASE 1 \in P
    BY <2>1, <2>2
  <2>3. CASE 1 \notin P /\ 2 \in P
    BY <2>1, <2>3
  <2>4. CASE 1 \notin P /\ 2 \notin P /\ 3 \in P
    BY <2>1, <2>4
  <2>5. CASE 1 \notin P /\ 2 \notin P /\ 3 \notin P
    <3>1. P = {4}
      BY <2>1, <2>5
    <3> QED BY <3>1
  <2> QED BY <2>2, <2>3, <2>4, <2>5
<1> QED BY <1>1

LEMMA LaterPart ==
  ASSUME NEW p \in 0..4, NEW n \in (p + 1)..4
  PROVE  n \in 0..4 /\ n \in 1..4 /\ \A s \in Nat : s <= 1 + p => s <= n
OBVIOUS

LEMMA APart ==
  ASSUME NEW p \in 0..4, p # 0
  PROVE  p \in 1..4
OBVIOUS

LEMMA FewSteps ==
  ASSUME NEW p \in 0..4, NEW s \in Nat, s <= 1 + p
  PROVE  s <= 5 /\ s <= 6
OBVIOUS

\* find_volume goes on: another partition is tried, or FSInfo is read
LEMMA FindingGoesOn ==
  ASSUME Finding, NEW l \in LocType, l.path = Names, NEW p \in {"Check", "Info"}, GoOn(p, l),
         UNCHANGED <<fil, dirp, Fsid>>,
         p = "Check" => l.steps <= l.part, p = "Info" => l.steps <= 5
  PROVE  CallOK' /\ pc' = p
<1>1. /\ pc' = p /\ res' = res /\ loc' \in LocType /\ loc'.path = Names
      /\ loc'.part = l.part /\ loc'.steps = l.steps + 1 /\ l.steps \in Nat /\ l.part \in 0..4
  BY GoneOn, LocFields
<1>2. Typed'
  BY <1>1 DEF Finding, Typed, OpenSteps
<1>3. Names' = Names
  BY DEF Finding, Names
<1>4. Within'
  BY <1>1, <1>3 DEF Finding, Within, ListSteps, ReadSteps, SeekSteps
<1>5. Directories'
  BY <1>1 DEF Finding, Directories, ReadSteps, SeekSteps
<1>6. Counted'
  <2>1. p = "Check" => loc'.steps <= 1 + loc'.part
    BY <1>1
  <2>2. p = "Info" => loc'.steps <= 6
    BY <1>1
  <2> QED BY <1>1, <2>1, <2>2 DEF Counted
<1> QED BY <1>1, <1>2, <1>4, <1>5, <1>6 DEF CallOK

LEMMA CheckFsStep ==
  ASSUME IInv, NEW o \in Outcomes, CheckFs(o)
  PROVE  IInv'
<1> DEFINE part == loc.part
<1> DEFINE sector == IF part = 0 THEN 0 ELSE loc.br[part]
<1> DEFINE fmt == IF o = "error" THEN 3 ELSE BootKind(win')
<1> DEFINE br == IF part = 0 THEN PartsIn(win') ELSE loc.br
<1> DEFINE later == {p \in (part + 1)..4 : br[p] # 0}
<1> DEFINE b == Cards[win'[1]].bpb
<1> DEFINE next == CHOOSE p \in later : \A q \in later : p <= q
<1> DEFINE l == [loc EXCEPT !.br = br, !.part = next]
<1>1. /\ pc = "Check" /\ UNCHANGED <<slot, reg, op, out, more, call>>
      /\ Ask(sector, 1, o)
      /\ win' = IF o = "read" THEN <<card, sector>> ELSE win
      /\ winsect' = IF o = "error" THEN NoSector ELSE sector
  BY DEF CheckFs, Invalid
<1>2. \/ fmt = 0 /\ Mounted(b, sector)
      \/ /\ part > 0 \/ fmt = 1
         /\ later # {} /\ GoOn("Check", l) /\ UNCHANGED <<fs, Fsid, fil, dirp>>
      \/ \E r \in {"DISK_ERR", "NO_FILESYSTEM"} : NotFound(r)
  <2>1. /\ CASE fmt = 0 -> Mounted(b, sector)
             [] fmt # 0 /\ (part > 0 \/ fmt = 1) /\ later # {} ->
                  GoOn("Check", l) /\ UNCHANGED <<fs, Fsid, fil, dirp>>
             [] OTHER -> NotFound(IF fmt = 3 /\ part \in {0, 4} THEN "DISK_ERR"
                                  ELSE "NO_FILESYSTEM")
    BY DEF CheckFs
  <2> HIDE DEF fmt, b, sector, part, later, l
  <2> QED BY <2>1
<1>3. /\ Finding /\ fs \in FsType /\ loc \in LocType /\ loc.path = Names
      /\ loc.steps \in Nat /\ Fsid < MaxMounts /\ Fsid \in Nat /\ reg = TRUE
  BY <1>1, FindingSteady
<1>4. fs.fs_type = "" /\ loc.steps <= 1 + part /\ part \in 0..4 /\ loc.br \in [1..4 -> Nat]
  BY <1>1, <1>3, LocFields DEF IInv, VolumeOK, Counted
<1>5. sector \in Nat
  <2> HIDE DEF part
  <2>1. CASE part = 0
    BY <2>1
  <2>2. CASE part # 0
    <3>1. part \in 1..4
      BY <1>4, <2>2, APart
    <3>2. loc.br[part] \in Nat
      BY <1>4, <3>1
    <3> QED BY <2>2, <3>2
  <2> QED BY <2>1, <2>2
<1>6. /\ win' \in Buffers /\ winsect' \in Nat \cup {NoSector} /\ hist' \in HistType
  <2> HIDE DEF sector
  <2>1. hist' \in HistType
    BY <1>1, <1>3, <1>4, <1>5, AskOK DEF IInv
  <2>2. <<card, sector>> \in Buffers
    BY <1>5, SectorRead DEF IInv, DiskOK
  <2> QED BY <1>1, <1>5, <2>1, <2>2 DEF IInv, DiskOK
<1>7. ASSUME fs'.fs_type # "" => win' # Zeros PROVE DiskOK'
  BY <1>1, <1>6, <1>7, DiskKept DEF IInv
<1>8. fmt \in {0, 1} => win' # Zeros /\ b \in BootRecord /\ PartsIn(win') \in [1..4 -> Nat]
  <2>1. fmt \in {0, 1} => BootKind(win') \in {0, 1}
    OBVIOUS
  <2> QED BY <1>6, <2>1, BootFacts
<1>9. reg' = TRUE /\ Fsid \in 0..MaxMounts /\ Fsid + 1 \in 0..MaxMounts
  <2>1. MaxMounts \in Nat
    BY SizeFacts
  <2> QED BY <1>1, <1>3, <2>1
<1>10. ASSUME NEW r \in {"DISK_ERR", "NO_FILESYSTEM"}, NotFound(r) PROVE IInv'
  <2>1. r \in Errors
    BY DEF Errors
  <2>2. Opened' /\ fs' \in FsType /\ fs'.fs_type = "" /\ Fsid' = Fsid
    BY <1>3, <1>10, <2>1, NotFoundOK
  <2>3. DiskOK'
    BY <1>7, <2>2
  <2>4. VolumeOK'
    <3>1. pc' # "Find"
      BY <1>10 DEF NotFound, NotOpened, Return
    <3> QED BY <1>3, <1>9, <2>2, <3>1, VolumeFound
  <2> QED BY <2>2, <2>3, <2>4 DEF IInv, Opened, CallOK
<1>11. CASE /\ part > 0 \/ fmt = 1
            /\ later # {} /\ GoOn("Check", l) /\ UNCHANGED <<fs, Fsid, fil, dirp>>
  <2>1. br \in [1..4 -> Nat]
    <3> HIDE DEF fmt, part
    <3>1. CASE part = 0
      <4>1. fmt = 1
        BY <1>11, <3>1
      <4> QED BY <1>8, <3>1, <4>1
    <3>2. CASE part # 0
      BY <1>4, <3>2
    <3> QED BY <3>1, <3>2
  <2>2. next \in (part + 1)..4
    <3>1. later \in SUBSET (1..4)
      <4> HIDE DEF part, br
      <4>1. \A p \in (part + 1)..4 : p \in 1..4
        BY <1>4, LaterPart
      <4> QED BY <4>1
    <3>2. next \in later
      <4> HIDE DEF later
      <4> QED BY <1>11, <3>1, LeastOf
    <3> HIDE DEF next, part, br
    <3> QED BY <3>2
  <2> HIDE DEF next, br, part
  <2>3. next \in 0..4 /\ loc.steps <= next
    BY <1>3, <1>4, <2>2, LaterPart
  <2>4. l \in LocType /\ l.path = loc.path /\ l.steps = loc.steps /\ l.part = next
    BY <1>3, <2>1, <2>3 DEF LocType
  <2>5. GoOn("Check", l) /\ fs' = fs /\ UNCHANGED <<fil, dirp, Fsid>>
    BY <1>11
  <2> HIDE DEF l
  <2>6. l.steps <= l.part /\ l.path = Names
    BY <1>3, <2>3, <2>4
  <2>7. CallOK' /\ pc' = "Check"
    BY <1>3, <2>4, <2>5, <2>6, FindingGoesOn
  <2>8. VolumeOK'
    BY <1>3, <1>4, <1>9, <2>5, <2>7 DEF VolumeOK
  <2>9. DiskOK'
    BY <1>4, <1>7, <2>5
  <2> QED BY <2>7, <2>8, <2>9 DEF IInv, CallOK
<1>12. CASE fmt = 0 /\ Mounted(b, sector)
  <2> DEFINE f == Volume(b, sector)
  <2>1. win' # Zeros /\ b \in BootRecord
    <3> HIDE DEF b, fmt
    <3> QED BY <1>8, <1>12
  <2>2. DiskOK'
    BY <1>7, <2>1
  <2> HIDE DEF b, sector, part
  <2>3. CASE BadBpb(b)
    <3>1. NotFound("NO_FILESYSTEM")
      BY <1>12, <2>3 DEF Mounted
    <3> QED BY <1>10, <3>1
  <2>4. CASE ~BadBpb(b)
    <3>1. f \in FsType /\ Geometry(f) /\ f.fs_type # "" /\ f.id = Fsid + 1
      BY <1>3, <1>5, <2>1, <2>4, MountedVolume
    <3>2. /\ fs' = f
          /\ \/ GoOn("Info", loc) /\ UNCHANGED <<Fsid, fil, dirp>>
             \/ Fsid' = Fsid + 1 /\ Found(f)
      BY <1>12, <2>4 DEF Mounted
    <3> HIDE DEF f
    <3>3. loc.steps <= 5 /\ loc.steps <= 6
      BY <1>3, <1>4, FewSteps
    <3>4. CASE GoOn("Info", loc) /\ UNCHANGED <<Fsid, fil, dirp>>
      <4>1. CallOK' /\ pc' = "Info"
        BY <1>3, <3>3, <3>4, FindingGoesOn
      <4>2. VolumeOK'
        <5>1. Geometry(fs')
          BY <3>1, <3>2
        <5>2. fs' \in FsType /\ fs'.id = Fsid' + 1 /\ Fsid' \in 0..MaxMounts /\ Fsid' < MaxMounts
          BY <1>3, <1>9, <3>1, <3>2, <3>4
        <5> QED BY <1>9, <3>1, <3>2, <4>1, <5>1, <5>2 DEF VolumeOK, Geometry, FatByte
      <4> QED BY <2>2, <4>1, <4>2 DEF IInv, CallOK
    <3>5. CASE Fsid' = Fsid + 1 /\ Found(f)
      <4>1. Opened'
        BY <1>3, <3>1, <3>2, <3>3, <3>5, FoundOK
      <4>2. VolumeOK'
        BY <1>3, <1>9, <3>1, <3>2, <3>5, <4>1, VolumeFound
      <4> QED BY <2>2, <4>1, <4>2 DEF IInv, Opened, CallOK
    <3> QED BY <3>2, <3>4, <3>5
  <2> QED BY <2>3, <2>4
<1> QED BY <1>2, <1>10, <1>11, <1>12

LEMMA FsInfoStep ==
  ASSUME IInv, NEW o \in Outcomes, FsInfo(o)
  PROVE  IInv'
<1>1. /\ pc = "Info" /\ MoveWindow(fs.volbase + 1, o) /\ Fsid' = Fsid + 1 /\ Found(fs)
      /\ UNCHANGED <<slot, reg, fs, op, out, more, call>>
  BY DEF FsInfo
<1>2. /\ Finding /\ fs \in FsType /\ loc \in LocType /\ loc.path = Names
      /\ loc.steps \in Nat /\ Fsid < MaxMounts /\ Fsid \in Nat /\ reg = TRUE
  BY <1>1, FindingSteady
<1>3. fs.fs_type # "" /\ Geometry(fs) /\ fs.id = Fsid + 1 /\ loc.steps <= 6 /\ win # Zeros
  BY <1>1 DEF IInv, VolumeOK, Counted, DiskOK
<1>4. /\ fs.volbase \in Nat /\ fs.fatbase \in Nat /\ fs.database \in Nat
      /\ fs.n_fatent \in Nat /\ fs.csize \in Nat
      /\ fs.volbase < fs.fatbase /\ fs.fatbase < fs.database /\ fs.n_fatent >= 3
  BY <1>2, <1>3, FsFields DEF Geometry
<1>5. fs.volbase + 1 \in Nat /\ fs.volbase <= fs.volbase + 1 /\ fs.volbase + 1 + 1 <= EndOf(fs)
  <2>1. (fs.n_fatent - 2) * fs.csize \in Nat
    BY <1>4
  <2> QED BY <1>4, <2>1 DEF EndOf
<1>6. /\ win' \in Buffers /\ winsect' \in Nat \cup {NoSector} /\ hist' \in HistType
      /\ win # Zeros => win' # Zeros
  BY <1>1, <1>2, <1>5, MoveWindowOK DEF IInv
<1>7. DiskOK'
  BY <1>1, <1>3, <1>6, DiskKept DEF IInv
<1>8. Opened'
  BY <1>1, <1>2, <1>3, FoundOK
<1>9. Fsid' \in 0..MaxMounts
  <2>1. MaxMounts \in Nat
    BY SizeFacts
  <2> QED BY <1>1, <1>2, <2>1
<1>10. VolumeOK'
  BY <1>1, <1>2, <1>3, <1>8, <1>9, VolumeFound
<1> QED BY <1>7, <1>8, <1>10 DEF IInv, Opened, CallOK

-----------------------------------------------------------------------------
(* The calls *)

LEMMA IdleFacts ==
  ASSUME IInv, pc = "Idle"
  PROVE  /\ loc = NoLocals /\ loc \in LocType /\ loc.steps = 0
         /\ fs \in FsType /\ Fsid \in Nat /\ Fsid \in 0..MaxMounts /\ dirp.id <= Fsid
         /\ fil \in FilType /\ fil.fptr <= fil.fsize /\ dirp \in DirType /\ call \in CallType
         /\ reg \in BOOLEAN /\ more \in BOOLEAN /\ res \in Errors
         /\ fs.fs_type # "" => reg /\ Geometry(fs) /\ fs.id = Fsid
         /\ more /\ Valid(dirp) /\ dirp.sect # 0 => At(fs, dirp)
<1>1. Fsid \in 0..MaxMounts
  BY DEF IInv, VolumeOK
<1>2. Fsid \in Nat
  BY <1>1, SizeFacts
<1> QED BY <1>1, <1>2, NoLocalsType DEF IInv, Within, Typed, VolumeOK, Directories

LEMMA FirstStep ==
  ASSUME NEW p, NEW l \in LocType, l.steps = 0, l.part = 0, GoOn(p, l)
  PROVE  /\ pc' = p /\ res' = res /\ loc' \in LocType /\ loc'.path = l.path
         /\ loc'.steps <= 1 /\ loc'.steps <= 1 + loc'.part
<1>1. /\ pc' = p /\ res' = res /\ loc' \in LocType /\ loc'.path = l.path
      /\ loc'.steps = 0 + 1 /\ loc'.part = 0
  BY GoneOn
<1> QED BY <1>1

\* find_volume is called
LEMMA BeginOK ==
  ASSUME IInv, pc = "Idle", NEW names \in Seq(STRING), FindVolume(names),
         UNCHANGED <<card, win, winsect, Fsid, dirp>>,
         op' \in {"mount", "open", "opendir"}, names = Names', reg' \in BOOLEAN,
         fs' \in FsType, fs'.fs_type # "" => fs' = fs /\ reg',
         fil' \in FilType, fil'.fptr <= fil'.fsize, call' \in CallType, more' \in BOOLEAN,
         op' = "open" => ~dirp.open, op' = "mount" => fs'.fs_type = ""
  PROVE  IInv'
<1>1. /\ loc = NoLocals /\ loc \in LocType /\ loc.steps = 0 /\ Fsid \in Nat
      /\ Fsid \in 0..MaxMounts /\ dirp.id <= Fsid /\ dirp \in DirType /\ res \in Errors
      /\ fs.fs_type # "" => Geometry(fs) /\ fs.id = Fsid
  BY IdleFacts
<1>2. /\ hist \in HistType /\ win \in Buffers /\ winsect \in Nat \cup {NoSector}
      /\ card \in DOMAIN Cards /\ ready \in BOOLEAN /\ (fs.fs_type # "" => win # Zeros)
  BY DEF IInv, DiskOK
<1>3. op' \in Ops /\ dirp' \in DirType /\ dirp'.id <= Fsid' /\ Fsid' \in 0..MaxMounts
  BY <1>1 DEF Ops
<1>4. ASSUME ready' \in BOOLEAN, hist' \in HistType PROVE DiskOK'
  BY <1>2, <1>4 DEF DiskOK
<1>5. \/ ~reg' /\ Return("NOT_ENABLED") /\ UNCHANGED <<ready, hist>>
      \/ /\ fs'.fs_type # "" /\ reg' /\ GoOn("Follow", [loc EXCEPT !.path = names])
         /\ UNCHANGED <<ready, hist>>
      \/ /\ fs'.fs_type = "" /\ reg' /\ Fsid < MaxMounts /\ ready' = TRUE
         /\ hist' = [hist EXCEPT !.missed = FALSE, !.failed = FALSE, !.on = card]
         /\ GoOn("Check", [loc EXCEPT !.path = names])
  BY DEF FindVolume
<1> DEFINE l == [loc EXCEPT !.path = names]
<1>6. l \in LocType /\ l.path = names /\ l.steps = 0 /\ l.part = 0
  BY <1>1, NoLocalsType DEF LocType
<1> HIDE DEF l
<1>7. ASSUME NEW p \in {"Check", "Follow"}, GoOn(p, l), p = "Follow" => op' # "mount"
      PROVE  CallOK' /\ pc' = p
  <2>1. /\ pc' = p /\ res' = res /\ loc' \in LocType /\ loc'.path = names
        /\ loc'.steps <= 1 /\ loc'.steps <= 1 + loc'.part
    BY <1>6, <1>7, FirstStep
  <2>2. Typed'
    BY <1>1, <1>3, <2>1 DEF Typed, OpenSteps
  <2>3. Within'
    BY <1>7, <2>1 DEF Within, ListSteps, ReadSteps, SeekSteps
  <2>4. Directories'
    BY <1>3, <2>1 DEF Directories, ReadSteps, SeekSteps
  <2>5. Counted'
    BY <2>1 DEF Counted
  <2> QED BY <2>1, <2>2, <2>3, <2>4, <2>5 DEF CallOK
<1>8. CASE ~reg' /\ Return("NOT_ENABLED") /\ UNCHANGED <<ready, hist>>
  <2>1. "NOT_ENABLED" \in Errors /\ fs'.fs_type = ""
    BY <1>8 DEF Errors
  <2>2. CallOK' /\ pc' = "Idle"
    BY <1>3, <1>8, <2>1, Returned
  <2>3. VolumeOK'
    BY <1>3, <2>1, <2>2 DEF VolumeOK
  <2>4. DiskOK'
    BY <1>2, <1>4, <1>8
  <2> QED BY <2>2, <2>3, <2>4 DEF IInv, CallOK
<1>9. CASE /\ fs'.fs_type # "" /\ reg' /\ GoOn("Follow", l)
           /\ UNCHANGED <<ready, hist>>
  <2>1. CallOK' /\ pc' = "Follow"
    BY <1>7, <1>9
  <2>2. VolumeOK'
    BY <1>1, <1>3, <1>9, <2>1 DEF VolumeOK
  <2>3. DiskOK'
    BY <1>2, <1>4, <1>9
  <2> QED BY <2>1, <2>2, <2>3 DEF IInv, CallOK
<1>10. CASE /\ fs'.fs_type = "" /\ reg' /\ Fsid < MaxMounts /\ ready' = TRUE
            /\ hist' = [hist EXCEPT !.missed = FALSE, !.failed = FALSE, !.on = card]
            /\ GoOn("Check", l)
  <2>1. CallOK' /\ pc' = "Check"
    BY <1>7, <1>10
  <2>2. VolumeOK'
    BY <1>3, <1>10, <2>1 DEF VolumeOK
  <2>3. hist' \in HistType
    <3>1. card \in Nat
      BY <1>2, CardFacts
    <3> QED BY <1>2, <1>10, <3>1 DEF HistType
  <2>4. DiskOK'
    BY <1>4, <1>10, <2>3
  <2> QED BY <2>1, <2>2, <2>4 DEF IInv, CallOK
<1> QED BY <1>5, <1>8, <1>9, <1>10 DEF l

LEMMA NothingYet ==
  /\ NoCall \in CallType /\ NoCall.file = <<>> /\ NoCall.dir = <<>>
  /\ NoFile \in FilType /\ NoFile.fptr = 0 /\ NoFile.fsize = 0
  /\ NoVolume \in FsType /\ NoVolume.fs_type = ""
<1>1. <<>> \in Seq(STRING) /\ <<>> \in Seq(Words)
  OBVIOUS
<1>2. NoCall \in CallType
  BY <1>1 DEF NoCall, CallType
<1>3. "OK" \in Errors /\ Zeros \in Buffers
  BY DEF Errors, Buffers
<1>4. NoFile \in FilType
  BY <1>3 DEF NoFile, FilType
<1>5. NoVolume \in FsType
  BY DEF NoVolume, FsType
<1> QED BY <1>2, <1>4, <1>5 DEF NoCall, NoFile, NoVolume

LEMMA ClosedFile ==
  ASSUME NEW f \in FilType
  PROVE  Closed(f) \in FilType /\ Closed(f).fptr <= Closed(f).fsize
<1>1. f.dsect \in Nat /\ f.buf \in Buffers
  BY FilFields
<1>2. Closed(f) \in FilType /\ Closed(f).fptr = 0 /\ Closed(f).fsize = 0
  BY <1>1, NothingYet DEF Closed, FilType
<1> QED BY <1>2

\* A call that returned at once leaves the disk and the volume alone.
LEMMA AtOnce ==
  ASSUME IInv, pc = "Idle", UNCHANGED slot, UNCHANGED disk, CallOK', pc' # "Info",
         pc' # "Check", fs' \in FsType, UNCHANGED <<Fsid>>, reg' \in BOOLEAN,
         fs'.fs_type # "" => fs' = fs /\ reg',
         pc' # "Idle" => fs'.fs_type # ""
  PROVE  IInv'
<1>1. /\ Fsid \in 0..MaxMounts /\ (fs.fs_type # "" => Geometry(fs) /\ fs.id = Fsid)
  BY IdleFacts
<1>2. VolumeOK'
  BY <1>1 DEF VolumeOK
<1>3. DiskOK'
  BY DEF IInv, DiskOK, slot, disk
<1> QED BY <1>2, <1>3 DEF IInv, CallOK

LEMMA MountStep ==
  ASSUME IInv, NEW on \in BOOLEAN, NEW now \in BOOLEAN, f_mount(on, now)
  PROVE  IInv'
<1>1. /\ pc = "Idle" /\ op' = "mount" /\ call' = NoCall
      /\ reg' = on /\ fs' = [fs EXCEPT !.fs_type = ""]
      /\ IF on /\ now THEN FindVolume(<<>>) ELSE Return("OK") /\ UNCHANGED <<ready, hist>>
      /\ UNCHANGED <<card, win, winsect, Fsid, fil, dirp, more>>
  BY DEF f_mount
<1>2. /\ fs \in FsType /\ fil \in FilType /\ fil.fptr <= fil.fsize /\ dirp \in DirType
      /\ dirp.id <= Fsid /\ more \in BOOLEAN
  BY <1>1, IdleFacts
<1>3. fs' \in FsType /\ fs'.fs_type = ""
  BY <1>1, <1>2 DEF FsType
<1>4. call' \in CallType /\ Names' = <<>> /\ <<>> \in Seq(STRING)
  <2>1. call' \in CallType /\ Names' = <<>>
    BY <1>1, NothingYet DEF Names
  <2>2. <<>> \in Seq(STRING)
    OBVIOUS
  <2> QED BY <2>1, <2>2
<1>5. CASE on /\ now
  <2>1. FindVolume(<<>>)
    BY <1>1, <1>5
  <2> QED BY <1>1, <1>2, <1>3, <1>4, <2>1, BeginOK
<1>6. CASE ~(on /\ now)
  <2>1. Return("OK") /\ UNCHANGED <<ready, hist>>
    BY <1>1, <1>6
  <2>2. "OK" \in Errors /\ op' \in Ops
    BY <1>1 DEF Errors, Ops
  <2>3. CallOK' /\ pc' = "Idle"
    BY <1>1, <1>2, <1>3, <1>4, <2>1, <2>2, Returned
  <2>4. UNCHANGED slot /\ UNCHANGED disk
    BY <1>1, <2>1 DEF slot, disk
  <2> QED BY <1>1, <1>3, <2>3, <2>4, AtOnce
<1> QED BY <1>5, <1>6

LEMMA OpenStep ==
  ASSUME IInv, NEW p \in Paths, f_open(p)
  PROVE  IInv'
<1>1. /\ pc = "Idle" /\ op' = "open" /\ ~dirp.open /\ fil' = Closed(fil)
      /\ UNCHANGED <<reg, fs>> /\ FindVolume(p)
      /\ call' = [call EXCEPT !.file = p, !.pos = 0, !.from = 0, !.size = 0]
      /\ UNCHANGED <<card, win, winsect, Fsid, dirp, more>>
  BY DEF f_open
<1>2. /\ fs \in FsType /\ fil \in FilType /\ call \in CallType /\ more \in BOOLEAN
      /\ reg \in BOOLEAN /\ (fs.fs_type # "" => reg)
  BY <1>1, IdleFacts
<1>3. p \in Seq(STRING)
  BY VolumeAssumption
<1>4. call' \in CallType /\ call'.file = p
  BY <1>1, <1>2, <1>3 DEF CallType
<1>5. Names' = p
  BY <1>1, <1>4 DEF Names
<1>6. fil' \in FilType /\ fil'.fptr <= fil'.fsize
  BY <1>1, <1>2, ClosedFile
<1> QED BY <1>1, <1>2, <1>3, <1>4, <1>5, <1>6, BeginOK

LEMMA OpendirStep ==
  ASSUME IInv, NEW p \in Paths, f_opendir(p)
  PROVE  IInv'
<1>1. /\ pc = "Idle" /\ op' = "opendir" /\ more' = TRUE
      /\ UNCHANGED <<reg, fs>> /\ FindVolume(p)
      /\ call' = [call EXCEPT !.dir = p, !.names = <<>>]
      /\ UNCHANGED <<card, win, winsect, Fsid, fil, dirp>>
  BY DEF f_opendir
<1>2. /\ fs \in FsType /\ fil \in FilType /\ call \in CallType /\ fil.fptr <= fil.fsize
      /\ reg \in BOOLEAN /\ (fs.fs_type # "" => reg)
  BY <1>1, IdleFacts
<1>3. p \in Seq(STRING) /\ <<>> \in Seq(Words)
  BY VolumeAssumption
<1>4. call' \in CallType /\ call'.dir = p
  BY <1>1, <1>2, <1>3 DEF CallType
<1>5. Names' = p
  BY <1>1, <1>4 DEF Names
<1> QED BY <1>1, <1>2, <1>3, <1>4, <1>5, BeginOK

LEMMA ReaddirStep ==
  ASSUME IInv, f_readdir
  PROVE  IInv'
<1>1. /\ pc = "Idle" /\ more /\ op' = "readdir"
      /\ UNCHANGED <<slot, disk, volume, fil, dirp, call>>
      /\ IF Valid(dirp) /\ dirp.sect # 0
         THEN GoOn("Entry", [loc EXCEPT !.idx = dirp.index]) /\ UNCHANGED more
         ELSE more' = FALSE /\ Return(IF Valid(dirp) THEN "OK" ELSE "INVALID_OBJECT")
  BY DEF f_readdir
<1>2. /\ loc \in LocType /\ loc.steps = 0 /\ fs \in FsType /\ dirp \in DirType /\ fil \in FilType
      /\ fil.fptr <= fil.fsize /\ call \in CallType /\ dirp.id <= Fsid /\ reg \in BOOLEAN
      /\ more \in BOOLEAN /\ res \in Errors /\ (fs.fs_type # "" => reg)
      /\ more /\ Valid(dirp) /\ dirp.sect # 0 => At(fs, dirp)
  BY <1>1, IdleFacts
<1>3. UNCHANGED <<reg, fs, Fsid>> /\ op' \in Ops
  BY <1>1 DEF volume, Ops
<1>4. CASE Valid(dirp) /\ dirp.sect # 0
  <2> DEFINE l == [loc EXCEPT !.idx = dirp.index]
  <2>1. GoOn("Entry", l) /\ more' = more
    BY <1>1, <1>4
  <2>2. dirp.index \in Nat
    BY <1>2, DirFields
  <2>3. l \in LocType /\ l.steps = 0
    BY <1>2, <2>2 DEF LocType
  <2> HIDE DEF l
  <2>4. pc' = "Entry" /\ res' = res /\ loc' \in LocType /\ loc'.steps = 0 + 1
    BY <2>1, <2>3, GoneOn
  <2>5. Typed'
    BY <1>1, <1>2, <1>3, <2>1, <2>4 DEF Typed, ListSteps
  <2>6. Within'
    BY <1>1, <2>4 DEF Within, ReadSteps, SeekSteps
  <2>7. Directories'
    BY <1>1, <1>2, <1>3, <1>4, <2>4 DEF Directories, OpenSteps, ReadSteps, SeekSteps
  <2>8. Counted'
    <3>1. loc'.steps <= 1 + 3 * dirp'.index
      BY <1>1, <2>2, <2>4
    <3> QED BY <2>4, <3>1 DEF Counted
  <2>9. fs'.fs_type # ""
    BY <1>3, <1>4 DEF Valid
  <2> QED BY <1>1, <1>2, <1>3, <2>4, <2>5, <2>6, <2>7, <2>8, <2>9, AtOnce DEF CallOK
<1>5. CASE ~(Valid(dirp) /\ dirp.sect # 0)
  <2>1. more' = FALSE /\ \E r \in {"OK", "INVALID_OBJECT"} : Return(r)
    BY <1>1, <1>5
  <2>2. PICK r \in {"OK", "INVALID_OBJECT"} : Return(r)
    BY <2>1
  <2>3. r \in Errors
    BY DEF Errors
  <2>4. CallOK' /\ pc' = "Idle"
    BY <1>1, <1>2, <1>3, <2>1, <2>2, <2>3, Returned
  <2> QED BY <1>1, <1>2, <1>3, <2>4, AtOnce
<1> QED BY <1>4, <1>5

LEMMA ZeroLeast ==
  ASSUME NEW n \in Nat
  PROVE  0 <= n
OBVIOUS

LEMMA CloseStep ==
  ASSUME IInv, f_close \/ f_closedir
  PROVE  IInv'
<1>1. /\ pc = "Idle" /\ op' = "close" /\ Return("OK") /\ call' = NoCall /\ more' = more
      /\ UNCHANGED <<slot, disk, volume>>
      /\ \/ fil' = Closed(fil) /\ dirp' = dirp
         \/ fil' = fil /\ dirp' = NoDir
  BY DEF f_close, f_closedir
<1>2. /\ fs \in FsType /\ dirp \in DirType /\ fil \in FilType /\ fil.fptr <= fil.fsize
      /\ dirp.id <= Fsid /\ Fsid \in Nat /\ reg \in BOOLEAN /\ more \in BOOLEAN
      /\ (fs.fs_type # "" => reg)
      /\ more /\ Valid(dirp) /\ dirp.sect # 0 => At(fs, dirp)
  BY <1>1, IdleFacts
<1>3. UNCHANGED <<reg, fs, Fsid>> /\ op' \in Ops /\ "OK" \in Errors
  BY <1>1 DEF volume, Ops, Errors
<1>4. fil' \in FilType /\ fil'.fptr <= fil'.fsize /\ call' \in CallType
  BY <1>1, <1>2, ClosedFile, NothingYet
<1>5. /\ dirp' \in DirType /\ dirp'.id <= Fsid'
      /\ more' /\ dirp'.open /\ fs'.fs_type # "" /\ fs'.id = dirp'.id /\ dirp'.sect # 0
           => At(fs', dirp')
  <2>1. CASE dirp' = dirp
    BY <1>1, <1>2, <1>3, <2>1 DEF Valid
  <2>2. CASE dirp' = NoDir
    <3>1. ~dirp'.open /\ dirp'.id = 0
      BY <2>2 DEF NoDir
    <3>2. 0 <= Fsid
      BY <1>2, ZeroLeast
    <3>3. dirp' \in DirType
      BY <2>2, NoDirType
    <3>4. dirp'.id <= Fsid'
      BY <1>3, <3>1, <3>2
    <3> QED BY <3>1, <3>3, <3>4
  <2> QED BY <1>1, <2>1, <2>2
<1>6. CallOK' /\ pc' = "Idle"
  BY <1>1, <1>2, <1>3, <1>4, <1>5, Returned
<1> QED BY <1>1, <1>2, <1>3, <1>6, AtOnce

LEMMA CallEnds ==
  ASSUME IInv, pc = "Idle", op' \in Ops, UNCHANGED <<slot, disk, volume, dirp, more>>,
         call' \in CallType, NEW r \in Errors, Return(r),
         fil' \in FilType, fil'.fptr <= fil'.fsize
  PROVE  IInv'
<1>1. /\ fs \in FsType /\ dirp \in DirType /\ dirp.id <= Fsid /\ reg \in BOOLEAN
      /\ more \in BOOLEAN /\ (fs.fs_type # "" => reg)
      /\ more /\ Valid(dirp) /\ dirp.sect # 0 => At(fs, dirp)
  BY IdleFacts
<1>2. UNCHANGED <<reg, fs, Fsid>>
  BY DEF volume
<1>3. CallOK' /\ pc' = "Idle"
  BY <1>1, <1>2, Returned DEF Valid
<1> QED BY <1>1, <1>2, <1>3, AtOnce

LEMMA FirstOfMany ==
  ASSUME NEW a \in Nat, NEW t \in Nat, t <= a
  PROVE  0 + 1 <= 1 + 4 * (a - t) /\ 0 + 1 <= 1 + 3 * (a - t)
OBVIOUS

\* f_read or f_lseek has begun; it is at its first step
LEMMA FileBegins ==
  ASSUME IInv, pc = "Idle", UNCHANGED <<slot, disk, volume, dirp, more>>,
         call' \in CallType, fil' \in FilType, fil'.fptr <= fil'.fsize, fs.fs_type # "",
         NEW t \in Nat, t > 0, fil'.fptr + t <= fil'.fsize,
         \/ /\ op' = "read" /\ GoOn("Read", [loc EXCEPT !.todo = t]) /\ t <= call'.size
         \/ /\ op' = "lseek" /\ GoOn("Seek", [loc EXCEPT !.todo = t]) /\ t <= call'.pos
  PROVE  IInv'
<1>1. /\ fs \in FsType /\ dirp \in DirType /\ dirp.id <= Fsid /\ reg \in BOOLEAN
      /\ more \in BOOLEAN /\ (fs.fs_type # "" => reg) /\ loc \in LocType /\ loc.steps = 0
      /\ res \in Errors
      /\ more /\ Valid(dirp) /\ dirp.sect # 0 => At(fs, dirp)
  BY IdleFacts
<1>2. UNCHANGED <<reg, fs, Fsid>>
  BY DEF volume
<1> DEFINE l == [loc EXCEPT !.todo = t]
<1>3. l \in LocType /\ l.steps = 0 /\ l.todo = t
  BY <1>1 DEF LocType
<1>4. /\ GoOn("Read", l) \/ GoOn("Seek", l)
      /\ GoOn("Read", l) => pc' = "Read"
      /\ GoOn("Seek", l) => pc' = "Seek"
  BY DEF GoOn
<1> HIDE DEF l
<1>5. PICK p \in {"Read", "Seek"} : GoOn(p, l)
  BY <1>4
<1>6. pc' = p /\ res' = res /\ loc' \in LocType /\ loc'.todo = t /\ loc'.steps = 0 + 1
  BY <1>3, <1>5, GoneOn
<1>7. /\ pc' = "Read" => op' = "read" /\ t <= call'.size
      /\ pc' = "Seek" => op' = "lseek" /\ t <= call'.pos
  <2>1. GoOn("Read", l) => pc' = "Read"
    BY <1>4
  <2> QED BY <1>4, <1>6 DEF l
<1>8. Typed'
  BY <1>1, <1>6, <1>7 DEF Typed, Ops, ReadSteps, SeekSteps
<1>9. Within'
  BY <1>6, <1>7 DEF Within, ListSteps, ReadSteps, SeekSteps
<1>10. Directories'
  BY <1>1, <1>2, <1>6 DEF Directories, Valid, OpenSteps
<1>11. Counted'
  <2>1. call'.size \in Nat /\ call'.pos \in Nat
    BY CallFields
  <2>2. CASE p = "Read"
    <3>1. t <= call'.size
      BY <1>6, <1>7, <2>2
    <3>2. 0 + 1 <= 1 + 4 * (call'.size - t)
      BY <2>1, <3>1, FirstOfMany
    <3> QED BY <1>6, <2>2, <3>2 DEF Counted
  <2>3. CASE p = "Seek"
    <3>1. t <= call'.pos
      BY <1>6, <1>7, <2>3
    <3>2. 0 + 1 <= 1 + 3 * (call'.pos - t)
      BY <2>1, <3>1, FirstOfMany
    <3> QED BY <1>6, <2>3, <3>2 DEF Counted
  <2> QED BY <2>2, <2>3
<1> QED BY <1>1, <1>2, <1>6, <1>8, <1>9, <1>10, <1>11, AtOnce DEF CallOK

LEMMA Refused ==
  ASSUME fil \in FilType
  PROVE  /\ Refusal \in Errors
         /\ Refusal = "OK" => fs.fs_type # ""
<1>1. "INVALID_OBJECT" \in Errors /\ fil.err \in Errors
  BY FilFields DEF Errors
<1> QED BY <1>1 DEF Refusal, Valid

LEMMA FReadStep ==
  ASSUME IInv, NEW n \in Nat, f_read(n)
  PROVE  IInv'
<1> DEFINE btr == Truncated(n)
<1>1. /\ pc = "Idle" /\ op' = "read" /\ UNCHANGED <<slot, disk, volume, fil, dirp, more>>
      /\ \/ Refusal # "OK" /\ Return(Refusal) /\ call' = call
         \/ /\ Refusal = "OK"
            /\ call' = [call EXCEPT !.from = call.pos, !.size = n, !.pos = @ + btr]
            /\ IF btr = 0 THEN Return("OK") ELSE GoOn("Read", [loc EXCEPT !.todo = btr])
  BY DEF f_read
<1>2. fil \in FilType /\ fil.fptr <= fil.fsize /\ call \in CallType /\ op' \in Ops
  BY <1>1, IdleFacts DEF Ops
<1>3. fil' \in FilType /\ fil'.fptr <= fil'.fsize
  BY <1>1, <1>2
<1>4. CASE Refusal # "OK" /\ Return(Refusal) /\ call' = call
  BY <1>1, <1>2, <1>3, <1>4, Refused, CallEnds
<1>5. CASE /\ Refusal = "OK"
           /\ call' = [call EXCEPT !.from = call.pos, !.size = n, !.pos = @ + btr]
           /\ IF btr = 0 THEN Return("OK") ELSE GoOn("Read", [loc EXCEPT !.todo = btr])
  <2>1. fil.fptr \in Nat /\ fil.fsize \in Nat /\ call.pos \in Nat
    BY <1>2, FilFields, CallFields
  <2>2. btr \in Nat /\ btr <= n /\ fil.fptr + btr <= fil.fsize
    BY <1>2, <2>1 DEF Truncated, MinOf
  <2> HIDE DEF btr
  <2>3. call.pos + btr \in Nat
    BY <2>1, <2>2
  <2>4. call' \in CallType /\ call'.size = n
    BY <1>2, <1>5, <2>1, <2>3 DEF CallType
  <2>5. CASE btr = 0
    <3>1. Return("OK") /\ "OK" \in Errors
      BY <1>5, <2>5 DEF Errors
    <3> QED BY <1>1, <1>2, <1>3, <2>4, <3>1, CallEnds
  <2>6. CASE btr # 0
    <3>1. GoOn("Read", [loc EXCEPT !.todo = btr])
      BY <1>5, <2>6
    <3>2. btr > 0 /\ btr <= call'.size /\ fil'.fptr + btr <= fil'.fsize
      BY <1>1, <2>2, <2>4, <2>6
    <3>3. fs.fs_type # ""
      BY <1>2, <1>5, Refused
    <3> QED BY <1>1, <1>3, <2>2, <2>4, <3>1, <3>2, <3>3, FileBegins
  <2> QED BY <2>5, <2>6
<1> QED BY <1>1, <1>4, <1>5

\* the start of the cluster in which the wanted offset, or an earlier one, is
LEMMA BaseFacts ==
  ASSUME fs \in FsType, NEW ofs \in Nat, ofs # 0, NEW p \in Nat, Forward(ofs, p)
  PROVE  /\ ((p - 1) \div bcs) * bcs \in Nat /\ ((p - 1) \div bcs) * bcs < ofs
<1> DEFINE a == (p - 1) \div bcs
<1> DEFINE b == (ofs - 1) \div bcs
<1>1. bcs \in Nat \ {0} /\ p - 1 \in Nat /\ ofs - 1 \in Nat
  BY BcsFacts DEF Forward
<1>2. a \in Nat /\ b \in Nat /\ (ofs - 1) % bcs \in 0..(bcs - 1)
      /\ ofs - 1 = bcs * b + ((ofs - 1) % bcs)
  BY <1>1, DivMod
<1>3. a <= b
  <2>1. (ofs - 1) \div bcs >= (p - 1) \div bcs
    BY DEF Forward
  <2> HIDE DEF a, b
  <2> QED BY <1>2, <2>1 DEF a, b
<1> HIDE DEF a, b
<1> DEFINE k == bcs
<1>4. k \in Nat \ {0} /\ a * bcs = a * k /\ bcs * b = k * b
  BY <1>1
<1> HIDE DEF k
<1>5. k * a \in Nat /\ k * b \in Nat /\ a * k = k * a /\ (a < b => k * a + k <= k * b)
  BY <1>2, <1>4, LessProduct
<1>6. k * a <= k * b
  BY <1>2, <1>3, <1>4, <1>5
<1>7. k * b <= ofs - 1
  BY <1>1, <1>2, <1>4, <1>5 DEF k
<1> QED BY <1>1, <1>4, <1>5, <1>6, <1>7 DEF a

LEMMA FLseekStep ==
  ASSUME IInv, NEW n \in Nat, f_lseek(n)
  PROVE  IInv'
<1> DEFINE ofs == MinOf(n, fil.fsize)
<1> DEFINE base == ((fil.fptr - 1) \div bcs) * bcs
<1>1. /\ pc = "Idle" /\ op' = "lseek" /\ UNCHANGED <<slot, disk, volume, dirp, more>>
      /\ call' = IF Refusal = "OK" THEN [call EXCEPT !.pos = ofs] ELSE call
  BY DEF f_lseek
<1>2. \/ Refusal # "OK" /\ Return(Refusal) /\ fil' = fil
      \/ Refusal = "OK" /\ fil' = [fil EXCEPT !.fptr = 0] /\ Return("OK")
      \/ /\ Refusal = "OK" /\ ofs # 0 /\ Forward(ofs, fil.fptr)
         /\ fil' = [fil EXCEPT !.fptr = base] /\ GoOn("Seek", [loc EXCEPT !.todo = ofs - base])
      \/ /\ Refusal = "OK" /\ ofs # 0
         /\ fil' = [fil EXCEPT !.fptr = 0, !.clust = fil.sclust]
         /\ GoOn("Seek", [loc EXCEPT !.todo = ofs])
  <2>1. /\ CASE Refusal # "OK" -> Return(Refusal) /\ UNCHANGED fil
             [] Refusal = "OK" /\ ofs = 0 -> fil' = [fil EXCEPT !.fptr = 0] /\ Return("OK")
             [] Refusal = "OK" /\ ofs # 0 /\ Forward(ofs, fil.fptr) ->
                  /\ fil' = [fil EXCEPT !.fptr = base]
                  /\ GoOn("Seek", [loc EXCEPT !.todo = ofs - base])
             [] OTHER ->
                  /\ fil.sclust # 0
                  /\ fil' = [fil EXCEPT !.fptr = 0, !.clust = fil.sclust]
                  /\ GoOn("Seek", [loc EXCEPT !.todo = ofs])
    BY DEF f_lseek
  <2> HIDE DEF ofs, base
  <2> QED BY <2>1
<1>3. fil \in FilType /\ fil.fptr <= fil.fsize /\ call \in CallType /\ op' \in Ops /\ fs \in FsType
  BY <1>1, IdleFacts DEF Ops
<1>4. /\ fil.fptr \in Nat /\ fil.fsize \in Nat /\ fil.sclust \in Nat
  BY <1>3, FilFields
<1>5. ofs \in Nat /\ ofs <= fil.fsize
  BY <1>4 DEF MinOf
<1>6. /\ call' \in CallType
      /\ Refusal = "OK" => call'.pos = ofs
  <2> HIDE DEF ofs
  <2> QED BY <1>1, <1>3, <1>5 DEF CallType
<1>7. Refusal = "OK" => fs.fs_type # ""
  BY <1>3, Refused
<1>8. ASSUME NEW t \in Nat, t <= fil.fsize
      PROVE  /\ [fil EXCEPT !.fptr = t] \in FilType
             /\ [fil EXCEPT !.fptr = t].fptr = t /\ [fil EXCEPT !.fptr = t].fsize = fil.fsize
  BY <1>3 DEF FilType
<1> HIDE DEF ofs
<1>9. CASE Refusal # "OK" /\ Return(Refusal) /\ fil' = fil
  BY <1>1, <1>3, <1>6, <1>9, Refused, CallEnds
<1>10. CASE Refusal = "OK" /\ fil' = [fil EXCEPT !.fptr = 0] /\ Return("OK")
  <2>1. "OK" \in Errors /\ 0 <= fil.fsize
    BY <1>4 DEF Errors
  <2>2. fil' \in FilType /\ fil'.fptr = 0 /\ fil'.fsize = fil.fsize
    BY <1>8, <1>10, <2>1
  <2>3. fil'.fptr <= fil'.fsize
    BY <2>1, <2>2
  <2> QED BY <1>1, <1>3, <1>6, <1>10, <2>1, <2>2, <2>3, CallEnds
<1>11. CASE /\ Refusal = "OK" /\ ofs # 0 /\ Forward(ofs, fil.fptr)
            /\ fil' = [fil EXCEPT !.fptr = base]
            /\ GoOn("Seek", [loc EXCEPT !.todo = ofs - base])
  <2>1. base \in Nat /\ base < ofs
    BY <1>3, <1>4, <1>5, <1>11, BaseFacts
  <2> HIDE DEF base
  <2>2. base <= fil.fsize /\ ofs - base \in Nat /\ ofs - base > 0 /\ ofs - base <= ofs
        /\ base + (ofs - base) <= fil.fsize
    BY <1>4, <1>5, <2>1
  <2>3. fil' \in FilType /\ fil'.fptr = base /\ fil'.fsize = fil.fsize
    BY <1>8, <1>11, <2>1, <2>2
  <2>4. ofs - base <= call'.pos /\ fil'.fptr <= fil'.fsize
        /\ fil'.fptr + (ofs - base) <= fil'.fsize
    BY <1>6, <1>11, <2>2, <2>3
  <2> QED BY <1>1, <1>6, <1>7, <1>11, <2>2, <2>3, <2>4, FileBegins
<1>12. CASE /\ Refusal = "OK" /\ ofs # 0
            /\ fil' = [fil EXCEPT !.fptr = 0, !.clust = fil.sclust]
            /\ GoOn("Seek", [loc EXCEPT !.todo = ofs])
  <2>1. fil' \in FilType /\ fil'.fptr = 0 /\ fil'.fsize = fil.fsize
    BY <1>3, <1>4, <1>12 DEF FilType
  <2>2. ofs > 0 /\ ofs <= call'.pos /\ fil'.fptr <= fil'.fsize /\ fil'.fptr + ofs <= fil'.fsize
    BY <1>4, <1>5, <1>6, <1>12, <2>1
  <2> QED BY <1>1, <1>5, <1>6, <1>7, <1>12, <2>1, <2>2, FileBegins
<1> QED BY <1>2, <1>9, <1>10, <1>11, <1>12

-----------------------------------------------------------------------------
(* The invariant *)

\* Whoever changes the card leaves all that ff.c knows as it is.
LEMMA NothingKnown ==
  ASSUME IInv, card' \in DOMAIN Cards, ready' \in BOOLEAN, hist' \in HistType,
         UNCHANGED <<win, winsect, volume, fil, dirp, pc, op, loc, more, res, call>>
  PROVE  IInv'
<1>1. /\ win' = win /\ winsect' = winsect /\ reg' = reg /\ fs' = fs /\ Fsid' = Fsid
      /\ fil' = fil /\ dirp' = dirp /\ pc' = pc /\ op' = op /\ loc' = loc /\ more' = more
      /\ res' = res /\ call' = call
  BY DEF volume
<1>2. DiskOK'
  BY <1>1 DEF IInv, DiskOK
<1>3. VolumeOK'
  BY <1>1 DEF IInv, VolumeOK
<1>4. Typed'
  BY <1>1 DEF IInv, Typed
<1>5. Names' = Names /\ bcs' = bcs
  BY <1>1 DEF Names, bcs
<1>6. Within'
  BY <1>1, <1>5 DEF IInv, Within
<1>7. Directories'
  <2>1. At(fs, loc.dj)' = At(fs, loc.dj) /\ At(fs, dirp)' = At(fs, dirp)
    BY <1>1 DEF At, clust2sect
  <2>2. NeedsFat(loc.dj)' = NeedsFat(loc.dj) /\ NeedsFat(dirp)' = NeedsFat(dirp)
    BY <1>1 DEF NeedsFat, AtLimit, SectorEnds, NextIndex
  <2>3. Valid(dirp)' = Valid(dirp)
    BY <1>1 DEF Valid
  <2>4. Directories
    BY DEF IInv
  <2> QED BY <1>1, <2>1, <2>2, <2>3, <2>4 DEF Directories
<1>8. PathDone' = PathDone /\ Second' = Second
  BY <1>1, <1>5 DEF PathDone, Second
<1>9. Counted'
  BY <1>1, <1>8 DEF IInv, Counted
<1> QED BY <1>2, <1>3, <1>4, <1>6, <1>7, <1>9 DEF IInv

LEMMA NextCard ==
  ASSUME NEW n \in Nat \ {0}, NEW c \in 1..n
  PROVE  (c % n) + 1 \in 1..n
<1>1. c % n \in 0..(n - 1)
  BY DivMod
<1> QED BY <1>1

LEMMA SwapStep ==
  ASSUME IInv, SwapCard
  PROVE  IInv'
<1>1. /\ hist.faults < MaxFaults /\ card' = (card % Len(Cards)) + 1 /\ ready' = FALSE
      /\ hist' = [hist EXCEPT !.faults = @ + 1]
      /\ UNCHANGED <<win, winsect, volume, fil, dirp, pc, op, loc, out, more, res, call>>
  BY DEF SwapCard
<1>2. hist \in HistType /\ card \in DOMAIN Cards
  BY DEF IInv, DiskOK
<1>3. hist.faults + 1 \in 0..MaxFaults
  <2>1. hist.faults \in 0..MaxFaults /\ MaxFaults \in Nat
    BY <1>2, SizeFacts DEF HistType
  <2> QED BY <1>1, <2>1, OneMore
<1>4. hist' \in HistType
  BY <1>1, <1>2, <1>3 DEF HistType
<1>5. card' \in DOMAIN Cards
  <2>1. Len(Cards) \in Nat \ {0} /\ DOMAIN Cards = 1..Len(Cards)
    BY CardsAssumption
  <2> QED BY <1>1, <1>2, <2>1, NextCard
<1>6. UNCHANGED <<win, winsect, volume, fil, dirp, pc, op, loc, more, res, call>>
  BY <1>1
<1> QED BY <1>1, <1>4, <1>5, <1>6, NothingKnown

LEMMA IdleStep ==
  ASSUME IInv, UNCHANGED vars
  PROVE  IInv'
<1>1. /\ card' = card /\ ready' = ready /\ hist' = hist
      /\ UNCHANGED <<win, winsect, volume, fil, dirp, pc, op, loc, more, res, call>>
  BY DEF vars, slot, disk
<1>2. card \in DOMAIN Cards /\ ready \in BOOLEAN /\ hist \in HistType
  BY DEF IInv, DiskOK
<1> QED BY <1>1, <1>2, NothingKnown

LEMMA InitOK == Init => IInv
<1> SUFFICES ASSUME Init PROVE IInv
  OBVIOUS
<1>1. /\ card \in DOMAIN Cards /\ ready = FALSE
      /\ reg = FALSE /\ fs = NoVolume /\ Fsid = 0
      /\ win = Zeros /\ winsect = 0
      /\ fil = NoFile /\ dirp = NoDir
      /\ pc = "Idle" /\ op = "none" /\ loc = NoLocals
      /\ out = <<>> /\ more = FALSE /\ res = "OK"
      /\ hist = [missed |-> FALSE, failed |-> FALSE, faults |-> 0, on |-> 0,
                 inside |-> TRUE]
      /\ call = NoCall
  BY DEF Init
<1>2. DiskOK
  <2>1. 0 \in 0..MaxFaults
    BY SizeFacts
  <2>2. hist \in HistType
    BY <1>1, <2>1 DEF HistType
  <2> QED BY <1>1, <2>2, NothingYet DEF DiskOK, Buffers
<1>3. VolumeOK
  <2>1. 0 \in 0..MaxMounts
    BY SizeFacts
  <2> QED BY <1>1, <2>1, NothingYet DEF VolumeOK
<1>4. Typed
  <2>1. "OK" \in Errors /\ op \in Ops
    BY <1>1 DEF Errors, Ops
  <2>2. fil.fptr <= fil.fsize
    <3>1. fil.fptr = 0 /\ fil.fsize = 0
      BY <1>1, NothingYet
    <3>2. 0 <= 0
      OBVIOUS
    <3> QED BY <3>1, <3>2
  <2> QED BY <1>1, <2>1, <2>2, NothingYet, NoDirType, NoLocalsType DEF Typed
<1>5. Within
  BY <1>1 DEF Within, ListSteps, ReadSteps, SeekSteps
<1>6. Directories
  <2>1. dirp.id = 0 /\ ~more
    BY <1>1 DEF NoDir
  <2> QED BY <1>1, <2>1 DEF Directories, OpenSteps
<1>7. Counted
  BY <1>1 DEF Counted
<1> QED BY <1>2, <1>3, <1>4, <1>5, <1>6, <1>7 DEF IInv

LEMMA CallStep ==
  ASSUME IInv, Call
  PROVE  IInv'
<1>1. CASE f_mount(TRUE, TRUE) \/ f_mount(TRUE, FALSE) \/ f_mount(FALSE, TRUE)
  BY <1>1, MountStep
<1>2. CASE \E p \in Paths : f_open(p) \/ f_opendir(p)
  BY <1>2, OpenStep, OpendirStep
<1>3. CASE f_readdir
  BY <1>3, ReaddirStep
<1>4. CASE f_close \/ f_closedir
  BY <1>4, CloseStep
<1>5. CASE \E n \in ReadSizes : f_read(n)
  <2>1. ReadSizes \subseteq Nat
    BY VolumeAssumption
  <2> QED BY <1>5, <2>1, FReadStep
<1>6. CASE \E n \in SeekTo : f_lseek(n)
  <2>1. SeekTo \subseteq Nat
    BY VolumeAssumption
  <2> QED BY <1>6, <2>1, FLseekStep
<1> QED BY <1>1, <1>2, <1>3, <1>4, <1>5, <1>6 DEF Call

LEMMA StepStep ==
  ASSUME IInv, Step
  PROVE  IInv'
<1>1. CASE Follow \/ Read \/ Seek
  BY <1>1, FollowStep, ReadStep, SeekStep
<1>2. CASE \E o \in Outcomes :
             \/ CheckFs(o) \/ FsInfo(o) \/ Find(o) \/ Entry(o) \/ GetFat(o) \/ Fill(o)
             \/ \E lost \in SUBSET (0..(Clip(loc.todo \div SS) - 1)) : Data(o, lost)
  BY <1>2, CheckFsStep, FsInfoStep, FindStep, EntryStep, GetFatStep, FillStep, DataStep
<1> QED BY <1>1, <1>2 DEF Step

\* IInv holds of every state that is reached.
LEMMA Invariance == Spec => []IInv
<1>1. IInv /\ [Next]_vars => IInv'
  BY CallStep, StepStep, SwapStep, IdleStep DEF Next
<1> QED BY InitOK, <1>1, PTL DEF Spec

-----------------------------------------------------------------------------
(* What follows from it *)

LEMMA TypesFollow == IInv => TypeOK
<1> SUFFICES ASSUME IInv PROVE TypeOK
  OBVIOUS
<1>1. /\ card \in DOMAIN Cards /\ ready \in BOOLEAN /\ win \in Buffers
      /\ winsect \in Nat \cup {NoSector}
  BY DEF IInv, DiskOK
<1>2. reg \in BOOLEAN /\ fs \in FsType /\ Fsid \in 0..MaxMounts
  BY DEF IInv, VolumeOK
<1>3. /\ fil \in FilType /\ dirp \in DirType /\ loc \in LocType /\ op \in Ops
      /\ more \in BOOLEAN /\ res \in Errors /\ fil.fptr <= fil.fsize
  BY DEF IInv, Typed
<1>4. fs.fs_type \in {"", "FAT12", "FAT16", "FAT32"}
  BY <1>2 DEF FsType
<1>5. fil.fptr \in 0..fil.fsize /\ fil.err \in Errors /\ fil.buf \in Buffers
  <2>1. fil.fptr \in Nat /\ fil.fsize \in Nat
    BY <1>3, FilFields
  <2> QED BY <1>3, <2>1, FilFields
<1>6. /\ loc.lo \in Buffers /\ loc.dj \in DirType /\ loc.part \in 0..4 /\ loc.todo \in Nat
  BY <1>3, LocFields
<1>7. dirp.index \in 0..(IndexLimit - 1) /\ loc.dj.index \in 0..(IndexLimit - 1)
  BY <1>3, <1>6, DirFields
<1> QED BY <1>1, <1>2, <1>3, <1>4, <1>5, <1>6, <1>7 DEF TypeOK, Ops

\* The variables have their types on every card, whatever its sectors hold; the
\* file pointer of the FIL stays in the file (f_read clips the length, f_lseek
\* the offset) and dir_next stops before the index of a DIR wraps around.
THEOREM VolumeTypeOK == Spec => []TypeOK
BY Invariance, TypesFollow, PTL

LEMMA InsideFollows == IInv => AsksInsideVolume
<1> SUFFICES ASSUME IInv PROVE hist.inside
  BY DEF AsksInsideVolume
<1>1. hist \in HistType
  BY DEF IInv, DiskOK
<1>2. hist.inside \in {TRUE}
  BY <1>1 DEF HistType
<1> QED BY <1>2

\* On every card whose numbers are unsigned (and whose sums fit, FatFormat does not
\* cut them to 32 bits), also one with a damaged FAT, with directory entries that
\* point anywhere or with a boot record that is wrong, and whatever the sectors that
\* were missed leave in the window: the tests of find_volume, clust2sect, dir_sdi,
\* dir_next and get_fat keep every sector that ff.c asks for in the volume it mounted.
THEOREM NeverAsksOutside == Spec => []AsksInsideVolume
BY Invariance, InsideFollows, PTL

\* the bound of NoEndlessCall for the directories
LEMMA DirectoryBudget ==
  ASSUME NEW m \in Nat
  PROVE  3 * IndexLimit * (m + 1) \in Nat /\ 3 * IndexLimit <= 3 * IndexLimit * (m + 1)
<1> DEFINE k == 3 * IndexLimit
<1>1. k \in Nat
  BY SizeFacts
<1> HIDE DEF k
<1>2. k * m \in Nat /\ k * (m + 1) = k * m + k
  BY <1>1
<1>3. k * (m + 1) \in Nat /\ k <= k * (m + 1)
  BY <1>1, <1>2
<1> QED BY <1>3 DEF k

\* A search has used up no more than the names before the current one allow.
LEMMA SearchBudget ==
  ASSUME NEW m \in Nat, NEW n \in Nat, n <= m
  PROVE  /\ 3 * IndexLimit * (m - n) \in Int
         /\ 3 * IndexLimit * (m - n) + 3 * IndexLimit <= 3 * IndexLimit * (m + 1)
<1> DEFINE k == 3 * IndexLimit
<1>1. k \in Nat
  BY SizeFacts
<1> HIDE DEF k
<1>2. k * m \in Nat /\ k * n \in Nat /\ k * (m + 1) = k * m + k /\ k * (m - n) = k * m - k * n
  BY <1>1
<1>3. k * (m - n) \in Int /\ k * (m - n) + k <= k * (m + 1)
  BY <1>1, <1>2
<1> QED BY <1>3 DEF k

LEMMA SearchPaid ==
  ASSUME NEW s \in Nat, NEW d \in Int, NEW l \in Nat \ {0}, NEW i \in 0..(l - 1),
         NEW e \in 0..1, NEW t \in Nat, d + 3 * l <= t,
         s <= 7 + d + 3 * i \/ s <= 8 + d + 3 * i + e
  PROVE  s <= 10 + t
OBVIOUS

LEMMA ListPaid ==
  ASSUME NEW s \in Nat, NEW l \in Nat \ {0}, NEW i \in 0..(l - 1), NEW e \in 0..1,
         NEW t \in Nat, 3 * l <= t,
         s <= 1 + 3 * i \/ s <= 2 + 3 * i + e
  PROVE  s <= 10 + t
OBVIOUS

LEMMA ReadPaid ==
  ASSUME NEW s \in Nat, NEW a \in Nat, NEW t \in Nat, t <= a, NEW e \in 0..1,
         \/ s <= 1 + 4 * (a - t) \/ s <= 2 + 4 * (a - t) + e \/ s <= 4 + 4 * (a - t)
  PROVE  s <= 10 + 4 * a
OBVIOUS

LEMMA SeekPaid ==
  ASSUME NEW s \in Nat, NEW a \in Nat, NEW t \in Nat, t <= a, NEW e \in 0..1,
         \/ s <= 1 + 3 * (a - t) \/ s <= 2 + 3 * (a - t) + e \/ s <= 2 + 3 * a
  PROVE  s <= 10 + 4 * a
OBVIOUS

LEMMA Finite == IInv => NoEndlessCall
<1> SUFFICES ASSUME IInv PROVE NoEndlessCall
  OBVIOUS
<1> DEFINE dirs == 3 * IndexLimit * (Len(Names) + 1)
<1>1. /\ loc \in LocType /\ dirp \in DirType /\ call \in CallType /\ Names \in Seq(STRING)
      /\ pc \in {"Idle"} \cup OpenSteps \cup ListSteps \cup ReadSteps \cup SeekSteps
  BY NamesType DEF IInv, Typed
<1>2. /\ loc.steps \in Nat /\ loc.part \in 0..4 /\ loc.todo \in Nat /\ loc.path \in Seq(STRING)
      /\ loc.dj.index \in 0..(IndexLimit - 1) /\ dirp.index \in 0..(IndexLimit - 1)
      /\ loc.dj.index \in Nat /\ dirp.index \in Nat /\ IndexLimit \in Nat \ {0}
      /\ call.size \in Nat /\ call.pos \in Nat
  BY <1>1, LocFields, DirFields, CallFields, SizeFacts
<1>3. Len(Names) \in Nat /\ Len(loc.path) \in Nat
  BY <1>1, <1>2
<1>4. dirs \in Nat /\ 3 * IndexLimit <= dirs
  BY <1>3, DirectoryBudget
<1>5. Second \in 0..1
  BY SecondType
<1>6. Distance \in Nat
  BY <1>2 DEF Distance
<1>7. NoEndlessCall <=> loc.steps <= 10 + dirs + 4 * Distance
  BY DEF NoEndlessCall, dirs
<1> HIDE DEF dirs
<1>8. CASE pc = "Idle"
  <2>1. loc.steps = 0
    BY <1>8, IdleFacts
  <2> QED BY <1>4, <1>6, <1>7, <2>1
<1>9. CASE pc \in {"Check", "Info", "Follow"}
  <2>1. loc.steps <= 6
    BY <1>2, <1>9 DEF IInv, Counted
  <2> QED BY <1>2, <1>4, <1>6, <1>7, <2>1
<1>10. CASE pc \in {"Find", "FatFind"}
  <2>1. Len(loc.path) <= Len(Names)
    BY <1>10 DEF IInv, Within
  <2>2. PathDone \in Int /\ PathDone + 3 * IndexLimit <= dirs
    BY <1>3, <2>1, SearchBudget DEF PathDone, dirs
  <2>3. \/ loc.steps <= 7 + PathDone + 3 * loc.dj.index
        \/ loc.steps <= 8 + PathDone + 3 * loc.dj.index + Second
    <3>1. Counted
      BY DEF IInv
    <3>2. CASE pc = "Find"
      BY <3>1, <3>2 DEF Counted
    <3>3. CASE pc = "FatFind"
      BY <3>1, <3>3 DEF Counted
    <3> QED BY <1>10, <3>2, <3>3
  <2>4. loc.steps <= 10 + dirs
    BY <1>2, <1>4, <1>5, <2>2, <2>3, SearchPaid
  <2> QED BY <1>2, <1>4, <1>6, <1>7, <2>4
<1>11. CASE pc \in ListSteps
  <2>1. \/ loc.steps <= 1 + 3 * dirp.index
        \/ loc.steps <= 2 + 3 * dirp.index + Second
    BY <1>11 DEF IInv, Counted, ListSteps
  <2>2. loc.steps <= 10 + dirs
    BY <1>2, <1>4, <1>5, <2>1, ListPaid
  <2> QED BY <1>2, <1>4, <1>6, <1>7, <2>2
<1>12. CASE pc \in ReadSteps
  <2>1. Distance = call.size /\ loc.todo <= call.size
    BY <1>12 DEF IInv, Within, Distance
  <2>2. \/ loc.steps <= 1 + 4 * (call.size - loc.todo)
        \/ loc.steps <= 2 + 4 * (call.size - loc.todo) + Second
        \/ loc.steps <= 4 + 4 * (call.size - loc.todo)
    BY <1>12 DEF IInv, Counted, ReadSteps
  <2>3. loc.steps <= 10 + 4 * call.size
    BY <1>2, <1>5, <2>1, <2>2, ReadPaid
  <2> QED BY <1>2, <1>4, <1>6, <1>7, <2>1, <2>3
<1>13. CASE pc \in SeekSteps
  <2>1. Distance = call.pos /\ loc.todo <= call.pos
    BY <1>13 DEF IInv, Within, Distance
  <2>2. \/ loc.steps <= 1 + 3 * (call.pos - loc.todo)
        \/ loc.steps <= 2 + 3 * (call.pos - loc.todo) + Second
        \/ loc.steps <= 2 + 3 * call.pos
    BY <1>13 DEF IInv, Counted, SeekSteps
  <2>3. loc.steps <= 10 + 4 * call.pos
    BY <1>2, <1>5, <2>1, <2>2, SeekPaid
  <2> QED BY <1>2, <1>4, <1>6, <1>7, <2>1, <2>3
<1> QED BY <1>1, <1>8, <1>9, <1>10, <1>11, <1>12, <1>13 DEF OpenSteps

\* On every card, also one whose FAT chains are circular, every call of ff.c ends:
\* dir_next stops at the last index, each turn of the loops of f_read and f_lseek
\* comes nearer to the wanted length or offset, follow_path drops a name each time
\* and find_volume tries four partitions.  The bound is one for the call as a whole.
THEOREM EveryCallIsFinite == Spec => []NoEndlessCall
BY Invariance, Finite, PTL
=============================================================================
