----------------------------- MODULE FatFormat ------------------------------
(***************************************************************************)
(* What lies on an SD card with a FAT volume, and which files that is: the *)
(* on-disk format that bare_metal/ff.c reads.  The cards themselves come   *)
(* from outside; nothing here follows the code of ff.c.                    *)
(*                                                                         *)
(* A card is a record: base, the sector of the volume's boot record (0     *)
(* when the card has no partition table); parts, the four entries of the   *)
(* partition table; bpb, the fields of the boot record; fat, the value of  *)
(* each FAT entry (one that is left out is 0, a free cluster); ent, the    *)
(* entries that are in a sector when it is read as one of a directory (a   *)
(* sector that is left out holds none); dirs, the clusters at which the    *)
(* directories of a sound volume begin, 0 for the root, and {} when it is  *)
(* not known to be sound.                                                  *)
(*                                                                         *)
(* A file's byte is named by where it is: <<card, sector, offset>>.  What  *)
(* a sector buffer holds is named <<card, sector>>, Zeros before any.      *)
(***************************************************************************)
EXTENDS Integers, Sequences, FiniteSets

CONSTANTS
  Cards,               \* a sequence of cards
  SS,                  \* bytes in a sector
  SZ_DIRE,             \* and in a directory entry
  MinFat16, MinFat32,  \* fewest clusters of a FAT16 and a FAT32 volume
  IndexLimit,          \* most entries of a directory, 65536
  Bad,                 \* 0xFFFFFFFF, more than the 28 bits of a FAT entry can say
  Values, Strays       \* what bytes of another sector may be taken for

\* A boot record, and a directory entry, see End.
BootRecord ==
  [BytsPerSec : Nat, RsvdSecCnt : Nat, NumFATs : Nat, FATSz : Nat, SecPerClus : Nat,
   RootEntCnt : Nat, TotSec : Nat, RootClus : Nat, FSInfo : Nat]
DirEntry == [name : STRING, attr : STRING, clust : Nat, size : Nat]

ASSUME FormatAssumption ==
  /\ SS \in Nat \ {0} /\ SS % 4 = 0
  /\ SZ_DIRE \in Nat \ {0} /\ SS % SZ_DIRE = 0
  /\ MinFat16 \in Nat /\ MinFat32 \in Nat /\ MinFat16 <= MinFat32
  /\ IndexLimit \in Nat \ {0} /\ Bad \in Nat \ {0, 1}
  /\ Values \subseteq Nat /\ Strays \subseteq DirEntry

Zeros == <<0, 0>>
DirPer == SS \div SZ_DIRE  \* entries in a directory sector

\* An entry of a directory: a name, what it is, its first cluster, its size.
\* DEL is a deleted one, LFN a part of a long name, VOL the volume's label.
End == [name |-> "", attr |-> "END", clust |-> 0, size |-> 0]
Listed == {"FILE", "DIR"}

\* The numbers on a card are unsigned, of any card.  They are not cut to 32 bits:
\* a boot record with sums beyond that is not modelled.
ASSUME CardsAssumption ==
  /\ Len(Cards) \in Nat \ {0} /\ DOMAIN Cards = 1..Len(Cards)
  /\ \A n \in DOMAIN Cards : LET v == Cards[n] IN
       /\ v.base \in Nat /\ v.parts \in [1..4 -> Nat] /\ v.bpb \in BootRecord
       /\ \A c \in DOMAIN v.fat : v.fat[c] \in Nat \ {Bad}
       /\ \A s \in DOMAIN v.ent, k \in 1..DirPer : v.ent[s][k] \in DirEntry

\* sectors in a cluster: a power of two that a byte can hold
ClusterSizes == {1, 2, 4, 8, 16, 32, 64, 128}

Clusters(b) ==
  (b.TotSec - b.RsvdSecCnt - b.NumFATs * b.FATSz - b.RootEntCnt \div DirPer)
    \div b.SecPerClus
Type(b) == CASE Clusters(b) < MinFat16 -> "FAT12"
             [] Clusters(b) \in MinFat16..(MinFat32 - 1) -> "FAT16"
             [] OTHER -> "FAT32"
FatStart(v)  == v.base + v.bpb.RsvdSecCnt
RootStart(v) == FatStart(v) + v.bpb.NumFATs * v.bpb.FATSz
DataStart(v) == RootStart(v) + v.bpb.RootEntCnt \div DirPer
SectorOf(v, c) == DataStart(v) + (c - 2) * v.bpb.SecPerClus
IsCluster(v, c) == c \in 2..(Clusters(v.bpb) + 1)

\* the sectors that hold a FAT entry: its first and its last byte
FatBytes(v, c) ==
  CASE Type(v.bpb) = "FAT12" -> <<(3 * c) \div 2, (3 * c) \div 2 + 1>>
    [] Type(v.bpb) = "FAT16" -> <<2 * c, 2 * c + 1>>
    [] OTHER -> <<4 * c, 4 * c + 3>>
FatSector(v, c, i) == FatStart(v) + FatBytes(v, c)[i] \div SS
FatEntry(v, c) == IF c \in DOMAIN v.fat THEN v.fat[c] ELSE 0

-----------------------------------------------------------------------------
(* What a sector means to the one who reads it *)

\* as a boot record: 0 it is one of a FAT volume, 1 only its signature is right
BootKind(w) ==
  IF w = Zeros THEN 2
  ELSE LET v == Cards[w[1]] IN
       CASE w[2] = v.base -> 0
         [] w[2] # v.base /\ (w[2] = 0 \/ (v.bpb.FSInfo = 1 /\ w[2] = v.base + 1)) -> 1
         [] OTHER -> 2

\* as a partition table; an FSInfo sector has zeros there
PartsIn(w) == IF w[2] = 0 THEN Cards[w[1]].parts ELSE <<0, 0, 0, 0>>

\* as the sectors of FAT entry c; the bytes of another sector are any
FatValues(first, last, c) ==
  LET v == Cards[last[1]] IN
  IF /\ last # Zeros /\ IsCluster(v, c)
     /\ last = <<last[1], FatSector(v, c, 2)>>
     /\ first = <<last[1], FatSector(v, c, 1)>>
  THEN {FatEntry(v, c)} ELSE Values

\* as a directory sector; those of another sector are any
EntryIn(v, s, k) == IF s \in DOMAIN v.ent THEN v.ent[s][k + 1] ELSE End
EntriesAt(w, k) ==
  CASE w = Zeros -> {End}
    [] w # Zeros /\ w[2] >= RootStart(Cards[w[1]]) -> {EntryIn(Cards[w[1]], w[2], k)}
    [] OTHER -> Strays

-----------------------------------------------------------------------------
(* The directories and files of a volume *)

\* the clusters that follow each other from c on, whatever the FAT says
Chain(v, c) ==
  LET f[k \in Nat] == IF k = 0 THEN c ELSE FatEntry(v, f[k - 1]) IN f

\* Entry k of the directory at cluster c, 0 for the root, and whether there is
\* a place for it.
InTable(v, c) == c = 0 /\ Type(v.bpb) # "FAT32"
DirChain(v, c) == Chain(v, IF c = 0 THEN v.bpb.RootClus ELSE c)
DirCluster(v, c, k) == DirChain(v, c)[(k \div DirPer) \div v.bpb.SecPerClus]
DirSector(v, c, k) ==
  IF InTable(v, c) THEN RootStart(v) + k \div DirPer
  ELSE SectorOf(v, DirCluster(v, c, k)) + ((k \div DirPer) % v.bpb.SecPerClus)
EntryOf(v, c, k) == EntryIn(v, DirSector(v, c, k), k % DirPer)
HasPlace(v, c, k) ==
  IF InTable(v, c) THEN k < v.bpb.RootEntCnt
  ELSE \A j \in 0..k : IsCluster(v, DirCluster(v, c, j))

\* the entries it has, and the ones a listing shows
Entries(v, c) ==
  {k \in 0..(IndexLimit - 1) :
     HasPlace(v, c, k) /\ \A j \in 0..k : EntryOf(v, c, j) # End}
Visible(v, c) == {k \in Entries(v, c) : EntryOf(v, c, k).attr \in Listed}

\* names are the names of the files and directories in it, in order
IsListing(names, v, c) ==
  LET s == Visible(v, c) IN
  /\ Len(names) = Cardinality(s)
  /\ \A k \in s : names[Cardinality({j \in s : j <= k})] = EntryOf(v, c, k).name

\* The root as if it had an entry; dots name it where there is no such entry.
Root == [name |-> "/", attr |-> "DIR", clust |-> 0, size |-> 0]
None == [name |-> "", attr |-> "NONE", clust |-> 0, size |-> 0]
Dots == {".", ".."}
Named(v, c, n) == {k \in Visible(v, c) : EntryOf(v, c, k).name = n}
Child(v, d, n) ==
  IF d.attr # "DIR" THEN None
  ELSE LET found == Named(v, d.clust, n) IN
       IF found # {} THEN EntryOf(v, d.clust, CHOOSE k \in found : \A j \in found : k <= j)
       ELSE IF n \in Dots THEN Root ELSE None

\* where the first names of a path lead, and all of them
Places(v, path) ==
  LET at[k \in Nat] == IF k = 0 THEN Root ELSE Child(v, at[k - 1], path[k]) IN at
Lookup(v, path) == Places(v, path)[Len(path)]

\* byte p of the file with entry e of card n
ClusterBytes(v) == v.bpb.SecPerClus * SS
ByteOf(n, e, p) ==
  LET v == Cards[n]
      c == Chain(v, e.clust)[p \div ClusterBytes(v)]
  IN <<n, SectorOf(v, c) + ((p \div SS) % v.bpb.SecPerClus), p % SS>>

-----------------------------------------------------------------------------
(* Sound volumes *)

\* The boot record describes a volume: its areas fit, there is a cluster, and the
\* numbers of the clusters are below Bad.
IsBootRecord(b) ==
  /\ b.BytsPerSec = SS /\ b.NumFATs \in {1, 2} /\ b.SecPerClus \in ClusterSizes
  /\ b.RsvdSecCnt > 0 /\ b.RootEntCnt % DirPer = 0
  /\ b.TotSec >= b.RsvdSecCnt + b.NumFATs * b.FATSz + b.RootEntCnt \div DirPer
  /\ Clusters(b) > 0 /\ Clusters(b) + 1 < Bad
  /\ (Type(b) = "FAT32" <=> b.RootEntCnt = 0)

\* all bytes of the file with entry e are in clusters of the volume
Readable(v, e) ==
  \A p \in 0..(e.size - 1) : IsCluster(v, Chain(v, e.clust)[p \div ClusterBytes(v)])

\* Its directories' chains end properly, and it has the clusters of its files.
SoundDir(v, c) ==
  LET ch == DirChain(v, c) IN
  /\ ~InTable(v, c) =>
       /\ IsCluster(v, ch[0])
       /\ \A k \in 0..IndexLimit : IsCluster(v, ch[k]) => ch[k + 1] > 1
  /\ \A k \in Visible(v, c) : LET e == EntryOf(v, c, k) IN
       /\ e.attr = "DIR" => e.clust \in v.dirs
       /\ e.attr = "FILE" => Readable(v, e)
IsSound(v) ==
  /\ v.base = 0 \/ \E p \in 1..4 : v.parts[p] = v.base
  /\ IsBootRecord(v.bpb)
  /\ \A c \in 2..(Clusters(v.bpb) + 1) : FatSector(v, c, 2) < FatStart(v) + v.bpb.FATSz
  /\ 0 \in v.dirs /\ \A c \in v.dirs : SoundDir(v, c)

ASSUME SoundAssumption ==
  \A n \in DOMAIN Cards :
    Cards[n].dirs # {} => Cards[n].dirs \subseteq Nat /\ IsSound(Cards[n])
=============================================================================
