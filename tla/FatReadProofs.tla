--------------------------- MODULE FatReadProofs ----------------------------
(* Theorems about what FatVolume's calls give, for every set of cards: the  *)
(* bytes of f_read are the file's, the path leads to what f_open and        *)
(* f_opendir open, and a listing shows each entry once.                     *)
EXTENDS FatVolumeProofs, FiniteSetTheorems, WellFoundedInduction

-----------------------------------------------------------------------------
(* The inductive invariant.  It relates what ff.c holds to what is on the   *)
(* card of the last mount, Mine, as long as no sector was missed.           *)

\* the fields of a volume are those of the one on card v
Describes(f, v) ==
  /\ f.fs_type = Type(v.bpb) /\ f.csize = v.bpb.SecPerClus
  /\ f.n_rootdir = v.bpb.RootEntCnt /\ f.n_fatent = Clusters(v.bpb) + 2
  /\ f.volbase = v.base /\ f.fatbase = FatStart(v) /\ f.database = DataStart(v)
  /\ f.dirbase = IF Type(v.bpb) = "FAT32" THEN v.bpb.RootClus ELSE RootStart(v)
  /\ ~BadBpb(v.bpb)

\* The card in the slot is the one of the mount, as long as it answers; the
\* window holds what winsect says; find_volume will get to a sound volume.
MountOK ==
  /\ ready => card = hist.on
  /\ pc = "Check" \/ fs.fs_type # "" => hist.on \in DOMAIN Cards
  /\ fs.fs_type # "" /\ ~hist.missed =>
       Describes(fs, Mine) /\ (winsect # NoSector => win = <<hist.on, winsect>>)
  /\ pc = "Check" /\ loc.part > 0 /\ ~hist.missed =>
       /\ loc.br = Mine.parts /\ Mine.base # 0
       /\ Mine.dirs # {} /\ ~hist.failed => \E p \in loc.part..4 : loc.br[p] = Mine.base

\* get_fat has the first byte of an entry of FAT12 from where it is
FatOK ==
  pc \in FatCallers /\ loc.lo # Zeros /\ ~hist.missed =>
    fs.fs_type = "FAT12" /\ loc.lo = <<hist.on, FatAt(loc.clst, 0)>>

\* what belongs to what
OpenOK ==
  /\ fil.open => fil.id <= Fsid
  /\ ~(fil.open /\ dirp.open)
  /\ pc \in OpenSteps /\ op \in {"open", "opendir"} => ~fil.open
  /\ pc \in OpenSteps /\ op = "open" => call.pos = 0
  /\ pc \in OpenSteps /\ op = "opendir" => call.names = <<>>
  /\ pc \in ListSteps => Valid(dirp) /\ more /\ dirp.index >= loc.idx
  /\ pc \in ReadSteps \cup SeekSteps => Valid(fil) /\ fil.err = "OK"

\* A directory's sector and cluster are those of its index.
Stands(v, d) ==
  /\ HasPlace(v, d.sclust, d.index) /\ d.sect = DirSector(v, d.sclust, d.index)
  /\ d.clust = IF InTable(v, d.sclust) THEN 0 ELSE DirCluster(v, d.sclust, d.index)

\* entry k of a directory is another than the one with that name, and not the end
Other(v, c, k, nm) ==
  /\ EntryOf(v, c, k) # End
  /\ EntryOf(v, c, k).attr \in Listed => EntryOf(v, c, k).name # nm

\* follow_path is in the directory to which the names before lead, and none of
\* the entries before is the one it looks for
SearchOK ==
  pc \in {"Find", "FatFind"} /\ ~hist.missed =>
    LET n == Len(Names) - Len(loc.path)
        d == Places(Mine, Names)[n]
        dj == loc.dj
    IN /\ \A i \in 1..Len(loc.path) : loc.path[i] = Names[n + i]
       /\ d.attr = "DIR" /\ d.clust = dj.sclust /\ Stands(Mine, dj)
       /\ Mine.dirs # {} => dj.sclust \in Mine.dirs
       /\ \A k \in 0..(dj.index - 1) : Other(Mine, dj.sclust, k, name)
       /\ pc = "FatFind" => Other(Mine, dj.sclust, dj.index, name) /\ loc.clst = dj.clust

\* names are those of the files and directories before entry k
ListedTo(names, v, c, k) ==
  LET s == Visible(v, c) IN
  /\ Len(names) = Cardinality({j \in s : j < k})
  /\ \A i \in s : i < k => names[Cardinality({j \in s : j <= i})] = EntryOf(v, c, i).name

\* displaydir has shown what is before the entry it is at, or everything
ListOK ==
  Valid(dirp) /\ ~(op = "opendir" /\ pc \in OpenSteps) /\ ~hist.missed =>
    LET e == Lookup(Mine, call.dir)
        c == dirp.sclust
        k == dirp.index
    IN /\ e.clust = c
       /\ pc \in ListSteps => dirp.sect # 0
       /\ more /\ dirp.sect = 0 => IsListing(call.names, Mine, c)
       /\ more /\ dirp.sect # 0 =>
            /\ Stands(Mine, dirp)
            /\ \A j \in 0..(k - 1) : EntryOf(Mine, c, j) # End
            /\ pc \notin {"FatNext", "FatSkip"} => ListedTo(call.names, Mine, c, k)
       /\ pc \in {"FatNext", "FatSkip"} =>
            /\ EntryOf(Mine, c, k) # End /\ loc.clst = dirp.clust
            /\ ListedTo(call.names, Mine, c, k + 1)

\* sector i of the file whose first cluster is c
FileSector(v, c, i) ==
  SectorOf(v, Chain(v, c)[i \div v.bpb.SecPerClus]) + (i % v.bpb.SecPerClus)

\* The FIL's cluster is the one of the byte before, its buffer that of the next.
InPlace ==
  /\ fil.fptr > 0 => fil.clust = Chain(Mine, fil.sclust)[(fil.fptr - 1) \div bcs]
  /\ fil.fptr % SS # 0 =>
       fil.dsect # 0 /\ fil.dsect = FileSector(Mine, fil.sclust, fil.fptr \div SS)

\* where the FIL is at each step
Positioned ==
  /\ pc \in {"Idle", "Fill"} => fil.fptr = call.pos
  /\ pc \in ReadSteps \cup {"Seek", "FatSeek"} => fil.fptr + loc.todo = call.pos
  /\ pc \in {"Idle", "Read"} => InPlace
  /\ pc \in {"FatRead", "Fill"} =>
       fil.fptr > 0 /\ fil.clust = Chain(Mine, fil.sclust)[(fil.fptr - 1) \div bcs]
  /\ pc \in {"FatRead", "FatSeek"} => loc.clst = fil.clust
  /\ pc \in {"FatRead", "Seek", "FatSeek"} => fil.fptr % bcs = 0
  /\ pc = "Fill" => (fil.fptr - loc.todo) % bcs = 0 /\ loc.todo < bcs /\ loc.todo <= fil.fptr
  /\ pc \in {"Data", "Seek", "FatSeek"} =>
       fil.clust = Chain(Mine, fil.sclust)[fil.fptr \div bcs]
  /\ pc = "Data" => fil.fptr % SS = 0

\* what f_read has given is the file's
Given ==
  /\ call.from + Len(out) = fil.fptr
  /\ call.pos = call.from + MinOf(call.size, fil.fsize - call.from)
  /\ \A k \in DOMAIN out :
       out[k] = ByteOf(hist.on, Lookup(Mine, call.file), call.from + k - 1)
  /\ out \in Seq({ByteOf(hist.on, Lookup(Mine, call.file), p) : p \in Nat})

\* the FIL is that of the file its path leads to, and where it should be
FileOK ==
  Valid(fil) /\ ~hist.missed =>
    LET e == Lookup(Mine, call.file) IN
    /\ e.attr = "FILE" /\ fil.sclust = e.clust /\ fil.fsize = e.size
    /\ Mine.dirs # {} => Readable(Mine, e)
    /\ fil.dsect # 0 => fil.buf = <<hist.on, fil.dsect>>
    /\ fil.err # "OK" => hist.failed \/ Mine.dirs = {}
    /\ fil.err = "OK" => Positioned
    /\ pc \in ReadSteps => Given

-----------------------------------------------------------------------------
(* Recursive definitions *)

\* a set of numbers has a least one
LEMMA Least ==
  ASSUME NEW T, T \subseteq Nat, T # {}
  PROVE  \E x \in T : \A y \in T : x <= y
<1>1. IsWellFoundedOn(OpToRel(<, Nat), Nat)
  BY NatLessThanWellFounded
<1>2. \E x \in T : \A y \in T : ~ (<<y, x>> \in OpToRel(<, Nat))
  BY <1>1, WFMin
<1>3. PICK x \in T : \A y \in T : ~ (<<y, x>> \in OpToRel(<, Nat))
  BY <1>2
<1>4. \A y \in T : ~(y < x)
  BY <1>3 DEF OpToRel
<1>5. \A y \in T : y \in Nat
  OBVIOUS
<1>6. \A y \in T : x <= y
  BY <1>4, <1>5
<1> QED BY <1>6

\* induction over the naturals, for a set
LEMMA Induction ==
  ASSUME NEW T, 0 \in T, \A n \in Nat : n \in T => n + 1 \in T
  PROVE  \A n \in Nat : n \in T
<1> SUFFICES ASSUME NEW m \in Nat, m \notin T PROVE FALSE
  OBVIOUS
<1> DEFINE U == {n \in Nat : n \notin T}
<1>1. PICK x \in U : \A y \in U : x <= y
  BY Least
<1>2. x # 0 /\ x - 1 \in Nat /\ x - 1 \notin U
  BY <1>1
<1>3. x - 1 \in T
  BY <1>2
<1>4. (x - 1) + 1 \in T
  BY <1>2, <1>3
<1> QED BY <1>1, <1>4

\* F is a, and each value g of the one before and its place
IsIterate(F, S, a, g) ==
  F \in [Nat -> S] /\ F[0] = a /\ \A k \in Nat : F[k + 1] = g[<<F[k], k + 1>>]

LEMMA Iterate ==
  ASSUME NEW S, NEW a \in S, NEW g \in [S \X Nat -> S]
  PROVE  \E F : IsIterate(F, S, a, g)
<1> DEFINE Good(n, F) == /\ F \in [0..n -> S] /\ F[0] = a
                         /\ \A k \in 1..n : F[k] = g[<<F[k - 1], k>>]
<1> DEFINE T == {n \in Nat : \E F \in [0..n -> S] : Good(n, F)}
<1>1. 0 \in T
  <2>1. Good(0, [k \in 0..0 |-> a])
    OBVIOUS
  <2> QED BY <2>1
<1>2. ASSUME NEW n \in Nat, n \in T PROVE n + 1 \in T
  <2>1. PICK F \in [0..n -> S] : Good(n, F)
    BY <1>2
  <2> DEFINE H == [k \in 0..(n + 1) |-> IF k = n + 1 THEN g[<<F[n], n + 1>>] ELSE F[k]]
  <2>2. F[n] \in S /\ n + 1 \in Nat /\ g[<<F[n], n + 1>>] \in S
    OBVIOUS
  <2>3. H \in [0..(n + 1) -> S] /\ H[0] = a
    BY <2>1, <2>2
  <2>4. \A k \in 1..(n + 1) : H[k] = g[<<H[k - 1], k>>]
    <3> SUFFICES ASSUME NEW k \in 1..(n + 1) PROVE H[k] = g[<<H[k - 1], k>>]
      OBVIOUS
    <3>1. k \in 0..(n + 1) /\ k - 1 \in 0..n /\ k - 1 \in 0..(n + 1) /\ k - 1 # n + 1
      OBVIOUS
    <3>2. H[k - 1] = F[k - 1]
      BY <3>1
    <3>3. CASE k = n + 1
      BY <3>1, <3>2, <3>3
    <3>4. CASE k # n + 1
      <4>1. k \in 1..n /\ H[k] = F[k]
        BY <3>1, <3>4
      <4>2. F[k] = g[<<F[k - 1], k>>]
        BY <2>1, <4>1
      <4> QED BY <3>2, <4>1, <4>2
    <3> QED BY <3>3, <3>4
  <2> QED BY <2>2, <2>3, <2>4
<1>3. \A n \in Nat : n \in T
  <2> HIDE DEF T
  <2> QED BY <1>1, <1>2, Induction
<1>4. \A n \in Nat : \E F \in [0..n -> S] : Good(n, F)
  BY <1>3
<1> DEFINE P(n) == CHOOSE F \in [0..n -> S] : Good(n, F)
<1>5. ASSUME NEW n \in Nat PROVE P(n) \in [0..n -> S] /\ Good(n, P(n))
  BY <1>4
<1> HIDE DEF P
<1>6. ASSUME NEW n \in Nat, NEW m \in Nat
      PROVE \A k \in Nat : k <= n /\ k <= m => P(n)[k] = P(m)[k]
  <2> DEFINE U == {k \in Nat : k <= n /\ k <= m => P(n)[k] = P(m)[k]}
  <2>1. 0 \in U
    BY <1>5
  <2>2. ASSUME NEW k \in Nat, k \in U PROVE k + 1 \in U
    <3> SUFFICES ASSUME k + 1 <= n, k + 1 <= m PROVE P(n)[k + 1] = P(m)[k + 1]
      OBVIOUS
    <3>1. P(n)[k] = P(m)[k] /\ k + 1 \in 1..n /\ k + 1 \in 1..m /\ (k + 1) - 1 = k
      BY <2>2
    <3>2. P(n)[k + 1] = g[<<P(n)[k], k + 1>>]
      BY <1>5, <3>1
    <3>3. P(m)[k + 1] = g[<<P(m)[k], k + 1>>]
      BY <1>5, <3>1
    <3> QED BY <3>1, <3>2, <3>3
  <2>3. \A k \in Nat : k \in U
    <3> HIDE DEF U
    <3> QED BY <2>1, <2>2, Induction
  <2> QED BY <2>3
<1> DEFINE F == [k \in Nat |-> P(k)[k]]
<1>7. F \in [Nat -> S]
  <2>1. \A k \in Nat : P(k)[k] \in S
    <3> SUFFICES ASSUME NEW k \in Nat PROVE P(k)[k] \in S
      OBVIOUS
    <3> QED BY <1>5
  <2> QED BY <2>1
<1>8. F[0] = a
  BY <1>5
<1>9. ASSUME NEW k \in Nat PROVE F[k + 1] = g[<<F[k], k + 1>>]
  <2>1. k + 1 \in Nat /\ k + 1 \in 1..(k + 1) /\ k <= k + 1 /\ (k + 1) - 1 = k
    OBVIOUS
  <2>2. P(k + 1)[k + 1] = g[<<P(k + 1)[k], k + 1>>]
    BY <1>5, <2>1
  <2>3. P(k + 1)[k] = P(k)[k]
    BY <1>6, <2>1
  <2>4. F[k] = P(k)[k] /\ F[k + 1] = P(k + 1)[k + 1]
    BY <2>1
  <2> QED BY <2>2, <2>3, <2>4
<1> HIDE DEF F
<1> QED BY <1>7, <1>8, <1>9 DEF IsIterate

LEMMA ChainDef ==
  ASSUME NEW v, NEW c \in Nat, \A x \in DOMAIN v.fat : v.fat[x] \in Nat
  PROVE  /\ Chain(v, c) \in [Nat -> Nat] /\ Chain(v, c)[0] = c
         /\ \A k \in Nat : Chain(v, c)[k + 1] = FatEntry(v, Chain(v, c)[k])
<1> DEFINE g == [x \in Nat \X Nat |-> FatEntry(v, x[1])]
<1>1. \A x \in Nat : FatEntry(v, x) \in Nat
  BY DEF FatEntry
<1>2. g \in [Nat \X Nat -> Nat]
  BY <1>1
<1>0. PICK F : IsIterate(F, Nat, c, g)
  <2> HIDE DEF g
  <2> QED BY <1>2, Iterate
<1>3. F \in [Nat -> Nat] /\ F[0] = c /\ \A k \in Nat : F[k + 1] = g[<<F[k], k + 1>>]
  <2> HIDE DEF g
  <2> QED BY <1>0 DEF IsIterate
<1>4. F = [k \in Nat |-> IF k = 0 THEN c ELSE FatEntry(v, F[k - 1])]
  <2>1. \A k \in Nat : F[k] = IF k = 0 THEN c ELSE FatEntry(v, F[k - 1])
    <3> SUFFICES ASSUME NEW k \in Nat, k # 0 PROVE F[k] = FatEntry(v, F[k - 1])
      BY <1>3
    <3>1. F[k - 1] \in Nat /\ k - 1 \in Nat /\ (k - 1) + 1 = k
      BY <1>3
    <3>2. F[k] = g[<<F[k - 1], k>>]
      BY <1>3, <3>1
    <3> QED BY <3>1, <3>2
  <2> HIDE DEF g
  <2> QED BY <1>3, <2>1
<1> DEFINE Rec(f) == f = [k \in Nat |-> IF k = 0 THEN c ELSE FatEntry(v, f[k - 1])]
<1>5. Rec(CHOOSE f : Rec(f))
  BY <1>4
<1>6. Chain(v, c) = CHOOSE f : Rec(f)
  BY DEF Chain
<1>7. Rec(Chain(v, c))
  BY <1>5, <1>6
<1> HIDE DEF Rec
<1> DEFINE C == Chain(v, c)
<1>8. C = [k \in Nat |-> IF k = 0 THEN c ELSE FatEntry(v, C[k - 1])]
  BY <1>7 DEF Rec
<1> HIDE DEF C
<1>9. C[0] = c /\ \A k \in Nat : C[k + 1] = FatEntry(v, C[k])
  <2>1. C[0] = c
    BY <1>8
  <2>2. ASSUME NEW k \in Nat PROVE C[k + 1] = FatEntry(v, C[k])
    <3>1. k + 1 \in Nat /\ k + 1 # 0 /\ (k + 1) - 1 = k
      OBVIOUS
    <3> QED BY <1>8, <3>1
  <2> QED BY <2>1, <2>2
<1>10. \A k \in Nat : C[k] \in Nat
  <2> DEFINE T == {k \in Nat : C[k] \in Nat}
  <2>1. 0 \in T
    BY <1>9
  <2>2. \A n \in Nat : n \in T => n + 1 \in T
    BY <1>1, <1>9
  <2> HIDE DEF T
  <2>3. \A n \in Nat : n \in T
    BY <2>1, <2>2, Induction
  <2> QED BY <2>3 DEF T
<1> QED BY <1>8, <1>9, <1>10 DEF C

\* what Places is: an entry for each number of names
AnyEntry == DirEntry \cup {End, Root, None}

LEMMA AnyFields ==
  ASSUME NEW e \in AnyEntry
  PROVE  e.clust \in Nat /\ e.size \in Nat
<1>1. CASE e \in DirEntry
  BY <1>1 DEF DirEntry
<1>2. CASE e = End
  BY <1>2 DEF End
<1>3. CASE e = Root
  BY <1>3 DEF Root
<1>4. CASE e = None
  BY <1>4 DEF None
<1> QED BY <1>1, <1>2, <1>3, <1>4 DEF AnyEntry

LEMMA EntryOfType ==
  ASSUME NEW n \in DOMAIN Cards, NEW c, NEW k \in Nat
  PROVE  EntryOf(Cards[n], c, k) \in DirEntry \cup {End}
<1> DEFINE s == DirSector(Cards[n], c, k)
<1>1. (k % DirPer) + 1 \in 1..DirPer
  <2>1. k % DirPer \in 0..(DirPer - 1) /\ DirPer \in Nat \ {0}
    BY SizeFacts, DivMod
  <2> QED BY <2>1
<1>2. EntryOf(Cards[n], c, k) = EntryIn(Cards[n], s, k % DirPer)
  BY DEF EntryOf
<1> HIDE DEF s
<1> QED BY <1>1, <1>2, CardFacts DEF EntryIn

LEMMA VisibleNat ==
  ASSUME NEW v, NEW c
  PROVE  /\ Visible(v, c) \subseteq Entries(v, c)
         /\ \A k \in Entries(v, c) : k \in Nat /\ k \in 0..(IndexLimit - 1)
BY SizeFacts DEF Visible, Entries

\* the first entry with a name
LEMMA NamedFirst ==
  ASSUME NEW v, NEW c, NEW n, Named(v, c, n) # {}
  PROVE  LET k == CHOOSE k \in Named(v, c, n) : \A j \in Named(v, c, n) : k <= j
         IN k \in Named(v, c, n) /\ (\A j \in Named(v, c, n) : k <= j) /\ k \in Nat
<1> DEFINE T == Named(v, c, n)
<1>1. T \subseteq Nat
  BY VisibleNat DEF Named
<1> HIDE DEF T
<1>2. T # {}
  BY DEF T
<1>3. \E x \in T : \A y \in T : x <= y
  BY <1>1, <1>2, Least
<1> QED BY <1>1, <1>3 DEF T

LEMMA ChildType ==
  ASSUME NEW n \in DOMAIN Cards, NEW d, NEW nm
  PROVE  Child(Cards[n], d, nm) \in AnyEntry
<1> DEFINE v == Cards[n]
<1> DEFINE T == Named(v, d.clust, nm)
<1> DEFINE k == CHOOSE k \in T : \A j \in T : k <= j
<1>1. CASE d.attr = "DIR" /\ T # {}
  <2>1. k \in Nat
    BY <1>1, NamedFirst
  <2>2. Child(v, d, nm) = EntryOf(v, d.clust, k)
    BY <1>1 DEF Child
  <2> HIDE DEF k
  <2> QED BY <2>1, <2>2, EntryOfType DEF AnyEntry
<1>2. CASE ~(d.attr = "DIR" /\ T # {})
  <2>1. Child(v, d, nm) \in {Root, None}
    BY <1>2 DEF Child
  <2> QED BY <2>1 DEF AnyEntry
<1> QED BY <1>1, <1>2

LEMMA PlacesDef ==
  ASSUME NEW n \in DOMAIN Cards, NEW path
  PROVE  /\ \A k \in Nat : Places(Cards[n], path)[k] \in AnyEntry
         /\ Places(Cards[n], path)[0] = Root
         /\ \A k \in Nat : Places(Cards[n], path)[k + 1]
                             = Child(Cards[n], Places(Cards[n], path)[k], path[k + 1])
<1> DEFINE v == Cards[n]
<1> DEFINE S == AnyEntry
<1> DEFINE g == [x \in S \X Nat |-> Child(v, x[1], path[x[2]])]
<1>1. g \in [S \X Nat -> S]
  BY ChildType
<1>2. Root \in S
  BY DEF AnyEntry
<1>3. PICK F : IsIterate(F, S, Root, g)
  <2> HIDE DEF g, S
  <2> QED BY <1>1, <1>2, Iterate
<1>4. F \in [Nat -> S] /\ F[0] = Root /\ \A k \in Nat : F[k + 1] = g[<<F[k], k + 1>>]
  <2> HIDE DEF g, S
  <2> QED BY <1>3 DEF IsIterate
<1>5. \A k \in Nat : F[k + 1] = Child(v, F[k], path[k + 1])
  <2> SUFFICES ASSUME NEW k \in Nat PROVE F[k + 1] = Child(v, F[k], path[k + 1])
    OBVIOUS
  <2>1. F[k] \in S /\ k + 1 \in Nat
    BY <1>4
  <2>2. F[k + 1] = g[<<F[k], k + 1>>]
    BY <1>4
  <2>3. <<F[k], k + 1>> \in S \X Nat
    BY <2>1
  <2> HIDE DEF S
  <2> QED BY <2>2, <2>3
<1> HIDE DEF g
<1>6. F = [k \in Nat |-> IF k = 0 THEN Root ELSE Child(v, F[k - 1], path[k])]
  <2>1. \A k \in Nat : F[k] = IF k = 0 THEN Root ELSE Child(v, F[k - 1], path[k])
    <3> SUFFICES ASSUME NEW k \in Nat, k # 0 PROVE F[k] = Child(v, F[k - 1], path[k])
      BY <1>4
    <3>1. k - 1 \in Nat /\ (k - 1) + 1 = k
      OBVIOUS
    <3> QED BY <1>5, <3>1
  <2> HIDE DEF S
  <2> QED BY <1>4, <2>1
<1> DEFINE Rec(f) == f = [k \in Nat |-> IF k = 0 THEN Root ELSE Child(v, f[k - 1], path[k])]
<1>7. Rec(CHOOSE f : Rec(f))
  BY <1>6
<1>8. Places(v, path) = CHOOSE f : Rec(f)
  BY DEF Places
<1>9. Rec(Places(v, path))
  BY <1>7, <1>8
<1> HIDE DEF Rec
<1> DEFINE P == Places(v, path)
<1>10. P = [k \in Nat |-> IF k = 0 THEN Root ELSE Child(v, P[k - 1], path[k])]
  BY <1>9 DEF Rec
<1> HIDE DEF P, S
<1>11. P[0] = Root
  BY <1>10
<1>12. ASSUME NEW k \in Nat PROVE P[k + 1] = Child(v, P[k], path[k + 1])
  <2>1. k + 1 \in Nat /\ k + 1 # 0 /\ (k + 1) - 1 = k
    OBVIOUS
  <2> QED BY <1>10, <2>1
<1>13. \A k \in Nat : P[k] \in AnyEntry
  <2> DEFINE T == {k \in Nat : P[k] \in AnyEntry}
  <2>1. 0 \in T
    BY <1>11 DEF AnyEntry
  <2>2. \A k \in Nat : k \in T => k + 1 \in T
    BY <1>12, ChildType
  <2> HIDE DEF T
  <2>3. \A k \in Nat : k \in T
    BY <2>1, <2>2, Induction
  <2> QED BY <2>3 DEF T
<1> QED BY <1>11, <1>12, <1>13 DEF P

\* a path that leads nowhere, however long it is
LEMMA NoWay ==
  ASSUME NEW n \in DOMAIN Cards, NEW path, NEW i \in Nat,
         Places(Cards[n], path)[i].attr # "DIR"
  PROVE  \A k \in Nat : k > i => Places(Cards[n], path)[k] = None
<1> DEFINE P == Places(Cards[n], path)
<1>1. \A k \in Nat : P[k].attr # "DIR" => P[k + 1] = None
  <2> SUFFICES ASSUME NEW k \in Nat, P[k].attr # "DIR" PROVE P[k + 1] = None
    OBVIOUS
  <2> QED BY PlacesDef DEF Child
<1>2. None.attr # "DIR"
  BY DEF None
<1> DEFINE T == {k \in Nat : P[(i + 1) + k] = None}
<1> HIDE DEF P
<1>3. 0 \in T
  <2>1. P[i].attr # "DIR"
    BY DEF P
  <2>2. P[i + 1] = None /\ (i + 1) + 0 = i + 1
    BY <1>1, <2>1
  <2> QED BY <2>2
<1>4. \A k \in Nat : k \in T => k + 1 \in T
  <2> SUFFICES ASSUME NEW k \in Nat, k \in T PROVE k + 1 \in T
    OBVIOUS
  <2>1. (i + 1) + k \in Nat /\ ((i + 1) + k) + 1 = (i + 1) + (k + 1)
    OBVIOUS
  <2> QED BY <1>1, <1>2, <2>1
<1>5. \A k \in Nat : k \in T
  <2> HIDE DEF T
  <2> QED BY <1>3, <1>4, Induction
<1>6. ASSUME NEW k \in Nat, k > i PROVE P[k] = None
  <2>1. k - (i + 1) \in Nat /\ (i + 1) + (k - (i + 1)) = k
    BY <1>6
  <2>2. k - (i + 1) \in T
    BY <1>5, <2>1
  <2> QED BY <2>1, <2>2
<1> QED BY <1>6 DEF P

-----------------------------------------------------------------------------
(* More division *)

LEMMA DivTwice ==
  ASSUME NEW a \in Nat, NEW b \in Nat \ {0}, NEW c \in Nat \ {0}
  PROVE  /\ c * b \in Nat \ {0} /\ a \div (c * b) = (a \div b) \div c
         /\ a % (c * b) = b * ((a \div b) % c) + (a % b)
<1> DEFINE q == a \div b
<1> DEFINE r == a % b
<1> DEFINE p == q \div c
<1> DEFINE s == q % c
<1> DEFINE m == c * b
<1>1. q \in Nat /\ r \in 0..(b - 1) /\ a = b * q + r
  BY DivMod
<1>2. p \in Nat /\ s \in 0..(c - 1) /\ q = c * p + s
  <2> HIDE DEF q
  <2> QED BY <1>1, DivMod
<1>3. m \in Nat \ {0}
  OBVIOUS
<1> HIDE DEF q, r, p, s
<1>4. b * s + b <= m /\ b * s \in Nat
  <2>1. s \in Int /\ c \in Int /\ s < c
    BY <1>2
  <2>2. b * s + b <= b * c
    BY <2>1, LessProduct
  <2> QED BY <1>2, <2>2
<1>5. b * q = m * p + b * s
  <2>1. q = c * p + s
    BY <1>2
  <2>2. b * (c * p + s) = b * (c * p) + b * s
    BY <1>2
  <2>3. b * (c * p) = (c * b) * p
    BY <1>2
  <2> QED BY <2>1, <2>2, <2>3
<1> HIDE DEF m
<1>6. a = m * p + (b * s + r) /\ b * s + r \in 0..(m - 1) /\ p \in Int
  <2>1. m * p \in Nat /\ b * q \in Nat
    BY <1>1, <1>2, <1>3
  <2> QED BY <1>1, <1>2, <1>3, <1>4, <1>5, <2>1
<1>7. a \div m = p /\ a % m = b * s + r
  BY <1>3, <1>6, DivUnique
<1> QED BY <1>3, <1>7 DEF m, p, q, r, s

LEMMA ModTwice ==
  ASSUME NEW a \in Nat, NEW b \in Nat \ {0}, NEW c \in Nat \ {0}
  PROVE  (a % (c * b) = 0) <=> (a % b = 0 /\ (a \div b) % c = 0)
<1> DEFINE s == (a \div b) % c
<1> DEFINE r == a % b
<1>1. a \div b \in Nat /\ r \in 0..(b - 1)
  BY DivMod
<1>2. s \in Nat
  BY <1>1, DivMod
<1>3. a % (c * b) = b * s + r
  BY DivTwice
<1> HIDE DEF s, r
<1>4. b * s \in Nat /\ (b * s = 0 <=> s = 0)
  BY <1>2
<1>5. r \in Nat
  BY <1>1
<1>6. b * s + r = 0 <=> (b * s = 0 /\ r = 0)
  BY <1>4, <1>5
<1> QED BY <1>3, <1>4, <1>6 DEF s, r

LEMMA DivPrev ==
  ASSUME NEW a \in Nat \ {0}, NEW b \in Nat \ {0}
  PROVE  /\ a % b # 0 => (a - 1) \div b = a \div b
         /\ a % b = 0 => (a - 1) \div b = (a \div b) - 1 /\ a \div b > 0
<1>1. a - 1 \in Nat /\ (a - 1) + 1 = a
  OBVIOUS
<1>2. (a - 1) \div b \in Nat
  BY <1>1, DivMod
<1>3. /\ a % b = 0 => a \div b = ((a - 1) \div b) + 1
      /\ a % b # 0 => a \div b = (a - 1) \div b
  BY <1>1, DivNext
<1> QED BY <1>2, <1>3

LEMMA DivWithin ==
  ASSUME NEW a \in Nat, NEW k \in Nat, NEW b \in Nat \ {0}, (a % b) + k < b
  PROVE  (a + k) \div b = a \div b /\ (a + k) % b = (a % b) + k
<1> DEFINE q == a \div b
<1> DEFINE r == a % b
<1>1. q \in Nat /\ r \in 0..(b - 1) /\ a = b * q + r
  BY DivMod
<1>2. r + k < b
  OBVIOUS
<1> HIDE DEF q, r
<1>3. b * q \in Nat
  BY <1>1
<1>4. a + k \in Nat /\ q \in Int /\ r + k \in 0..(b - 1) /\ a + k = b * q + (r + k)
  BY <1>1, <1>2, <1>3
<1>5. (a + k) \div b = q /\ (a + k) % b = r + k
  BY <1>4, DivUnique
<1> QED BY <1>5 DEF q, r

LEMMA DivAfter ==
  ASSUME NEW a \in Nat, NEW k \in Nat, NEW b \in Nat \ {0}, a % b = 0
  PROVE  (a + k) \div b = (a \div b) + (k \div b) /\ (a + k) % b = k % b
<1> DEFINE q == a \div b
<1> DEFINE p == k \div b
<1> DEFINE r == k % b
<1>1. q \in Nat /\ a = b * q + (a % b)
  BY DivMod
<1>2. p \in Nat /\ r \in 0..(b - 1) /\ k = b * p + r
  BY DivMod
<1>3. a = b * q
  BY <1>1
<1> HIDE DEF q, p, r
<1>4. b * (q + p) = b * q + b * p /\ b * p \in Nat /\ b * q \in Nat
  BY <1>1, <1>2
<1>5. a + k \in Nat /\ q + p \in Int /\ a + k = b * (q + p) + r
  BY <1>1, <1>2, <1>3, <1>4
<1>6. (a + k) \div b = q + p /\ (a + k) % b = r
  BY <1>2, <1>5, DivUnique
<1> QED BY <1>6 DEF q, p, r

LEMMA DivAtMost ==
  ASSUME NEW a \in Nat, NEW b \in Nat \ {0}
  PROVE  a \div b <= a
<1> DEFINE q == a \div b
<1>1. q \in Nat /\ a % b \in Nat /\ a = b * q + (a % b)
  BY DivMod
<1> HIDE DEF q
<1>2. q <= b * q
  BY <1>1
<1>3. b * q \in Nat
  BY <1>1
<1> QED BY <1>1, <1>2, <1>3 DEF q

-----------------------------------------------------------------------------
(* The volume that was mounted *)

LEMMA BootNumbers ==
  ASSUME NEW b \in BootRecord, ~BadBpb(b)
  PROVE  /\ b.SecPerClus \in ClusterSizes /\ b.SecPerClus \in Nat \ {0}
         /\ b.RsvdSecCnt \in Nat \ {0} /\ b.FATSz \in Nat /\ b.NumFATs \in {1, 2}
         /\ b.RootEntCnt \in Nat /\ b.RootEntCnt % DirPer = 0 /\ b.RootClus \in Nat
         /\ b.RootEntCnt \div DirPer \in Nat /\ b.NumFATs * b.FATSz \in Nat
         /\ (Type(b) = "FAT32" <=> b.RootEntCnt = 0)
         /\ Type(b) \in {"FAT12", "FAT16", "FAT32"}
<1>1. /\ b.BytsPerSec \in Nat /\ b.RsvdSecCnt \in Nat /\ b.NumFATs \in Nat /\ b.FATSz \in Nat
      /\ b.SecPerClus \in Nat /\ b.RootEntCnt \in Nat /\ b.TotSec \in Nat /\ b.RootClus \in Nat
  BY DEF BootRecord
<1>2. b.NumFATs \in {1, 2} /\ b.SecPerClus \in ClusterSizes /\ b.RsvdSecCnt # 0
  BY DEF BadBpb
<1>3. b.RootEntCnt % DirPer = 0
  BY DEF BadBpb
<1>4. (Type(b) = "FAT32") = (b.RootEntCnt = 0)
  BY DEF BadBpb
<1>5. b.RootEntCnt \div DirPer \in Nat
  BY <1>1, SizeFacts, DivMod
<1>6. b.NumFATs * b.FATSz \in Nat
  BY <1>1
<1>7. Type(b) \in {"FAT12", "FAT16", "FAT32"}
  BY DEF Type
<1>8. b.SecPerClus \in Nat \ {0} /\ b.RsvdSecCnt \in Nat \ {0}
  BY <1>1, <1>2 DEF ClusterSizes
<1> QED BY <1>1, <1>2, <1>3, <1>4, <1>5, <1>6, <1>7, <1>8

LEMMA IntDiv ==
  ASSUME NEW a \in Int, NEW b \in Nat \ {0}
  PROVE  a \div b \in Int
OBVIOUS

LEMMA VolumeNumbers ==
  ASSUME NEW n \in DOMAIN Cards, NEW f \in FsType, Describes(f, Cards[n])
  PROVE  LET v == Cards[n] IN
         /\ v.base \in Nat /\ v.bpb \in BootRecord
         /\ FatStart(v) \in Nat \ {0} /\ RootStart(v) \in Nat \ {0} /\ DataStart(v) \in Nat \ {0}
         /\ RootStart(v) <= DataStart(v) /\ FatStart(v) <= RootStart(v)
         /\ f.csize = v.bpb.SecPerClus /\ f.csize \in Nat \ {0} /\ f.csize \in ClusterSizes
         /\ f.n_fatent = Clusters(v.bpb) + 2 /\ f.n_fatent \in Nat
         /\ Clusters(v.bpb) + 1 = f.n_fatent - 1
         /\ f.n_rootdir = v.bpb.RootEntCnt /\ f.n_rootdir \in Nat
         /\ f.database = DataStart(v) /\ f.fatbase = FatStart(v)
<1> DEFINE v == Cards[n]
<1>1. v.base \in Nat /\ v.bpb \in BootRecord
  BY CardsAssumption
<1>2. ~BadBpb(v.bpb)
  BY DEF Describes
<1>3. /\ v.bpb.RsvdSecCnt \in Nat \ {0} /\ v.bpb.NumFATs * v.bpb.FATSz \in Nat
      /\ v.bpb.RootEntCnt \div DirPer \in Nat /\ v.bpb.SecPerClus \in ClusterSizes
      /\ v.bpb.SecPerClus \in Nat \ {0}
  BY <1>1, <1>2, BootNumbers
<1>4. /\ FatStart(v) = v.base + v.bpb.RsvdSecCnt
      /\ RootStart(v) = FatStart(v) + v.bpb.NumFATs * v.bpb.FATSz
      /\ DataStart(v) = RootStart(v) + v.bpb.RootEntCnt \div DirPer
  BY DEF FatStart, RootStart, DataStart
<1>5. f.n_fatent \in Nat /\ f.csize \in Nat \ {0} /\ f.n_rootdir \in Nat
  BY FsFields
<1>6. f.n_fatent = Clusters(v.bpb) + 2
  BY DEF Describes
<1>7. Clusters(v.bpb) \in Int
  <2> DEFINE num == v.bpb.TotSec - v.bpb.RsvdSecCnt - v.bpb.NumFATs * v.bpb.FATSz
                      - v.bpb.RootEntCnt \div DirPer
  <2>1. v.bpb.TotSec \in Nat
    BY <1>1 DEF BootRecord
  <2>2. num \in Int
    BY <1>3, <2>1
  <2>3. Clusters(v.bpb) = num \div v.bpb.SecPerClus
    BY DEF Clusters
  <2> HIDE DEF num
  <2> QED BY <1>3, <2>2, <2>3, IntDiv
<1>8. Clusters(v.bpb) + 1 = f.n_fatent - 1
  BY <1>5, <1>6, <1>7
<1>9. /\ f.csize = v.bpb.SecPerClus /\ f.n_rootdir = v.bpb.RootEntCnt
      /\ f.database = DataStart(v) /\ f.fatbase = FatStart(v)
  BY DEF Describes
<1>10. FatStart(v) \in Nat \ {0} /\ RootStart(v) \in Nat \ {0} /\ DataStart(v) \in Nat \ {0}
       /\ RootStart(v) <= DataStart(v) /\ FatStart(v) <= RootStart(v)
  <2> DEFINE x == v.bpb.NumFATs * v.bpb.FATSz
  <2> DEFINE y == v.bpb.RootEntCnt \div DirPer
  <2>1. x \in Nat /\ y \in Nat
    BY <1>3
  <2>2. RootStart(v) = FatStart(v) + x /\ DataStart(v) = RootStart(v) + y
    BY <1>4
  <2> HIDE DEF x, y
  <2>3. FatStart(v) \in Nat \ {0}
    BY <1>1, <1>3, <1>4
  <2>4. RootStart(v) \in Nat \ {0} /\ FatStart(v) <= RootStart(v)
    BY <2>1, <2>2, <2>3
  <2> QED BY <2>1, <2>2, <2>3, <2>4
<1> QED BY <1>1, <1>3, <1>5, <1>6, <1>8, <1>9, <1>10

\* A cluster of the volume is one that clust2sect accepts.
LEMMA ClusterSector ==
  ASSUME NEW n \in DOMAIN Cards, NEW f \in FsType, Describes(f, Cards[n]), NEW c \in Nat
  PROVE  /\ IsCluster(Cards[n], c) <=> c \in 2..(f.n_fatent - 1)
         /\ IsCluster(Cards[n], c) <=> clust2sect(f, c) # 0
         /\ IsCluster(Cards[n], c) =>
              /\ clust2sect(f, c) = SectorOf(Cards[n], c)
              /\ SectorOf(Cards[n], c) \in Nat /\ SectorOf(Cards[n], c) >= DataStart(Cards[n])
<1> DEFINE v == Cards[n]
<1>1. /\ f.database = DataStart(v) /\ f.csize = v.bpb.SecPerClus /\ f.csize \in Nat \ {0}
      /\ DataStart(v) \in Nat \ {0} /\ f.n_fatent \in Nat
      /\ Clusters(v.bpb) + 1 = f.n_fatent - 1
  BY VolumeNumbers
<1>2. IsCluster(v, c) <=> c \in 2..(f.n_fatent - 1)
  BY <1>1 DEF IsCluster
<1>3. CASE c \in 2..(f.n_fatent - 1)
  <2>1. c - 2 \in 0..(f.n_fatent - 3)
    BY <1>1, <1>3
  <2>2. clust2sect(f, c) = (c - 2) * f.csize + f.database
    BY <2>1 DEF clust2sect
  <2> DEFINE x == (c - 2) * f.csize
  <2>3. x \in Nat
    <3>1. c - 2 \in Nat
      BY <1>1, <1>3
    <3> QED BY <1>1, <3>1
  <2>4. SectorOf(v, c) = DataStart(v) + x
    BY <1>1 DEF SectorOf
  <2>5. clust2sect(f, c) = x + f.database
    BY <2>2
  <2> HIDE DEF x
  <2>6. clust2sect(f, c) = SectorOf(v, c) /\ clust2sect(f, c) # 0
        /\ SectorOf(v, c) \in Nat /\ SectorOf(v, c) >= DataStart(v)
    BY <1>1, <2>3, <2>4, <2>5
  <2> QED BY <1>2, <1>3, <2>6
<1>4. CASE c \notin 2..(f.n_fatent - 1)
  <2>1. c - 2 \notin 0..(f.n_fatent - 3)
    BY <1>1, <1>4
  <2>2. clust2sect(f, c) = 0
    BY <2>1 DEF clust2sect
  <2> QED BY <1>2, <1>4, <2>2
<1> QED BY <1>3, <1>4

\* get_fat reads an entry from where it is.
LEMMA EntrySector ==
  ASSUME NEW n \in DOMAIN Cards, fs \in FsType, Describes(fs, Cards[n]), NEW c \in Nat
  PROVE  /\ FatAt(c, 0) = FatSector(Cards[n], c, 1)
         /\ FatAt(c, IF fs.fs_type = "FAT12" THEN 1 ELSE 0) = FatSector(Cards[n], c, 2)
         /\ FatAt(c, 0) \in Nat /\ FatAt(c, 1) \in Nat
<1> DEFINE v == Cards[n]
<1>1. fs.fatbase = FatStart(v) /\ FatStart(v) \in Nat
  BY VolumeNumbers
<1>2. fs.fs_type = Type(v.bpb)
  BY DEF Describes
<1>3. SS \in Nat \ {0} /\ SS % 4 = 0
  BY FormatAssumption
<1>4. /\ FatSector(v, c, 1) = FatStart(v) + FatBytes(v, c)[1] \div SS
      /\ FatSector(v, c, 2) = FatStart(v) + FatBytes(v, c)[2] \div SS
  BY DEF FatSector
<1>5. /\ c + c \div 2 \in Nat /\ c * 2 \in Nat /\ c * 4 \in Nat
      /\ (3 * c) \div 2 = c + c \div 2 /\ 2 * c = c * 2 /\ 4 * c = c * 4
  OBVIOUS
<1> DEFINE At2(i) == c + c \div 2 + i
<1>6. ASSUME NEW i \in 0..1 PROVE FatAt(c, i) \in Nat
  <2>1. c + c \div 2 + i \in Nat
    BY <1>5
  <2>2. (c + c \div 2 + i) \div SS \in Nat /\ (c * 2) \div SS \in Nat /\ (c * 4) \div SS \in Nat
    BY <1>3, <1>5, <2>1, DivMod
  <2>3. fs.fs_type \in {"FAT12", "FAT16"} \/ fs.fs_type \notin {"FAT12", "FAT16"}
    OBVIOUS
  <2>4. \/ FatAt(c, i) = fs.fatbase + (c + c \div 2 + i) \div SS
        \/ FatAt(c, i) = fs.fatbase + (c * 2) \div SS
        \/ FatAt(c, i) = fs.fatbase + (c * 4) \div SS
    BY DEF FatAt
  <2> DEFINE q1 == (c + c \div 2 + i) \div SS
  <2> DEFINE q2 == (c * 2) \div SS
  <2> DEFINE q3 == (c * 4) \div SS
  <2> HIDE DEF q1, q2, q3
  <2> QED BY <1>1, <2>2, <2>4 DEF q1, q2, q3
<1>7. FatAt(c, 0) \in Nat /\ FatAt(c, 1) \in Nat
  BY <1>6
<1>8. CASE fs.fs_type = "FAT12"
  <2>1. FatBytes(v, c) = <<(3 * c) \div 2, (3 * c) \div 2 + 1>>
    BY <1>2, <1>8 DEF FatBytes
  <2>2. FatBytes(v, c)[1] = c + c \div 2 + 0 /\ FatBytes(v, c)[2] = c + c \div 2 + 1
    BY <1>5, <2>1
  <2>3. \A i : FatAt(c, i) = fs.fatbase + (c + c \div 2 + i) \div SS
    BY <1>8 DEF FatAt
  <2> QED BY <1>1, <1>4, <1>7, <1>8, <2>2, <2>3
<1>9. CASE fs.fs_type = "FAT16"
  <2>1. FatBytes(v, c) = <<2 * c, 2 * c + 1>>
    BY <1>2, <1>9 DEF FatBytes
  <2>2. FatAt(c, 0) = fs.fatbase + (c * 2) \div SS
    BY <1>9 DEF FatAt
  <2>3. (c * 2 + 1) \div SS = (c * 2) \div SS
    <3> DEFINE r == (c * 2) % SS
    <3>1. r # SS - 1
      <4>1. c * 2 = SS * ((c * 2) \div SS) + ((c * 2) % SS) /\ (c * 2) \div SS \in Nat
        BY <1>3, <1>5, DivMod
      <4>2. SS = 4 * (SS \div 4) + (SS % 4) /\ SS \div 4 \in Nat
        BY <1>3, DivMod
      <4>3. PICK h \in Nat : SS = 4 * h
        BY <1>3, <4>2
      <4>4. PICK q \in Nat : c * 2 = SS * q + ((c * 2) % SS)
        BY <4>1
      <4>5. SS * q = 4 * (h * q) /\ h * q \in Nat
        BY <4>3
      <4>6. r \in Nat /\ c * 2 = SS * q + r
        BY <1>3, <1>5, <4>4, DivMod
      <4> HIDE DEF r
      <4> DEFINE m == h * q
      <4>7. m \in Nat /\ c * 2 = 4 * m + r
        BY <4>5, <4>6
      <4> HIDE DEF m
      <4> QED BY <4>3, <4>6, <4>7
    <3>2. r \in 0..(SS - 1)
      BY <1>3, <1>5, DivMod
    <3>3. r + 1 < SS
      <4> HIDE DEF r
      <4> QED BY <1>3, <3>1, <3>2
    <3> QED BY <1>3, <1>5, <3>3, DivWithin
  <2>4. FatBytes(v, c)[1] = c * 2 /\ FatBytes(v, c)[2] = c * 2 + 1
    BY <1>5, <2>1
  <2>5. fs.fs_type # "FAT12"
    BY <1>9
  <2> QED BY <1>1, <1>4, <1>7, <2>2, <2>3, <2>4, <2>5
<1>10. CASE fs.fs_type \notin {"FAT12", "FAT16"}
  <2>1. FatBytes(v, c) = <<4 * c, 4 * c + 3>>
    BY <1>2, <1>10 DEF FatBytes
  <2>2. FatAt(c, 0) = fs.fatbase + (c * 4) \div SS
    BY <1>10 DEF FatAt
  <2>3. (c * 4 + 3) \div SS = (c * 4) \div SS
    <3> DEFINE r == (c * 4) % SS
    <3> DEFINE w == (c * 4) \div SS
    <3>1. r \in 0..(SS - 1) /\ w \in Nat /\ c * 4 = SS * w + r
      BY <1>3, <1>5, DivMod
    <3>2. SS = 4 * (SS \div 4) + (SS % 4) /\ SS \div 4 \in Nat
      BY <1>3, DivMod
    <3>3. PICK h \in Nat : SS = 4 * h
      BY <1>3, <3>2
    <3> HIDE DEF r, w
    <3>4. SS * w = 4 * (h * w) /\ h * w \in Nat
      BY <3>1, <3>3
    <3> DEFINE m == h * w
    <3>5. m \in Nat /\ c * 4 = 4 * m + r
      BY <3>1, <3>4
    <3> HIDE DEF m
    <3>6. r + 3 < SS
      BY <3>1, <3>3, <3>5
    <3> QED BY <1>3, <1>5, <3>6, DivWithin DEF r
  <2>4. FatBytes(v, c)[1] = c * 4 /\ FatBytes(v, c)[2] = c * 4 + 3
    BY <1>5, <2>1
  <2>5. fs.fs_type # "FAT12"
    BY <1>10
  <2> QED BY <1>1, <1>4, <1>7, <2>2, <2>3, <2>4, <2>5
<1> QED BY <1>8, <1>9, <1>10

-----------------------------------------------------------------------------
(* What the disk gives, as long as it gives what it was asked for *)

LEMMA HistFields ==
  ASSUME NEW h \in HistType
  PROVE  /\ h.missed \in BOOLEAN /\ h.failed \in BOOLEAN /\ h.on \in Nat
BY DEF HistType

LEMMA Asked ==
  ASSUME hist \in HistType, MountOK, NEW s \in Nat, NEW n, NEW o \in Outcomes, Ask(s, n, o),
         ~hist'.missed
  PROVE  /\ ~hist.missed /\ hist'.on = hist.on
         /\ o = "error" => hist'.failed
         /\ o # "error" => o = "read" /\ card = hist.on /\ hist'.failed = hist.failed
         /\ hist.failed => hist'.failed
<1>1. /\ hist'.missed = (hist.missed \/ o = "missed")
      /\ hist'.failed = (hist.failed \/ o = "error") /\ hist'.on = hist.on
  BY DEF Ask, HistType
<1>2. o = "read" => ready
  BY DEF Ask
<1>3. ready => card = hist.on
  BY DEF MountOK
<1>4. hist.failed \in BOOLEAN /\ hist.missed \in BOOLEAN
  BY HistFields
<1>5. o # "missed"
  BY <1>1
<1>6. o \in {"read", "error"}
  BY <1>5 DEF Outcomes
<1>7. ~hist.missed
  BY <1>1
<1>8. o = "error" => hist'.failed
  BY <1>1
<1>9. o = "read" => (hist'.failed <=> hist.failed)
  BY <1>1
<1>10. o = "read" => hist'.failed = hist.failed
  <2> SUFFICES ASSUME o = "read" PROVE hist'.failed = hist.failed
    OBVIOUS
  <2>1. hist'.failed = (hist.failed \/ FALSE)
    BY <1>1
  <2> QED BY <1>4, <2>1
<1>11. hist.failed => hist'.failed
  BY <1>1
<1> QED BY <1>1, <1>2, <1>3, <1>6, <1>7, <1>8, <1>10, <1>11

LEMMA Mounted1 ==
  ASSUME IInv, MountOK, fs.fs_type # "", ~hist.missed
  PROVE  /\ hist.on \in DOMAIN Cards /\ Describes(fs, Mine) /\ fs \in FsType
         /\ hist \in HistType /\ hist.on # 0
<1>1. hist.on \in DOMAIN Cards /\ Describes(fs, Mine)
  BY DEF MountOK
<1>2. hist.on # 0
  BY <1>1, CardFacts
<1> QED BY <1>1, <1>2 DEF IInv, DiskOK, VolumeOK

LEMMA SectorNumber ==
  ASSUME NEW s \in Nat
  PROVE  s # NoSector
<1>1. s >= 0
  OBVIOUS
<1>2. -1 < 0
  OBVIOUS
<1>3. NoSector < 0
  BY <1>2 DEF NoSector
<1> QED BY <1>1, <1>3

LEMMA WindowRead ==
  ASSUME IInv, MountOK, fs.fs_type # "", NEW s \in Nat, NEW o \in Outcomes, MoveWindow(s, o),
         ~hist'.missed
  PROVE  /\ ~hist.missed /\ hist'.on = hist.on
         /\ o = "error" => hist'.failed
         /\ o # "error" => win' = <<hist.on, s>> /\ hist'.failed = hist.failed
         /\ hist.failed => hist'.failed
         /\ winsect' # NoSector => win' = <<hist.on, winsect'>>
<1>0. hist \in HistType
  BY DEF IInv, DiskOK
<1>1. CASE s = winsect /\ o = "read" /\ UNCHANGED disk
  <2>1. win' = win /\ winsect' = winsect /\ hist' = hist
    BY <1>1 DEF disk
  <2>2. winsect # NoSector
    BY <1>1, SectorNumber
  <2>3. win = <<hist.on, winsect>>
    BY <2>1, <2>2 DEF MountOK
  <2> QED BY <1>1, <2>1, <2>3
<1>2. CASE /\ s # winsect /\ Ask(s, 1, o)
           /\ win' = (IF o = "read" THEN <<card, s>> ELSE win)
           /\ winsect' = (IF o = "error" THEN NoSector ELSE s)
  <2>1. /\ ~hist.missed /\ hist'.on = hist.on
        /\ o = "error" => hist'.failed
        /\ o # "error" => o = "read" /\ card = hist.on /\ hist'.failed = hist.failed
        /\ hist.failed => hist'.failed
    BY <1>0, <1>2, Asked
  <2>2. o # "error" => win' = <<hist.on, s>> /\ winsect' = s
    BY <1>2, <2>1
  <2>3. o = "error" => winsect' = NoSector
    BY <1>2
  <2> QED BY <2>1, <2>2, <2>3
<1> QED BY <1>1, <1>2 DEF MoveWindow

\* a directory's sector
LEMMA EntriesThere ==
  ASSUME NEW n \in DOMAIN Cards, NEW s \in Nat, s >= RootStart(Cards[n]), NEW k
  PROVE  EntriesAt(<<n, s>>, k) = {EntryIn(Cards[n], s, k)}
<1> DEFINE w == <<n, s>>
<1>1. w # Zeros /\ w[1] = n /\ w[2] = s
  BY SectorRead
<1> HIDE DEF w
<1>2. EntriesAt(w, k) = {EntryIn(Cards[n], s, k)}
  BY <1>1 DEF EntriesAt
<1> QED BY <1>2 DEF w

\* the value of a FAT entry
LEMMA FatThere ==
  ASSUME NEW n \in DOMAIN Cards, NEW c \in Nat, IsCluster(Cards[n], c), NEW s, NEW t,
         s = FatSector(Cards[n], c, 1), t = FatSector(Cards[n], c, 2), t \in Nat,
         NEW v \in FatValues(<<n, s>>, <<n, t>>, c)
  PROVE  v = FatEntry(Cards[n], c)
<1> DEFINE last == <<n, t>>
<1> DEFINE first == <<n, s>>
<1>1. last # Zeros /\ last[1] = n /\ last = <<last[1], FatSector(Cards[n], c, 2)>>
      /\ first = <<last[1], FatSector(Cards[n], c, 1)>>
  BY SectorRead
<1>2. v \in FatValues(first, last, c)
  OBVIOUS
<1> HIDE DEF first, last
<1>3. FatValues(first, last, c) = {FatEntry(Cards[n], c)}
  BY <1>1 DEF FatValues
<1> QED BY <1>2, <1>3

\* what get_fat gives
FatGave ==
  LET c == loc.clst IN
  \/ ~InFat(c) /\ GotFat(1)
  \/ InFat(c) /\ hist'.failed /\ GotFat(Bad)
  \/ /\ InFat(c) /\ fs.fs_type = "FAT12" /\ pc' = pc
     /\ loc' = [loc EXCEPT !.lo = <<hist.on, FatAt(c, 0)>>, !.steps = @ + 1]
     /\ UNCHANGED <<fil, dirp, more, res>>
  \/ InFat(c) /\ GotFat(FatEntry(Mine, c))

LEMMA FatGiven ==
  ASSUME IInv, MountOK, FatOK, NEW o \in Outcomes, GetFat(o), ~hist'.missed
  PROVE  /\ ~hist.missed /\ hist'.on = hist.on /\ (hist.failed => hist'.failed)
         /\ winsect' # NoSector => win' = <<hist.on, winsect'>>
         /\ FatGave
<1> DEFINE c == loc.clst
<1> DEFINE second == loc.lo # Zeros
<1>1. /\ pc \in FatCallers
      /\ IF ~InFat(c) THEN o = "read" /\ UNCHANGED disk
         ELSE MoveWindow(FatAt(c, IF second THEN 1 ELSE 0), o)
      /\ CASE ~InFat(c) -> GotFat(1)
           [] InFat(c) /\ o = "error" -> GotFat(Bad)
           [] InFat(c) /\ o # "error" /\ fs.fs_type = "FAT12" /\ ~second ->
                GoOn(pc, [loc EXCEPT !.lo = win']) /\ UNCHANGED <<fil, dirp, more>>
           [] OTHER -> \E v \in FatValues(IF second THEN loc.lo ELSE win', win', c) : GotFat(v)
  BY DEF GetFat
<1>2. fs.fs_type # "" /\ loc \in LocType /\ c \in Nat
  BY <1>1 DEF IInv, VolumeOK, Typed, FatCallers, LocType
<1>3. CASE ~InFat(c)
  <2>1. win' = win /\ winsect' = winsect /\ hist' = hist /\ GotFat(1)
    BY <1>1, <1>3 DEF disk
  <2>2. winsect # NoSector => win = <<hist.on, winsect>>
    BY <1>2, <2>1 DEF MountOK
  <2> QED BY <1>3, <2>1, <2>2 DEF FatGave
<1>4. CASE InFat(c)
  <2> DEFINE s == FatAt(c, IF second THEN 1 ELSE 0)
  <2>1. MoveWindow(s, o)
    BY <1>1, <1>4
  <2>2. FatAt(c, 0) \in Nat /\ FatAt(c, 1) \in Nat
    <3>1. c \in 2..(fs.n_fatent - 1)
      BY <1>4 DEF InFat
    <3>2. fs \in FsType /\ Geometry(fs)
      BY <1>2 DEF IInv, VolumeOK
    <3>3. 0 \in 0..1 /\ 1 \in 0..1
      OBVIOUS
    <3> QED BY <3>1, <3>2, <3>3, FatInside
  <2>3. s \in Nat
    BY <2>2
  <2> HIDE DEF s
  <2>4. /\ ~hist.missed /\ hist'.on = hist.on
        /\ o = "error" => hist'.failed
        /\ o # "error" => win' = <<hist.on, s>>
        /\ hist.failed => hist'.failed
        /\ winsect' # NoSector => win' = <<hist.on, winsect'>>
    BY <1>2, <2>1, <2>3, WindowRead
  <2>5. hist.on \in DOMAIN Cards /\ Describes(fs, Mine) /\ fs \in FsType
    BY <1>2, <2>4, Mounted1
  <2>6. second => fs.fs_type = "FAT12" /\ loc.lo = <<hist.on, FatAt(c, 0)>>
    BY <1>1, <2>4 DEF FatOK
  <2>7. CASE o = "error"
    <3>1. GotFat(Bad)
      BY <1>1, <1>4, <2>7
    <3> QED BY <1>4, <2>4, <2>7, <3>1 DEF FatGave
  <2>8. CASE o # "error" /\ fs.fs_type = "FAT12" /\ ~second
    <3>1. GoOn(pc, [loc EXCEPT !.lo = win']) /\ UNCHANGED <<fil, dirp, more>>
      BY <1>1, <1>4, <2>8
    <3>2. win' = <<hist.on, FatAt(c, 0)>>
      BY <2>4, <2>8 DEF s
    <3>3. /\ pc' = pc /\ UNCHANGED <<fil, dirp, more, res>>
          /\ loc' = [loc EXCEPT !.lo = <<hist.on, FatAt(c, 0)>>, !.steps = @ + 1]
      BY <1>2, <3>1, <3>2 DEF GoOn, LocType
    <3> QED BY <1>4, <2>4, <2>8, <3>3 DEF FatGave
  <2>9. CASE o # "error" /\ ~(fs.fs_type = "FAT12" /\ ~second)
    <3>1. PICK v \in FatValues(IF second THEN loc.lo ELSE win', win', c) : GotFat(v)
      BY <1>1, <1>4, <2>9
    <3> DEFINE first == FatAt(c, 0)
    <3>2. /\ (IF second THEN loc.lo ELSE win') = <<hist.on, first>>
          /\ win' = <<hist.on, s>>
      BY <2>4, <2>6, <2>9 DEF s
    <3>3. first = FatSector(Mine, c, 1) /\ s = FatSector(Mine, c, 2)
      <4>1. s = FatAt(c, IF fs.fs_type = "FAT12" THEN 1 ELSE 0)
        BY <2>6, <2>9 DEF s
      <4> QED BY <1>2, <2>5, <4>1, EntrySector DEF Mine
    <3>4. IsCluster(Mine, c)
      BY <1>2, <1>4, <2>5, ClusterSector DEF InFat, Mine
    <3>5. v = FatEntry(Mine, c)
      <4> HIDE DEF first
      <4>1. v \in FatValues(<<hist.on, first>>, <<hist.on, s>>, c)
        BY <3>2
      <4> QED BY <1>2, <2>3, <2>5, <3>3, <3>4, <4>1, FatThere DEF Mine
    <3> QED BY <1>4, <2>4, <2>9, <3>1, <3>5 DEF FatGave
  <2> QED BY <2>7, <2>8, <2>9
<1> QED BY <1>3, <1>4

-----------------------------------------------------------------------------
(* Directories *)

LEMMA ChainType ==
  ASSUME NEW n \in DOMAIN Cards, NEW c \in Nat
  PROVE  /\ \A k \in Nat : Chain(Cards[n], c)[k] \in Nat
         /\ Chain(Cards[n], c)[0] = c
         /\ \A k \in Nat : Chain(Cards[n], c)[k + 1] = FatEntry(Cards[n], Chain(Cards[n], c)[k])
<1>1. \A x \in DOMAIN Cards[n].fat : Cards[n].fat[x] \in Nat
  BY CardFacts
<1> QED BY <1>1, ChainDef

LEMMA DirChainType ==
  ASSUME NEW n \in DOMAIN Cards, NEW c \in Nat
  PROVE  /\ \A k \in Nat : DirChain(Cards[n], c)[k] \in Nat
         /\ DirChain(Cards[n], c)[0] = (IF c = 0 THEN Cards[n].bpb.RootClus ELSE c)
         /\ \A k \in Nat : DirChain(Cards[n], c)[k + 1]
                             = FatEntry(Cards[n], DirChain(Cards[n], c)[k])
<1> DEFINE a == IF c = 0 THEN Cards[n].bpb.RootClus ELSE c
<1>1. a \in Nat
  <2>1. Cards[n].bpb.RootClus \in Nat
    BY CardsAssumption DEF BootRecord
  <2> QED BY <2>1
<1>2. DirChain(Cards[n], c) = Chain(Cards[n], a)
  BY DEF DirChain
<1> HIDE DEF a
<1>3. /\ \A k \in Nat : DirChain(Cards[n], c)[k] \in Nat
      /\ DirChain(Cards[n], c)[0] = a
      /\ \A k \in Nat : DirChain(Cards[n], c)[k + 1]
                          = FatEntry(Cards[n], DirChain(Cards[n], c)[k])
  BY <1>1, <1>2, ChainType
<1> QED BY <1>3 DEF a

\* which cluster of the chain an entry is in
Turn(f, k) == (k \div DirPer) \div f.csize

LEMMA TurnType ==
  ASSUME NEW f \in FsType, NEW k \in Nat
  PROVE  Turn(f, k) \in Nat /\ Turn(f, k) <= k /\ k \div DirPer \in Nat
<1>1. DirPer \in Nat \ {0} /\ f.csize \in Nat \ {0}
  BY SizeFacts, FsFields
<1> DEFINE q == k \div DirPer
<1>2. q \in Nat /\ q <= k
  BY <1>1, DivMod, DivAtMost
<1>3. Turn(f, k) = q \div f.csize
  BY DEF Turn
<1> HIDE DEF q
<1>4. q \div f.csize \in Nat /\ q \div f.csize <= q
  BY <1>1, <1>2, DivMod, DivAtMost
<1> QED BY <1>2, <1>3, <1>4 DEF q

LEMMA DirClusterTurn ==
  ASSUME NEW n \in DOMAIN Cards, NEW f \in FsType, Describes(f, Cards[n]), NEW c, NEW k
  PROVE  DirCluster(Cards[n], c, k) = DirChain(Cards[n], c)[Turn(f, k)]
BY VolumeNumbers DEF DirCluster, Turn

LEMMA HasBefore ==
  ASSUME NEW v, v.bpb.RootEntCnt \in Nat, NEW c, NEW k \in Nat, HasPlace(v, c, k),
         NEW j \in 0..k
  PROVE  HasPlace(v, c, j)
<1>1. CASE InTable(v, c)
  <2>1. k < v.bpb.RootEntCnt
    BY <1>1 DEF HasPlace
  <2>2. j < v.bpb.RootEntCnt
    BY <2>1
  <2> QED BY <1>1, <2>2 DEF HasPlace
<1>2. CASE ~InTable(v, c)
  <2>1. \A i \in 0..k : IsCluster(v, DirCluster(v, c, i))
    BY <1>2 DEF HasPlace
  <2>2. \A i \in 0..j : i \in 0..k
    OBVIOUS
  <2> QED BY <1>2, <2>1, <2>2 DEF HasPlace
<1> QED BY <1>1, <1>2

\* The place of a directory is determined by its cluster and index.
LEMMA StandsIf ==
  ASSUME NEW n \in DOMAIN Cards, NEW f \in FsType, Describes(f, Cards[n]),
         NEW d \in DirType, At(f, d),
         d.clust = IF InTable(Cards[n], d.sclust) THEN 0
                   ELSE DirCluster(Cards[n], d.sclust, d.index),
         ~InTable(Cards[n], d.sclust) => HasPlace(Cards[n], d.sclust, d.index)
  PROVE  Stands(Cards[n], d)
<1> DEFINE v == Cards[n]
<1> DEFINE k == d.index
<1>1. k \in Nat /\ d.clust \in Nat /\ d.sect \in Nat
  BY DirFields
<1>2. CASE InTable(v, d.sclust)
  <2>1. k < f.n_rootdir /\ d.sect = f.dirbase + k \div DirPer
    BY <1>2 DEF At
  <2>2. f.n_rootdir = v.bpb.RootEntCnt
    BY VolumeNumbers
  <2>3. f.dirbase = RootStart(v)
    BY <1>2 DEF Describes, InTable
  <2>4. HasPlace(v, d.sclust, k)
    BY <1>2, <2>1, <2>2 DEF HasPlace
  <2>5. d.sect = DirSector(v, d.sclust, k)
    BY <1>2, <2>1, <2>3 DEF DirSector
  <2> QED BY <1>2, <2>4, <2>5 DEF Stands
<1>3. CASE ~InTable(v, d.sclust)
  <2>1. d.clust = DirCluster(v, d.sclust, k) /\ HasPlace(v, d.sclust, k)
    BY <1>3
  <2>2. k \in 0..k
    BY <1>1
  <2>3. IsCluster(v, d.clust)
    BY <1>3, <2>1, <2>2 DEF HasPlace
  <2>4. d.clust # 0
    BY <2>3 DEF IsCluster
  <2>5. d.sect = clust2sect(f, d.clust) + ((k \div DirPer) % f.csize)
    BY <2>4 DEF At
  <2>6. clust2sect(f, d.clust) = SectorOf(v, d.clust)
    BY <1>1, <2>3, ClusterSector
  <2>7. f.csize = v.bpb.SecPerClus
    BY VolumeNumbers
  <2>8. d.sect = DirSector(v, d.sclust, k)
    BY <1>3, <2>1, <2>5, <2>6, <2>7 DEF DirSector
  <2> QED BY <1>3, <2>1, <2>8 DEF Stands
<1> QED BY <1>2, <1>3

\* dir_sdi finds the first entry of the directory.
LEMMA SdiStands ==
  ASSUME NEW n \in DOMAIN Cards, NEW f \in FsType, Geometry(f), Describes(f, Cards[n]),
         NEW d \in DirType, dir_sdi(f, d).ok
  PROVE  Stands(Cards[n], dir_sdi(f, d).d) /\ dir_sdi(f, d).d.sclust = d.sclust
         /\ dir_sdi(f, d).d.index = 0
<1> DEFINE v == Cards[n]
<1> DEFINE e == dir_sdi(f, d).d
<1> DEFINE c == IF d.sclust = 0 /\ f.fs_type = "FAT32" THEN f.dirbase ELSE d.sclust
<1> DEFINE s == IF c = 0 THEN f.dirbase ELSE clust2sect(f, c)
<1>1. e = [d EXCEPT !.index = 0, !.clust = c, !.sect = s]
      /\ (c = 0 => f.n_rootdir > 0)
  BY DEF dir_sdi
<1>2. e \in DirType /\ At(f, e) /\ e.index = 0
  BY SdiOK
<1>3. e.sclust = d.sclust /\ e.clust = c
  BY <1>1 DEF DirType
<1>4. f.fs_type = Type(v.bpb) /\ f.n_rootdir = v.bpb.RootEntCnt
      /\ (Type(v.bpb) = "FAT32" => f.dirbase = v.bpb.RootClus)
  BY DEF Describes
<1>5. d.sclust \in Nat /\ f.n_rootdir \in Nat
  BY DirFields, FsFields
<1>6. Type(v.bpb) = "FAT32" => f.n_rootdir = 0
  BY <1>4 DEF Geometry
<1>7. InTable(v, d.sclust) => c = 0
  BY <1>4 DEF InTable
<1>8. ASSUME ~InTable(v, d.sclust)
      PROVE  c = DirCluster(v, d.sclust, 0) /\ HasPlace(v, d.sclust, 0)
  <2>1. c = DirChain(v, d.sclust)[0]
    <3>1. d.sclust = 0 => Type(v.bpb) = "FAT32"
      BY <1>8 DEF InTable
    <3>2. c = IF d.sclust = 0 THEN v.bpb.RootClus ELSE d.sclust
      BY <1>4, <3>1
    <3> QED BY <1>5, <3>2, DirChainType
  <2>2. Turn(f, 0) = 0
    <3>1. DirPer \in Nat \ {0} /\ f.csize \in Nat \ {0}
      BY SizeFacts, FsFields
    <3>2. 0 \div DirPer = 0 /\ 0 \div f.csize = 0
      BY <3>1, DivSmall
    <3> QED BY <3>2 DEF Turn
  <2>3. c = DirCluster(v, d.sclust, 0)
    BY <2>1, <2>2, DirClusterTurn
  <2>4. c # 0
    <3> SUFFICES ASSUME c = 0 PROVE FALSE
      OBVIOUS
    <3>1. f.n_rootdir > 0
      BY <1>1
    <3>2. d.sclust = 0
      BY <1>5, <1>6, <3>1, <1>4
    <3>3. Type(v.bpb) = "FAT32"
      BY <1>8, <3>2 DEF InTable
    <3> QED BY <1>5, <1>6, <3>1, <3>3
  <2> HIDE DEF c
  <2>5. c \in 2..(f.n_fatent - 1) /\ c \in Nat
    <3>1. e.clust # 0
      BY <1>3, <2>4
    <3>2. e.clust \in 2..(f.n_fatent - 1)
      BY <1>2, <3>1 DEF At
    <3> QED BY <1>2, <1>3, <3>2, DirFields
  <2>6. IsCluster(v, c)
    BY <2>5, ClusterSector
  <2>7. \A j \in 0..0 : IsCluster(v, DirCluster(v, d.sclust, j))
    BY <2>3, <2>6
  <2> QED BY <1>8, <2>3, <2>7 DEF HasPlace
<1> HIDE DEF c, e
<1>9. Stands(v, e)
  <2>1. e.clust = IF InTable(v, e.sclust) THEN 0 ELSE DirCluster(v, e.sclust, e.index)
    BY <1>2, <1>3, <1>7, <1>8
  <2>2. ~InTable(v, e.sclust) => HasPlace(v, e.sclust, e.index)
    BY <1>2, <1>3, <1>8
  <2> QED BY <1>2, <2>1, <2>2, StandsIf
<1> QED BY <1>2, <1>3, <1>9 DEF e

LEMMA StandsCluster ==
  ASSUME NEW n \in DOMAIN Cards, NEW f \in FsType, Describes(f, Cards[n]),
         NEW d \in DirType, Stands(Cards[n], d)
  PROVE  /\ InTable(Cards[n], d.sclust) <=> d.clust = 0
         /\ d.clust # 0 => IsCluster(Cards[n], d.clust)
                           /\ d.clust = DirCluster(Cards[n], d.sclust, d.index)
         /\ d.sect \in Nat /\ d.sect >= RootStart(Cards[n]) /\ d.sect # 0
<1> DEFINE v == Cards[n]
<1> DEFINE k == d.index
<1>1. k \in Nat /\ d.clust \in Nat /\ d.sclust \in Nat
  BY DirFields
<1>2. /\ d.sect = DirSector(v, d.sclust, k) /\ HasPlace(v, d.sclust, k)
      /\ d.clust = IF InTable(v, d.sclust) THEN 0 ELSE DirCluster(v, d.sclust, k)
  BY DEF Stands
<1>3. /\ RootStart(v) \in Nat \ {0} /\ DataStart(v) \in Nat /\ RootStart(v) <= DataStart(v)
      /\ f.csize = v.bpb.SecPerClus /\ f.csize \in Nat \ {0}
  BY VolumeNumbers
<1>4. k \div DirPer \in Nat
  BY <1>1, SizeFacts, DivMod
<1>5. CASE InTable(v, d.sclust)
  <2>1. d.sect = RootStart(v) + k \div DirPer
    BY <1>2, <1>5 DEF DirSector
  <2> DEFINE q == k \div DirPer
  <2>2. d.sect = RootStart(v) + q /\ q \in Nat
    BY <1>4, <2>1
  <2> HIDE DEF q
  <2>3. d.sect \in Nat /\ d.sect >= RootStart(v) /\ d.sect # 0
    BY <1>3, <2>2
  <2> QED BY <1>2, <1>5, <2>3
<1>6. CASE ~InTable(v, d.sclust)
  <2>1. k \in 0..k
    BY <1>1
  <2>2. d.clust = DirCluster(v, d.sclust, k) /\ IsCluster(v, d.clust)
    BY <1>2, <1>6, <2>1 DEF HasPlace
  <2>3. d.clust # 0
    BY <2>2 DEF IsCluster
  <2>4. SectorOf(v, d.clust) \in Nat /\ SectorOf(v, d.clust) >= DataStart(v)
    BY <1>1, <2>2, ClusterSector
  <2> DEFINE r == (k \div DirPer) % f.csize
  <2>5. r \in Nat
    <3>1. r \in 0..(f.csize - 1)
      BY <1>3, <1>4, DivMod
    <3> QED BY <3>1
  <2>6. d.sect = SectorOf(v, d.clust) + r
    BY <1>2, <1>3, <1>6, <2>2 DEF DirSector
  <2> HIDE DEF r
  <2>7. d.sect \in Nat /\ d.sect >= RootStart(v) /\ d.sect # 0
    BY <1>3, <2>4, <2>5, <2>6
  <2> QED BY <1>6, <2>2, <2>3, <2>7
<1> QED BY <1>5, <1>6

LEMMA LastIndex ==
  ASSUME NEW d \in DirType, NextIndex(d) = 0
  PROVE  d.index = IndexLimit - 1
<1>1. IndexLimit \in Nat \ {0} /\ d.index \in 0..(IndexLimit - 1)
  BY SizeFacts, DirFields
<1>2. CASE d.index + 1 < IndexLimit
  <2>1. NextIndex(d) = d.index + 1
    BY <1>1, <1>2, DivSmall DEF NextIndex
  <2> QED BY <1>1, <2>1
<1> QED BY <1>1, <1>2

\* the next entry of a directory: whether there is a place for it, and where
Moved(n, d, m) ==
  /\ m.d.sclust = d.sclust
  /\ m.res = "OK" => Stands(Cards[n], m.d) /\ m.d.index = d.index + 1
  /\ m.res = "NO_FILE" =>
       ~HasPlace(Cards[n], d.sclust, d.index + 1) \/ d.index = IndexLimit - 1

LEMMA NextPlace ==
  ASSUME NEW n \in DOMAIN Cards, fs \in FsType, NEW d \in DirType, NEW e,
         ~InTable(Cards[n], d.sclust), Stands(Cards[n], d),
         e.sclust = d.sclust, e.index = d.index + 1,
         IsCluster(Cards[n], DirCluster(Cards[n], d.sclust, d.index + 1))
  PROVE  HasPlace(Cards[n], e.sclust, e.index)
<1> DEFINE v == Cards[n]
<1>1. d.index \in Nat
  BY DirFields
<1>2. \A j \in 0..d.index : IsCluster(v, DirCluster(v, d.sclust, j))
  BY DEF Stands, HasPlace
<1>3. \A j \in 0..(d.index + 1) : j \in 0..d.index \/ j = d.index + 1
  BY <1>1
<1>4. \A j \in 0..(d.index + 1) : IsCluster(v, DirCluster(v, d.sclust, j))
  BY <1>2, <1>3
<1> QED BY <1>4 DEF HasPlace

\* dir_next goes to the next entry, or there is none.
LEMMA NextStands ==
  ASSUME NEW n \in DOMAIN Cards, fs \in FsType, Geometry(fs), Describes(fs, Cards[n]),
         NEW d \in DirType, At(fs, d), Stands(Cards[n], d), ~NeedsFat(d)
  PROVE  Moved(n, d, dir_next(d)) /\ dir_next(d).res \in {"OK", "NO_FILE"}
<1> DEFINE v == Cards[n]
<1> DEFINE e == IF SectorEnds(d) THEN [d EXCEPT !.sect = @ + 1] ELSE d
<1> DEFINE m == [e EXCEPT !.index = NextIndex(d)]
<1>1. /\ d.clust \in Nat /\ d.sect \in Nat /\ d.index \in Nat /\ d.sclust \in Nat
      /\ NextIndex(d) \in 0..(IndexLimit - 1)
      /\ DirPer \in Nat \ {0} /\ fs.csize \in Nat \ {0}
  BY DirFields, IndexFacts, SizeFacts, FsFields
<1>2. e.sclust = d.sclust /\ e.clust = d.clust /\ e \in DirType
  BY <1>1 DEF DirType
<1>3. \/ AtLimit(d) /\ dir_next(d) = [d |-> d, res |-> "NO_FILE"]
      \/ /\ ~AtLimit(d) /\ SectorEnds(d) /\ d.clust = 0 /\ TableEnds(d)
         /\ dir_next(d) = [d |-> e, res |-> "NO_FILE"]
      \/ /\ ~AtLimit(d) /\ ~(SectorEnds(d) /\ d.clust = 0 /\ TableEnds(d))
         /\ dir_next(d) = [d |-> m, res |-> "OK"]
  BY DEF dir_next
<1> HIDE DEF e
<1>4. m.sclust = d.sclust /\ m.clust = d.clust /\ m.index = NextIndex(d) /\ m \in DirType
  BY <1>1, <1>2 DEF DirType
<1>5. InTable(v, d.sclust) <=> d.clust = 0
  BY StandsCluster
<1>6. CASE AtLimit(d) /\ dir_next(d) = [d |-> d, res |-> "NO_FILE"]
  <2>1. d.sect # 0
    BY StandsCluster
  <2>2. NextIndex(d) = 0
    BY <1>6, <2>1 DEF AtLimit
  <2>3. d.index = IndexLimit - 1
    BY <2>2, LastIndex
  <2> QED BY <1>6, <2>3 DEF Moved
<1>7. CASE /\ ~AtLimit(d) /\ SectorEnds(d) /\ d.clust = 0 /\ TableEnds(d)
           /\ dir_next(d) = [d |-> e, res |-> "NO_FILE"]
  <2>1. NextIndex(d) = d.index + 1
    BY <1>7, IndexFacts DEF AtLimit
  <2>2. fs.n_rootdir = v.bpb.RootEntCnt /\ fs.n_rootdir \in Nat
    BY VolumeNumbers
  <2>3. ~(d.index + 1 < v.bpb.RootEntCnt)
    BY <1>1, <1>7, <2>1, <2>2 DEF TableEnds
  <2>4. ~HasPlace(v, d.sclust, d.index + 1)
    BY <1>5, <1>7, <2>3 DEF HasPlace
  <2> QED BY <1>2, <1>7, <2>4 DEF Moved
<1>8. CASE /\ ~AtLimit(d) /\ ~(SectorEnds(d) /\ d.clust = 0 /\ TableEnds(d))
           /\ dir_next(d) = [d |-> m, res |-> "OK"]
  <2>1. At(fs, m) /\ m.index = d.index + 1
    <3>1. dir_next(d).res = "OK" /\ dir_next(d).d = m
      BY <1>8
    <3> QED BY <3>1, NextOK
  <2>2. ASSUME ~InTable(v, d.sclust)
        PROVE  m.clust = DirCluster(v, m.sclust, m.index) /\ HasPlace(v, m.sclust, m.index)
    <3>1. Turn(fs, d.index + 1) = Turn(fs, d.index)
      <4> DEFINE q == d.index \div DirPer
      <4>0. q \in Nat
        BY <1>1, DivMod
      <4>1. /\ q \in Nat
            /\ (d.index + 1) % DirPer = 0 => (d.index + 1) \div DirPer = q + 1
            /\ (d.index + 1) % DirPer # 0 => (d.index + 1) \div DirPer = q
        BY <1>1, <4>0, DivNext
      <4>2. SectorEnds(d) <=> (d.index + 1) % DirPer = 0
        BY <1>4, <2>1 DEF SectorEnds
      <4>3. CASE SectorEnds(d)
        <5>1. ((d.index + 1) \div DirPer) % fs.csize # 0
          BY <1>4, <1>5, <1>8, <2>1, <2>2, <4>3 DEF NeedsFat
        <5>2. (d.index + 1) \div DirPer = q + 1
          BY <4>1, <4>2, <4>3
        <5> HIDE DEF q
        <5>3. (q + 1) % fs.csize # 0 /\ fs.csize \in Nat \ {0}
          BY <1>1, <5>1, <5>2
        <5>4. (q + 1) \div fs.csize = q \div fs.csize
          BY <4>0, <5>3, DivNext
        <5> QED BY <5>2, <5>4 DEF Turn, q
      <4>4. CASE ~SectorEnds(d)
        BY <4>1, <4>2, <4>4 DEF Turn
      <4> QED BY <4>3, <4>4
    <3>2. d.clust = DirCluster(v, d.sclust, d.index) /\ IsCluster(v, d.clust)
      BY <1>5, <2>2, StandsCluster
    <3>3. d.clust = DirCluster(v, d.sclust, d.index + 1)
      BY <3>1, <3>2, DirClusterTurn
    <3>4. HasPlace(v, m.sclust, m.index)
      BY <1>4, <2>1, <2>2, <3>2, <3>3, NextPlace
    <3> QED BY <1>4, <2>1, <3>3, <3>4
  <2>3. m.clust = IF InTable(v, m.sclust) THEN 0 ELSE DirCluster(v, m.sclust, m.index)
    BY <1>4, <1>5, <2>2
  <2>4. Stands(v, m)
    <3> HIDE DEF m
    <3> QED BY <1>4, <2>1, <2>2, <2>3, StandsIf
  <2>5. dir_next(d).d = m /\ dir_next(d).res = "OK"
    BY <1>8
  <2> HIDE DEF m
  <2> QED BY <1>4, <2>1, <2>4, <2>5 DEF Moved
<1> QED BY <1>3, <1>6, <1>7, <1>8

\* So does it with the FAT entry of the cluster.
LEMMA NextFatStands ==
  ASSUME NEW n \in DOMAIN Cards, fs \in FsType, Geometry(fs), Describes(fs, Cards[n]),
         NEW d \in DirType, Stands(Cards[n], d), NeedsFat(d),
         NEW w, w = FatEntry(Cards[n], d.clust)
  PROVE  /\ Moved(n, d, dir_next_fat(d, w))
         /\ dir_next_fat(d, w).res \in {"OK", "NO_FILE", "INT_ERR"}
         /\ dir_next_fat(d, w).res = "INT_ERR" => w <= 1
         /\ d.clust # 0 /\ IsCluster(Cards[n], d.clust)
         /\ \E i \in 0..IndexLimit : d.clust = DirChain(Cards[n], d.sclust)[i]
                                      /\ w = DirChain(Cards[n], d.sclust)[i + 1]
<1> DEFINE v == Cards[n]
<1> DEFINE k == d.index
<1> DEFINE e == [d EXCEPT !.sect = @ + 1]
<1> DEFINE m == [d EXCEPT !.clust = w, !.sect = clust2sect(fs, w), !.index = NextIndex(d)]
<1>1. /\ d.clust \in Nat /\ d.sect \in Nat /\ k \in Nat /\ d.sclust \in Nat
      /\ k \in 0..(IndexLimit - 1) /\ IndexLimit \in Nat \ {0}
      /\ NextIndex(d) \in 0..(IndexLimit - 1) /\ NextIndex(d) = k + 1
      /\ DirPer \in Nat \ {0} /\ fs.csize \in Nat \ {0} /\ fs.n_fatent \in Nat
  BY DirFields, IndexFacts, SizeFacts, FsFields DEF NeedsFat, AtLimit
<1>2. d.clust # 0 /\ d.clust = DirCluster(v, d.sclust, k) /\ IsCluster(v, d.clust)
      /\ ~InTable(v, d.sclust)
  BY StandsCluster DEF NeedsFat
<1>3. w \in Nat /\ w # Bad
  BY EntryType
<1>4. e.sclust = d.sclust
  BY DEF DirType
<1>5. m.sclust = d.sclust /\ m.clust = w /\ m.index = k + 1
  BY <1>1 DEF DirType
<1> DEFINE t == Turn(fs, k)
<1>6. t \in Nat /\ t <= k /\ Turn(fs, k + 1) = t + 1
  <2>1. t \in Nat /\ t <= k
    BY <1>1, TurnType
  <2> DEFINE q == k \div DirPer
  <2>2. q \in Nat
    BY <1>1, DivMod
  <2>3. (k + 1) % DirPer = 0
    BY <1>1 DEF NeedsFat, SectorEnds
  <2>4. (k + 1) \div DirPer = q + 1
    BY <1>1, <2>3, DivNext
  <2>5. (q + 1) % fs.csize = 0
    BY <1>1, <2>4 DEF NeedsFat
  <2>6. t = q \div fs.csize /\ Turn(fs, k + 1) = (q + 1) \div fs.csize
    BY <2>4 DEF Turn
  <2> HIDE DEF q
  <2>7. (q + 1) \div fs.csize = (q \div fs.csize) + 1
    BY <1>1, <2>2, <2>5, DivNext
  <2> HIDE DEF t
  <2> QED BY <2>1, <2>6, <2>7
<1> HIDE DEF t
<1>7. d.clust = DirChain(v, d.sclust)[t] /\ w = DirChain(v, d.sclust)[t + 1]
  <2>1. d.clust = DirChain(v, d.sclust)[t]
    BY <1>2, DirClusterTurn DEF t
  <2>2. DirChain(v, d.sclust)[t + 1] = FatEntry(v, DirChain(v, d.sclust)[t])
    BY <1>1, <1>6, DirChainType
  <2> QED BY <2>1, <2>2
<1>8. DirCluster(v, d.sclust, k + 1) = w
  BY <1>6, <1>7, DirClusterTurn
<1>9. IsCluster(v, w) <=> w \in 2..(fs.n_fatent - 1)
  BY <1>3, ClusterSector
<1>10. \E i \in 0..IndexLimit : d.clust = DirChain(v, d.sclust)[i]
                                 /\ w = DirChain(v, d.sclust)[i + 1]
  <2>1. t \in 0..IndexLimit
    BY <1>1, <1>6
  <2> QED BY <1>7, <2>1
<1>11. \/ w <= 1 /\ dir_next_fat(d, w) = [d |-> e, res |-> "INT_ERR"]
       \/ w >= fs.n_fatent /\ dir_next_fat(d, w) = [d |-> e, res |-> "NO_FILE"]
       \/ /\ dir_next_fat(d, w) = [d |-> m, res |-> "OK"]
          /\ ~(w <= 1) /\ ~(w >= fs.n_fatent)
  BY <1>3 DEF dir_next_fat
<1>12. CASE w <= 1 /\ dir_next_fat(d, w) = [d |-> e, res |-> "INT_ERR"]
  <2>1. dir_next_fat(d, w).d = e /\ dir_next_fat(d, w).res = "INT_ERR"
    BY <1>12
  <2> HIDE DEF e
  <2>2. Moved(n, d, dir_next_fat(d, w))
    BY <1>4, <2>1 DEF Moved
  <2> QED BY <1>2, <1>10, <1>12, <2>1, <2>2
<1>13. CASE w >= fs.n_fatent /\ dir_next_fat(d, w) = [d |-> e, res |-> "NO_FILE"]
  <2>1. ~IsCluster(v, w)
    BY <1>1, <1>3, <1>9, <1>13
  <2>2. ~HasPlace(v, d.sclust, k + 1)
    <3>1. k + 1 \in 0..(k + 1)
      BY <1>1
    <3> QED BY <1>2, <1>8, <2>1, <3>1 DEF HasPlace
  <2>3. dir_next_fat(d, w).d = e /\ dir_next_fat(d, w).res = "NO_FILE"
    BY <1>13
  <2> HIDE DEF e
  <2>4. Moved(n, d, dir_next_fat(d, w))
    BY <1>4, <2>2, <2>3 DEF Moved
  <2> QED BY <1>2, <1>10, <2>3, <2>4
<1>14. CASE /\ dir_next_fat(d, w) = [d |-> m, res |-> "OK"]
            /\ ~(w <= 1) /\ ~(w >= fs.n_fatent)
  <2>1. dir_next_fat(d, w).res = "OK" /\ dir_next_fat(d, w).d = m
    BY <1>14
  <2>2. m \in DirType /\ At(fs, m)
    BY <1>3, <2>1, NextFatOK
  <2>3. IsCluster(v, w)
    BY <1>1, <1>3, <1>9, <1>14
  <2>4. HasPlace(v, m.sclust, m.index)
    BY <1>2, <1>5, <1>8, <2>3, NextPlace
  <2>5. m.clust = IF InTable(v, m.sclust) THEN 0 ELSE DirCluster(v, m.sclust, m.index)
    BY <1>2, <1>5, <1>8
  <2> HIDE DEF m
  <2>6. Stands(v, m)
    BY <2>2, <2>4, <2>5, StandsIf
  <2> QED BY <1>2, <1>5, <1>10, <1>14, <2>6 DEF Moved
<1> QED BY <1>11, <1>12, <1>13, <1>14

-----------------------------------------------------------------------------
(* What belongs to what *)

\* how a step of f_open or f_opendir ends
Ends(f) ==
  \/ \E r : NotOpened(r)
  \/ op = "opendir" /\ \E d : OpenDir(f, d)
  \/ op = "open" /\ f = fs /\ \E e : OpenFile(e)
  \/ (\E l : GoOn("Find", l)) /\ UNCHANGED <<fil, dirp>>

LEMMA OriginEnds ==
  ASSUME op \in {"open", "opendir"}, NEW f, Origin(f)
  PROVE  Ends(f)
BY DEF Origin, Ends

LEMMA DirFindEnds ==
  ASSUME op \in {"open", "opendir"}, NEW f, NEW c, NEW names, DirFind(f, c, names)
  PROVE  Ends(f)
<1> DEFINE s == dir_sdi(f, [NoDir EXCEPT !.sclust = c])
<1>1. \/ NotOpened("INT_ERR")
      \/ GoOn("Find", [loc EXCEPT !.path = names, !.dj = s.d]) /\ UNCHANGED <<fil, dirp>>
  BY DEF DirFind
<1> QED BY <1>1 DEF Ends

LEMMA FollowPathEnds ==
  ASSUME op \in {"open", "opendir"}, NEW f, FollowPath(f)
  PROVE  Ends(f)
BY OriginEnds, DirFindEnds DEF FollowPath

LEMMA NoSuchNameEnds ==
  ASSUME op \in {"open", "opendir"}, NoSuchName
  PROVE  Ends(fs)
<1>1. \/ DirFind(fs, 0, Tail(loc.path)) \/ Origin(fs) \/ \E r : NotOpened(r)
  BY DEF NoSuchName
<1>2. CASE DirFind(fs, 0, Tail(loc.path))
  BY <1>2, DirFindEnds
<1>3. CASE Origin(fs)
  BY <1>3, OriginEnds
<1>4. CASE \E r : NotOpened(r)
  BY <1>4 DEF Ends
<1> QED BY <1>1, <1>2, <1>3, <1>4

LEMMA MatchedEnds ==
  ASSUME op \in {"open", "opendir"}, NEW e, Matched(e)
  PROVE  Ends(fs)
<1>1. \/ DirFind(fs, e.clust, Tail(loc.path))
      \/ op = "open" /\ OpenFile(e)
      \/ op = "opendir" /\ \E d : OpenDir(fs, d)
      \/ \E r : NotOpened(r)
  BY DEF Matched
<1>2. CASE DirFind(fs, e.clust, Tail(loc.path))
  BY <1>2, DirFindEnds
<1> QED BY <1>1, <1>2 DEF Ends

LEMMA SearchedEnds ==
  ASSUME op \in {"open", "opendir"}, NEW n, Searched(n)
  PROVE  Ends(fs)
<1>1. \/ GoOn("Find", [loc EXCEPT !.dj = n.d]) /\ UNCHANGED <<fil, dirp>>
      \/ NoSuchName
      \/ NotOpened(n.res)
  BY DEF Searched
<1>2. CASE NoSuchName
  BY <1>2, NoSuchNameEnds
<1> QED BY <1>1, <1>2 DEF Ends

\* what that leaves
LEMMA Ended ==
  ASSUME NEW f, Ends(f), fil \in FilType
  PROVE  /\ pc' \in {"Idle", "Find"}
         /\ \/ fil' = fil /\ (dirp' = dirp \/ op = "opendir")
            \/ op = "open" /\ pc' = "Idle" /\ dirp' = dirp /\ fil'.id = fs.id
<1>1. CASE \E r : NotOpened(r)
  BY <1>1 DEF NotOpened, Return
<1>2. CASE op = "opendir" /\ \E d : OpenDir(f, d)
  BY <1>2 DEF OpenDir, Return
<1>3. CASE op = "open" /\ \E e : OpenFile(e)
  <2>1. PICK e : OpenFile(e)
    BY <1>3
  <2>2. fil'.id = fs.id
    BY <2>1 DEF OpenFile, FilType
  <2> QED BY <1>3, <2>1, <2>2 DEF OpenFile, Return
<1>4. CASE (\E l : GoOn("Find", l)) /\ UNCHANGED <<fil, dirp>>
  BY <1>4 DEF GoOn
<1> QED BY <1>1, <1>2, <1>3, <1>4 DEF Ends

LEMMA OpeningOpen ==
  ASSUME IInv, IInv', OpenOK, pc \in OpenSteps, op' = op, call' = call,
         Fsid' \in {Fsid, Fsid + 1}, pc' \in {"Idle"} \cup OpenSteps,
         \/ fil' = fil /\ (dirp' = dirp \/ op = "opendir")
         \/ op = "open" /\ dirp' = dirp /\ fil'.id = Fsid' /\ pc' = "Idle"
  PROVE  OpenOK'
<1>1. Fsid \in Nat /\ Fsid' \in Nat /\ Fsid <= Fsid'
  <2>1. Fsid \in 0..MaxMounts
    BY DEF IInv, VolumeOK
  <2> QED BY <2>1, SizeFacts
<1>2. op = "open" => ~dirp.open
  BY DEF IInv, Directories
<1>3. op \in {"open", "opendir"} => ~fil.open
  BY DEF OpenOK
<1>4. pc' \notin ListSteps /\ pc' \notin ReadSteps \cup SeekSteps
  BY DEF OpenSteps, ListSteps, ReadSteps, SeekSteps
<1>5. /\ op = "open" => call.pos = 0
      /\ op = "opendir" => call.names = <<>>
      /\ ~(fil.open /\ dirp.open)
  BY DEF OpenOK
<1>6. fil.open => fil.id <= Fsid
  BY DEF OpenOK
<1>7. fil.id \in Nat
  BY FilFields DEF IInv, Typed
<1>8. CASE fil' = fil /\ (dirp' = dirp \/ op = "opendir")
  <2>1. (fil.open => fil.id <= Fsid)'
    BY <1>1, <1>6, <1>7, <1>8
  <2>2. ~(fil'.open /\ dirp'.open)
    BY <1>3, <1>5, <1>8
  <2> QED BY <1>3, <1>4, <1>5, <1>8, <2>1, <2>2 DEF OpenOK
<1>9. CASE op = "open" /\ dirp' = dirp /\ fil'.id = Fsid' /\ pc' = "Idle"
  <2>1. pc' \notin OpenSteps
    BY <1>9 DEF OpenSteps
  <2>2. ~dirp'.open
    BY <1>2, <1>9
  <2> QED BY <1>1, <1>4, <1>9, <2>1, <2>2 DEF OpenOK
<1> QED BY <1>8, <1>9

LEMMA SearchOpen ==
  ASSUME IInv, IInv', OpenOK, pc \in {"Follow", "Find", "FatFind"}, Ends(fs),
         UNCHANGED <<volume, op, call>>
  PROVE  OpenOK'
<1>1. fil \in FilType /\ pc \in OpenSteps
  BY DEF IInv, Typed, OpenSteps
<1>2. fs.id = Fsid /\ Fsid' = Fsid
  BY Steady DEF volume
<1>3. /\ pc' \in {"Idle", "Find"}
      /\ \/ fil' = fil /\ (dirp' = dirp \/ op = "opendir")
         \/ op = "open" /\ pc' = "Idle" /\ dirp' = dirp /\ fil'.id = fs.id
  BY <1>1, Ended
<1>4. pc' \in {"Idle"} \cup OpenSteps
  BY <1>3 DEF OpenSteps
<1> QED BY <1>1, <1>2, <1>3, <1>4, OpeningOpen

LEMMA SearchOp ==
  ASSUME IInv, pc \in {"Follow", "Find", "FatFind"}
  PROVE  op \in {"open", "opendir"} /\ pc \in OpenSteps
BY DEF IInv, Within, OpenSteps

LEMMA FollowOpen ==
  ASSUME IInv, IInv', OpenOK, Follow
  PROVE  OpenOK'
<1>1. pc = "Follow" /\ FollowPath(fs) /\ UNCHANGED <<volume, op, call>>
  BY DEF Follow
<1> QED BY <1>1, SearchOp, FollowPathEnds, SearchOpen

LEMMA FindOpen ==
  ASSUME IInv, IInv', OpenOK, NEW o, Find(o)
  PROVE  OpenOK'
<1> DEFINE dj == loc.dj
<1>1. pc = "Find" /\ UNCHANGED <<volume, op, call>>
  BY DEF Find
<1>2. op \in {"open", "opendir"} /\ pc \in OpenSteps
  BY <1>1, SearchOp
<1>3. \/ NotOpened("DISK_ERR")
      \/ \E e : NoSuchName \/ Matched(e)
      \/ Ask_fat(dj.clust, "FatFind") /\ UNCHANGED <<fil, dirp>>
      \/ Searched(dir_next(dj))
  BY DEF Find
<1>4. \/ Ends(fs)
      \/ Ask_fat(dj.clust, "FatFind") /\ UNCHANGED <<fil, dirp>>
  <2>1. CASE NotOpened("DISK_ERR")
    BY <2>1 DEF Ends
  <2> QED BY <1>2, <1>3, <2>1, NoSuchNameEnds, MatchedEnds, SearchedEnds
<1>5. CASE Ends(fs)
  BY <1>1, <1>5, SearchOpen
<1>6. CASE Ask_fat(dj.clust, "FatFind") /\ UNCHANGED <<fil, dirp>>
  <2>1. pc' = "FatFind" /\ Fsid' = Fsid
    BY <1>1, <1>6 DEF Ask_fat, GoOn, volume
  <2>2. pc' \in {"Idle"} \cup OpenSteps
    BY <2>1 DEF OpenSteps
  <2> QED BY <1>1, <1>2, <1>6, <2>1, <2>2, OpeningOpen
<1> QED BY <1>4, <1>5, <1>6

LEMMA FollowPathKeeps ==
  ASSUME op \in {"open", "opendir"}, NEW f, FollowPath(f)
  PROVE  fil' = fil /\ pc' \in {"Idle", "Find"} /\ (dirp' = dirp \/ op = "opendir")
<1>1. \/ NotOpened("INVALID_NAME")
      \/ op = "opendir" /\ OpenDir(f, NoDir)
      \/ DirFind(f, 0, loc.path)
  BY DEF FollowPath, Origin
<1>2. CASE NotOpened("INVALID_NAME")
  BY <1>2 DEF NotOpened, Return
<1>3. CASE op = "opendir" /\ OpenDir(f, NoDir)
  BY <1>3 DEF OpenDir, Return
<1>4. CASE DirFind(f, 0, loc.path)
  BY <1>4 DEF DirFind, NotOpened, Return, GoOn
<1> QED BY <1>1, <1>2, <1>3, <1>4

\* what find_volume leaves as it is
FindingKeeps ==
  /\ fil' = fil /\ (dirp' = dirp \/ op = "opendir")
  /\ Fsid' \in {Fsid, Fsid + 1} /\ pc' \in {"Idle"} \cup OpenSteps

LEMMA FoundKeeps ==
  ASSUME op \in {"mount", "open", "opendir"}, Fsid' = Fsid + 1, NEW f, Found(f)
  PROVE  FindingKeeps
<1>1. CASE op = "mount"
  BY <1>1 DEF Found, Return, FindingKeeps
<1>2. CASE op # "mount"
  <2>1. FollowPath(f)
    BY <1>2 DEF Found
  <2> QED BY <1>2, <2>1, FollowPathKeeps DEF FindingKeeps, OpenSteps
<1> QED BY <1>1, <1>2

LEMMA NotFoundKeeps ==
  ASSUME NEW r, NotFound(r)
  PROVE  FindingKeeps
BY DEF NotFound, NotOpened, Return, FindingKeeps

LEMMA CheckKeeps ==
  ASSUME op \in {"mount", "open", "opendir"}, NEW o, CheckFs(o)
  PROVE  FindingKeeps
<1> DEFINE b == Cards[win'[1]].bpb
<1>1. \/ \E s : Mounted(b, s)
      \/ (\E l : GoOn("Check", l)) /\ UNCHANGED <<fs, Fsid, fil, dirp>>
      \/ \E r : NotFound(r)
  BY DEF CheckFs
<1>2. ASSUME NEW s, Mounted(b, s) PROVE FindingKeeps
  <2>1. \/ NotFound("NO_FILESYSTEM")
        \/ GoOn("Info", loc) /\ UNCHANGED <<Fsid, fil, dirp>>
        \/ Fsid' = Fsid + 1 /\ Found(Volume(b, s))
    BY <1>2 DEF Mounted
  <2>2. CASE GoOn("Info", loc) /\ UNCHANGED <<Fsid, fil, dirp>>
    BY <2>2 DEF GoOn, FindingKeeps, OpenSteps
  <2> QED BY <2>1, <2>2, NotFoundKeeps, FoundKeeps
<1>3. CASE (\E l : GoOn("Check", l)) /\ UNCHANGED <<fs, Fsid, fil, dirp>>
  BY <1>3 DEF GoOn, FindingKeeps, OpenSteps
<1> QED BY <1>1, <1>2, <1>3, NotFoundKeeps

LEMMA CheckOpen ==
  ASSUME IInv, IInv', OpenOK, NEW o,
         CheckFs(o) \/ FsInfo(o)
  PROVE  OpenOK' /\ FindingKeeps
<1>1. pc \in {"Check", "Info"} /\ UNCHANGED <<op, call>>
  BY DEF CheckFs, FsInfo
<1>2. op \in {"mount", "open", "opendir"} /\ pc \in OpenSteps
  BY <1>1 DEF IInv, Within, OpenSteps
<1>3. FindingKeeps
  <2>1. CASE CheckFs(o)
    BY <1>2, <2>1, CheckKeeps
  <2>2. CASE FsInfo(o)
    BY <1>2, <2>2, FoundKeeps DEF FsInfo
  <2> QED BY <2>1, <2>2
<1> QED BY <1>1, <1>2, <1>3, OpeningOpen DEF FindingKeeps

\* what a step of f_readdir does to the DIR
ListEnds ==
  /\ fil' = fil /\ dirp'.open = dirp.open /\ dirp'.id = dirp.id
  /\ pc' # "Idle" =>
       /\ pc' \in ListSteps /\ more' = more /\ loc'.idx = loc.idx
       /\ dirp'.index >= dirp.index

LEMMA ShownEnds ==
  ASSUME fil' = fil, NEW d, d.open = dirp.open, d.id = dirp.id, NEW r, Shown(d, r)
  PROVE  ListEnds
BY DEF Shown, Return, ListEnds

LEMMA ShutFields ==
  ASSUME NEW d \in DirType
  PROVE  LET e == [d EXCEPT !.sect = 0] IN
         /\ e.open = d.open /\ e.id = d.id /\ e.index = d.index /\ e.sect = 0
         /\ e.sclust = d.sclust /\ e.clust = d.clust
BY DEF DirType

\* the DIR after dir_next
LEMMA NextFields ==
  ASSUME NEW d \in DirType, NEW v \in Nat
  PROVE  /\ dir_next(d).d.open = d.open /\ dir_next(d).d.id = d.id
         /\ dir_next_fat(d, v).d.open = d.open /\ dir_next_fat(d, v).d.id = d.id
<1> DEFINE e == IF SectorEnds(d) THEN [d EXCEPT !.sect = @ + 1] ELSE d
<1> DEFINE m == [e EXCEPT !.index = NextIndex(d)]
<1>1. e.open = d.open /\ e.id = d.id
  BY DEF DirType
<1>2. m.open = d.open /\ m.id = d.id
  BY DEF DirType
<1>3. dir_next(d).d \in {d, e, m}
  <2>1. \/ dir_next(d) = [d |-> d, res |-> "NO_FILE"]
        \/ dir_next(d) = [d |-> e, res |-> "NO_FILE"]
        \/ dir_next(d) = [d |-> m, res |-> "OK"]
    BY DEF dir_next
  <2> HIDE DEF e, m
  <2> QED BY <2>1
<1> DEFINE a == [d EXCEPT !.sect = @ + 1]
<1> DEFINE z == [d EXCEPT !.clust = v, !.sect = clust2sect(fs, v), !.index = NextIndex(d)]
<1>4. a.open = d.open /\ a.id = d.id /\ z.open = d.open /\ z.id = d.id
  BY DEF DirType
<1>5. dir_next_fat(d, v).d \in {a, z}
  <2>1. \/ dir_next_fat(d, v) = [d |-> a, res |-> "INT_ERR"]
        \/ dir_next_fat(d, v) = [d |-> a, res |-> "DISK_ERR"]
        \/ dir_next_fat(d, v) = [d |-> a, res |-> "NO_FILE"]
        \/ dir_next_fat(d, v) = [d |-> z, res |-> "OK"]
    BY DEF dir_next_fat
  <2> HIDE DEF a, z
  <2> QED BY <2>1
<1> HIDE DEF e, m, a, z
<1> QED BY <1>1, <1>2, <1>3, <1>4, <1>5

LEMMA SteppedEnds ==
  ASSUME fil' = fil, NEW n, n.d \in DirType, n.d.open = dirp.open, n.d.id = dirp.id, Stepped(n)
  PROVE  ListEnds
BY ShownEnds, ShutFields DEF Stepped

LEMMA SkippedEnds ==
  ASSUME fil' = fil, NEW n, n.d \in DirType, n.d.open = dirp.open, n.d.id = dirp.id, Skipped(n),
         dirp \in DirType, loc \in LocType, n.res = "OK" => n.d.index = dirp.index + 1
  PROVE  ListEnds
<1>1. CASE n.res = "OK"
  <2>1. dirp' = n.d /\ GoOn("Entry", loc) /\ more' = more
    BY <1>1 DEF Skipped
  <2>2. pc' = "Entry" /\ loc'.idx = loc.idx
    BY <2>1, GoneOn
  <2>3. dirp'.index >= dirp.index
    <3>1. dirp.index \in Nat
      BY DirFields
    <3> QED BY <1>1, <2>1, <3>1
  <2> QED BY <2>1, <2>2, <2>3 DEF ListEnds, ListSteps
<1>2. CASE n.res # "OK"
  <2>1. \E r : Shown([n.d EXCEPT !.sect = 0], r)
    BY <1>2 DEF Skipped
  <2> QED BY <2>1, ShownEnds, ShutFields
<1> QED BY <1>1, <1>2

LEMMA ListOpen ==
  ASSUME IInv, IInv', OpenOK, pc \in ListSteps, ListEnds, UNCHANGED <<volume, op>>
  PROVE  OpenOK'
<1>1. Valid(dirp) /\ more /\ dirp.index >= loc.idx
  BY DEF OpenOK
<1>2. fs' = fs /\ Fsid' = Fsid /\ op = "readdir"
  BY DEF IInv, Within, volume
<1>3. Valid(dirp)' = Valid(dirp)
  BY <1>2 DEF Valid, ListEnds
<1>4. pc' \in ListSteps => Valid(dirp)' /\ more' /\ dirp'.index >= loc'.idx
  <2> SUFFICES ASSUME pc' \in ListSteps PROVE dirp'.index >= loc'.idx /\ more'
    BY <1>1, <1>3
  <2>1. more' = more /\ loc'.idx = loc.idx /\ dirp'.index >= dirp.index
    BY DEF ListEnds, ListSteps
  <2>2. dirp'.index \in Nat /\ dirp.index \in Nat /\ loc.idx \in Nat
    <3>1. dirp' \in DirType /\ dirp \in DirType /\ loc \in LocType
      BY DEF IInv, Typed
    <3> QED BY <3>1, DirFields, LocFields
  <2> QED BY <1>1, <2>1, <2>2
<1>5. pc' \notin OpenSteps /\ pc' \notin ReadSteps \cup SeekSteps
  BY DEF ListEnds, ListSteps, OpenSteps, ReadSteps, SeekSteps
<1>6. /\ (fil.open => fil.id <= Fsid)' /\ ~(fil'.open /\ dirp'.open)
  BY <1>2 DEF OpenOK, ListEnds
<1> QED BY <1>4, <1>5, <1>6 DEF OpenOK

LEMMA EntryOpen ==
  ASSUME IInv, IInv', OpenOK, NEW o, Entry(o)
  PROVE  OpenOK'
<1>1. pc = "Entry" /\ UNCHANGED <<volume, op>> /\ fil' = fil
  BY DEF Entry
<1>2. dirp \in DirType /\ loc \in LocType /\ fs \in FsType /\ Geometry(fs) /\ dirp.clust \in Nat
  BY <1>1, Steady, DirFields
<1>3. \/ \E r : Shown([dirp EXCEPT !.sect = 0], r)
      \/ /\ UNCHANGED <<dirp, more>>
         /\ Ask_fat(dirp.clust, "FatNext") \/ Ask_fat(dirp.clust, "FatSkip")
      \/ ~NeedsFat(dirp) /\ (Stepped(dir_next(dirp)) \/ Skipped(dir_next(dirp)))
  BY DEF Entry
<1>4. CASE \E r : Shown([dirp EXCEPT !.sect = 0], r)
  <2>1. ListEnds
    BY <1>1, <1>2, <1>4, ShownEnds, ShutFields
  <2> QED BY <1>1, <2>1, ListOpen DEF ListSteps
<1>5. CASE /\ UNCHANGED <<dirp, more>>
           /\ Ask_fat(dirp.clust, "FatNext") \/ Ask_fat(dirp.clust, "FatSkip")
  <2>1. pc' \in {"FatNext", "FatSkip"} /\ loc'.idx = loc.idx
    BY <1>2, <1>5, AskedFat
  <2>2. ListEnds
    <3>1. dirp.index \in Nat
      BY <1>2, DirFields
    <3>2. dirp'.index >= dirp.index
      BY <1>5, <3>1
    <3> QED BY <1>1, <1>5, <2>1, <3>2 DEF ListEnds, ListSteps
  <2> QED BY <1>1, <2>2, ListOpen DEF ListSteps
<1>6. CASE ~NeedsFat(dirp) /\ (Stepped(dir_next(dirp)) \/ Skipped(dir_next(dirp)))
  <2> DEFINE n == dir_next(dirp)
  <2>1. At(fs, dirp)
    BY <1>1 DEF IInv, Directories
  <2>2. n.d \in DirType /\ (n.res = "OK" => n.d.index = dirp.index + 1)
    BY <1>2, <1>6, <2>1, NextOK
  <2>3. n.d.open = dirp.open /\ n.d.id = dirp.id
    <3>1. 0 \in Nat
      OBVIOUS
    <3> QED BY <1>2, <3>1, NextFields
  <2>4. Stepped(n) \/ Skipped(n)
    BY <1>6
  <2> HIDE DEF n
  <2>5. ListEnds
    BY <1>1, <1>2, <2>2, <2>3, <2>4, SteppedEnds, SkippedEnds
  <2> QED BY <1>1, <2>5, ListOpen DEF ListSteps
<1> QED BY <1>3, <1>4, <1>5, <1>6

\* what a step of f_read or f_lseek does to the FIL
Same(f) ==
  /\ f.open = fil.open /\ f.id = fil.id /\ f.sclust = fil.sclust /\ f.fsize = fil.fsize
FileEnds ==
  /\ Same(fil')
  /\ pc' # "Idle" => pc' \in ReadSteps \cup SeekSteps /\ fil'.err = fil.err

LEMMA AbortEnds ==
  ASSUME fil \in FilType, NEW r, Abort(r)
  PROVE  FileEnds /\ pc' = "Idle" /\ res' = r /\ fil'.err = r
                  /\ fil'.dsect = fil.dsect /\ fil'.buf = fil.buf
<1>1. fil' = [fil EXCEPT !.err = r] /\ pc' = "Idle" /\ res' = r
  BY DEF Abort, Return
<1>2. /\ fil'.open = fil.open /\ fil'.id = fil.id /\ fil'.sclust = fil.sclust
      /\ fil'.fsize = fil.fsize /\ fil'.dsect = fil.dsect /\ fil'.buf = fil.buf
      /\ fil'.err = r
  BY <1>1 DEF FilType
<1> QED BY <1>1, <1>2 DEF FileEnds, Same

LEMMA DeliverEnds ==
  ASSUME NEW f \in FilType, Same(f), f.err = fil.err, NEW n, NEW b, Deliver(f, n, b)
  PROVE  FileEnds
<1>1. fil' = [f EXCEPT !.fptr = @ + n] /\ pc' \in {"Idle", "Read"}
  BY DEF Deliver, Return, GoOn
<1>2. /\ fil'.open = f.open /\ fil'.id = f.id /\ fil'.sclust = f.sclust
      /\ fil'.fsize = f.fsize /\ fil'.err = f.err
  BY <1>1 DEF FilType
<1> QED BY <1>1, <1>2 DEF FileEnds, Same, ReadSteps

LEMMA PartEnds ==
  ASSUME NEW f \in FilType, Same(f), f.err = fil.err, Part(f)
  PROVE  FileEnds
<1>1. \E n, b : Deliver(f, n, b)
  BY DEF Part
<1> QED BY <1>1, DeliverEnds

LEMMA ReadClusterEnds ==
  ASSUME fil \in FilType, NEW v, ReadCluster(v)
  PROVE  FileEnds
<1>1. \/ \E r : Abort(r)
      \/ fil' = [fil EXCEPT !.clust = v] /\ GoOn("Data", loc)
  BY DEF ReadCluster
<1>2. CASE fil' = [fil EXCEPT !.clust = v] /\ GoOn("Data", loc)
  <2>1. pc' = "Data"
    BY <1>2 DEF GoOn
  <2>2. /\ fil'.open = fil.open /\ fil'.id = fil.id /\ fil'.sclust = fil.sclust
        /\ fil'.fsize = fil.fsize /\ fil'.err = fil.err
    BY <1>2 DEF FilType
  <2> QED BY <2>1, <2>2 DEF FileEnds, Same, ReadSteps
<1> QED BY <1>1, <1>2, AbortEnds

LEMMA SeekClusterEnds ==
  ASSUME fil \in FilType, NEW v, SeekCluster(v)
  PROVE  FileEnds
<1>1. \/ \E r : Abort(r)
      \/ fil' = [fil EXCEPT !.clust = v, !.fptr = @ + bcs] /\ pc' = "Seek"
  BY DEF SeekCluster, GoOn
<1>2. CASE fil' = [fil EXCEPT !.clust = v, !.fptr = @ + bcs] /\ pc' = "Seek"
  <2>2. /\ fil'.open = fil.open /\ fil'.id = fil.id /\ fil'.sclust = fil.sclust
        /\ fil'.fsize = fil.fsize /\ fil'.err = fil.err
    BY <1>2 DEF FilType
  <2> QED BY <1>2, <2>2 DEF FileEnds, Same, SeekSteps
<1> QED BY <1>1, <1>2, AbortEnds

LEMMA FileOpen ==
  ASSUME IInv, OpenOK, pc \in ReadSteps \cup SeekSteps, FileEnds, UNCHANGED <<volume, op, dirp>>
  PROVE  OpenOK'
<1>1. Valid(fil) /\ fil.err = "OK" /\ (fil.open => fil.id <= Fsid) /\ ~(fil.open /\ dirp.open)
  BY DEF OpenOK
<1>2. fs' = fs /\ Fsid' = Fsid /\ dirp' = dirp
  BY DEF volume
<1>3. Valid(fil)' /\ fil'.open = fil.open /\ fil'.id = fil.id
  BY <1>1, <1>2 DEF Valid, FileEnds, Same
<1>4. pc' \notin OpenSteps /\ pc' \notin ListSteps
  BY DEF FileEnds, OpenSteps, ListSteps, ReadSteps, SeekSteps
<1>5. pc' \in ReadSteps \cup SeekSteps => fil'.err = "OK"
  BY <1>1 DEF FileEnds, ReadSteps, SeekSteps
<1> QED BY <1>1, <1>2, <1>3, <1>4, <1>5 DEF OpenOK

LEMMA ReadEnds ==
  ASSUME fil \in FilType, Read
  PROVE  FileEnds
<1>1. \/ Part(fil)
      \/ GoOn("Data", loc) /\ fil' = fil
      \/ ReadCluster(fil.sclust)
      \/ Ask_fat(fil.clust, "FatRead") /\ fil' = fil
  BY DEF Read
<1>2. Same(fil) /\ fil.err = fil.err
  BY DEF Same
<1>3. CASE (GoOn("Data", loc) \/ Ask_fat(fil.clust, "FatRead")) /\ fil' = fil
  BY <1>3 DEF GoOn, Ask_fat, FileEnds, Same, ReadSteps
<1> QED BY <1>1, <1>2, <1>3, PartEnds, ReadClusterEnds

LEMMA DataEnds ==
  ASSUME fil \in FilType, NEW o, NEW lost, Data(o, lost)
  PROVE  FileEnds
<1> DEFINE sect == clust2sect(fs, fil.clust) + csect
<1> DEFINE f == [fil EXCEPT !.dsect = sect, !.buf = IF o = "read" THEN <<card, sect>> ELSE @]
<1>1. \/ \E r : Abort(r)
      \/ \E n, b : Deliver(fil, n, b)
      \/ Part(fil)
      \/ Part(f)
  BY DEF Data
<1>2. Same(fil) /\ fil.err = fil.err
  BY DEF Same
<1>3. CASE Part(f)
  <2>1. /\ f.open = fil.open /\ f.id = fil.id /\ f.sclust = fil.sclust
        /\ f.fsize = fil.fsize /\ f.err = fil.err
    BY DEF FilType
  <2>2. PICK n, b : Deliver(f, n, b)
    BY <1>3 DEF Part
  <2>3. fil' = [f EXCEPT !.fptr = @ + n] /\ pc' \in {"Idle", "Read"}
    BY <2>2 DEF Deliver, Return, GoOn
  <2>4. /\ fil'.open = f.open /\ fil'.id = f.id /\ fil'.sclust = f.sclust
        /\ fil'.fsize = f.fsize /\ fil'.err = f.err
    BY <2>3 DEF FilType
  <2> HIDE DEF f
  <2> QED BY <2>1, <2>3, <2>4 DEF FileEnds, Same, ReadSteps
<1> QED BY <1>1, <1>2, <1>3, AbortEnds, DeliverEnds, PartEnds

LEMMA SeekEnds ==
  ASSUME fil \in FilType, Seek
  PROVE  FileEnds
<1> DEFINE there == [fil EXCEPT !.fptr = @ + loc.todo]
<1>1. \/ pc' = "FatSeek" /\ fil' = fil
      \/ fil' = [there EXCEPT !.err = "INT_ERR"] /\ pc' = "Idle"
      \/ fil' = there /\ pc' = "Fill"
      \/ fil' = there /\ pc' = "Idle"
  BY DEF Seek, Ask_fat, GoOn, Return
<1>2. /\ there.open = fil.open /\ there.id = fil.id /\ there.sclust = fil.sclust
      /\ there.fsize = fil.fsize /\ there.err = fil.err
  BY DEF FilType
<1>3. CASE fil' = [there EXCEPT !.err = "INT_ERR"] /\ pc' = "Idle"
  <2>1. /\ fil'.open = there.open /\ fil'.id = there.id /\ fil'.sclust = there.sclust
        /\ fil'.fsize = there.fsize
    BY <1>3 DEF FilType
  <2> HIDE DEF there
  <2> QED BY <1>2, <1>3, <2>1 DEF FileEnds, Same
<1> HIDE DEF there
<1>4. CASE pc' = "FatSeek" /\ fil' = fil
  BY <1>4 DEF FileEnds, Same, SeekSteps
<1>5. CASE fil' = there /\ pc' \in {"Fill", "Idle"}
  BY <1>2, <1>5 DEF FileEnds, Same, SeekSteps
<1> QED BY <1>1, <1>3, <1>4, <1>5

LEMMA FillEnds ==
  ASSUME fil \in FilType, NEW o, Fill(o)
  PROVE  FileEnds
<1>1. \/ \E r : Abort(r)
      \/ /\ fil' = [fil EXCEPT !.dsect = nsect, !.buf = IF o = "read" THEN <<card, nsect>> ELSE @]
         /\ pc' = "Idle"
  BY DEF Fill, Return
<1>2. CASE /\ fil' = [fil EXCEPT !.dsect = nsect,
                                 !.buf = IF o = "read" THEN <<card, nsect>> ELSE @]
           /\ pc' = "Idle"
  <2>1. /\ fil'.open = fil.open /\ fil'.id = fil.id /\ fil'.sclust = fil.sclust
        /\ fil'.fsize = fil.fsize
    BY <1>2 DEF FilType
  <2> QED BY <1>2, <2>1 DEF FileEnds, Same
<1> QED BY <1>1, <1>2, AbortEnds

LEMMA TransferOpen ==
  ASSUME IInv, OpenOK,
         \/ Read \/ Seek \/ \E o : Fill(o) \/ \E lost : Data(o, lost)
  PROVE  OpenOK' /\ FileEnds /\ pc \in ReadSteps \cup SeekSteps
<1>1. fil \in FilType
  BY DEF IInv, Typed
<1>2. pc \in ReadSteps \cup SeekSteps /\ UNCHANGED <<volume, op, dirp>>
  BY DEF Read, Seek, Fill, Data, ReadSteps, SeekSteps
<1>3. FileEnds
  BY <1>1, ReadEnds, SeekEnds, FillEnds, DataEnds
<1> QED BY <1>2, <1>3, FileOpen

LEMMA Fetched ==
  ASSUME IInv, IInv', NEW o, GetFat(o)
  PROVE  /\ pc \in FatCallers /\ UNCHANGED <<volume, op, call>>
         /\ \/ \E v \in Nat : GotFat(v)
            \/ pc' = pc /\ loc'.idx = loc.idx /\ UNCHANGED <<fil, dirp, more>>
<1>1. pc \in FatCallers /\ UNCHANGED <<volume, op, call>>
  BY DEF GetFat
<1>2. loc \in LocType /\ win' \in Buffers
  BY DEF IInv, Typed, DiskOK
<1> DEFINE c == loc.clst
<1>3. 1 \in Nat /\ Bad \in Nat
  BY FormatAssumption
<1>4. \/ GotFat(1) \/ GotFat(Bad)
      \/ GoOn(pc, [loc EXCEPT !.lo = win']) /\ UNCHANGED <<fil, dirp, more>>
      \/ \E v \in FatValues(IF loc.lo # Zeros THEN loc.lo ELSE win', win', c) : GotFat(v)
  BY DEF GetFat
<1>5. CASE GoOn(pc, [loc EXCEPT !.lo = win']) /\ UNCHANGED <<fil, dirp, more>>
  <2>1. pc' = pc /\ loc'.idx = loc.idx
    BY <1>2, <1>5 DEF GoOn, LocType
  <2> QED BY <1>1, <1>5, <2>1
<1> QED BY <1>1, <1>2, <1>3, <1>4, <1>5, FatFacts

LEMMA FatOpen ==
  ASSUME IInv, IInv', OpenOK, NEW o, GetFat(o)
  PROVE  OpenOK'
<1>1. /\ pc \in FatCallers /\ UNCHANGED <<volume, op, call>>
      /\ \/ \E v \in Nat : GotFat(v)
         \/ pc' = pc /\ loc'.idx = loc.idx /\ UNCHANGED <<fil, dirp, more>>
  BY Fetched
<1>2. /\ fs \in FsType /\ Geometry(fs) /\ loc \in LocType /\ dirp \in DirType
      /\ fil \in FilType /\ call \in CallType
  BY <1>1, Steady DEF FatCallers
<1>3. CASE pc' = pc /\ loc'.idx = loc.idx /\ UNCHANGED <<fil, dirp, more>>
  <2>1. fs' = fs /\ Fsid' = Fsid /\ Valid(fil)' = Valid(fil) /\ Valid(dirp)' = Valid(dirp)
    BY <1>1, <1>3 DEF volume, Valid
  <2> QED BY <1>1, <1>3, <2>1 DEF OpenOK
<1>4. ASSUME NEW v \in Nat, GotFat(v) PROVE OpenOK'
  <2>1. CASE pc = "FatFind"
    <3>1. op \in {"open", "opendir"}
      BY <2>1, SearchOp
    <3>2. Ends(fs)
      BY <1>4, <2>1, <3>1, SearchedEnds DEF GotFat
    <3> QED BY <1>1, <2>1, <3>2, SearchOpen
  <2>2. CASE pc \in {"FatSkip", "FatNext"}
    <3> DEFINE n == dir_next_fat(dirp, v)
    <3>1. /\ fil' = fil
          /\ Skipped(n) \/ Stepped(n)
      BY <1>4, <2>2 DEF GotFat
    <3>2. NeedsFat(dirp)
      BY <2>2 DEF IInv, Directories
    <3>3. /\ n.d \in DirType /\ n.d.id = dirp.id /\ n.d.open = dirp.open
          /\ n.res = "OK" => n.d.index = dirp.index + 1
      BY <1>2, <3>2, NextFatOK
    <3> HIDE DEF n
    <3>4. ListEnds
      BY <1>2, <3>1, <3>3, SteppedEnds, SkippedEnds
    <3> QED BY <1>1, <2>2, <3>4, ListOpen DEF ListSteps
  <2>3. CASE pc = "FatRead"
    <3>1. ReadCluster(v) /\ UNCHANGED <<dirp, more>>
      BY <1>4, <2>3 DEF GotFat
    <3> QED BY <1>1, <1>2, <2>3, <3>1, ReadClusterEnds, FileOpen DEF ReadSteps
  <2>4. CASE pc = "FatSeek"
    <3>1. SeekCluster(v) /\ UNCHANGED <<dirp, more>>
      BY <1>4, <2>4 DEF GotFat
    <3> QED BY <1>1, <1>2, <2>4, <3>1, SeekClusterEnds, FileOpen DEF SeekSteps
  <2> QED BY <1>1, <2>1, <2>2, <2>3, <2>4 DEF FatCallers
<1> QED BY <1>1, <1>3, <1>4

\* where find_volume begins
LEMMA BeginsAt ==
  ASSUME NEW names, FindVolume(names)
  PROVE  pc' \in {"Idle", "Check", "Follow"}
BY DEF FindVolume, Return, GoOn

LEMMA CallOpen ==
  ASSUME IInv, IInv', OpenOK, Call
  PROVE  OpenOK'
<1>1. pc = "Idle"
  BY DEF Call, f_mount, f_open, f_opendir, f_readdir, f_close, f_closedir, f_read, f_lseek
<1>2. /\ loc \in LocType /\ fil \in FilType /\ dirp \in DirType /\ call \in CallType
      /\ fil.open => fil.id <= Fsid
      /\ ~(fil.open /\ dirp.open)
  BY <1>1, IdleFacts DEF OpenOK
<1>3. pc' \in {"Idle", "Check", "Follow"} => pc' \notin ListSteps \cup ReadSteps \cup SeekSteps
  BY DEF ListSteps, ReadSteps, SeekSteps
<1>4. pc' = "Idle" => pc' \notin OpenSteps
  BY DEF OpenSteps
<1>5. ASSUME NEW on, NEW now, f_mount(on, now) PROVE OpenOK'
  <2>1. /\ op' = "mount" /\ UNCHANGED <<Fsid, fil, dirp>> /\ pc' \in {"Idle", "Check", "Follow"}
    BY <1>5, BeginsAt DEF f_mount, Return
  <2> QED BY <1>2, <1>3, <2>1 DEF OpenOK
<1>6. ASSUME NEW p, f_open(p) PROVE OpenOK'
  <2>1. /\ op' = "open" /\ ~dirp.open /\ UNCHANGED <<Fsid, dirp>>
        /\ fil' = Closed(fil) /\ pc' \in {"Idle", "Check", "Follow"}
        /\ call' = [call EXCEPT !.file = p, !.pos = 0, !.from = 0, !.size = 0]
    BY <1>6, BeginsAt DEF f_open
  <2>2. ~fil'.open
    BY <2>1 DEF Closed, NoFile
  <2>3. call'.pos = 0
    BY <1>2, <2>1 DEF CallType
  <2> QED BY <1>2, <1>3, <2>1, <2>2, <2>3 DEF OpenOK
<1>7. ASSUME NEW p, f_opendir(p) PROVE OpenOK'
  <2>1. /\ op' = "opendir" /\ ~fil.open /\ UNCHANGED <<Fsid, dirp, fil>>
        /\ pc' \in {"Idle", "Check", "Follow"}
        /\ call' = [call EXCEPT !.dir = p, !.names = <<>>]
    BY <1>7, BeginsAt DEF f_opendir
  <2>2. call'.names = <<>>
    BY <1>2, <2>1 DEF CallType
  <2> QED BY <1>2, <1>3, <2>1, <2>2 DEF OpenOK
<1>8. ASSUME f_readdir PROVE OpenOK'
  <2>1. op' = "readdir" /\ UNCHANGED <<fs, Fsid, fil, dirp>> /\ more
    BY <1>8 DEF f_readdir, volume
  <2>2. CASE pc' = "Idle"
    BY <1>2, <1>3, <1>4, <2>1, <2>2 DEF OpenOK
  <2>3. CASE pc' # "Idle"
    <3>1. Valid(dirp) /\ GoOn("Entry", [loc EXCEPT !.idx = dirp.index]) /\ more' = more
      BY <1>8, <2>3 DEF f_readdir, Return
    <3>2. pc' = "Entry" /\ loc'.idx = dirp.index
      BY <1>2, <3>1 DEF GoOn, LocType
    <3>3. dirp'.index >= loc'.idx
      <4>1. dirp.index \in Nat
        BY <1>2, DirFields
      <4> QED BY <2>1, <3>2, <4>1
    <3>4. Valid(dirp)'
      BY <2>1, <3>1 DEF Valid
    <3> QED BY <1>2, <2>1, <3>1, <3>2, <3>3, <3>4
        DEF OpenOK, OpenSteps, ListSteps, ReadSteps, SeekSteps
  <2> QED BY <2>2, <2>3
<1>9. ASSUME f_close \/ f_closedir PROVE OpenOK'
  <2>1. /\ Fsid' = Fsid /\ pc' = "Idle"
        /\ \/ fil' = Closed(fil) /\ dirp' = dirp
           \/ fil' = fil /\ dirp' = NoDir
    BY <1>9 DEF f_close, f_closedir, volume, Return
  <2>2. ~Closed(fil).open /\ ~NoDir.open
    BY DEF Closed, NoFile, NoDir
  <2>3. (fil' = Closed(fil) /\ dirp' = dirp) => ~fil'.open
    BY <2>2
  <2>4. (fil' = fil /\ dirp' = NoDir) => ~dirp'.open
    BY <2>2
  <2> QED BY <1>2, <1>3, <1>4, <2>1, <2>3, <2>4 DEF OpenOK
<1>10. ASSUME NEW n, f_read(n) PROVE OpenOK'
  <2>1. op' = "read" /\ UNCHANGED <<fs, Fsid, fil, dirp>> /\ pc' \in {"Idle", "Read"}
    BY <1>10 DEF f_read, volume, Return, GoOn
  <2>2. pc' = "Read" => Refusal = "OK"
    BY <1>10 DEF f_read, Return
  <2>3. pc' = "Read" => Valid(fil) /\ fil.err = "OK"
    BY <2>2 DEF Refusal
  <2>4. Valid(fil)' = Valid(fil)
    BY <2>1 DEF Valid
  <2> QED BY <1>2, <1>3, <1>4, <2>1, <2>3, <2>4 DEF OpenOK, OpenSteps, ListSteps
<1>11. ASSUME NEW n, f_lseek(n) PROVE OpenOK'
  <2>1. op' = "lseek" /\ UNCHANGED <<fs, Fsid, dirp>>
    BY <1>11 DEF f_lseek, volume
  <2> DEFINE base == ((fil.fptr - 1) \div bcs) * bcs
  <2>2. \/ fil' = fil /\ pc' = "Idle"
        \/ fil' = [fil EXCEPT !.fptr = 0] /\ pc' = "Idle"
        \/ /\ Refusal = "OK" /\ pc' = "Seek"
           /\ \/ fil' = [fil EXCEPT !.fptr = base]
              \/ fil' = [fil EXCEPT !.fptr = 0, !.clust = fil.sclust]
    BY <1>11 DEF f_lseek, Return, GoOn
  <2>3. fil'.open = fil.open /\ fil'.id = fil.id /\ fil'.err = fil.err
    BY <1>2, <2>2 DEF FilType
  <2>4. pc' = "Seek" => Valid(fil) /\ fil.err = "OK"
    BY <2>2 DEF Refusal
  <2>5. pc' \in {"Idle", "Seek"}
    BY <2>2
  <2>6. Valid(fil)' = Valid(fil)
    BY <2>1, <2>3 DEF Valid
  <2>7. pc' = "Seek" => pc' \notin OpenSteps \cup ListSteps
    BY DEF OpenSteps, ListSteps
  <2> QED BY <1>2, <1>3, <1>4, <2>1, <2>3, <2>4, <2>5, <2>6, <2>7 DEF OpenOK
<1> QED BY <1>5, <1>6, <1>7, <1>8, <1>9, <1>10, <1>11 DEF Call

LEMMA StillOpen ==
  ASSUME OpenOK, UNCHANGED <<fs, Fsid, fil, dirp, pc, op, loc, more, call>>
  PROVE  OpenOK'
<1>1. Valid(fil)' = Valid(fil) /\ Valid(dirp)' = Valid(dirp)
  BY DEF Valid
<1> QED BY <1>1 DEF OpenOK

LEMMA InitOpen == Init => OpenOK
BY DEF Init, OpenOK, NoFile, NoDir, OpenSteps, ListSteps, ReadSteps, SeekSteps

LEMMA StepOpen ==
  ASSUME IInv, IInv', OpenOK, Step
  PROVE  OpenOK'
BY FollowOpen, CheckOpen, FindOpen, EntryOpen, FatOpen, TransferOpen DEF Step

LEMMA NextOpen ==
  ASSUME IInv, IInv', OpenOK, [Next]_vars
  PROVE  OpenOK'
<1>1. CASE SwapCard \/ UNCHANGED vars
  BY <1>1, StillOpen DEF SwapCard, vars, volume
<1> QED BY <1>1, CallOpen, StepOpen DEF Next

-----------------------------------------------------------------------------
(* The volume stays what it is on the card. *)

LEMMA AskKeeps ==
  ASSUME hist \in HistType, NEW s, NEW n, NEW o, Ask(s, n, o)
  PROVE  hist'.on = hist.on /\ (hist.missed => hist'.missed) /\ (hist.failed => hist'.failed)
BY DEF Ask, HistType

LEMMA MoveKeeps ==
  ASSUME hist \in HistType, NEW s, NEW o, MoveWindow(s, o)
  PROVE  hist'.on = hist.on /\ (hist.missed => hist'.missed) /\ (hist.failed => hist'.failed)
<1>1. hist' = hist \/ Ask(s, 1, o)
  BY DEF MoveWindow, disk
<1> QED BY <1>1, AskKeeps

LEMMA MountSteady ==
  ASSUME MountOK, fs' = fs, UNCHANGED slot, hist'.on = hist.on, hist.missed => hist'.missed,
         pc # "Check", pc' # "Check",
         fs.fs_type # "" /\ ~hist'.missed /\ winsect' # NoSector => win' = <<hist.on, winsect'>>
  PROVE  MountOK'
<1>1. Mine' = Mine
  BY DEF Mine
<1>2. card' = card /\ ready' = ready
  BY DEF slot
<1> QED BY <1>1, <1>2 DEF MountOK, Describes

\* the window is not looked into
LEMMA WindowKept ==
  ASSUME MountOK, UNCHANGED <<slot, win, winsect, fs>>, hist'.on = hist.on,
         hist.missed => hist'.missed, pc # "Check", pc' # "Check"
  PROVE  MountOK'
<1>1. fs.fs_type # "" /\ ~hist'.missed /\ winsect' # NoSector => win' = <<hist.on, winsect'>>
  BY DEF MountOK
<1> QED BY <1>1, MountSteady

LEMMA NotChecking ==
  ASSUME IInv, IInv', fs' = fs, pc \notin {"Idle", "Check"}
  PROVE  pc' # "Check" /\ fs.fs_type # ""
<1>1. fs.fs_type # ""
  BY Steady
<1>2. pc' = "Check" => fs'.fs_type = ""
  BY DEF IInv, VolumeOK
<1> QED BY <1>1, <1>2

\* Every step but check_fs leaves it so.
LEMMA StepMount ==
  ASSUME IInv, IInv', MountOK,
         \/ Follow \/ Read \/ Seek
         \/ \E o \in Outcomes :
              \/ FsInfo(o) \/ Find(o) \/ Entry(o) \/ GetFat(o) \/ Fill(o)
              \/ \E lost : Data(o, lost)
  PROVE  /\ MountOK' /\ UNCHANGED slot /\ fs' = fs /\ hist'.on = hist.on
         /\ (hist.missed => hist'.missed) /\ (hist.failed => hist'.failed)
<1>1. hist \in HistType
  BY DEF IInv, DiskOK
<1>2. /\ fs' = fs /\ UNCHANGED slot
      /\ pc \notin {"Idle", "Check"}
  BY DEF Follow, Read, Seek, FsInfo, Find, Entry, GetFat, Fill, Data, volume, FatCallers
<1>3. pc # "Check" /\ pc' # "Check" /\ fs.fs_type # ""
  BY <1>2, NotChecking
<1>4. CASE Follow \/ Read \/ Seek
  <2>1. UNCHANGED disk
    BY <1>4 DEF Follow, Read, Seek
  <2> QED BY <1>2, <1>3, <2>1, WindowKept DEF disk
<1>5. CASE \E o \in Outcomes : Fill(o) \/ \E lost : Data(o, lost)
  <2>1. win' = win /\ winsect' = winsect
    BY <1>5 DEF Fill, Data
  <2>2. hist' = hist \/ \E s, n, o : Ask(s, n, o)
    BY <1>5 DEF Fill, Data
  <2> QED BY <1>1, <1>2, <1>3, <2>1, <2>2, AskKeeps, WindowKept
<1>6. CASE \E o \in Outcomes : FsInfo(o) \/ Find(o) \/ Entry(o) \/ GetFat(o)
  <2>1. UNCHANGED disk \/ \E s \in Nat, o \in Outcomes : MoveWindow(s, o)
    <3>1. CASE \E o \in Outcomes : FsInfo(o)
      <4>1. fs.volbase \in Nat
        BY <1>2, <1>3, Steady, FsFields
      <4>2. fs.volbase + 1 \in Nat
        BY <4>1
      <4> QED BY <3>1, <4>2 DEF FsInfo
    <3>2. CASE \E o \in Outcomes : Find(o)
      <4>1. loc.dj.sect \in Nat
        BY LocFields, DirFields DEF IInv, Typed
      <4> QED BY <3>2, <4>1 DEF Find
    <3>3. CASE \E o \in Outcomes : Entry(o)
      <4>1. dirp.sect \in Nat
        BY DirFields DEF IInv, Typed
      <4> QED BY <3>3, <4>1 DEF Entry
    <3>4. CASE \E o \in Outcomes : GetFat(o)
      <4> DEFINE c == loc.clst
      <4> DEFINE i == IF loc.lo # Zeros THEN 1 ELSE 0
      <4>1. PICK o \in Outcomes : GetFat(o)
        BY <3>4
      <4>2. UNCHANGED disk \/ (InFat(c) /\ MoveWindow(FatAt(c, i), o))
        BY <4>1 DEF GetFat
      <4>3. InFat(c) => c \in 2..(fs.n_fatent - 1) /\ i \in 0..1
        BY DEF InFat
      <4>4. fs \in FsType /\ Geometry(fs)
        BY <1>2, Steady
      <4> HIDE DEF c, i
      <4>5. InFat(c) => FatAt(c, i) \in Nat
        BY <4>3, <4>4, FatInside
      <4> QED BY <4>2, <4>5
    <3> QED BY <1>6, <3>1, <3>2, <3>3, <3>4
  <2>2. CASE UNCHANGED disk
    BY <1>2, <1>3, <2>2, WindowKept DEF disk
  <2>3. ASSUME NEW s \in Nat, NEW o \in Outcomes, MoveWindow(s, o)
        PROVE  /\ MountOK' /\ hist'.on = hist.on
               /\ (hist.missed => hist'.missed) /\ (hist.failed => hist'.failed)
    <3>1. hist'.on = hist.on /\ (hist.missed => hist'.missed) /\ (hist.failed => hist'.failed)
      BY <1>1, <2>3, MoveKeeps
    <3>2. ~hist'.missed => (winsect' # NoSector => win' = <<hist.on, winsect'>>)
      BY <1>3, <2>3, WindowRead
    <3> QED BY <1>2, <1>3, <3>1, <3>2, MountSteady
  <2> QED BY <1>2, <2>1, <2>2, <2>3 DEF disk
<1> QED BY <1>4, <1>5, <1>6

\* a table of n bytes, the last of which is in one of its s sectors
LEMMA FitsTable ==
  ASSUME NEW n \in Nat \ {0}, NEW b \in Nat \ {0}, NEW s \in Nat, (n - 1) \div b < s
  PROVE  (n + b - 1) \div b <= s
<1> DEFINE q == (n - 1) \div b
<1> DEFINE r == (n - 1) % b
<1>1. q \in Nat /\ r \in 0..(b - 1) /\ n - 1 = b * q + r
  <2>1. n - 1 \in Nat
    OBVIOUS
  <2> QED BY <2>1, DivMod
<1>2. n + b - 1 = b * (q + 1) + r
  <2>1. b * (q + 1) = b * q + b
    <3> HIDE DEF q
    <3> QED BY <1>1
  <2> HIDE DEF q, r
  <2>2. b * q \in Nat
    BY <1>1
  <2> DEFINE m == b * q
  <2>3. m \in Nat /\ n - 1 = m + r /\ b * (q + 1) = m + b
    BY <1>1, <2>1, <2>2
  <2> HIDE DEF m
  <2> QED BY <1>1, <2>3
<1>3. (n + b - 1) \div b = q + 1
  <2>1. n + b - 1 \in Nat /\ q + 1 \in Nat
    BY <1>1
  <2> HIDE DEF q, r
  <2> QED BY <1>1, <1>2, <2>1, DivUnique
<1> HIDE DEF q
<1> QED BY <1>1, <1>3 DEF q

\* the bytes of the FAT entries below cluster n, as check_fs reckons them
TableBytes(t, n) ==
  CASE t = "FAT32" -> n * 4 [] t = "FAT16" -> n * 2 [] OTHER -> (n * 3) \div 2 + (n % 2)

LEMMA TableEnd ==
  ASSUME NEW v, NEW c \in Nat, Type(v.bpb) \in {"FAT12", "FAT16", "FAT32"}
  PROVE  /\ TableBytes(Type(v.bpb), c + 1) \in Nat \ {0}
         /\ FatBytes(v, c)[2] = TableBytes(Type(v.bpb), c + 1) - 1
<1>1. CASE Type(v.bpb) = "FAT12"
  <2>1. FatBytes(v, c) = <<(3 * c) \div 2, (3 * c) \div 2 + 1>>
    BY <1>1 DEF FatBytes
  <2>2. TableBytes(Type(v.bpb), c + 1) = ((c + 1) * 3) \div 2 + ((c + 1) % 2)
    BY <1>1 DEF TableBytes
  <2>3. ((c + 1) * 3) \div 2 + ((c + 1) % 2) = (3 * c) \div 2 + 2 /\ (3 * c) \div 2 \in Nat
    OBVIOUS
  <2> QED BY <2>1, <2>2, <2>3
<1>2. CASE Type(v.bpb) = "FAT16"
  <2>1. FatBytes(v, c) = <<2 * c, 2 * c + 1>>
    BY <1>2 DEF FatBytes
  <2>2. TableBytes(Type(v.bpb), c + 1) = (c + 1) * 2
    BY <1>2 DEF TableBytes
  <2> QED BY <2>1, <2>2
<1>3. CASE Type(v.bpb) = "FAT32"
  <2>1. FatBytes(v, c) = <<4 * c, 4 * c + 3>>
    BY <1>3 DEF FatBytes
  <2>2. TableBytes(Type(v.bpb), c + 1) = (c + 1) * 4
    BY <1>3 DEF TableBytes
  <2> QED BY <2>1, <2>2
<1> QED BY <1>1, <1>2, <1>3

LEMMA SoundFacts ==
  ASSUME NEW n \in DOMAIN Cards, Cards[n].dirs # {}
  PROVE  /\ Cards[n].dirs \subseteq Nat /\ 0 \in Cards[n].dirs
         /\ \A c \in Cards[n].dirs : SoundDir(Cards[n], c)
         /\ Cards[n].base = 0 \/ \E p \in 1..4 : Cards[n].parts[p] = Cards[n].base
         /\ IsBootRecord(Cards[n].bpb)
         /\ \A c \in 2..(Clusters(Cards[n].bpb) + 1) :
              FatSector(Cards[n], c, 2) < FatStart(Cards[n]) + Cards[n].bpb.FATSz
BY SoundAssumption DEF IsSound

\* A sound volume's boot record is one that check_fs accepts.
LEMMA SoundBoot ==
  ASSUME NEW n \in DOMAIN Cards, Cards[n].dirs # {}
  PROVE  ~BadBpb(Cards[n].bpb)
<1> DEFINE v == Cards[n]
<1> DEFINE b == v.bpb
<1>1. /\ IsBootRecord(b) /\ b \in BootRecord /\ v.base \in Nat
      /\ \A c \in 2..(Clusters(b) + 1) : FatSector(v, c, 2) < FatStart(v) + b.FATSz
  BY SoundFacts, CardsAssumption
<1>2. /\ b.BytsPerSec = SS /\ b.NumFATs \in {1, 2} /\ b.SecPerClus \in ClusterSizes
      /\ b.RsvdSecCnt > 0 /\ b.RootEntCnt % DirPer = 0
      /\ b.TotSec >= b.RsvdSecCnt + b.NumFATs * b.FATSz + b.RootEntCnt \div DirPer
      /\ Clusters(b) > 0 /\ (Type(b) = "FAT32" <=> b.RootEntCnt = 0)
  BY <1>1 DEF IsBootRecord
<1>3. /\ b.RsvdSecCnt \in Nat /\ b.FATSz \in Nat /\ b.TotSec \in Nat /\ b.RootEntCnt \in Nat
      /\ b.NumFATs \in Nat
  BY <1>1 DEF BootRecord
<1>4. Clusters(b) \in Nat
  <2> DEFINE x == b.TotSec - b.RsvdSecCnt - b.NumFATs * b.FATSz - b.RootEntCnt \div DirPer
  <2>1. b.RootEntCnt \div DirPer \in Nat
    BY <1>3, SizeFacts, DivMod
  <2>2. b.NumFATs * b.FATSz \in Nat
    BY <1>3
  <2>3. x \in Nat
    <3> DEFINE p == b.NumFATs * b.FATSz
    <3> DEFINE q == b.RootEntCnt \div DirPer
    <3>1. p \in Nat /\ q \in Nat /\ b.TotSec >= b.RsvdSecCnt + p + q
      BY <1>2, <2>1, <2>2
    <3>2. x = b.TotSec - b.RsvdSecCnt - p - q
      OBVIOUS
    <3> HIDE DEF p, q, x
    <3> QED BY <1>3, <3>1, <3>2
  <2>4. Clusters(b) = x \div b.SecPerClus
    BY DEF Clusters
  <2> HIDE DEF x
  <2>5. b.SecPerClus \in Nat \ {0}
    BY <1>2 DEF ClusterSizes
  <2> QED BY <2>3, <2>4, <2>5, DivMod
<1>5. Type(b) \in {"FAT12", "FAT16", "FAT32"}
  <2>1. \/ Clusters(b) < MinFat16 \/ Clusters(b) \in MinFat16..(MinFat32 - 1)
        \/ ~(Clusters(b) < MinFat16) /\ ~(Clusters(b) \in MinFat16..(MinFat32 - 1))
    OBVIOUS
  <2>2. Clusters(b) < MinFat16 => ~(Clusters(b) \in MinFat16..(MinFat32 - 1))
    BY <1>4, FormatAssumption
  <2> QED BY <2>1, <2>2 DEF Type
<1> DEFINE c == Clusters(b) + 1
<1> DEFINE size == TableBytes(Type(b), c + 1)
<1>6. size \in Nat \ {0} /\ FatBytes(v, c)[2] = size - 1
  <2>1. c \in Nat
    BY <1>4
  <2> HIDE DEF c
  <2> QED BY <1>5, <2>1, TableEnd
<1>7. (size - 1) \div SS < b.FATSz
  <2>1. c \in 2..(Clusters(b) + 1)
    BY <1>2, <1>4
  <2>2. FatSector(v, c, 2) < FatStart(v) + b.FATSz
    BY <1>1, <2>1
  <2>3. FatSector(v, c, 2) = FatStart(v) + (size - 1) \div SS
    BY <1>6 DEF FatSector
  <2>4. FatStart(v) \in Nat
    BY <1>1, <1>3 DEF FatStart
  <2>5. size - 1 \in Nat
    <3> HIDE DEF size
    <3> QED BY <1>6
  <2> DEFINE q == (size - 1) \div SS
  <2>6. q \in Nat
    <3> HIDE DEF size
    <3> QED BY <2>5, SizeFacts, DivMod
  <2>7. FatStart(v) + q < FatStart(v) + b.FATSz
    BY <2>2, <2>3
  <2> HIDE DEF q
  <2>8. q < b.FATSz
    BY <1>3, <2>4, <2>6, <2>7
  <2> QED BY <2>8 DEF q
<1>8. (size + SS - 1) \div SS <= b.FATSz
  <2> HIDE DEF size
  <2> QED BY <1>3, <1>6, <1>7, SizeFacts, FitsTable
<1>9. size = CASE Type(b) = "FAT32" -> (Clusters(b) + 2) * 4
               [] Type(b) = "FAT16" -> (Clusters(b) + 2) * 2
               [] OTHER -> ((Clusters(b) + 2) * 3) \div 2 + ((Clusters(b) + 2) % 2)
  <2>1. c + 1 = Clusters(b) + 2
    BY <1>4
  <2> HIDE DEF c
  <2> QED BY <2>1 DEF TableBytes
<1>10. (size + SS - 1) \div SS \in Nat
  <2>1. size + SS - 1 \in Nat
    <3> HIDE DEF size
    <3> QED BY <1>6, SizeFacts
  <2> HIDE DEF size
  <2> QED BY <2>1, SizeFacts, DivMod
<1> DEFINE need == (size + SS - 1) \div SS
<1>11. ~(b.FATSz < need)
  <2> HIDE DEF need
  <2>1. need \in Nat /\ need <= b.FATSz
    BY <1>8, <1>10 DEF need
  <2> QED BY <1>3, <2>1
<1>12. Clusters(b) # 0 /\ b.RsvdSecCnt # 0
       /\ ~(b.TotSec < b.RsvdSecCnt + b.NumFATs * b.FATSz + b.RootEntCnt \div DirPer)
  <2>1. b.RootEntCnt \div DirPer \in Nat /\ b.NumFATs * b.FATSz \in Nat
    BY <1>3, SizeFacts, DivMod
  <2> DEFINE p == b.NumFATs * b.FATSz
  <2> DEFINE q == b.RootEntCnt \div DirPer
  <2>2. p \in Nat /\ q \in Nat /\ b.TotSec >= b.RsvdSecCnt + p + q
    BY <1>2, <2>1
  <2> HIDE DEF p, q
  <2>3. ~(b.TotSec < b.RsvdSecCnt + p + q)
    BY <1>3, <2>2
  <2> QED BY <1>2, <1>3, <1>4, <2>3 DEF p, q
<1> DEFINE ns == Clusters(b) + 2
<1> DEFINE sz == CASE Type(b) = "FAT32" -> ns * 4
                   [] Type(b) = "FAT16" -> ns * 2
                   [] OTHER -> (ns * 3) \div 2 + (ns % 2)
<1>13. ~(b.FATSz < (sz + SS - 1) \div SS)
  <2>1. sz = size
    BY <1>9
  <2> HIDE DEF sz, size
  <2> QED BY <1>11, <2>1
<1>14. ~((Type(b) = "FAT32") # (b.RootEntCnt = 0))
  <2> HIDE DEF b
  <2>1. CASE Type(b) = "FAT32"
    <3>1. b.RootEntCnt = 0
      BY <1>2, <2>1
    <3>2. (Type(b) = "FAT32") = TRUE /\ (b.RootEntCnt = 0) = TRUE
      BY <2>1, <3>1
    <3> QED BY <3>2
  <2>2. CASE ~(Type(b) = "FAT32")
    <3>1. ~(b.RootEntCnt = 0)
      BY <1>2, <2>2
    <3>2. (Type(b) = "FAT32") = FALSE /\ (b.RootEntCnt = 0) = FALSE
      BY <2>2, <3>1
    <3> QED BY <3>2
  <2> QED BY <2>1, <2>2
<1>15. BadBpb(b) <=>
         \/ \/ b.BytsPerSec # SS \/ b.NumFATs \notin {1, 2} \/ b.SecPerClus \notin ClusterSizes
            \/ b.RootEntCnt % DirPer # 0 \/ b.RsvdSecCnt = 0
            \/ b.TotSec < b.RsvdSecCnt + b.NumFATs * b.FATSz + b.RootEntCnt \div DirPer
            \/ Clusters(b) = 0
         \/ (Type(b) = "FAT32") # (b.RootEntCnt = 0)
         \/ b.FATSz < (sz + SS - 1) \div SS
  <2> HIDE DEF b
  <2> QED BY Zenon DEF BadBpb
<1> HIDE DEF b, sz
<1>16. ~ (\/ b.BytsPerSec # SS \/ b.NumFATs \notin {1, 2} \/ b.SecPerClus \notin ClusterSizes
          \/ b.RootEntCnt % DirPer # 0 \/ b.RsvdSecCnt = 0
          \/ b.TotSec < b.RsvdSecCnt + b.NumFATs * b.FATSz + b.RootEntCnt \div DirPer
          \/ Clusters(b) = 0)
  BY <1>2, <1>12
<1>17. ~BadBpb(b)
  BY <1>13, <1>14, <1>15, <1>16, Zenon
<1> QED BY <1>17 DEF b

LEMMA FirstOf ==
  ASSUME NEW P \in SUBSET (1..4), P # {}
  PROVE  LET c == CHOOSE p \in P : \A q \in P : p <= q IN c \in P /\ \A q \in P : c <= q
<1>1. P \subseteq Nat
  <2>1. \A p \in P : p \in Nat
    OBVIOUS
  <2> QED BY <2>1
<1>2. \E p \in P : \A q \in P : p <= q
  BY <1>1, Least
<1> QED BY <1>2

\* a boot record, or the table of the card, in sector s
LEMMA BootThere ==
  ASSUME NEW n \in DOMAIN Cards, NEW s \in Nat
  PROVE  /\ s = Cards[n].base => BootKind(<<n, s>>) = 0
         /\ BootKind(<<n, s>>) = 0 => s = Cards[n].base
         /\ s = 0 /\ Cards[n].base # 0 => BootKind(<<n, s>>) = 1
         /\ s = 0 => PartsIn(<<n, s>>) = Cards[n].parts
<1> DEFINE w == <<n, s>>
<1>1. w # Zeros /\ w[1] = n /\ w[2] = s
  BY SectorRead
<1> HIDE DEF w
<1>2. /\ s = Cards[n].base => BootKind(w) = 0
      /\ BootKind(w) = 0 => s = Cards[n].base
      /\ s = 0 /\ Cards[n].base # 0 => BootKind(w) = 1
  BY <1>1 DEF BootKind
<1>3. s = 0 => PartsIn(w) = Cards[n].parts
  BY <1>1 DEF PartsIn
<1> QED BY <1>2, <1>3 DEF w

\* how check_fs ends: find_volume goes on with the volume of the card, with a
\* later partition, among which the one of a sound volume is, or gives up
CheckGave ==
  \/ win' = <<hist.on, Mine.base>> /\ Mounted(Mine.bpb, Mine.base)
  \/ /\ pc' = "Check" /\ UNCHANGED <<fs, Fsid, fil, dirp>>
     /\ loc'.br = Mine.parts /\ Mine.base # 0
     /\ Mine.dirs # {} /\ ~hist'.failed => \E p \in loc'.part..4 : loc'.br[p] = Mine.base
  \/ (\E r : r # "OK" /\ NotFound(r)) /\ (Mine.dirs # {} => hist'.failed)

LEMMA Checked ==
  ASSUME IInv, MountOK, NEW o \in Outcomes, CheckFs(o), ~hist'.missed
  PROVE  /\ ~hist.missed /\ hist'.on = hist.on /\ (hist.failed => hist'.failed)
         /\ hist.on \in DOMAIN Cards
         /\ winsect' # NoSector => win' = <<hist.on, winsect'>>
         /\ CheckGave
<1> DEFINE part == loc.part
<1> DEFINE sector == IF part = 0 THEN 0 ELSE loc.br[part]
<1> DEFINE fmt == IF o = "error" THEN 3 ELSE BootKind(win')
<1> DEFINE br == IF part = 0 THEN PartsIn(win') ELSE loc.br
<1> DEFINE later == {p \in (part + 1)..4 : br[p] # 0}
<1> DEFINE b == Cards[win'[1]].bpb
<1> DEFINE next == CHOOSE p \in later : \A q \in later : p <= q
<1> DEFINE l == [loc EXCEPT !.br = br, !.part = next]
<1>1. /\ pc = "Check" /\ UNCHANGED <<slot, reg, op, out, more, call>>
      /\ Ask(sector, 1, o)
      /\ win' = IF o = "read" THEN <<card, sector>> ELSE win
      /\ winsect' = IF o = "error" THEN NoSector ELSE sector
  BY DEF CheckFs, Invalid
<1>2. \/ fmt = 0 /\ Mounted(b, sector)
      \/ /\ fmt # 0 /\ (part > 0 \/ fmt = 1)
         /\ later # {} /\ GoOn("Check", l) /\ UNCHANGED <<fs, Fsid, fil, dirp>>
      \/ /\ fmt # 0 /\ ~((part > 0 \/ fmt = 1) /\ later # {})
         /\ \E r : r # "OK" /\ NotFound(r)
  <2>1. /\ CASE fmt = 0 -> Mounted(b, sector)
             [] fmt # 0 /\ (part > 0 \/ fmt = 1) /\ later # {} ->
                  GoOn("Check", l) /\ UNCHANGED <<fs, Fsid, fil, dirp>>
             [] OTHER -> NotFound(IF fmt = 3 /\ part \in {0, 4} THEN "DISK_ERR"
                                  ELSE "NO_FILESYSTEM")
    BY DEF CheckFs
  <2> DEFINE r == IF fmt = 3 /\ part \in {0, 4} THEN "DISK_ERR" ELSE "NO_FILESYSTEM"
  <2>2. r # "OK"
    OBVIOUS
  <2>3. /\ CASE fmt = 0 -> Mounted(b, sector)
             [] fmt # 0 /\ (part > 0 \/ fmt = 1) /\ later # {} ->
                  GoOn("Check", l) /\ UNCHANGED <<fs, Fsid, fil, dirp>>
             [] OTHER -> NotFound(r)
    BY <2>1
  <2> HIDE DEF fmt, b, sector, part, later, l, r
  <2> QED BY <2>2, <2>3
<1>3. /\ loc \in LocType /\ part \in 0..4 /\ loc.br \in [1..4 -> Nat] /\ hist \in HistType
  BY LocFields DEF IInv, Typed, DiskOK
<1>4. sector \in Nat
  <2> HIDE DEF part
  <2>1. CASE part = 0
    BY <2>1
  <2>2. CASE part # 0
    <3>1. part \in 1..4
      BY <1>3, <2>2, APart
    <3>2. loc.br[part] \in Nat
      BY <1>3, <3>1
    <3> QED BY <2>2, <3>2
  <2> QED BY <2>1, <2>2
<1>5. /\ ~hist.missed /\ hist'.on = hist.on
      /\ o = "error" => hist'.failed
      /\ o # "error" => o = "read" /\ card = hist.on /\ hist'.failed = hist.failed
      /\ hist.failed => hist'.failed
  <2> HIDE DEF sector
  <2> QED BY <1>1, <1>3, <1>4, Asked
<1>6. hist.on \in DOMAIN Cards
  BY <1>1 DEF MountOK
<1>7. o # "error" => win' = <<hist.on, sector>> /\ winsect' = sector
  <2> HIDE DEF sector
  <2> QED BY <1>1, <1>5
<1>8. winsect' # NoSector => win' = <<hist.on, winsect'>>
  <2> HIDE DEF sector
  <2> QED BY <1>1, <1>7
<1>9. part > 0 =>
        /\ loc.br = Mine.parts /\ Mine.base # 0
        /\ Mine.dirs # {} /\ ~hist.failed => \E p \in part..4 : loc.br[p] = Mine.base
  BY <1>1, <1>5 DEF MountOK
<1>10. /\ o # "error" => (fmt = 0 <=> sector = Mine.base)
       /\ o # "error" /\ part = 0 => br = Mine.parts /\ (Mine.base # 0 => fmt = 1)
  <2>1. part = 0 => sector = 0
    OBVIOUS
  <2> HIDE DEF sector, part
  <2>2. o # "error" => fmt = BootKind(<<hist.on, sector>>)
    BY <1>7
  <2>3. o # "error" /\ part = 0 => br = PartsIn(<<hist.on, sector>>)
    BY <1>7
  <2> HIDE DEF fmt, br
  <2> QED BY <1>4, <1>6, <2>1, <2>2, <2>3, BootThere DEF Mine
<1>11. Mine.parts \in [1..4 -> Nat] /\ Mine.base \in Nat
  BY <1>6, CardsAssumption DEF Mine
<1>12. later \in SUBSET (1..4)
  <2> HIDE DEF part, br
  <2>1. \A p \in (part + 1)..4 : p \in 1..4
    BY <1>3, LaterPart
  <2> QED BY <2>1

\* a later partition is the one of a sound volume
<1>13. ASSUME fmt # 0, Mine.dirs # {}, ~hist'.failed, Mine.base # 0
       PROVE  br = Mine.parts /\ \E p \in later : br[p] = Mine.base
  <2>1. o # "error" /\ ~hist.failed
    BY <1>5, <1>13
  <2>2. sector # Mine.base
    <3> HIDE DEF fmt, sector
    <3> QED BY <1>10, <1>13, <2>1
  <2>3. CASE part = 0
    <3>1. br = Mine.parts
      <4> HIDE DEF br, fmt, part
      <4> QED BY <1>10, <2>1, <2>3
    <3>2. PICK p \in 1..4 : Mine.parts[p] = Mine.base
      BY <1>6, <1>13, SoundFacts DEF Mine
    <3>3. p \in (part + 1)..4
      BY <2>3
    <3> HIDE DEF br, part
    <3>4. p \in later
      BY <1>13, <3>1, <3>2, <3>3
    <3> HIDE DEF later
    <3> QED BY <3>1, <3>2, <3>4
  <2>4. CASE part # 0
    <3> HIDE DEF part
    <3>1. part > 0
      BY <1>3, <2>4
    <3>2. br = Mine.parts /\ br = loc.br
      BY <1>9, <2>4, <3>1
    <3>3. PICK p \in part..4 : loc.br[p] = Mine.base
      BY <1>9, <1>13, <2>1, <3>1
    <3>4. p # part
      BY <2>2, <2>4, <3>3
    <3>5. p \in (part + 1)..4
      BY <1>3, <3>4
    <3> HIDE DEF br, sector, fmt
    <3>6. p \in later
      BY <1>13, <3>2, <3>3, <3>5
    <3> HIDE DEF later
    <3> QED BY <3>2, <3>3, <3>6
  <2> QED BY <2>3, <2>4
<1>14. CASE fmt = 0 /\ Mounted(b, sector)
  <2>1. o # "error"
    BY <1>14
  <2>2. sector = Mine.base
    <3> HIDE DEF fmt, sector
    <3> QED BY <1>10, <1>14, <2>1
  <2>3. win' = <<hist.on, Mine.base>>
    <3> HIDE DEF sector
    <3> QED BY <1>7, <2>1, <2>2
  <2>4. b = Mine.bpb
    BY <2>3 DEF Mine
  <2> HIDE DEF b, sector
  <2>5. Mounted(Mine.bpb, Mine.base)
    BY <1>14, <2>2, <2>4
  <2>6. CheckGave
    BY <2>3, <2>5 DEF CheckGave
  <2> QED BY <1>5, <1>6, <1>8, <2>6
<1>15. CASE /\ fmt # 0 /\ (part > 0 \/ fmt = 1)
            /\ later # {} /\ GoOn("Check", l) /\ UNCHANGED <<fs, Fsid, fil, dirp>>
  <2>1. br = Mine.parts /\ Mine.base # 0
    <3>1. CASE part = 0
      <4>1. o # "error" /\ fmt = 1 /\ fmt # 0
        BY <1>15, <3>1
      <4>2. sector # Mine.base /\ sector = 0
        <5>1. sector # Mine.base
          <6> HIDE DEF fmt, sector
          <6> QED BY <1>10, <4>1
        <5> QED BY <3>1, <5>1
      <4> HIDE DEF br, fmt, sector, part
      <4> QED BY <1>10, <3>1, <4>1, <4>2
    <3>2. CASE part # 0
      <4> HIDE DEF part
      <4>1. part > 0
        BY <1>3, <3>2
      <4> QED BY <1>9, <3>2, <4>1
    <3> QED BY <3>1, <3>2
  <2>2. next \in later /\ \A q \in later : next <= q
    <3> HIDE DEF later
    <3> QED BY <1>12, <1>15, FirstOf
  <2>3. next \in 0..4
    <3> HIDE DEF later, next
    <3>1. next \in 1..4
      BY <1>12, <2>2
    <3> QED BY <3>1
  <2> HIDE DEF next
  <2>4. Mine.dirs # {} /\ ~hist'.failed => \E p \in next..4 : br[p] = Mine.base
    <3> SUFFICES ASSUME Mine.dirs # {}, ~hist'.failed PROVE \E p \in next..4 : br[p] = Mine.base
      OBVIOUS
    <3>1. PICK p \in later : br[p] = Mine.base
      <4> HIDE DEF fmt, later, br
      <4> QED BY <1>13, <1>15, <2>1
    <3>2. p \in 1..4 /\ next <= p
      <4> HIDE DEF later, br
      <4> QED BY <1>12, <2>2
    <3>3. p \in next..4
      BY <2>3, <3>2
    <3> QED BY <3>1, <3>3
  <2> HIDE DEF br, later, part, fmt
  <2>5. l \in LocType /\ l.br = br /\ l.part = next
    BY <1>3, <1>11, <2>1, <2>3 DEF LocType
  <2> HIDE DEF l
  <2>6. pc' = "Check" /\ loc'.br = br /\ loc'.part = next
    BY <1>15, <2>5, GoneOn
  <2>7. CheckGave
    BY <1>15, <2>1, <2>4, <2>6 DEF CheckGave
  <2> QED BY <1>5, <1>6, <1>8, <2>7
<1>16. CASE /\ fmt # 0 /\ ~((part > 0 \/ fmt = 1) /\ later # {})
            /\ \E r : r # "OK" /\ NotFound(r)
  <2>1. Mine.dirs # {} => hist'.failed
    <3> SUFFICES ASSUME Mine.dirs # {}, ~hist'.failed PROVE FALSE
      OBVIOUS
    <3>1. o # "error"
      BY <1>5
    <3>2. Mine.base # 0
      <4>1. CASE part = 0
        <5>1. sector = 0
          BY <4>1
        <5> HIDE DEF sector, fmt
        <5> QED BY <1>10, <1>16, <3>1, <5>1
      <4>2. CASE part # 0
        <5> HIDE DEF part
        <5> QED BY <1>3, <1>9, <4>2
      <4> QED BY <4>1, <4>2
    <3>3. later # {}
      <4> HIDE DEF later, fmt, br
      <4> QED BY <1>13, <1>16, <3>2
    <3>4. part > 0 \/ fmt = 1
      <4> HIDE DEF fmt, part, br
      <4> QED BY <1>3, <1>10, <3>1, <3>2
    <3> HIDE DEF fmt, part, later
    <3> QED BY <1>16, <3>3, <3>4
  <2> HIDE DEF fmt, part, later
  <2>2. CheckGave
    BY <1>16, <2>1 DEF CheckGave
  <2> QED BY <1>5, <1>6, <1>8, <2>2
<1> HIDE DEF fmt, part, later, b, sector, l
<1> QED BY <1>2, <1>14, <1>15, <1>16

LEMMA Described ==
  ASSUME NEW n \in DOMAIN Cards, ~BadBpb(Cards[n].bpb)
  PROVE  Describes(Volume(Cards[n].bpb, Cards[n].base), Cards[n])
<1> DEFINE v == Cards[n]
<1> DEFINE b == v.bpb
<1>1. b.NumFATs \in Nat /\ b.FATSz \in Nat
  BY CardsAssumption DEF BootRecord
<1>2. b.FATSz * b.NumFATs = b.NumFATs * b.FATSz
  BY <1>1
<1> QED BY <1>2 DEF Describes, Volume, FatStart, RootStart, DataStart

LEMMA CheckMount ==
  ASSUME IInv, IInv', MountOK, NEW o \in Outcomes, CheckFs(o)
  PROVE  MountOK'
<1>1. pc = "Check" /\ UNCHANGED slot /\ hist \in HistType /\ hist.on \in DOMAIN Cards
  BY DEF CheckFs, IInv, DiskOK, MountOK
<1>2. \E s : Ask(s, 1, o)
  BY DEF CheckFs, Invalid
<1>3. hist'.on = hist.on /\ card' = card /\ ready' = ready /\ (ready => card = hist.on)
  BY <1>1, <1>2, AskKeeps DEF slot, MountOK
<1>4. CASE hist'.missed
  BY <1>1, <1>3, <1>4 DEF MountOK
<1>5. CASE ~hist'.missed
  <2>1. /\ winsect' # NoSector => win' = <<hist.on, winsect'>>
        /\ CheckGave
    BY <1>5, Checked
  <2>2. Mine' = Mine
    BY <1>3 DEF Mine
  <2>3. pc' = "Check" => fs'.fs_type = ""
    BY DEF IInv, VolumeOK
  <2>4. CASE Mounted(Mine.bpb, Mine.base)
    <3>1. \/ fs'.fs_type = "" /\ pc' # "Check"
          \/ ~BadBpb(Mine.bpb) /\ fs' = Volume(Mine.bpb, Mine.base)
      <4>1. CASE BadBpb(Mine.bpb)
        <5>1. NotFound("NO_FILESYSTEM")
          BY <2>4, <4>1 DEF Mounted
        <5>2. fs' = [fs EXCEPT !.fs_type = ""] /\ pc' # "Check"
          BY <5>1 DEF NotFound, NotOpened, Return
        <5>3. fs \in FsType
          BY DEF IInv, VolumeOK
        <5> QED BY <5>2, <5>3 DEF FsType
      <4> QED BY <2>4, <4>1 DEF Mounted
    <3>2. CASE ~BadBpb(Mine.bpb) /\ fs' = Volume(Mine.bpb, Mine.base)
      <4>1. Describes(fs', Mine)
        BY <1>1, <3>2, Described DEF Mine
      <4>2. (Describes(fs, Mine))'
        BY <2>2, <4>1
      <4>3. pc' # "Check"
        <5>1. Mine.bpb \in BootRecord /\ Mine.base \in Nat /\ Fsid \in Nat
          <6>1. Fsid \in 0..MaxMounts
            BY DEF IInv, VolumeOK
          <6> QED BY <1>1, <6>1, SizeFacts, CardsAssumption DEF Mine
        <5>2. Volume(Mine.bpb, Mine.base).fs_type # ""
          BY <3>2, <5>1, MountedVolume
        <5> QED BY <2>3, <3>2, <5>2
      <4> QED BY <1>1, <1>3, <2>1, <4>2, <4>3 DEF MountOK
    <3>3. CASE fs'.fs_type = "" /\ pc' # "Check"
      BY <1>3, <3>3 DEF MountOK
    <3> QED BY <3>1, <3>2, <3>3
  <2>5. CASE /\ pc' = "Check" /\ UNCHANGED <<fs, Fsid, fil, dirp>>
             /\ loc'.br = Mine.parts /\ Mine.base # 0
             /\ Mine.dirs # {} /\ ~hist'.failed => \E p \in loc'.part..4 : loc'.br[p] = Mine.base
    BY <1>1, <1>3, <2>2, <2>3, <2>5 DEF MountOK
  <2>6. CASE \E r : r # "OK" /\ NotFound(r)
    <3>1. fs' = [fs EXCEPT !.fs_type = ""] /\ pc' # "Check"
      BY <2>6 DEF NotFound, NotOpened, Return
    <3>2. fs'.fs_type = ""
      <4>1. fs \in FsType
        BY DEF IInv, VolumeOK
      <4> QED BY <3>1, <4>1 DEF FsType
    <3> QED BY <1>3, <3>1, <3>2 DEF MountOK
  <2> QED BY <2>1, <2>4, <2>5, <2>6 DEF CheckGave
<1> QED BY <1>4, <1>5

LEMMA NotMore ==
  ASSUME NEW k, k = 0
  PROVE  ~(k > 0)
OBVIOUS

\* find_volume begins
LEMMA BeginMount ==
  ASSUME IInv, MountOK, pc = "Idle", NEW names \in Seq(STRING), FindVolume(names),
         UNCHANGED <<card, win, winsect>>, fs'.fs_type = "" \/ fs' = fs
  PROVE  MountOK' /\ (pc' = "Idle" => hist' = hist)
<1>1. /\ loc \in LocType /\ loc.part = 0 /\ card \in DOMAIN Cards /\ hist \in HistType
      /\ pc # "Check"
  BY IdleFacts, NoLocalsType DEF IInv, DiskOK
<1>2. \/ pc' \in {"Idle", "Follow"} /\ UNCHANGED <<ready, hist>>
      \/ /\ fs'.fs_type = "" /\ ready' = TRUE
         /\ hist' = [hist EXCEPT !.missed = FALSE, !.failed = FALSE, !.on = card]
         /\ GoOn("Check", [loc EXCEPT !.path = names])
  BY DEF FindVolume, Return, GoOn
<1>3. CASE pc' \in {"Idle", "Follow"} /\ UNCHANGED <<ready, hist>>
  <2>1. CASE fs' = fs
    BY <1>1, <1>3, <2>1, WindowKept DEF slot
  <2>2. CASE fs'.fs_type = ""
    BY <1>3, <2>2 DEF MountOK
  <2> QED BY <1>3, <2>1, <2>2
<1>4. CASE /\ fs'.fs_type = "" /\ ready' = TRUE
           /\ hist' = [hist EXCEPT !.missed = FALSE, !.failed = FALSE, !.on = card]
           /\ GoOn("Check", [loc EXCEPT !.path = names])
  <2> DEFINE l == [loc EXCEPT !.path = names]
  <2>1. l \in LocType /\ l.part = 0
    BY <1>1 DEF LocType
  <2> HIDE DEF l
  <2>2. pc' = "Check" /\ loc'.part = 0
    BY <1>4, <2>1, GoneOn DEF l
  <2>3. hist'.on = card
    BY <1>1, <1>4 DEF HistType
  <2>4. fs'.fs_type = "" /\ card' = card /\ hist'.on \in DOMAIN Cards /\ pc' # "Idle"
    BY <1>1, <1>4, <2>2, <2>3
  <2>5. ~(loc'.part > 0)
    BY <2>2, NotMore
  <2>6. MountOK'
    BY <2>3, <2>4, <2>5 DEF MountOK
  <2> QED BY <2>4, <2>6
<1> QED BY <1>2, <1>3, <1>4

LEMMA CallMount ==
  ASSUME IInv, IInv', MountOK, Call
  PROVE  MountOK'
<1>1. pc = "Idle" /\ pc # "Check" /\ fs \in FsType
  BY IdleFacts DEF Call, f_mount, f_open, f_opendir, f_readdir, f_close, f_closedir, f_read, f_lseek
<1>2. ASSUME NEW on, NEW now, f_mount(on, now) PROVE MountOK'
  <2>1. fs'.fs_type = ""
    BY <1>1, <1>2 DEF f_mount, FsType
  <2>2. CASE FindVolume(<<>>)
    <3>1. <<>> \in Seq(STRING)
      OBVIOUS
    <3> QED BY <1>1, <1>2, <2>1, <2>2, <3>1, BeginMount DEF f_mount
  <2>3. CASE ~FindVolume(<<>>)
    <3>1. pc' = "Idle" /\ UNCHANGED <<card, ready, hist>>
      BY <1>2, <2>3 DEF f_mount, Return
    <3> QED BY <2>1, <3>1 DEF MountOK
  <2> QED BY <2>2, <2>3
<1>3. ASSUME NEW p \in Paths, f_open(p) \/ f_opendir(p) PROVE MountOK'
  <2>1. p \in Seq(STRING)
    BY VolumeAssumption
  <2> QED BY <1>1, <1>3, <2>1, BeginMount DEF f_open, f_opendir
<1>4. CASE \/ f_readdir \/ f_close \/ f_closedir
           \/ (\E n \in ReadSizes : f_read(n)) \/ (\E n \in SeekTo : f_lseek(n))
  <2>1. UNCHANGED <<slot, disk, fs>> /\ pc' # "Check"
    BY <1>4 DEF f_readdir, f_close, f_closedir, f_read, f_lseek, volume, Return, GoOn
  <2> QED BY <1>1, <2>1, WindowKept DEF disk
<1> QED BY <1>2, <1>3, <1>4 DEF Call

LEMMA NextMount ==
  ASSUME IInv, IInv', MountOK, [Next]_vars
  PROVE  MountOK'
<1>1. CASE Call
  BY <1>1, CallMount
<1>2. CASE Step
  BY <1>2, CheckMount, StepMount DEF Step
<1>3. CASE SwapCard
  <2>1. /\ ready' = FALSE /\ hist' = [hist EXCEPT !.faults = @ + 1]
        /\ UNCHANGED <<win, winsect, fs, pc, loc>>
    BY <1>3 DEF SwapCard, volume
  <2>2. hist'.on = hist.on /\ hist'.missed = hist.missed /\ hist'.failed = hist.failed
    BY <2>1 DEF IInv, DiskOK, HistType
  <2>3. Mine' = Mine
    BY <2>2 DEF Mine
  <2> QED BY <2>1, <2>2, <2>3 DEF MountOK, Describes
<1>4. CASE UNCHANGED vars
  <2>1. UNCHANGED <<card, ready, hist, win, winsect, fs, pc, loc>> /\ Mine' = Mine
    BY <1>4 DEF vars, slot, disk, volume, Mine
  <2> QED BY <2>1 DEF MountOK, Describes
<1> QED BY <1>1, <1>2, <1>3, <1>4 DEF Next

LEMMA InitMount == Init => MountOK
BY NothingYet DEF Init, MountOK

-----------------------------------------------------------------------------
(* What the calls give *)

\* what the calls have given so far, and what they hold, is the card's
Truth ==
  FatOK /\ SearchOK /\ ListOK /\ FileOK /\ ReadGivesFile /\ ListsEachOnce /\ FindsWhatIsThere

\* f_open or f_opendir is in volume f, and no sector was missed
Searching(f) ==
  /\ Typed /\ OpenOK /\ pc \in OpenSteps
  /\ op \in {"open", "opendir"} /\ op' = op /\ call' = call
  /\ fs' = f /\ f \in FsType /\ Geometry(f) /\ f.fs_type # ""
  /\ hist.on \in DOMAIN Cards /\ hist'.on = hist.on /\ ~hist'.missed /\ Describes(f, Mine)
  /\ op = "open" => ~dirp.open

\* f_open and f_opendir may fail where this holds.
Wanted == IF op = "open" THEN "FILE" ELSE "DIR"
Fails == Lookup(Mine, Names).attr # Wanted \/ Mine.dirs = {} \/ hist'.failed

LEMMA SearchingFacts ==
  ASSUME NEW f, Searching(f)
  PROVE  /\ Names' = Names /\ Mine' = Mine /\ ~fil.open
         /\ op = "open" => call.pos = 0
         /\ op = "opendir" => call.names = <<>>
         /\ loc \in LocType /\ fil \in FilType /\ dirp \in DirType /\ Names \in Seq(STRING)
         /\ Mine = Cards[hist.on]
<1>1. Names' = Names /\ Mine' = Mine
  BY DEF Searching, Names, Mine
<1>2. ~fil.open /\ (op = "open" => call.pos = 0) /\ (op = "opendir" => call.names = <<>>)
  BY DEF Searching, OpenOK
<1>3. loc \in LocType /\ fil \in FilType /\ dirp \in DirType
  BY DEF Searching, Typed
<1>4. Names \in Seq(STRING)
  BY NamesType DEF Searching
<1> QED BY <1>1, <1>2, <1>3, <1>4 DEF Mine

\* a call of f_open or f_opendir ends
LEMMA SearchEnds ==
  ASSUME NEW f, Searching(f), pc' = "Idle", ListOK', FileOK',
         res' = "OK" => Lookup(Mine, Names).attr = Wanted,
         res' # "OK" => Fails,
         op = "open" /\ res' = "OK" => /\ fil'.sclust = Lookup(Mine, Names).clust
                                       /\ fil'.fsize = Lookup(Mine, Names).size
  PROVE  Truth'
<1>1. Names' = Names /\ Mine' = Mine /\ op' = op /\ op \in {"open", "opendir"}
  BY SearchingFacts DEF Searching
<1>2. FatOK' /\ SearchOK'
  BY DEF FatOK, SearchOK, FatCallers
<1>3. ReadGivesFile' /\ ListsEachOnce'
  BY <1>1 DEF ReadGivesFile, ListsEachOnce, Done
<1>4. FindsWhatIsThere'
  BY <1>1 DEF FindsWhatIsThere, Done, Trusted, Fails, Wanted
<1> QED BY <1>2, <1>3, <1>4 DEF Truth

\* it does not
LEMMA SearchGoesOn ==
  ASSUME NEW f, Searching(f), pc' \in {"Find", "FatFind"}, fil' = fil, dirp' = dirp,
         FatOK', SearchOK'
  PROVE  Truth'
<1>1. Names' = Names /\ Mine' = Mine /\ op' = op /\ op \in {"open", "opendir"} /\ ~fil'.open
  BY SearchingFacts DEF Searching
<1>2. op = "open" => ~dirp'.open
  BY DEF Searching
<1>3. ListOK'
  <2>1. op = "opendir" => op' = "opendir" /\ pc' \in OpenSteps
    BY <1>1 DEF OpenSteps
  <2> QED BY <1>1, <1>2, <2>1 DEF ListOK, Valid
<1>4. FileOK'
  BY <1>1 DEF FileOK, Valid
<1>5. ReadGivesFile' /\ ListsEachOnce' /\ FindsWhatIsThere'
  BY DEF ReadGivesFile, ListsEachOnce, FindsWhatIsThere, Done
<1> QED BY <1>3, <1>4, <1>5 DEF Truth

LEMMA NotOpenedTruth ==
  ASSUME NEW f, Searching(f), Fails, NEW r, r # "OK", NotOpened(r)
  PROVE  Truth'
<1>1. /\ pc' = "Idle" /\ res' # "OK" /\ fil' = fil
      /\ dirp' = IF op = "opendir" THEN NoDir ELSE dirp
  BY DEF NotOpened, Return
<1>2. ~fil'.open /\ ~dirp'.open
  BY <1>1, SearchingFacts DEF Searching, NoDir
<1>3. ListOK' /\ FileOK'
  BY <1>2 DEF ListOK, FileOK, Valid
<1> QED BY <1>1, <1>3, SearchEnds

\* dir_sdi opens every directory of a sound volume.
LEMMA SoundDirOpens ==
  ASSUME NEW n \in DOMAIN Cards, NEW f \in FsType, Geometry(f), Describes(f, Cards[n]),
         NEW d, d.sclust \in Nat, Cards[n].dirs # {}, d.sclust \in Cards[n].dirs
  PROVE  dir_sdi(f, d).ok
<1> DEFINE v == Cards[n]
<1> DEFINE c == IF d.sclust = 0 /\ f.fs_type = "FAT32" THEN f.dirbase ELSE d.sclust
<1> DEFINE s == IF c = 0 THEN f.dirbase ELSE clust2sect(f, c)
<1>1. SoundDir(v, d.sclust)
  BY SoundFacts
<1>2. /\ f.fs_type = Type(v.bpb) /\ f.n_rootdir = v.bpb.RootEntCnt
      /\ f.dirbase = IF Type(v.bpb) = "FAT32" THEN v.bpb.RootClus ELSE RootStart(v)
  BY DEF Describes
<1>3. /\ RootStart(v) \in Nat \ {0} /\ f.n_fatent \in Nat /\ f.n_rootdir \in Nat
      /\ f.n_fatent >= 3 /\ f.dirbase \in Nat
  BY VolumeNumbers, FsFields DEF Geometry
<1>4. Type(v.bpb) = "FAT32" <=> v.bpb.RootEntCnt = 0
  BY SoundFacts DEF IsBootRecord
<1>5. dir_sdi(f, d).ok <=> d.sclust # 1 /\ d.sclust < f.n_fatent /\ (c = 0 => f.n_rootdir > 0)
                           /\ s # 0
  BY DEF dir_sdi
<1>6. CASE InTable(v, d.sclust)
  <2>1. d.sclust = 0 /\ Type(v.bpb) # "FAT32"
    BY <1>6 DEF InTable
  <2>2. c = 0 /\ s = RootStart(v)
    BY <1>2, <2>1
  <2>3. f.n_rootdir > 0
    BY <1>2, <1>3, <1>4, <2>1
  <2>4. d.sclust # 1 /\ d.sclust < f.n_fatent
    BY <1>3, <2>1
  <2> HIDE DEF c, s
  <2> QED BY <1>3, <1>5, <2>2, <2>3, <2>4
<1>7. CASE ~InTable(v, d.sclust)
  <2>1. IsCluster(v, DirChain(v, d.sclust)[0])
    BY <1>1, <1>7 DEF SoundDir
  <2>2. DirChain(v, d.sclust)[0] = c
    <3>1. DirChain(v, d.sclust)[0] = IF d.sclust = 0 THEN v.bpb.RootClus ELSE d.sclust
      BY DirChainType
    <3>2. d.sclust = 0 => Type(v.bpb) = "FAT32"
      BY <1>7 DEF InTable
    <3> QED BY <1>2, <3>1, <3>2
  <2>3. c \in Nat
    BY <1>3
  <2>4. c \in 2..(f.n_fatent - 1) /\ clust2sect(f, c) # 0
    <3> HIDE DEF c
    <3> QED BY <2>1, <2>2, <2>3, ClusterSector
  <2>5. c # 0 /\ d.sclust # 1 /\ d.sclust < f.n_fatent
    <3>1. c # 0 /\ c # 1 /\ c < f.n_fatent
      <4> HIDE DEF c
      <4> QED BY <1>3, <2>3, <2>4
    <3>2. d.sclust = 0 \/ c = d.sclust
      OBVIOUS
    <3> HIDE DEF c
    <3> QED BY <1>3, <3>1, <3>2
  <2>6. s # 0
    BY <2>4, <2>5
  <2> HIDE DEF c, s
  <2> QED BY <1>5, <2>5, <2>6
<1> QED BY <1>6, <1>7

LEMMA NoDirAt ==
  ASSUME NEW c \in Nat
  PROVE  [NoDir EXCEPT !.sclust = c] \in DirType /\ [NoDir EXCEPT !.sclust = c].sclust = c
BY NoDirType DEF DirType, NoDir

\* Nothing comes before the first entry.
LEMMA NoneBefore ==
  /\ \A k \in 0..(0 - 1) : FALSE
  /\ \A v, c : ListedTo(<<>>, v, c, 0)
<1>1. \A k \in 0..(0 - 1) : FALSE
  OBVIOUS
<1>2. ASSUME NEW v, NEW c PROVE ListedTo(<<>>, v, c, 0)
  <2>1. \A j \in Visible(v, c) : j \in Nat
    BY VisibleNat
  <2>2. \A j \in Visible(v, c) : ~(j < 0)
    BY <2>1
  <2>3. {j \in Visible(v, c) : j < 0} = {}
    BY <2>2
  <2>4. Cardinality({}) = 0 /\ Len(<<>>) = 0
    BY FS_EmptySet
  <2> QED BY <2>2, <2>3, <2>4 DEF ListedTo
<1> QED BY <1>1, <1>2

\* The path led to the directory of d, which is opened.
LEMMA OpenDirTruth ==
  ASSUME NEW f, Searching(f), op = "opendir", NEW d \in DirType, OpenDir(f, d),
         Lookup(Mine, Names).attr = "DIR", Lookup(Mine, Names).clust = d.sclust,
         Mine.dirs # {} => d.sclust \in Mine.dirs
  PROVE  Truth'
<1> DEFINE s == dir_sdi(f, d)
<1>1. /\ dirp' = [s.d EXCEPT !.open = s.ok, !.id = f.id]
      /\ pc' = "Idle" /\ res' = (IF s.ok THEN "OK" ELSE "INT_ERR") /\ fil' = fil
  BY DEF OpenDir, Return
<1>2. /\ ~fil'.open /\ call'.names = <<>> /\ Names = call.dir /\ call' = call /\ Mine' = Mine
      /\ Mine = Cards[hist.on] /\ hist.on \in DOMAIN Cards /\ f \in FsType /\ Geometry(f)
      /\ Describes(f, Mine) /\ hist'.on = hist.on
  BY <1>1, SearchingFacts DEF Searching, Names
<1>3. d.sclust \in Nat
  BY DirFields
<1>4. s.d \in DirType /\ s.ok \in BOOLEAN
  BY <1>2, SdiOK
<1>5. FileOK'
  BY <1>2 DEF FileOK, Valid
<1>6. CASE s.ok
  <2>1. Stands(Mine, s.d) /\ s.d.sclust = d.sclust /\ s.d.index = 0
    BY <1>2, <1>6, SdiStands
  <2> HIDE DEF s
  <2>2. /\ dirp'.sclust = d.sclust /\ dirp'.index = 0 /\ dirp'.sect = s.d.sect
        /\ dirp'.clust = s.d.clust
    BY <1>1, <1>4, <2>1 DEF DirType
  <2>3. Stands(Mine, dirp')
    BY <2>1, <2>2 DEF Stands
  <2>4. s.d.sect # 0
    BY <1>2, <1>4, <2>1, StandsCluster
  <2>5. ListOK'
    <3>1. Lookup(Mine, call.dir)' = Lookup(Mine, Names)
      BY <1>2
    <3>2. (Stands(Mine, dirp))'
      BY <1>2, <2>3
    <3>3. ListedTo(call.names, Mine, dirp.sclust, dirp.index)'
      BY <1>2, <2>2, NoneBefore
    <3>4. \A j \in 0..(dirp'.index - 1) : FALSE
      BY <2>2, NoneBefore
    <3>5. pc' \notin ListSteps /\ pc' \notin {"FatNext", "FatSkip"}
      BY <1>1 DEF ListSteps
    <3> QED BY <2>2, <2>4, <3>1, <3>2, <3>3, <3>4, <3>5 DEF ListOK
  <2> QED BY <1>1, <1>5, <1>6, <2>5, SearchEnds DEF Wanted
<1>7. CASE ~s.ok
  <2>1. Mine.dirs = {}
    BY <1>2, <1>3, <1>7, SoundDirOpens
  <2>2. res' # "OK" /\ dirp' = [s.d EXCEPT !.open = s.ok, !.id = f.id]
    BY <1>1, <1>7
  <2> HIDE DEF s
  <2>3. dirp'.open = s.ok
    BY <1>4, <2>2 DEF DirType
  <2>4. ListOK'
    BY <1>7, <2>3 DEF ListOK, Valid
  <2> QED BY <1>1, <1>5, <2>1, <2>2, <2>4, SearchEnds DEF Fails
<1> QED BY <1>6, <1>7

\* It led to the file with entry e.
LEMMA OpenFileTruth ==
  ASSUME Searching(fs), op = "open", NEW e, OpenFile(e), Lookup(Mine, Names) = e,
         e.attr = "FILE", Mine.dirs # {} => Readable(Mine, e)
  PROVE  Truth'
<1>1. /\ fil' = [fil EXCEPT !.open = TRUE, !.id = fs.id, !.err = "OK", !.sclust = e.clust,
                   !.fsize = e.size, !.fptr = 0, !.dsect = 0]
      /\ pc' = "Idle" /\ res' = "OK" /\ dirp' = dirp
  BY DEF OpenFile, Return
<1>2. /\ call'.pos = 0 /\ Names = call.file /\ call' = call /\ Mine' = Mine
      /\ ~dirp'.open /\ fil \in FilType
  BY <1>1, SearchingFacts DEF Searching, Names
<1>3. /\ fil'.sclust = e.clust /\ fil'.fsize = e.size /\ fil'.fptr = 0 /\ fil'.dsect = 0
      /\ fil'.err = "OK"
  BY <1>1, <1>2 DEF FilType
<1>4. ListOK'
  BY <1>2 DEF ListOK, Valid
<1>5. Positioned'
  <2>1. 0 % SS = 0 /\ ~(0 > 0)
    BY SizeFacts
  <2>2. InPlace'
    BY <1>3, <2>1 DEF InPlace
  <2> QED BY <1>1, <1>2, <1>3, <2>2 DEF Positioned, ReadSteps
<1>6. FileOK'
  <2>1. pc' \notin ReadSteps
    BY <1>1 DEF ReadSteps
  <2>2. Lookup(Mine, call.file)' = e
    BY <1>2
  <2> QED BY <1>2, <1>3, <1>5, <2>1, <2>2 DEF FileOK
<1> QED BY <1>1, <1>3, <1>4, <1>6, SearchEnds DEF Wanted

\* where the search for the name after n others begins
At1(n, names, c) ==
  LET d == Places(Mine, Names)[n] IN
  /\ n = Len(Names) - Len(names) /\ names # <<>>
  /\ \A i \in 1..Len(names) : names[i] = Names[n + i]
  /\ d.attr = "DIR" /\ d.clust = c
  /\ Mine.dirs # {} => c \in Mine.dirs

LEMMA DirFindTruth ==
  ASSUME NEW f, Searching(f), NEW c \in Nat, NEW names \in Seq(STRING), NEW n,
         At1(n, names, c), DirFind(f, c, names)
  PROVE  Truth'
<1> DEFINE d0 == [NoDir EXCEPT !.sclust = c]
<1> DEFINE s == dir_sdi(f, d0)
<1> DEFINE l == [loc EXCEPT !.path = names, !.dj = s.d]
<1>1. \/ ~s.ok /\ NotOpened("INT_ERR")
      \/ s.ok /\ GoOn("Find", l) /\ UNCHANGED <<fil, dirp>>
  BY DEF DirFind
<1>2. /\ Mine' = Mine /\ Names' = Names /\ Mine = Cards[hist.on] /\ hist.on \in DOMAIN Cards
      /\ f \in FsType /\ Geometry(f) /\ Describes(f, Mine) /\ loc \in LocType
  BY SearchingFacts DEF Searching
<1>3. [NoDir EXCEPT !.sclust = c] \in DirType /\ [NoDir EXCEPT !.sclust = c].sclust = c
  BY NoDirAt
<1>4. s.d \in DirType
  BY <1>2, <1>3, SdiOK
<1>5. CASE ~s.ok /\ NotOpened("INT_ERR")
  <2>1. Mine.dirs = {}
    <3>1. Mine.dirs # {} => c \in Mine.dirs
      BY DEF At1
    <3> QED BY <1>2, <1>3, <1>5, <3>1, SoundDirOpens
  <2> QED BY <1>5, <2>1, NotOpenedTruth DEF Fails
<1>6. CASE s.ok /\ GoOn("Find", l) /\ UNCHANGED <<fil, dirp>>
  <2>1. Stands(Mine, s.d) /\ s.d.sclust = c /\ s.d.index = 0
    <3>1. s.ok /\ d0 \in DirType /\ d0.sclust = c
      BY <1>3, <1>6
    <3> HIDE DEF l, d0
    <3>2. /\ Stands(Cards[hist.on], dir_sdi(f, d0).d) /\ dir_sdi(f, d0).d.sclust = d0.sclust
          /\ dir_sdi(f, d0).d.index = 0
      BY <1>2, <3>1, SdiStands
    <3> QED BY <1>2, <3>1, <3>2
  <2> HIDE DEF s
  <2>2. l \in LocType /\ l.path = names /\ l.dj = s.d
    BY <1>2, <1>4 DEF LocType
  <2> HIDE DEF l
  <2>3. pc' = "Find" /\ loc'.path = names /\ loc'.dj = s.d
    BY <1>6, <2>2, GoneOn
  <2>4. FatOK'
    BY <2>3 DEF FatOK, FatCallers
  <2>5. SearchOK'
    <3>1. \A k \in 0..(loc'.dj.index - 1) : FALSE
      BY <2>1, <2>3, NoneBefore
    <3>2. n = Len(Names') - Len(loc'.path)
      BY <1>2, <2>3 DEF At1
    <3> QED BY <1>2, <2>1, <2>3, <3>1, <3>2 DEF SearchOK, At1
  <2> QED BY <1>6, <2>3, <2>4, <2>5, SearchGoesOn
<1> QED BY <1>1, <1>5, <1>6

-----------------------------------------------------------------------------
(* The search for a name in a directory *)

\* The directory at c ends before entry k.
Over(v, c, k) == EntryOf(v, c, k) = End \/ ~HasPlace(v, c, k) \/ k = IndexLimit

\* Where it ends, there are no entries after.
LEMMA OverFacts ==
  ASSUME NEW v, v.bpb.RootEntCnt \in Nat, NEW c, NEW k \in Nat, Over(v, c, k)
  PROVE  \A j \in Entries(v, c) : j < k
<1> SUFFICES ASSUME NEW j \in Entries(v, c), ~(j < k) PROVE FALSE
  OBVIOUS
<1>1. j \in Nat /\ j \in 0..(IndexLimit - 1)
  BY VisibleNat
<1>2. HasPlace(v, c, j) /\ \A i \in 0..j : EntryOf(v, c, i) # End
  BY DEF Entries
<1>3. k \in 0..j /\ k # IndexLimit
  BY <1>1, SizeFacts
<1>4. HasPlace(v, c, k)
  BY <1>1, <1>2, <1>3, HasBefore
<1> QED BY <1>2, <1>3, <1>4 DEF Over

\* No entry of the directory has the name.
LEMMA NoneNamed ==
  ASSUME NEW v, v.bpb.RootEntCnt \in Nat, NEW c, NEW k \in Nat, Over(v, c, k), NEW nm,
         \A j \in 0..(k - 1) : Other(v, c, j, nm)
  PROVE  Named(v, c, nm) = {}
<1> SUFFICES ASSUME NEW j \in Named(v, c, nm) PROVE FALSE
  OBVIOUS
<1>1. /\ j \in Entries(v, c) /\ EntryOf(v, c, j).attr \in Listed
      /\ EntryOf(v, c, j).name = nm
  BY DEF Named, Visible
<1>2. j \in Nat /\ j < k
  BY <1>1, VisibleNat, OverFacts
<1>3. j \in 0..(k - 1)
  BY <1>2
<1> QED BY <1>1, <1>3 DEF Other

LEMMA ChildMissing ==
  ASSUME NEW n \in DOMAIN Cards, NEW d, d.attr = "DIR", NEW k \in Nat,
         Over(Cards[n], d.clust, k), NEW nm,
         \A j \in 0..(k - 1) : Other(Cards[n], d.clust, j, nm)
  PROVE  Child(Cards[n], d, nm) = IF nm \in Dots THEN Root ELSE None
<1>1. Cards[n].bpb.RootEntCnt \in Nat
  BY CardFacts DEF BootRecord
<1>2. Named(Cards[n], d.clust, nm) = {}
  BY <1>1, NoneNamed
<1> QED BY <1>2 DEF Child

\* The first entry with the name is found.
LEMMA ChildFound ==
  ASSUME NEW n \in DOMAIN Cards, NEW d, d.attr = "DIR", NEW k \in Nat, k < IndexLimit,
         HasPlace(Cards[n], d.clust, k), NEW nm,
         \A j \in 0..(k - 1) : Other(Cards[n], d.clust, j, nm),
         EntryOf(Cards[n], d.clust, k) # End,
         EntryOf(Cards[n], d.clust, k).attr \in Listed,
         EntryOf(Cards[n], d.clust, k).name = nm
  PROVE  /\ Child(Cards[n], d, nm) = EntryOf(Cards[n], d.clust, k)
         /\ k \in Visible(Cards[n], d.clust)
<1> DEFINE v == Cards[n]
<1> DEFINE c == d.clust
<1> DEFINE m == CHOOSE i \in Named(v, c, nm) : \A j \in Named(v, c, nm) : i <= j
<1>1. k \in Visible(v, c)
  <2>1. \A j \in 0..k : j \in 0..(k - 1) \/ j = k
    OBVIOUS
  <2>2. \A j \in 0..k : EntryOf(v, c, j) # End
    BY <2>1 DEF Other
  <2>3. k \in 0..(IndexLimit - 1)
    BY SizeFacts
  <2> QED BY <2>2, <2>3 DEF Visible, Entries
<1>2. k \in Named(v, c, nm)
  BY <1>1 DEF Named
<1>3. m \in Named(v, c, nm) /\ m \in Nat /\ \A j \in Named(v, c, nm) : m <= j
  BY <1>2, NamedFirst
<1>4. m \notin 0..(k - 1)
  BY <1>3 DEF Named, Visible, Other
<1>5. m = k
  <2>1. m <= k
    BY <1>2, <1>3
  <2> HIDE DEF m
  <2> QED BY <1>3, <1>4, <2>1
<1>6. Child(v, d, nm) = EntryOf(v, c, m)
  BY <1>2 DEF Child
<1> QED BY <1>1, <1>5, <1>6

\* a directory with that name, and a file with it, on a sound volume
LEMMA SoundChild ==
  ASSUME NEW n \in DOMAIN Cards, NEW c, NEW k \in Visible(Cards[n], c),
         Cards[n].dirs # {}, c \in Cards[n].dirs
  PROVE  /\ EntryOf(Cards[n], c, k).attr = "DIR" => EntryOf(Cards[n], c, k).clust \in Cards[n].dirs
         /\ EntryOf(Cards[n], c, k).attr = "FILE" => Readable(Cards[n], EntryOf(Cards[n], c, k))
BY SoundFacts DEF SoundDir

-----------------------------------------------------------------------------
\* the search is in the directory of the names before, and has passed others
Looking1 ==
  LET n == Len(Names) - Len(loc.path)
      d == Places(Mine, Names)[n]
      dj == loc.dj
  IN /\ n \in Nat /\ loc.path # <<>>
     /\ \A i \in 1..Len(loc.path) : loc.path[i] = Names[n + i]
     /\ d.attr = "DIR" /\ d.clust = dj.sclust /\ Stands(Mine, dj) /\ dj \in DirType
     /\ Mine.dirs # {} => dj.sclust \in Mine.dirs
     /\ \A k \in 0..(dj.index - 1) : Other(Mine, dj.sclust, k, name)

\* where the name it looks for leads
NamePlace == Places(Mine, Names)[Len(Names) - Len(loc.path) + 1]

LEMMA LookingIf ==
  ASSUME IInv, SearchOK, pc \in {"Find", "FatFind"}, ~hist.missed
  PROVE  Looking1 /\ (pc = "FatFind" => /\ Other(Mine, loc.dj.sclust, loc.dj.index, name)
                                        /\ loc.clst = loc.dj.clust)
<1>1. /\ loc.path # <<>> /\ Len(loc.path) <= Len(Names) /\ loc.dj \in DirType
      /\ Names \in Seq(STRING) /\ loc.path \in Seq(STRING)
  BY NamesType, LocFields DEF IInv, Typed, Within
<1>2. Len(Names) - Len(loc.path) \in Nat
  BY <1>1
<1> QED BY <1>1, <1>2 DEF Looking1, SearchOK

\* the last name, and the others
LEMMA NotLast ==
  ASSUME NEW a \in Nat \ {0}, NEW b \in Nat, NEW n \in Nat, n = b - a, a # 1
  PROVE  a - 1 # 0 /\ n + 1 = b - (a - 1) /\ n + 1 < b
OBVIOUS

LEMMA LookingFacts ==
  ASSUME Searching(fs), Looking1
  PROVE  /\ loc.path \in Seq(STRING) /\ Len(loc.path) \in Nat \ {0} /\ Len(Names) \in Nat
         /\ NamePlace \in AnyEntry
         /\ NamePlace = Child(Mine, Places(Mine, Names)[Len(Names) - Len(loc.path)], name)
         /\ NS_LAST => Lookup(Mine, Names) = NamePlace
         /\ ~NS_LAST => \/ At1(Len(Names) - Len(loc.path) + 1, Tail(loc.path), NamePlace.clust)
                        \/ NamePlace.attr # "DIR"
                        \/ Mine.dirs # {} /\ NamePlace.clust \notin Mine.dirs
         /\ ~NS_LAST /\ NamePlace.attr # "DIR" => Lookup(Mine, Names) = None
<1> DEFINE n == Len(Names) - Len(loc.path)
<1>1. /\ loc.path \in Seq(STRING) /\ Names \in Seq(STRING) /\ hist.on \in DOMAIN Cards
      /\ Mine = Cards[hist.on]
  BY SearchingFacts, LocFields DEF Searching
<1>2. n \in Nat /\ loc.path # <<>> /\ \A i \in 1..Len(loc.path) : loc.path[i] = Names[n + i]
  BY DEF Looking1
<1>3. Len(loc.path) \in Nat \ {0} /\ Len(Names) \in Nat /\ n = Len(Names) - Len(loc.path)
  BY <1>1, <1>2, TailFacts
<1>4. name = Names[n + 1]
  <2>1. 1 \in 1..Len(loc.path)
    BY <1>3
  <2>2. name = loc.path[1]
    BY <1>1, <1>2 DEF name
  <2> QED BY <1>2, <2>1, <2>2
<1>5. NamePlace = Places(Mine, Names)[n + 1]
  BY DEF NamePlace
<1> HIDE DEF n
<1>6. n + 1 \in Nat
  BY <1>2
<1>7. NamePlace = Child(Mine, Places(Mine, Names)[n], name) /\ NamePlace \in AnyEntry
  BY <1>1, <1>2, <1>4, <1>5, <1>6, PlacesDef
<1>8. ASSUME NS_LAST PROVE Lookup(Mine, Names) = NamePlace
  <2>1. n + 1 = Len(Names)
    BY <1>3, <1>8 DEF NS_LAST
  <2> QED BY <1>5, <2>1 DEF Lookup
<1>9. ASSUME ~NS_LAST
      PROVE  /\ Tail(loc.path) # <<>> /\ n + 1 = Len(Names) - Len(Tail(loc.path))
             /\ \A i \in 1..Len(Tail(loc.path)) : Tail(loc.path)[i] = Names[(n + 1) + i]
             /\ n + 1 < Len(Names)
  <2>1. Tail(loc.path) \in Seq(STRING) /\ Len(Tail(loc.path)) = Len(loc.path) - 1
    BY <1>1, <1>2, TailFacts
  <2>2. Len(loc.path) # 1
    BY <1>9 DEF NS_LAST
  <2>3. ASSUME NEW i \in 1..Len(Tail(loc.path)) PROVE Tail(loc.path)[i] = Names[(n + 1) + i]
    <3>1. i \in Nat /\ i + 1 \in 1..Len(loc.path)
      BY <1>3, <2>1
    <3>2. Tail(loc.path)[i] = loc.path[i + 1]
      BY <1>1, <1>2
    <3>3. n + (i + 1) = (n + 1) + i
      BY <1>2, <3>1
    <3> QED BY <1>2, <3>1, <3>2, <3>3
  <2>4. Len(Tail(loc.path)) # 0 /\ n + 1 = Len(Names) - Len(Tail(loc.path)) /\ n + 1 < Len(Names)
    <3> DEFINE a == Len(loc.path)
    <3> DEFINE b == Len(Names)
    <3>1. a \in Nat \ {0} /\ b \in Nat /\ n \in Nat /\ n = b - a /\ a # 1
      BY <1>2, <1>3, <2>2
    <3>2. Len(Tail(loc.path)) = a - 1
      BY <2>1
    <3> HIDE DEF a, b
    <3>3. a - 1 # 0 /\ n + 1 = b - (a - 1) /\ n + 1 < b
      BY <3>1, NotLast
    <3>4. Len(Tail(loc.path)) # 0 /\ n + 1 = b - Len(Tail(loc.path)) /\ n + 1 < b
      BY <3>2, <3>3
    <3> QED BY <3>4 DEF b
  <2>5. Tail(loc.path) # <<>>
    <3>1. Len(<<>>) = 0
      OBVIOUS
    <3> QED BY <2>4, <3>1
  <2> QED BY <2>3, <2>4, <2>5
<1>10. ASSUME ~NS_LAST, NamePlace.attr # "DIR" PROVE Lookup(Mine, Names) = None
  <2>1. Places(Mine, Names)[n + 1].attr # "DIR" /\ Len(Names) > n + 1
    BY <1>3, <1>5, <1>6, <1>9, <1>10
  <2>2. \A k \in Nat : k > n + 1 => Places(Mine, Names)[k] = None
    BY <1>1, <1>6, <2>1, NoWay
  <2> QED BY <1>3, <2>1, <2>2 DEF Lookup
<1>11. ~NS_LAST /\ NamePlace.attr = "DIR" /\ (Mine.dirs # {} => NamePlace.clust \in Mine.dirs)
         => At1(n + 1, Tail(loc.path), NamePlace.clust)
  BY <1>5, <1>9 DEF At1
<1>12. At1(n + 1, Tail(loc.path), NamePlace.clust)
         => At1(Len(Names) - Len(loc.path) + 1, Tail(loc.path), NamePlace.clust)
  BY DEF n
<1>13. NamePlace = Child(Mine, Places(Mine, Names)[Len(Names) - Len(loc.path)], name)
  BY <1>7 DEF n
<1>14. ~NS_LAST => \/ At1(Len(Names) - Len(loc.path) + 1, Tail(loc.path), NamePlace.clust)
                   \/ NamePlace.attr # "DIR"
                   \/ Mine.dirs # {} /\ NamePlace.clust \notin Mine.dirs
  BY <1>11, <1>12
<1>15. NS_LAST => Lookup(Mine, Names) = NamePlace
  BY <1>8
<1>16. ~NS_LAST /\ NamePlace.attr # "DIR" => Lookup(Mine, Names) = None
  BY <1>10
<1> QED BY <1>1, <1>3, <1>7, <1>13, <1>14, <1>15, <1>16

\* The path names the root.
LEMMA OriginTruth ==
  ASSUME NEW f, Searching(f), Lookup(Mine, Names) = Root, Origin(f)
  PROVE  Truth'
<1>1. Root.attr = "DIR" /\ Root.clust = 0 /\ NoDir \in DirType /\ NoDir.sclust = 0
  BY NoDirType DEF Root, NoDir
<1>2. Mine = Cards[hist.on] /\ hist.on \in DOMAIN Cards /\ op \in {"open", "opendir"}
  BY SearchingFacts DEF Searching
<1>3. CASE op = "open"
  <2>1. NotOpened("INVALID_NAME")
    BY <1>3 DEF Origin
  <2>2. Fails
    BY <1>1, <1>3 DEF Fails, Wanted
  <2> QED BY <2>1, <2>2, NotOpenedTruth
<1>4. CASE op = "opendir"
  <2>1. OpenDir(f, NoDir)
    BY <1>4 DEF Origin
  <2>2. Mine.dirs # {} => 0 \in Mine.dirs
    BY <1>2, SoundFacts
  <2> QED BY <1>1, <1>4, <2>1, <2>2, OpenDirTruth
<1> QED BY <1>2, <1>3, <1>4

\* follow_path begins.
LEMMA FollowPathTruth ==
  ASSUME NEW f, Searching(f), loc.path = Names, FollowPath(f)
  PROVE  Truth'
<1>1. /\ Mine = Cards[hist.on] /\ hist.on \in DOMAIN Cards /\ Names \in Seq(STRING)
  BY SearchingFacts DEF Searching
<1>2. Places(Mine, Names)[0] = Root /\ Root.attr = "DIR" /\ Root.clust = 0
  BY <1>1, PlacesDef DEF Root
<1>3. CASE loc.path = <<>>
  <2>1. Lookup(Mine, Names) = Root
    BY <1>2, <1>3 DEF Lookup
  <2> QED BY <1>3, <2>1, OriginTruth DEF FollowPath
<1>4. CASE loc.path # <<>>
  <2>1. Mine.dirs # {} => 0 \in Mine.dirs
    BY <1>1, SoundFacts
  <2>2. Len(Names) \in Nat /\ 0 = Len(Names) - Len(Names)
    BY <1>1
  <2>3. \A i \in 1..Len(Names) : Names[i] = Names[0 + i]
    <3>1. ASSUME NEW i \in 1..Len(Names) PROVE Names[i] = Names[0 + i]
      <4>1. i = 0 + i
        BY <2>2
      <4> QED BY <4>1
    <3> QED BY <3>1
  <2>4. At1(0, Names, 0)
    BY <1>2, <1>4, <2>1, <2>2, <2>3 DEF At1
  <2>5. DirFind(f, 0, Names)
    BY <1>4 DEF FollowPath
  <2> QED BY <1>1, <2>4, <2>5, DirFindTruth
<1> QED BY <1>3, <1>4

\* The path does not lead to what is wanted.
LEMMA NoPlace ==
  ASSUME Searching(fs), Looking1, NS_LAST => NamePlace.attr # Wanted,
         ~NS_LAST => NamePlace.attr # "DIR"
  PROVE  Fails
<1>1. None.attr # Wanted
  BY DEF None, Wanted
<1> QED BY <1>1, LookingFacts DEF Fails

\* It goes on in the directory that was found.
LEMMA NextNameTruth ==
  ASSUME Searching(fs), Looking1, ~NS_LAST, NamePlace.attr = "DIR",
         Mine.dirs # {} => NamePlace.clust \in Mine.dirs,
         DirFind(fs, NamePlace.clust, Tail(loc.path))
  PROVE  Truth'
<1>1. /\ loc.path \in Seq(STRING) /\ NamePlace.clust \in Nat
      /\ At1(Len(Names) - Len(loc.path) + 1, Tail(loc.path), NamePlace.clust)
  BY LookingFacts, AnyFields
<1>2. Tail(loc.path) \in Seq(STRING)
  BY <1>1, TailFacts DEF Looking1
<1> QED BY <1>1, <1>2, DirFindTruth

\* No entry of the directory has the name.
LEMMA NoSuchNameTruth ==
  ASSUME Searching(fs), Looking1, NEW k \in Nat, Over(Mine, loc.dj.sclust, k),
         \A j \in 0..(k - 1) : Other(Mine, loc.dj.sclust, j, name),
         NoSuchName
  PROVE  Truth'
<1>1. Mine = Cards[hist.on] /\ hist.on \in DOMAIN Cards
  BY SearchingFacts DEF Searching
<1>2. NamePlace = IF name \in Dots THEN Root ELSE None
  <2> DEFINE d == Places(Mine, Names)[Len(Names) - Len(loc.path)]
  <2>1. d.attr = "DIR" /\ d.clust = loc.dj.sclust /\ NamePlace = Child(Mine, d, name)
    BY LookingFacts DEF Looking1
  <2> HIDE DEF d
  <2> QED BY <1>1, <2>1, ChildMissing
<1>3. Root.attr = "DIR" /\ Root.clust = 0 /\ None.attr = "NONE"
  BY DEF Root, None
<1>4. CASE name \in Dots /\ ~NS_LAST
  <2>1. DirFind(fs, 0, Tail(loc.path))
    BY <1>4 DEF NoSuchName, IsDot
  <2>2. Mine.dirs # {} => 0 \in Mine.dirs
    BY <1>1, SoundFacts
  <2> QED BY <1>2, <1>3, <1>4, <2>1, <2>2, NextNameTruth
<1>5. CASE name \in Dots /\ NS_LAST
  <2>1. Origin(fs)
    BY <1>5 DEF NoSuchName, IsDot
  <2>2. Lookup(Mine, Names) = Root
    BY <1>2, <1>5, LookingFacts
  <2> QED BY <2>1, <2>2, OriginTruth
<1>6. CASE name \notin Dots
  <2>1. NotOpened(IF NS_LAST THEN "NO_FILE" ELSE "NO_PATH")
    BY <1>6 DEF NoSuchName, IsDot
  <2>2. Fails
    BY <1>2, <1>3, <1>6, NoPlace DEF Wanted
  <2>3. (IF NS_LAST THEN "NO_FILE" ELSE "NO_PATH") # "OK"
    OBVIOUS
  <2> QED BY <2>1, <2>2, <2>3, NotOpenedTruth
<1> QED BY <1>4, <1>5, <1>6

\* The entry at which the search stands has the name.
LEMMA MatchedTruth ==
  ASSUME Searching(fs), Looking1, NEW e, e = EntryOf(Mine, loc.dj.sclust, loc.dj.index),
         e # End, e.attr \in Listed, e.name = name, Matched(e)
  PROVE  Truth'
<1>1. /\ Mine = Cards[hist.on] /\ hist.on \in DOMAIN Cards /\ op \in {"open", "opendir"}
      /\ loc.dj \in DirType
  BY SearchingFacts DEF Searching, Looking1
<1>2. loc.dj.index \in Nat /\ loc.dj.index < IndexLimit
  BY <1>1, DirFields, SizeFacts
<1>3. NamePlace = e /\ loc.dj.index \in Visible(Mine, loc.dj.sclust)
  <2> DEFINE d == Places(Mine, Names)[Len(Names) - Len(loc.path)]
  <2>1. d.attr = "DIR" /\ d.clust = loc.dj.sclust /\ NamePlace = Child(Mine, d, name)
    BY LookingFacts DEF Looking1
  <2> HIDE DEF d
  <2>2. /\ HasPlace(Mine, loc.dj.sclust, loc.dj.index)
        /\ \A j \in 0..(loc.dj.index - 1) : Other(Mine, loc.dj.sclust, j, name)
    BY DEF Looking1, Stands
  <2> QED BY <1>1, <1>2, <2>1, <2>2, ChildFound
<1>4. /\ Mine.dirs # {} /\ e.attr = "DIR" => e.clust \in Mine.dirs
      /\ Mine.dirs # {} /\ e.attr = "FILE" => Readable(Mine, e)
  <2>1. Mine.dirs # {} => loc.dj.sclust \in Mine.dirs
    BY DEF Looking1
  <2> QED BY <1>1, <1>3, <2>1, SoundChild
<1>5. NS_LAST => Lookup(Mine, Names) = e
  BY <1>3, LookingFacts
<1>6. e.clust \in Nat
  BY <1>3, LookingFacts, AnyFields
<1>7. CASE ~NS_LAST /\ e.attr = "DIR"
  <2>1. DirFind(fs, e.clust, Tail(loc.path))
    BY <1>7 DEF Matched
  <2> QED BY <1>3, <1>4, <1>7, <2>1, NextNameTruth
<1>8. CASE NS_LAST /\ op = "open" /\ e.attr = "FILE"
  <2>1. OpenFile(e)
    BY <1>8 DEF Matched
  <2> QED BY <1>4, <1>5, <1>8, <2>1, OpenFileTruth
<1>9. CASE NS_LAST /\ op = "opendir" /\ e.attr = "DIR"
  <2>1. OpenDir(fs, [NoDir EXCEPT !.sclust = e.clust])
    BY <1>9 DEF Matched
  <2>2. /\ [NoDir EXCEPT !.sclust = e.clust] \in DirType
        /\ [NoDir EXCEPT !.sclust = e.clust].sclust = e.clust
    BY <1>6, NoDirAt
  <2> QED BY <1>4, <1>5, <1>9, <2>1, <2>2, OpenDirTruth
<1>10. CASE /\ ~(~NS_LAST /\ e.attr = "DIR") /\ ~(NS_LAST /\ op = "open" /\ e.attr = "FILE")
            /\ ~(NS_LAST /\ op = "opendir" /\ e.attr = "DIR")
  <2>1. NotOpened(IF NS_LAST /\ op = "open" THEN "NO_FILE" ELSE "NO_PATH")
    BY <1>10 DEF Matched
  <2>2. Fails
    BY <1>1, <1>3, <1>10, NoPlace DEF Wanted
  <2>3. (IF NS_LAST /\ op = "open" THEN "NO_FILE" ELSE "NO_PATH") # "OK"
    OBVIOUS
  <2> QED BY <2>1, <2>2, <2>3, NotOpenedTruth
<1> QED BY <1>7, <1>8, <1>9, <1>10

-----------------------------------------------------------------------------
(* dir_find *)

LEMMA SearchFailed ==
  ASSUME Searching(fs), NEW n, n.res \notin {"OK", "NO_FILE"},
         Mine.dirs = {} \/ hist'.failed, Searched(n)
  PROVE  Truth'
<1>1. NotOpened(n.res) /\ n.res # "OK"
  BY DEF Searched
<1>2. Fails
  BY DEF Fails
<1> QED BY <1>1, <1>2, NotOpenedTruth

\* The entry at which it stood was another.
LEMMA SearchedTruth ==
  ASSUME Searching(fs), Looking1, Other(Mine, loc.dj.sclust, loc.dj.index, name),
         NEW n, n.d \in DirType, Moved(hist.on, loc.dj, n),
         n.res \notin {"OK", "NO_FILE"} => Mine.dirs = {} \/ hist'.failed, Searched(n)
  PROVE  Truth'
<1> DEFINE dj == loc.dj
<1>1. /\ Mine = Cards[hist.on] /\ Mine' = Mine /\ Names' = Names /\ loc \in LocType
      /\ dj \in DirType
  BY SearchingFacts DEF Searching, Looking1
<1>2. dj.index \in Nat
  BY <1>1, DirFields
<1>3. \A k \in 0..dj.index : Other(Mine, dj.sclust, k, name)
  <2>1. \A k \in 0..dj.index : k \in 0..(dj.index - 1) \/ k = dj.index
    BY <1>2
  <2> QED BY <2>1 DEF Looking1
<1>4. CASE n.res = "OK"
  <2> DEFINE l == [loc EXCEPT !.dj = n.d]
  <2>1. GoOn("Find", l) /\ UNCHANGED <<fil, dirp>>
    BY <1>4 DEF Searched
  <2>2. l \in LocType /\ l.path = loc.path /\ l.dj = n.d
    BY <1>1 DEF LocType
  <2> HIDE DEF l
  <2>3. pc' = "Find" /\ loc'.path = loc.path /\ loc'.dj = n.d
    BY <2>1, <2>2, GoneOn
  <2>4. /\ Stands(Mine, n.d) /\ n.d.sclust = dj.sclust /\ n.d.index = dj.index + 1
    BY <1>1, <1>4 DEF Moved
  <2>5. \A k \in 0..(n.d.index - 1) : Other(Mine, dj.sclust, k, name)
    <3>1. n.d.index - 1 = dj.index
      BY <1>2, <2>4
    <3> QED BY <1>3, <3>1
  <2>6. FatOK'
    BY <2>3 DEF FatOK, FatCallers
  <2>7. name' = name
    BY <2>3 DEF name
  <2>8. SearchOK'
    BY <1>1, <2>3, <2>4, <2>5, <2>7 DEF SearchOK, Looking1
  <2> QED BY <2>1, <2>3, <2>6, <2>8, SearchGoesOn
<1>5. CASE n.res = "NO_FILE"
  <2>1. NoSuchName
    BY <1>5 DEF Searched
  <2>2. ~HasPlace(Mine, dj.sclust, dj.index + 1) \/ dj.index = IndexLimit - 1
    BY <1>1, <1>5 DEF Moved
  <2>3. dj.index + 1 \in Nat /\ (dj.index = IndexLimit - 1 => dj.index + 1 = IndexLimit)
    BY <1>2, SizeFacts
  <2>4. Over(Mine, dj.sclust, dj.index + 1)
    BY <2>2, <2>3 DEF Over
  <2>5. \A k \in 0..((dj.index + 1) - 1) : Other(Mine, dj.sclust, k, name)
    <3>1. (dj.index + 1) - 1 = dj.index
      BY <1>2
    <3> QED BY <1>3, <3>1
  <2> QED BY <2>1, <2>3, <2>4, <2>5, NoSuchNameTruth
<1>6. CASE n.res \notin {"OK", "NO_FILE"}
  BY <1>6, SearchFailed
<1> QED BY <1>4, <1>5, <1>6

\* A step of f_open or f_opendir in a volume that was mounted.
LEMMA SearchingIf ==
  ASSUME IInv, MountOK, OpenOK, pc \in {"Follow", "Find", "FatFind"},
         ~hist.missed, ~hist'.missed, hist'.on = hist.on, UNCHANGED <<volume, op, call>>
  PROVE  Searching(fs) /\ fs \in FsType /\ Geometry(fs) /\ Describes(fs, Cards[hist.on])
         /\ hist.on \in DOMAIN Cards /\ Mine = Cards[hist.on]
<1>1. /\ fs \in FsType /\ Geometry(fs) /\ fs.fs_type # ""
  BY Steady
<1>2. hist.on \in DOMAIN Cards /\ Describes(fs, Mine)
  BY <1>1, Mounted1
<1>3. pc \in OpenSteps /\ op \in {"open", "opendir"}
  BY SearchOp
<1>4. op = "open" => ~dirp.open
  BY <1>3 DEF IInv, Directories
<1>5. fs' = fs /\ op' = op /\ call' = call
  BY DEF volume
<1>6. Typed /\ Mine = Cards[hist.on]
  BY DEF IInv, Mine
<1>7. Searching(fs)
  BY <1>1, <1>2, <1>3, <1>4, <1>5, <1>6 DEF Searching
<1> QED BY <1>1, <1>2, <1>6, <1>7

LEMMA FindTruth ==
  ASSUME IInv, MountOK, OpenOK, Truth, NEW o \in Outcomes, Find(o), ~hist'.missed
  PROVE  Truth'
<1> DEFINE dj == loc.dj
<1> DEFINE v == Cards[hist.on]
<1>1. pc = "Find" /\ UNCHANGED <<volume, op, call>> /\ MoveWindow(dj.sect, o)
  BY DEF Find
<1>2. fs.fs_type # "" /\ dj \in DirType /\ loc \in LocType /\ dj.sect \in Nat
  BY <1>1, Steady, LocFields, DirFields
<1>3. /\ ~hist.missed /\ hist'.on = hist.on
      /\ o = "error" => hist'.failed
      /\ o # "error" => win' = <<hist.on, dj.sect>>
  BY <1>1, <1>2, WindowRead
<1>4. /\ Searching(fs) /\ fs \in FsType /\ Geometry(fs) /\ Describes(fs, v)
      /\ hist.on \in DOMAIN Cards /\ Mine = v
  BY <1>1, <1>3, SearchingIf
<1>5. Looking1 /\ Stands(v, dj)
  <2>1. SearchOK
    BY DEF Truth
  <2>2. Looking1
    BY <1>1, <1>3, <2>1, LookingIf
  <2> QED BY <1>4, <2>2 DEF Looking1
<1>6. \/ o = "error" /\ NotOpened("DISK_ERR")
      \/ /\ o # "error"
         /\ \E e \in EntriesAt(win', dj.index % DirPer) :
              \/ e = End /\ NoSuchName
              \/ e # End /\ e.attr \in Listed /\ e.name = name /\ Matched(e)
              \/ /\ e # End /\ ~(e.attr \in Listed /\ e.name = name)
                 /\ \/ NeedsFat(dj) /\ Ask_fat(dj.clust, "FatFind") /\ UNCHANGED <<fil, dirp>>
                    \/ ~NeedsFat(dj) /\ Searched(dir_next(dj))
  <2>1. CASE o = "error"
    BY <2>1 DEF Find
  <2>2. CASE o # "error"
    <3>1. \E e \in EntriesAt(win', dj.index % DirPer) :
            CASE e = End -> NoSuchName
              [] e.attr \in Listed /\ e.name = name -> Matched(e)
              [] OTHER -> IF NeedsFat(dj)
                          THEN Ask_fat(dj.clust, "FatFind") /\ UNCHANGED <<fil, dirp>>
                          ELSE Searched(dir_next(dj))
      BY <2>2 DEF Find
    <3>2. End.attr \notin Listed
      BY DEF End, Listed
    <3> HIDE DEF dj
    <3> QED BY <2>2, <3>1, <3>2
  <2> QED BY <2>1, <2>2
<1>7. CASE o = "error" /\ NotOpened("DISK_ERR")
  <2>1. Fails
    BY <1>3, <1>7 DEF Fails
  <2> QED BY <1>4, <1>7, <2>1, NotOpenedTruth
<1>8. CASE o # "error"
  <2>1. PICK e \in EntriesAt(win', dj.index % DirPer) :
          \/ e = End /\ NoSuchName
          \/ e # End /\ e.attr \in Listed /\ e.name = name /\ Matched(e)
          \/ /\ e # End /\ ~(e.attr \in Listed /\ e.name = name)
             /\ \/ NeedsFat(dj) /\ Ask_fat(dj.clust, "FatFind") /\ UNCHANGED <<fil, dirp>>
                \/ ~NeedsFat(dj) /\ Searched(dir_next(dj))
    BY <1>6, <1>8
  <2>2. e = EntryOf(v, dj.sclust, dj.index)
    <3>1. dj.sect >= RootStart(v) /\ dj.sect = DirSector(v, dj.sclust, dj.index)
      BY <1>2, <1>4, <1>5, StandsCluster DEF Stands
    <3>2. EntriesAt(<<hist.on, dj.sect>>, dj.index % DirPer)
            = {EntryIn(v, dj.sect, dj.index % DirPer)}
      BY <1>2, <1>4, <3>1, EntriesThere
    <3>3. e = EntryIn(v, dj.sect, dj.index % DirPer)
      BY <1>3, <1>8, <2>1, <3>2
    <3> QED BY <3>1, <3>3 DEF EntryOf
  <2>3. dj.index \in Nat /\ \A j \in 0..(dj.index - 1) : Other(Mine, dj.sclust, j, name)
    BY <1>2, <1>5, DirFields DEF Looking1
  <2>4. CASE e = End /\ NoSuchName
    <3>1. Over(Mine, dj.sclust, dj.index)
      BY <1>4, <2>2, <2>4 DEF Over
    <3> QED BY <1>4, <1>5, <2>3, <2>4, <3>1, NoSuchNameTruth
  <2>5. CASE e # End /\ e.attr \in Listed /\ e.name = name /\ Matched(e)
    <3>1. e = EntryOf(Mine, loc.dj.sclust, loc.dj.index)
      BY <1>4, <2>2
    <3> QED BY <1>4, <1>5, <2>5, <3>1, MatchedTruth
  <2>6. ASSUME e # End, ~(e.attr \in Listed /\ e.name = name)
        PROVE  Other(Mine, dj.sclust, dj.index, name)
    BY <1>4, <2>2, <2>6 DEF Other
  <2>7. CASE /\ e # End /\ ~(e.attr \in Listed /\ e.name = name)
             /\ NeedsFat(dj) /\ Ask_fat(dj.clust, "FatFind") /\ UNCHANGED <<fil, dirp>>
    <3>1. dj.clust \in Nat
      BY <1>2, DirFields
    <3>2. /\ pc' = "FatFind" /\ loc'.lo = Zeros /\ loc'.path = loc.path /\ loc'.dj = loc.dj
          /\ loc'.clst = dj.clust
      BY <1>2, <2>7, <3>1, AskedFat
    <3>3. Names' = Names /\ Mine' = Mine /\ name' = name
      BY <1>4, <3>2, SearchingFacts DEF name
    <3>4. FatOK'
      BY <3>2 DEF FatOK
    <3>5. SearchOK'
      BY <1>5, <2>6, <2>7, <3>2, <3>3 DEF SearchOK, Looking1
    <3> QED BY <1>4, <2>7, <3>2, <3>4, <3>5, SearchGoesOn
  <2>8. CASE /\ e # End /\ ~(e.attr \in Listed /\ e.name = name)
             /\ ~NeedsFat(dj) /\ Searched(dir_next(dj))
    <3>1. At(fs, dj)
      BY <1>1 DEF IInv, Directories
    <3>2. Moved(hist.on, dj, dir_next(dj)) /\ dir_next(dj).res \in {"OK", "NO_FILE"}
          /\ dir_next(dj).d \in DirType
      BY <1>2, <1>4, <1>5, <2>8, <3>1, NextStands, NextOK
    <3> QED BY <1>4, <1>5, <2>6, <2>8, <3>2, SearchedTruth
  <2> QED BY <2>1, <2>4, <2>5, <2>7, <2>8
<1> QED BY <1>6, <1>7, <1>8

\* In the chain of a sound volume's directory an end is marked as one.
LEMMA SoundChain ==
  ASSUME NEW n \in DOMAIN Cards, NEW c, Cards[n].dirs # {}, c \in Cards[n].dirs,
         ~InTable(Cards[n], c), NEW i \in 0..IndexLimit,
         IsCluster(Cards[n], DirChain(Cards[n], c)[i])
  PROVE  DirChain(Cards[n], c)[i + 1] > 1
BY SoundFacts DEF SoundDir

LEMMA OneNotMore == \A k \in Nat : k <= 1 => ~(k > 1)
OBVIOUS

\* a cluster is one of the FAT
LEMMA ClusterInFat ==
  ASSUME fs \in FsType, NEW n \in DOMAIN Cards, Describes(fs, Cards[n]), NEW c \in Nat,
         IsCluster(Cards[n], c)
  PROVE  InFat(c)
BY ClusterSector DEF InFat

\* get_fat says that the disk failed
LEMMA FatFailed ==
  ASSUME NEW d \in DirType
  PROVE  dir_next_fat(d, Bad).res = "DISK_ERR"
<1>1. Bad \in Nat \ {0, 1}
  BY FormatAssumption
<1>2. ~(Bad <= 1)
  BY <1>1
<1> QED BY <1>2 DEF dir_next_fat

LEMMA FatFindTruth ==
  ASSUME IInv, MountOK, OpenOK, Truth, pc = "FatFind", NEW o \in Outcomes, GetFat(o),
         ~hist'.missed
  PROVE  Truth'
<1> DEFINE dj == loc.dj
<1> DEFINE v == Cards[hist.on]
<1>1. UNCHANGED <<volume, op, call>>
  BY DEF GetFat
<1>2. fs.fs_type # "" /\ dj \in DirType /\ loc \in LocType
  BY Steady, LocFields
<1>3. ~hist.missed /\ hist'.on = hist.on /\ FatGave
  BY FatGiven DEF Truth
<1>4. /\ Searching(fs) /\ fs \in FsType /\ Geometry(fs) /\ Describes(fs, v)
      /\ hist.on \in DOMAIN Cards /\ Mine = v
  BY <1>1, <1>3, SearchingIf
<1>5. Looking1 /\ Other(Mine, loc.dj.sclust, loc.dj.index, name) /\ loc.clst = dj.clust
  <2>1. SearchOK
    BY DEF Truth
  <2> QED BY <1>3, <2>1, LookingIf
<1>6. Stands(v, dj) /\ (Mine.dirs # {} => dj.sclust \in Mine.dirs)
  BY <1>4, <1>5 DEF Looking1
<1>7. NeedsFat(dj)
  BY DEF IInv, Directories
<1>8. dj.clust # 0 /\ dj.clust \in Nat
  BY <1>2, <1>7, DirFields DEF NeedsFat
<1>9. IsCluster(v, dj.clust) /\ ~InTable(v, dj.sclust)
  BY <1>2, <1>4, <1>6, <1>8, StandsCluster
<1>10. InFat(loc.clst)
  BY <1>4, <1>5, <1>8, <1>9, ClusterInFat
<1>11. CASE hist'.failed /\ GotFat(Bad)
  <2>1. Searched(dir_next_fat(dj, Bad))
    BY <1>11 DEF GotFat
  <2>2. dir_next_fat(dj, Bad).res = "DISK_ERR"
    BY <1>2, FatFailed
  <2> HIDE DEF dj
  <2>3. dir_next_fat(dj, Bad).res \notin {"OK", "NO_FILE"}
    BY <2>2
  <2> QED BY <1>4, <1>11, <2>1, <2>3, SearchFailed
<1>12. CASE /\ fs.fs_type = "FAT12" /\ pc' = pc
            /\ loc' = [loc EXCEPT !.lo = <<hist.on, FatAt(loc.clst, 0)>>, !.steps = @ + 1]
            /\ UNCHANGED <<fil, dirp, more, res>>
  <2>1. /\ pc' = "FatFind" /\ loc'.lo = <<hist.on, FatAt(loc.clst, 0)>> /\ loc'.path = loc.path
        /\ loc'.dj = loc.dj /\ loc'.clst = loc.clst
    BY <1>2, <1>12 DEF LocType
  <2>2. Names' = Names /\ Mine' = Mine /\ name' = name /\ fs' = fs
    BY <1>1, <1>4, <2>1, SearchingFacts DEF name, volume
  <2>3. FatOK'
    BY <1>3, <1>12, <2>1, <2>2 DEF FatOK, FatAt
  <2>4. SearchOK'
    BY <1>5, <2>1, <2>2 DEF SearchOK, Looking1
  <2> QED BY <1>4, <1>12, <2>1, <2>3, <2>4, SearchGoesOn
<1>13. CASE GotFat(FatEntry(Mine, loc.clst))
  <2> DEFINE w == FatEntry(v, dj.clust)
  <2>1. Searched(dir_next_fat(dj, w))
    BY <1>4, <1>5, <1>13 DEF GotFat
  <2>2. w \in Nat /\ w = FatEntry(v, dj.clust)
    BY <1>4, EntryType
  <2> HIDE DEF w
  <2>3. /\ Moved(hist.on, dj, dir_next_fat(dj, w))
        /\ dir_next_fat(dj, w).res \in {"OK", "NO_FILE", "INT_ERR"}
        /\ dir_next_fat(dj, w).res = "INT_ERR" => w <= 1
        /\ \E i \in 0..IndexLimit : dj.clust = DirChain(v, dj.sclust)[i]
                                      /\ w = DirChain(v, dj.sclust)[i + 1]
    <3>1. dj \in DirType /\ fs \in FsType /\ Geometry(fs) /\ Stands(v, dj) /\ NeedsFat(dj)
      BY <1>2, <1>4, <1>6, <1>7
    <3>2. hist.on \in DOMAIN Cards /\ Describes(fs, v)
      BY <1>4
    <3> HIDE DEF dj
    <3> QED BY <2>2, <3>1, <3>2, NextFatStands
  <2>4. dir_next_fat(dj, w).d \in DirType
    BY <1>2, <1>4, <1>7, <2>2, NextFatOK
  <2>5. dir_next_fat(dj, w).res \notin {"OK", "NO_FILE"} => Mine.dirs = {}
    <3>1. PICK i \in 0..IndexLimit : dj.clust = DirChain(v, dj.sclust)[i]
                                      /\ w = DirChain(v, dj.sclust)[i + 1]
      BY <2>3
    <3>2. Mine.dirs # {} => w > 1
      BY <1>4, <1>6, <1>9, <3>1, SoundChain
    <3> QED BY <2>2, <2>3, <3>2, OneNotMore
  <2> QED BY <1>4, <1>5, <2>1, <2>3, <2>4, <2>5, SearchedTruth
<1> QED BY <1>3, <1>10, <1>11, <1>12, <1>13 DEF FatGave

LEMMA FollowTruth ==
  ASSUME IInv, MountOK, OpenOK, Follow, ~hist'.missed
  PROVE  Truth'
<1>1. pc = "Follow" /\ FollowPath(fs) /\ UNCHANGED <<volume, op, call>> /\ hist' = hist
  BY DEF Follow, disk
<1>2. loc.path = Names
  BY <1>1 DEF IInv, Within
<1>3. Searching(fs)
  BY <1>1, SearchingIf
<1> QED BY <1>1, <1>2, <1>3, FollowPathTruth

-----------------------------------------------------------------------------
(* find_volume *)

\* a step after which nothing is read, sought or fetched, and which returns
\* from no call that promises anything
LEMMA NothingSaid ==
  ASSUME ListOK', FileOK', pc' \notin {"Find"} \cup FatCallers,
         pc' # "Idle" \/ op' \in {"none", "mount", "close"}
  PROVE  Truth'
<1>1. FatOK' /\ SearchOK'
  BY DEF FatOK, SearchOK, FatCallers
<1>2. ReadGivesFile' /\ ListsEachOnce' /\ FindsWhatIsThere'
  BY DEF ReadGivesFile, ListsEachOnce, FindsWhatIsThere, Done
<1> QED BY <1>1, <1>2 DEF Truth

LEMMA NotValid ==
  ASSUME ~Valid(fil)', ~Valid(dirp)'
  PROVE  ListOK' /\ FileOK'
BY DEF ListOK, FileOK

LEMMA FsidNat ==
  ASSUME IInv
  PROVE  Fsid \in Nat
<1>1. Fsid \in 0..MaxMounts
  BY DEF IInv, VolumeOK
<1> QED BY <1>1, SizeFacts

LEMMA NotNext ==
  ASSUME NEW a \in Nat, NEW b \in Nat, a <= b
  PROVE  b + 1 # a
OBVIOUS

\* A mount makes what is open invalid: its number is larger.
LEMMA Newer ==
  ASSUME IInv, OpenOK, fil' = fil, dirp' = dirp, fs'.id = Fsid + 1 \/ fs'.fs_type = ""
  PROVE  ListOK' /\ FileOK'
<1>1. Fsid \in Nat /\ dirp.id \in Nat /\ fil.id \in Nat /\ dirp.id <= Fsid
  BY FsidNat, DirFields, FilFields DEF IInv, Typed, Directories
<1>2. fil.open => fil.id <= Fsid
  BY DEF OpenOK
<1>3. Fsid + 1 # dirp.id /\ (fil.open => Fsid + 1 # fil.id)
  BY <1>1, <1>2, NotNext
<1>4. ~Valid(fil)' /\ ~Valid(dirp)'
  BY <1>3 DEF Valid
<1> QED BY <1>4, NotValid

\* f_open or f_opendir finds no volume.
LEMMA NotMountedTruth ==
  ASSUME op \in {"open", "opendir"}, op' = op, call' = call, hist'.on = hist.on,
         pc' = "Idle", res' # "OK", ListOK', FileOK', Fails
  PROVE  Truth'
<1>1. FatOK' /\ SearchOK'
  BY DEF FatOK, SearchOK, FatCallers
<1>2. ReadGivesFile' /\ ListsEachOnce'
  BY DEF ReadGivesFile, ListsEachOnce, Done
<1>3. Names' = Names /\ Mine' = Mine
  BY DEF Names, Mine
<1>4. FindsWhatIsThere'
  BY <1>3 DEF FindsWhatIsThere, Done, Trusted, Fails, Wanted
<1> QED BY <1>1, <1>2, <1>4 DEF Truth

LEMMA NotFoundTruth ==
  ASSUME IInv, OpenOK, op \in {"mount", "open", "opendir"}, UNCHANGED <<op, call>>,
         hist'.on = hist.on, Mine.dirs = {} \/ hist'.failed,
         NEW r, r # "OK", NotFound(r)
  PROVE  Truth'
<1>1. fs'.fs_type = ""
  BY DEF NotFound, IInv, VolumeOK, FsType
<1>2. \/ op = "mount" /\ Return(r) /\ fil' = fil /\ dirp' = dirp
      \/ op \in {"open", "opendir"} /\ NotOpened(r)
  BY DEF NotFound
<1>3. ListOK' /\ FileOK'
  <2>1. ~Valid(fil)' /\ ~Valid(dirp)'
    BY <1>1 DEF Valid
  <2> QED BY <2>1, NotValid
<1>4. CASE op = "mount"
  BY <1>2, <1>3, <1>4, NothingSaid DEF Return, FatCallers
<1>5. CASE op \in {"open", "opendir"} /\ NotOpened(r)
  <2>1. pc' = "Idle" /\ res' # "OK"
    BY <1>5 DEF NotOpened, Return
  <2>2. Fails
    BY DEF Fails
  <2> QED BY <1>3, <1>5, <2>1, <2>2, NotMountedTruth
<1> QED BY <1>2, <1>4, <1>5

\* f is the volume on the card.
LEMMA FoundTruth ==
  ASSUME IInv, OpenOK, pc \in {"Check", "Info"}, UNCHANGED <<op, call>>, ~hist'.missed,
         hist'.on = hist.on, hist.on \in DOMAIN Cards, NEW f \in FsType, Geometry(f),
         f.fs_type # "", f.id = Fsid + 1, Describes(f, Mine), fs' = f, Found(f)
  PROVE  Truth'
<1>1. op \in {"mount", "open", "opendir"} /\ loc.path = Names /\ pc \in OpenSteps
  BY DEF IInv, Within, OpenSteps
<1>2. CASE op = "mount"
  <2>1. pc' = "Idle" /\ fil' = fil /\ dirp' = dirp
    BY <1>2 DEF Found, Return
  <2>2. ListOK' /\ FileOK'
    BY <2>1, Newer
  <2> QED BY <1>2, <2>1, <2>2, NothingSaid DEF FatCallers
<1>3. CASE op # "mount"
  <2>1. FollowPath(f)
    BY <1>3 DEF Found
  <2>2. op = "open" => ~dirp.open
    BY <1>1 DEF IInv, Directories
  <2>3. op' = op /\ call' = call /\ Typed
    BY DEF IInv
  <2>4. Searching(f)
    BY <1>1, <1>3, <2>2, <2>3 DEF Searching
  <2> QED BY <1>1, <2>1, <2>4, FollowPathTruth
<1> QED BY <1>2, <1>3

LEMMA CheckTruth ==
  ASSUME IInv, MountOK, OpenOK, NEW o \in Outcomes, CheckFs(o), ~hist'.missed
  PROVE  Truth'
<1>1. /\ pc = "Check" /\ UNCHANGED <<op, call>>
  BY DEF CheckFs
<1>2. op \in {"mount", "open", "opendir"} /\ fs.fs_type = "" /\ Fsid \in Nat
  BY <1>1, FsidNat DEF IInv, Within, VolumeOK
<1>3. hist'.on = hist.on /\ hist.on \in DOMAIN Cards /\ CheckGave /\ Mine = Cards[hist.on]
  BY Checked DEF Mine
<1>4. Mine.bpb \in BootRecord /\ Mine.base \in Nat
  BY <1>3, CardsAssumption
<1>5. CASE Mounted(Mine.bpb, Mine.base)
  <2> DEFINE f == Volume(Mine.bpb, Mine.base)
  <2>1. CASE BadBpb(Mine.bpb)
    <3>1. NotFound("NO_FILESYSTEM") /\ "NO_FILESYSTEM" # "OK"
      BY <1>5, <2>1 DEF Mounted
    <3>2. Mine.dirs = {}
      BY <1>3, <2>1, SoundBoot
    <3> QED BY <1>1, <1>2, <1>3, <3>1, <3>2, NotFoundTruth
  <2>2. CASE ~BadBpb(Mine.bpb)
    <3>1. f \in FsType /\ Geometry(f) /\ f.fs_type # "" /\ f.id = Fsid + 1
      BY <1>2, <1>4, <2>2, MountedVolume
    <3>2. Describes(f, Mine)
      BY <1>3, <2>2, Described
    <3>3. \/ fs' = f /\ GoOn("Info", loc) /\ UNCHANGED <<Fsid, fil, dirp>>
          \/ fs' = f /\ Found(f)
      BY <1>5, <2>2 DEF Mounted
    <3> HIDE DEF f
    <3>4. CASE fs' = f /\ GoOn("Info", loc) /\ UNCHANGED <<Fsid, fil, dirp>>
      <4>1. ListOK' /\ FileOK'
        BY <3>1, <3>4, Newer
      <4> QED BY <3>4, <4>1, NothingSaid DEF GoOn, FatCallers
    <3>5. CASE fs' = f /\ Found(f)
      BY <1>1, <1>3, <3>1, <3>2, <3>5, FoundTruth
    <3> QED BY <3>3, <3>4, <3>5
  <2> QED BY <2>1, <2>2
<1>6. CASE pc' = "Check" /\ UNCHANGED <<fs, Fsid, fil, dirp>>
  <2>1. ListOK' /\ FileOK'
    BY <1>2, <1>6, Newer
  <2> QED BY <1>6, <2>1, NothingSaid DEF FatCallers
<1>7. CASE (\E r : r # "OK" /\ NotFound(r)) /\ (Mine.dirs # {} => hist'.failed)
  BY <1>1, <1>2, <1>3, <1>7, NotFoundTruth
<1> QED BY <1>3, <1>5, <1>6, <1>7 DEF CheckGave

LEMMA InfoTruth ==
  ASSUME IInv, MountOK, OpenOK, NEW o \in Outcomes, FsInfo(o), ~hist'.missed
  PROVE  Truth'
<1>1. /\ pc = "Info" /\ UNCHANGED <<op, call>> /\ fs' = fs /\ Found(fs)
      /\ MoveWindow(fs.volbase + 1, o)
  BY DEF FsInfo
<1>2. /\ fs \in FsType /\ Geometry(fs) /\ fs.fs_type # "" /\ fs.id = Fsid + 1
  <2>1. fs \in FsType /\ Geometry(fs) /\ fs.fs_type # ""
    BY <1>1, Steady
  <2>2. fs.fs_type # "" => fs.id = (IF pc = "Info" THEN Fsid + 1 ELSE Fsid)
    BY DEF IInv, VolumeOK
  <2> QED BY <1>1, <2>1, <2>2
<1>3. fs.volbase + 1 \in Nat
  <2>1. fs.volbase \in Nat
    BY <1>2 DEF FsType
  <2> QED BY <2>1
<1>4. ~hist.missed /\ hist'.on = hist.on
  BY <1>1, <1>2, <1>3, WindowRead
<1>5. hist.on \in DOMAIN Cards /\ Describes(fs, Mine)
  BY <1>2, <1>4, Mounted1
<1> QED BY <1>1, <1>2, <1>4, <1>5, FoundTruth

-----------------------------------------------------------------------------
(* What displaydir has shown *)

\* the entries that are shown, before entry k and up to it
Before(v, c, k) == {j \in Visible(v, c) : j < k}
UpTo(v, c, k) == {j \in Visible(v, c) : j <= k}

LEMMA BeforeFinite ==
  ASSUME NEW v, NEW c
  PROVE  \A T : T \subseteq Visible(v, c) => IsFiniteSet(T) /\ Cardinality(T) \in Nat
<1>1. IsFiniteSet(0..(IndexLimit - 1))
  BY SizeFacts, FS_Interval
<1>2. Visible(v, c) \subseteq 0..(IndexLimit - 1)
  BY VisibleNat
<1>3. ASSUME NEW T, T \subseteq Visible(v, c) PROVE IsFiniteSet(T) /\ Cardinality(T) \in Nat
  <2>1. T \in SUBSET (0..(IndexLimit - 1))
    BY <1>2, <1>3
  <2>2. IsFiniteSet(T)
    BY <1>1, <2>1, FS_Subset
  <2> QED BY <2>2, FS_CardinalityType
<1> QED BY <1>3

\* The directory was shown to its end.
LEMMA ListedAll ==
  ASSUME NEW v, v.bpb.RootEntCnt \in Nat, NEW c, NEW k \in Nat, Over(v, c, k), NEW names,
         ListedTo(names, v, c, k)
  PROVE  IsListing(names, v, c)
<1>1. \A j \in Visible(v, c) : j < k
  BY OverFacts, VisibleNat
<1>2. {j \in Visible(v, c) : j < k} = Visible(v, c)
  BY <1>1
<1>3. /\ Len(names) = Cardinality(Visible(v, c))
      /\ \A i \in Visible(v, c) :
           names[Cardinality({j \in Visible(v, c) : j <= i})] = EntryOf(v, c, i).name
  BY <1>1, <1>2 DEF ListedTo
<1> QED BY <1>3 DEF IsListing

\* An entry is not shown,
LEMMA ListedSkip ==
  ASSUME NEW v, NEW c, NEW k \in Nat, NEW names, ListedTo(names, v, c, k), k \notin Visible(v, c)
  PROVE  ListedTo(names, v, c, k + 1)
<1>1. \A j \in Visible(v, c) : j < k + 1 <=> j < k
  <2>1. ASSUME NEW j \in Visible(v, c) PROVE j < k + 1 <=> j < k
    <3>1. j \in Nat /\ j # k
      BY VisibleNat
    <3> QED BY <3>1
  <2> QED BY <2>1
<1>2. {j \in Visible(v, c) : j < k + 1} = {j \in Visible(v, c) : j < k}
  BY <1>1
<1> QED BY <1>1, <1>2 DEF ListedTo

\* or it is.
LEMMA ListedShow ==
  ASSUME NEW v, NEW c, NEW k \in Visible(v, c), NEW names \in Seq(Words),
         ListedTo(names, v, c, k), NEW x \in Words, x = EntryOf(v, c, k).name
  PROVE  ListedTo(Append(names, x), v, c, k + 1)
<1> DEFINE s == Visible(v, c)
<1> DEFINE new == Append(names, x)
<1>1. /\ Len(names) = Cardinality(Before(v, c, k))
      /\ \A i \in s : i < k => names[Cardinality(UpTo(v, c, i))] = EntryOf(v, c, i).name
  BY DEF ListedTo, Before, UpTo
<1>2. k \in Nat /\ \A j \in s : j \in Nat
  BY VisibleNat
<1>3. /\ \A j \in s : j < k + 1 <=> j < k \/ j = k
      /\ \A j \in s : j <= k <=> j < k \/ j = k
  BY <1>2
<1>4. /\ Before(v, c, k + 1) = Before(v, c, k) \cup {k}
      /\ UpTo(v, c, k) = Before(v, c, k) \cup {k} /\ k \notin Before(v, c, k)
  <2>1. k \notin Before(v, c, k)
    BY <1>2 DEF Before
  <2>2. Before(v, c, k + 1) = Before(v, c, k) \cup {k}
    BY <1>3 DEF Before
  <2>3. UpTo(v, c, k) = Before(v, c, k) \cup {k}
    BY <1>3 DEF Before, UpTo
  <2> QED BY <2>1, <2>2, <2>3
<1>5. IsFiniteSet(Before(v, c, k)) /\ Cardinality(Before(v, c, k)) \in Nat
  <2>1. Before(v, c, k) \subseteq s
    BY DEF Before
  <2> QED BY <2>1, BeforeFinite
<1>6. /\ Cardinality(Before(v, c, k + 1)) = Cardinality(Before(v, c, k)) + 1
      /\ Cardinality(UpTo(v, c, k)) = Cardinality(Before(v, c, k)) + 1
  BY <1>4, <1>5, FS_AddElement
<1>7. Len(new) = Len(names) + 1 /\ new[Len(names) + 1] = x
      /\ \A m \in 1..Len(names) : new[m] = names[m]
  OBVIOUS
<1>8. ASSUME NEW i \in s, i < k
      PROVE  Cardinality(UpTo(v, c, i)) \in 1..Len(names)
  <2>1. UpTo(v, c, i) \subseteq s /\ i \in UpTo(v, c, i)
    BY <1>2 DEF UpTo
  <2>2. IsFiniteSet(UpTo(v, c, i)) /\ Cardinality(UpTo(v, c, i)) \in Nat
    BY <2>1, BeforeFinite
  <2>3. Cardinality(UpTo(v, c, i)) # 0
    BY <2>1, <2>2, FS_EmptySet
  <2>4. UpTo(v, c, i) \in SUBSET Before(v, c, k)
    <3>1. ASSUME NEW j \in s, j <= i PROVE j < k
      <4>1. i \in Nat /\ j \in Nat
        BY <1>2
      <4> QED BY <1>2, <1>8, <3>1, <4>1
    <3> QED BY <3>1 DEF UpTo, Before
  <2>5. Cardinality(UpTo(v, c, i)) <= Cardinality(Before(v, c, k))
    BY <1>5, <2>4, FS_Subset
  <2> QED BY <1>1, <1>5, <2>2, <2>3, <2>5
<1>9. Len(new) = Cardinality(Before(v, c, k + 1))
  BY <1>1, <1>6, <1>7
<1>10. ASSUME NEW i \in s, i < k + 1
       PROVE  new[Cardinality(UpTo(v, c, i))] = EntryOf(v, c, i).name
  <2>1. CASE i < k
    BY <1>1, <1>7, <1>8, <2>1
  <2>2. CASE i = k
    BY <1>1, <1>6, <1>7, <2>2
  <2> QED BY <1>3, <1>10, <2>1, <2>2
<1> HIDE DEF new
<1>11. ListedTo(new, v, c, k + 1)
  BY <1>9, <1>10 DEF ListedTo, Before, UpTo
<1> QED BY <1>11 DEF new

\* f_readdir is at an entry, and no sector was missed
Listing ==
  /\ Typed /\ OpenOK /\ pc \in ListSteps /\ op = "readdir"
  /\ fs' = fs /\ op' = op /\ fil' = fil /\ call'.dir = call.dir /\ hist'.on = hist.on
  /\ hist.on \in DOMAIN Cards /\ fs \in FsType /\ Geometry(fs) /\ Describes(fs, Mine)
  /\ Lookup(Mine, call.dir).clust = dirp.sclust /\ Stands(Mine, dirp)
  /\ \A j \in 0..(dirp.index - 1) : EntryOf(Mine, dirp.sclust, j) # End

LEMMA ListingFacts ==
  ASSUME Listing
  PROVE  /\ Valid(dirp) /\ dirp.index >= loc.idx /\ more /\ Mine' = Mine /\ Mine = Cards[hist.on]
         /\ dirp \in DirType /\ loc \in LocType /\ dirp.index \in Nat /\ loc.idx \in Nat
         /\ dirp.sclust \in Nat /\ dirp.index < IndexLimit /\ Mine.bpb.RootEntCnt \in Nat
         /\ ~Valid(fil)' /\ Lookup(Mine, call.dir)' = Lookup(Mine, call.dir)
<1>1. dirp \in DirType /\ loc \in LocType /\ hist.on \in DOMAIN Cards
  BY DEF Listing, Typed
<1>2. Valid(dirp) /\ dirp.index >= loc.idx /\ more /\ ~fil.open
  BY DEF Listing, OpenOK, Valid
<1>3. Mine' = Mine /\ Mine = Cards[hist.on]
  BY DEF Listing, Mine
<1>4. dirp.index \in Nat /\ dirp.sclust \in Nat /\ loc.idx \in Nat
  BY <1>1, DirFields, LocFields
<1>5. dirp.index < IndexLimit
  BY <1>1, DirFields, SizeFacts
<1>6. Mine.bpb.RootEntCnt \in Nat
  BY <1>1, <1>3, CardFacts DEF BootRecord
<1>7. ~Valid(fil)'
  BY <1>2 DEF Listing, Valid
<1>8. Lookup(Mine, call.dir)' = Lookup(Mine, call.dir)
  BY <1>3 DEF Listing
<1> QED BY <1>1, <1>2, <1>3, <1>4, <1>5, <1>6, <1>7, <1>8

\* what holds after it
LEMMA ListTruth ==
  ASSUME Listing, ListOK', FatOK', pc' \in {"Idle"} \cup ListSteps,
         pc' = "Idle" /\ ~more' /\ res' = "OK" => IsListing(call'.names, Mine, dirp.sclust)
  PROVE  Truth'
<1>1. /\ op' = "readdir" /\ FileOK' /\ Mine' = Mine
      /\ Lookup(Mine, call.dir)' = Lookup(Mine, call.dir)
  BY ListingFacts DEF Listing, FileOK
<1>2. SearchOK'
  BY DEF SearchOK, ListSteps
<1>3. ReadGivesFile' /\ FindsWhatIsThere'
  BY <1>1 DEF ReadGivesFile, FindsWhatIsThere, Done
<1>4. Lookup(Mine, call.dir).clust = dirp.sclust
  BY DEF Listing
<1>5. ListsEachOnce'
  BY <1>1, <1>4 DEF ListsEachOnce, Done
<1> QED BY <1>1, <1>2, <1>3, <1>5 DEF Truth

LEMMA ShownTruth ==
  ASSUME Listing, NEW d \in DirType, d.sclust = dirp.sclust, NEW r, Shown(d, r),
         r = "OK" /\ d.sect = 0 => IsListing(call'.names, Mine, dirp.sclust),
         r = "OK" /\ d.sect # 0 =>
           /\ d.index > dirp.index /\ Stands(Mine, d)
           /\ \A j \in 0..(d.index - 1) : EntryOf(Mine, dirp.sclust, j) # End
           /\ ListedTo(call'.names, Mine, dirp.sclust, d.index)
  PROVE  Truth'
<1>1. dirp' = d /\ pc' = "Idle" /\ res' = r /\ more' = (r = "OK" /\ d.index # loc.idx)
  BY DEF Shown, Return
<1>2. /\ dirp.index \in Nat /\ loc.idx \in Nat /\ dirp.index >= loc.idx /\ Mine' = Mine
      /\ Lookup(Mine, call.dir)' = Lookup(Mine, call.dir) /\ d.index \in Nat
  BY ListingFacts, DirFields
<1>3. FatOK'
  BY <1>1 DEF FatOK, FatCallers
<1>4. d.index > dirp.index => d.index # loc.idx
  BY <1>2
<1>5. more' => r = "OK"
  BY <1>1
<1>6. pc' \notin ListSteps /\ pc' \notin {"FatNext", "FatSkip"}
  BY <1>1 DEF ListSteps
<1>7. Lookup(Mine, call.dir)'.clust = dirp'.sclust
  BY <1>1, <1>2 DEF Listing
<1>8. more' /\ dirp'.sect = 0 => IsListing(call.names, Mine, dirp.sclust)'
  BY <1>1, <1>2, <1>5
<1>9. more' /\ dirp'.sect # 0 =>
        /\ Stands(Mine, dirp)'
        /\ \A j \in 0..(dirp'.index - 1) : EntryOf(Mine', dirp'.sclust, j) # End
        /\ ListedTo(call.names, Mine, dirp.sclust, dirp.index)'
  BY <1>1, <1>2, <1>5
<1>10. ListOK'
  BY <1>6, <1>7, <1>8, <1>9 DEF ListOK
<1>11. ~more' /\ res' = "OK" => IsListing(call'.names, Mine, dirp.sclust)
  BY <1>1, <1>4
<1> QED BY <1>1, <1>3, <1>10, <1>11, ListTruth

\* The directory ends, or there is an error.
LEMMA ShownLast ==
  ASSUME Listing, NEW d \in DirType, d.sclust = dirp.sclust, NEW r, Shown([d EXCEPT !.sect = 0], r),
         r = "OK" => IsListing(call'.names, Mine, dirp.sclust)
  PROVE  Truth'
<1> DEFINE e == [d EXCEPT !.sect = 0]
<1>1. e \in DirType /\ e.sclust = d.sclust /\ e.sect = 0
  BY ShutFields DEF DirType
<1>2. Shown(e, r)
  OBVIOUS
<1> HIDE DEF e
<1> QED BY <1>1, <1>2, ShownTruth

\* dir_next went on from an entry that has been dealt with.
Passed(n) ==
  /\ Listing /\ n.d \in DirType /\ Moved(hist.on, dirp, n)
  /\ \A j \in 0..dirp.index : EntryOf(Mine, dirp.sclust, j) # End
  /\ ListedTo(call'.names, Mine, dirp.sclust, dirp.index + 1)

LEMMA PassedFacts ==
  ASSUME NEW n, Passed(n)
  PROVE  /\ n.d \in DirType /\ n.d.sclust = dirp.sclust
         /\ n.res = "OK" =>
              /\ n.d.index = dirp.index + 1 /\ n.d.index > dirp.index /\ Stands(Mine, n.d)
              /\ \A j \in 0..(n.d.index - 1) : EntryOf(Mine, dirp.sclust, j) # End
              /\ ListedTo(call'.names, Mine, dirp.sclust, n.d.index)
              /\ n.d.sect # 0
         /\ n.res = "NO_FILE" => IsListing(call'.names, Mine, dirp.sclust)
<1>1. /\ dirp.index \in Nat /\ Mine = Cards[hist.on] /\ n.d \in DirType /\ hist.on \in DOMAIN Cards
      /\ fs \in FsType /\ Describes(fs, Cards[hist.on]) /\ Mine.bpb.RootEntCnt \in Nat
  BY ListingFacts DEF Passed, Listing
<1>2. n.d.sclust = dirp.sclust
  BY DEF Passed, Moved
<1>3. ASSUME n.res = "OK"
      PROVE  /\ n.d.index = dirp.index + 1 /\ n.d.index > dirp.index /\ Stands(Mine, n.d)
             /\ \A j \in 0..(n.d.index - 1) : EntryOf(Mine, dirp.sclust, j) # End
             /\ ListedTo(call'.names, Mine, dirp.sclust, n.d.index)
             /\ n.d.sect # 0
  <2>1. n.d.index = dirp.index + 1 /\ Stands(Mine, n.d)
    BY <1>1, <1>3 DEF Passed, Moved
  <2>2. n.d.index > dirp.index /\ n.d.index - 1 = dirp.index
    BY <1>1, <2>1
  <2>3. n.d.sect # 0
    BY <1>1, <2>1, StandsCluster
  <2> QED BY <2>1, <2>2, <2>3 DEF Passed
<1>4. ASSUME n.res = "NO_FILE" PROVE IsListing(call'.names, Mine, dirp.sclust)
  <2>1. ~HasPlace(Mine, dirp.sclust, dirp.index + 1) \/ dirp.index = IndexLimit - 1
    BY <1>1, <1>4 DEF Passed, Moved
  <2>2. dirp.index + 1 \in Nat /\ (dirp.index = IndexLimit - 1 => dirp.index + 1 = IndexLimit)
    BY <1>1, SizeFacts
  <2>3. Over(Mine, dirp.sclust, dirp.index + 1)
    BY <2>1, <2>2 DEF Over
  <2> QED BY <1>1, <2>2, <2>3, ListedAll DEF Passed
<1> QED BY <1>1, <1>2, <1>3, <1>4

LEMMA SteppedTruth ==
  ASSUME NEW n, Passed(n), Stepped(n)
  PROVE  Truth'
<1>1. Listing /\ n.d \in DirType /\ n.d.sclust = dirp.sclust
  BY PassedFacts DEF Passed
<1>2. CASE n.res = "NO_FILE"
  <2>1. Shown([n.d EXCEPT !.sect = 0], "OK")
    BY <1>2 DEF Stepped
  <2> QED BY <1>1, <1>2, <2>1, PassedFacts, ShownLast
<1>3. CASE n.res # "NO_FILE"
  <2>1. Shown(n.d, n.res)
    BY <1>3 DEF Stepped
  <2> QED BY <1>1, <2>1, PassedFacts, ShownTruth
<1> QED BY <1>2, <1>3

LEMMA SkippedTruth ==
  ASSUME NEW n, Passed(n), Skipped(n)
  PROVE  Truth'
<1>1. Listing /\ n.d \in DirType /\ n.d.sclust = dirp.sclust
  BY PassedFacts DEF Passed
<1>2. CASE n.res = "OK"
  <2>1. dirp' = n.d /\ pc' = "Entry" /\ more' = more
    BY <1>2 DEF Skipped, GoOn
  <2>2. FatOK' /\ pc' \in ListSteps /\ pc' \notin {"FatNext", "FatSkip"} /\ pc' # "Idle"
    BY <2>1 DEF FatOK, FatCallers, ListSteps
  <2>3. Mine' = Mine /\ Lookup(Mine, call.dir)' = Lookup(Mine, call.dir)
    BY <1>1, ListingFacts
  <2>4. Lookup(Mine, call.dir)'.clust = dirp'.sclust /\ dirp'.sect # 0
    BY <1>1, <1>2, <2>1, <2>3, PassedFacts DEF Listing
  <2>5. /\ Stands(Mine, dirp)'
        /\ \A j \in 0..(dirp'.index - 1) : EntryOf(Mine', dirp'.sclust, j) # End
        /\ ListedTo(call.names, Mine, dirp.sclust, dirp.index)'
    BY <1>1, <1>2, <2>1, <2>3, PassedFacts
  <2>6. ListOK'
    BY <2>2, <2>4, <2>5 DEF ListOK
  <2> QED BY <1>1, <2>2, <2>6, ListTruth
<1>3. CASE n.res # "OK"
  <2>1. Shown([n.d EXCEPT !.sect = 0], IF n.res = "NO_FILE" THEN "OK" ELSE n.res)
    BY <1>3 DEF Skipped
  <2>2. (IF n.res = "NO_FILE" THEN "OK" ELSE n.res) = "OK" => n.res = "NO_FILE"
    BY <1>3
  <2> QED BY <1>1, <2>1, <2>2, PassedFacts, ShownLast
<1> QED BY <1>2, <1>3

\* f_readdir is where ListOK says.
LEMMA ListingIf ==
  ASSUME IInv, MountOK, OpenOK, ListOK, pc \in ListSteps, ~hist.missed, hist'.on = hist.on,
         UNCHANGED <<volume, op, fil>>, call'.dir = call.dir
  PROVE  /\ Listing /\ dirp.sect # 0
         /\ pc = "Entry" => ListedTo(call.names, Mine, dirp.sclust, dirp.index)
         /\ pc \in {"FatNext", "FatSkip"} =>
              /\ EntryOf(Mine, dirp.sclust, dirp.index) # End /\ loc.clst = dirp.clust
              /\ ListedTo(call.names, Mine, dirp.sclust, dirp.index + 1)
<1>1. /\ fs \in FsType /\ Geometry(fs) /\ fs.fs_type # ""
  BY Steady DEF ListSteps
<1>2. hist.on \in DOMAIN Cards /\ Describes(fs, Mine)
  BY <1>1, Mounted1
<1>3. op = "readdir" /\ Typed /\ Valid(dirp) /\ more
  BY DEF IInv, Within, OpenOK
<1>4. fs' = fs /\ op' = op /\ fil' = fil
  BY DEF volume
<1>5. /\ Lookup(Mine, call.dir).clust = dirp.sclust /\ dirp.sect # 0
      /\ Stands(Mine, dirp)
      /\ \A j \in 0..(dirp.index - 1) : EntryOf(Mine, dirp.sclust, j) # End
      /\ pc = "Entry" => ListedTo(call.names, Mine, dirp.sclust, dirp.index)
      /\ pc \in {"FatNext", "FatSkip"} =>
              /\ EntryOf(Mine, dirp.sclust, dirp.index) # End /\ loc.clst = dirp.clust
              /\ ListedTo(call.names, Mine, dirp.sclust, dirp.index + 1)
  BY <1>3 DEF ListOK
<1>6. Listing
  BY <1>1, <1>2, <1>3, <1>4, <1>5 DEF Listing
<1> QED BY <1>5, <1>6

\* The entry at which f_readdir stands is one of the directory.
LEMMA ListedEntry ==
  ASSUME Listing, NEW e, e = EntryOf(Mine, dirp.sclust, dirp.index), e # End,
         call.names \in Seq(Words), e.name \in Words,
         ListedTo(call.names, Mine, dirp.sclust, dirp.index),
         call' = IF e.attr \in Listed THEN [call EXCEPT !.names = Append(@, e.name)] ELSE call,
         call \in CallType
  PROVE  /\ \A j \in 0..dirp.index : EntryOf(Mine, dirp.sclust, j) # End
         /\ ListedTo(call'.names, Mine, dirp.sclust, dirp.index + 1)
<1>1. /\ dirp.index \in Nat /\ dirp.index < IndexLimit
  BY ListingFacts
<1>2. \A j \in 0..dirp.index : EntryOf(Mine, dirp.sclust, j) # End
  <2>1. \A j \in 0..dirp.index : j \in 0..(dirp.index - 1) \/ j = dirp.index
    BY <1>1
  <2> QED BY <2>1 DEF Listing
<1>3. dirp.index \in Entries(Mine, dirp.sclust)
  <2>1. dirp.index \in 0..(IndexLimit - 1)
    BY <1>1, SizeFacts
  <2>2. HasPlace(Mine, dirp.sclust, dirp.index)
    BY DEF Listing, Stands
  <2> QED BY <1>2, <2>1, <2>2 DEF Entries
<1>4. CASE e.attr \in Listed
  <2>1. dirp.index \in Visible(Mine, dirp.sclust)
    BY <1>3, <1>4 DEF Visible
  <2>2. call'.names = Append(call.names, e.name)
    BY <1>4 DEF CallType
  <2>3. ListedTo(Append(call.names, e.name), Mine, dirp.sclust, dirp.index + 1)
    BY <2>1, ListedShow
  <2> QED BY <1>2, <2>2, <2>3
<1>5. CASE e.attr \notin Listed
  <2>1. dirp.index \notin Visible(Mine, dirp.sclust)
    BY <1>5 DEF Visible
  <2>2. call' = call
    BY <1>5
  <2> QED BY <1>1, <1>2, <2>1, <2>2, ListedSkip
<1> QED BY <1>4, <1>5

LEMMA EntryTruth ==
  ASSUME IInv, MountOK, OpenOK, Truth, NEW o \in Outcomes, Entry(o), ~hist'.missed
  PROVE  Truth'
<1> DEFINE v == Cards[hist.on]
<1>1. pc = "Entry" /\ UNCHANGED <<volume, op, fil>> /\ MoveWindow(dirp.sect, o)
  BY DEF Entry
<1>2. fs.fs_type # "" /\ dirp \in DirType /\ loc \in LocType /\ call \in CallType
  BY <1>1, Steady
<1>3. dirp.sect \in Nat /\ dirp.index \in Nat /\ dirp.clust \in Nat /\ call.names \in Seq(Words)
  BY <1>2, DirFields, CallFields
<1>4. /\ ~hist.missed /\ hist'.on = hist.on
      /\ o # "error" => win' = <<hist.on, dirp.sect>>
  BY <1>1, <1>2, <1>3, WindowRead
<1>5. \/ o = "error" /\ Shown([dirp EXCEPT !.sect = 0], "DISK_ERR") /\ call' = call
      \/ /\ o # "error"
         /\ \E e \in EntriesAt(win', dirp.index % DirPer) :
              /\ call' = IF e.attr \in Listed
                         THEN [call EXCEPT !.names = Append(@, e.name)] ELSE call
              /\ \/ e = End /\ Shown([dirp EXCEPT !.sect = 0], "OK")
                 \/ /\ e # End /\ NeedsFat(dirp) /\ UNCHANGED <<dirp, more>>
                    /\ Ask_fat(dirp.clust, IF e.attr \in Listed THEN "FatNext" ELSE "FatSkip")
                 \/ e # End /\ ~NeedsFat(dirp) /\ Stepped(dir_next(dirp))
                 \/ e # End /\ ~NeedsFat(dirp) /\ Skipped(dir_next(dirp))
  <2>1. CASE o = "error"
    BY <2>1 DEF Entry
  <2>2. CASE o # "error"
    <3>1. \E e \in EntriesAt(win', dirp.index % DirPer) :
            /\ call' = IF e.attr \in Listed
                       THEN [call EXCEPT !.names = Append(@, e.name)] ELSE call
            /\ CASE e = End -> Shown([dirp EXCEPT !.sect = 0], "OK")
                 [] e # End /\ NeedsFat(dirp) ->
                      /\ Ask_fat(dirp.clust, IF e.attr \in Listed THEN "FatNext" ELSE "FatSkip")
                      /\ UNCHANGED <<dirp, more>>
                 [] e # End /\ ~NeedsFat(dirp) /\ e.attr \in Listed -> Stepped(dir_next(dirp))
                 [] OTHER -> Skipped(dir_next(dirp))
      BY <2>2 DEF Entry
    <3> QED BY <2>2, <3>1
  <2> QED BY <2>1, <2>2
<1>6. call'.dir = call.dir
  <2>1. ASSUME NEW x PROVE [call EXCEPT !.names = Append(@, x)].dir = call.dir
    BY <1>2 DEF CallType
  <2> QED BY <1>5, <2>1
<1>7. /\ Listing /\ dirp.sect # 0
      /\ ListedTo(call.names, Mine, dirp.sclust, dirp.index)
  <2>1. ListOK
    BY DEF Truth
  <2> QED BY <1>1, <1>4, <1>6, <2>1, ListingIf DEF ListSteps
<1>8. /\ hist.on \in DOMAIN Cards /\ Mine = v /\ Describes(fs, v) /\ Stands(v, dirp)
      /\ fs \in FsType /\ Geometry(fs) /\ v.bpb.RootEntCnt \in Nat /\ Mine' = Mine
      /\ Lookup(Mine, call.dir)' = Lookup(Mine, call.dir)
  BY <1>7, ListingFacts DEF Listing
<1>9. CASE o = "error" /\ Shown([dirp EXCEPT !.sect = 0], "DISK_ERR")
  BY <1>2, <1>7, <1>9, ShownLast
<1>10. CASE o # "error"
  <2>1. PICK e \in EntriesAt(win', dirp.index % DirPer) :
          /\ call' = IF e.attr \in Listed
                     THEN [call EXCEPT !.names = Append(@, e.name)] ELSE call
          /\ \/ e = End /\ Shown([dirp EXCEPT !.sect = 0], "OK")
             \/ /\ e # End /\ NeedsFat(dirp) /\ UNCHANGED <<dirp, more>>
                /\ Ask_fat(dirp.clust, IF e.attr \in Listed THEN "FatNext" ELSE "FatSkip")
             \/ e # End /\ ~NeedsFat(dirp) /\ Stepped(dir_next(dirp))
             \/ e # End /\ ~NeedsFat(dirp) /\ Skipped(dir_next(dirp))
    BY <1>5, <1>10
  <2>2. e = EntryOf(v, dirp.sclust, dirp.index) /\ e.name \in Words
    <3>1. dirp.sect >= RootStart(v) /\ dirp.sect = DirSector(v, dirp.sclust, dirp.index)
      BY <1>2, <1>8, StandsCluster DEF Stands
    <3>2. EntriesAt(<<hist.on, dirp.sect>>, dirp.index % DirPer)
            = {EntryIn(v, dirp.sect, dirp.index % DirPer)}
      BY <1>3, <1>8, <3>1, EntriesThere
    <3>3. e \in EntriesAt(<<hist.on, dirp.sect>>, dirp.index % DirPer)
      BY <1>4, <1>10, <2>1
    <3>4. e = EntryIn(v, dirp.sect, dirp.index % DirPer)
      BY <3>2, <3>3
    <3>5. <<hist.on, dirp.sect>> \in Buffers
      BY <1>3, <1>8, SectorRead
    <3>6. e.name \in Words
      BY <1>3, <3>3, <3>5, EntryFacts
    <3> QED BY <3>1, <3>4, <3>6 DEF EntryOf
  <2>3. CASE e = End /\ Shown([dirp EXCEPT !.sect = 0], "OK")
    <3>1. Over(Mine, dirp.sclust, dirp.index)
      BY <1>8, <2>2, <2>3 DEF Over
    <3>2. call' = call
      BY <2>1, <2>3 DEF End, Listed
    <3>3. IsListing(call'.names, Mine, dirp.sclust)
      BY <1>3, <1>7, <1>8, <3>1, <3>2, ListedAll
    <3> QED BY <1>2, <1>7, <2>3, <3>3, ShownLast
  <2>4. ASSUME e # End
        PROVE  /\ \A j \in 0..dirp.index : EntryOf(Mine, dirp.sclust, j) # End
               /\ ListedTo(call'.names, Mine, dirp.sclust, dirp.index + 1)
    <3>1. e = EntryOf(Mine, dirp.sclust, dirp.index)
      BY <1>8, <2>2
    <3> QED BY <1>2, <1>3, <1>7, <2>1, <2>2, <2>4, <3>1, ListedEntry
  <2>5. CASE /\ e # End /\ NeedsFat(dirp) /\ UNCHANGED <<dirp, more>>
             /\ Ask_fat(dirp.clust, IF e.attr \in Listed THEN "FatNext" ELSE "FatSkip")
    <3>1. /\ pc' = (IF e.attr \in Listed THEN "FatNext" ELSE "FatSkip") /\ loc'.lo = Zeros
          /\ loc'.clst = dirp.clust
      BY <1>2, <1>3, <2>5, AskedFat
    <3>2. pc' \in {"FatNext", "FatSkip"}
      BY <3>1
    <3>3. FatOK' /\ pc' \in ListSteps /\ pc' # "Idle"
      BY <3>1, <3>2 DEF FatOK, ListSteps
    <3>4. EntryOf(Mine, dirp.sclust, dirp.index) # End
      BY <1>8, <2>2, <2>5
    <3>5. ListOK'
      <4>1. Lookup(Mine, call.dir)'.clust = dirp'.sclust /\ dirp'.sect # 0
        BY <1>7, <1>8, <2>5 DEF Listing
      <4>2. /\ Stands(Mine, dirp)'
            /\ \A j \in 0..(dirp'.index - 1) : EntryOf(Mine', dirp'.sclust, j) # End
        BY <1>7, <1>8, <2>5 DEF Listing
      <4>3. /\ EntryOf(Mine', dirp'.sclust, dirp'.index) # End /\ loc'.clst = dirp'.clust
            /\ ListedTo(call.names, Mine, dirp.sclust, dirp.index + 1)'
        BY <1>8, <2>4, <2>5, <3>1, <3>4
      <4> QED BY <3>2, <4>1, <4>2, <4>3 DEF ListOK
    <3> QED BY <1>7, <3>3, <3>5, ListTruth
  <2>6. CASE e # End /\ ~NeedsFat(dirp)
    <3>1. At(fs, dirp)
      BY <1>1 DEF IInv, Directories
    <3>2. Moved(hist.on, dirp, dir_next(dirp)) /\ dir_next(dirp).d \in DirType
      BY <1>2, <1>8, <2>6, <3>1, NextStands, NextOK
    <3>3. Passed(dir_next(dirp))
      BY <1>7, <2>4, <2>6, <3>2 DEF Passed
    <3> QED BY <2>1, <2>6, <3>3, SteppedTruth, SkippedTruth
  <2> QED BY <2>1, <2>3, <2>5, <2>6
<1> QED BY <1>5, <1>9, <1>10

\* get_fat failed
LEMMA MovedFailed ==
  ASSUME NEW n, NEW d \in DirType
  PROVE  Moved(n, d, dir_next_fat(d, Bad))
<1>1. dir_next_fat(d, Bad) = [d |-> [d EXCEPT !.sect = @ + 1], res |-> "DISK_ERR"]
  <2>1. Bad \in Nat \ {0, 1}
    BY FormatAssumption
  <2>2. ~(Bad <= 1)
    BY <2>1
  <2> QED BY <2>2 DEF dir_next_fat
<1>2. [d EXCEPT !.sect = @ + 1].sclust = d.sclust
  BY DEF DirType
<1>3. /\ dir_next_fat(d, Bad).d.sclust = d.sclust
      /\ dir_next_fat(d, Bad).res = "DISK_ERR"
  <2> DEFINE e == [d EXCEPT !.sect = @ + 1]
  <2>1. e.sclust = d.sclust /\ dir_next_fat(d, Bad) = [d |-> e, res |-> "DISK_ERR"]
    BY <1>1, <1>2
  <2> HIDE DEF e
  <2>2. dir_next_fat(d, Bad).d = e /\ dir_next_fat(d, Bad).res = "DISK_ERR"
    BY <2>1
  <2> QED BY <2>1, <2>2
<1> QED BY <1>3 DEF Moved

LEMMA FatListTruth ==
  ASSUME IInv, MountOK, OpenOK, Truth, pc \in {"FatSkip", "FatNext"}, NEW o \in Outcomes,
         GetFat(o), ~hist'.missed
  PROVE  Truth'
<1> DEFINE v == Cards[hist.on]
<1>1. UNCHANGED <<volume, op, call>>
  BY DEF GetFat
<1>2. fs.fs_type # "" /\ dirp \in DirType /\ loc \in LocType /\ dirp.index \in Nat
  BY Steady, DirFields
<1>3. ~hist.missed /\ hist'.on = hist.on /\ FatGave
  BY FatGiven DEF Truth
<1>4. \A x : GotFat(x) => /\ fil' = fil
                          /\ Skipped(dir_next_fat(dirp, x)) \/ Stepped(dir_next_fat(dirp, x))
  BY DEF GotFat
<1>5. fil' = fil
  BY <1>3, <1>4 DEF FatGave
<1>6. /\ Listing /\ dirp.sect # 0
      /\ EntryOf(Mine, dirp.sclust, dirp.index) # End /\ loc.clst = dirp.clust
      /\ ListedTo(call.names, Mine, dirp.sclust, dirp.index + 1)
  <2>1. ListOK
    BY DEF Truth
  <2>2. pc \in ListSteps /\ call'.dir = call.dir
    BY <1>1 DEF ListSteps
  <2> QED BY <1>1, <1>3, <1>5, <2>1, <2>2, ListingIf
<1>7. /\ hist.on \in DOMAIN Cards /\ Mine = v /\ Describes(fs, v) /\ Stands(v, dirp)
      /\ fs \in FsType /\ Geometry(fs) /\ Mine' = Mine
      /\ Lookup(Mine, call.dir)' = Lookup(Mine, call.dir)
  BY <1>6, ListingFacts DEF Listing
<1>8. \A j \in 0..dirp.index : EntryOf(Mine, dirp.sclust, j) # End
  <2>1. dirp.index \in Nat
    BY <1>2
  <2>2. \A j \in 0..dirp.index : j \in 0..(dirp.index - 1) \/ j = dirp.index
    BY <2>1
  <2>3. \A j \in 0..(dirp.index - 1) : EntryOf(Mine, dirp.sclust, j) # End
    BY <1>6 DEF Listing
  <2> QED BY <1>6, <2>2, <2>3
<1>9. NeedsFat(dirp)
  BY DEF IInv, Directories
<1>10. dirp.clust # 0 /\ dirp.clust \in Nat
  BY <1>2, <1>9, DirFields DEF NeedsFat
<1>11. InFat(loc.clst)
  <2>1. IsCluster(v, dirp.clust)
    BY <1>2, <1>7, <1>10, StandsCluster
  <2> QED BY <1>6, <1>7, <1>10, <2>1, ClusterInFat
<1>12. ASSUME NEW x \in Nat, GotFat(x), Moved(hist.on, dirp, dir_next_fat(dirp, x))
       PROVE  Truth'
  <2>1. dir_next_fat(dirp, x).d \in DirType
    BY <1>2, <1>7, <1>9, NextFatOK
  <2>2. Passed(dir_next_fat(dirp, x))
    BY <1>1, <1>6, <1>8, <1>12, <2>1 DEF Passed
  <2> QED BY <1>4, <1>12, <2>2, SkippedTruth, SteppedTruth
<1>13. CASE GotFat(Bad)
  <2>1. Bad \in Nat
    BY FormatAssumption
  <2> QED BY <1>2, <1>12, <1>13, <2>1, MovedFailed
<1>14. CASE /\ fs.fs_type = "FAT12" /\ pc' = pc
            /\ loc' = [loc EXCEPT !.lo = <<hist.on, FatAt(loc.clst, 0)>>, !.steps = @ + 1]
            /\ UNCHANGED <<fil, dirp, more, res>>
  <2>1. loc'.lo = <<hist.on, FatAt(loc.clst, 0)>> /\ loc'.clst = loc.clst
    BY <1>2, <1>14 DEF LocType
  <2>2. fs' = fs /\ call' = call
    BY <1>1 DEF volume
  <2>3. FatOK' /\ pc' \in ListSteps /\ pc' # "Idle"
    BY <1>3, <1>14, <2>1, <2>2 DEF FatOK, FatAt, ListSteps
  <2>4. ListOK'
    <3>1. Lookup(Mine, call.dir)'.clust = dirp'.sclust /\ dirp'.sect # 0
      BY <1>6, <1>7, <1>14 DEF Listing
    <3>2. /\ Stands(Mine, dirp)'
          /\ \A j \in 0..(dirp'.index - 1) : EntryOf(Mine', dirp'.sclust, j) # End
      BY <1>6, <1>7, <1>14 DEF Listing
    <3>3. /\ EntryOf(Mine', dirp'.sclust, dirp'.index) # End /\ loc'.clst = dirp'.clust
          /\ ListedTo(call.names, Mine, dirp.sclust, dirp.index + 1)'
      BY <1>6, <1>7, <1>14, <2>1, <2>2
    <3>4. pc' \in {"FatNext", "FatSkip"}
      BY <1>14
    <3> QED BY <3>1, <3>2, <3>3, <3>4 DEF ListOK
  <2> QED BY <1>6, <2>3, <2>4, ListTruth
<1>15. CASE GotFat(FatEntry(Mine, loc.clst))
  <2> DEFINE w == FatEntry(v, dirp.clust)
  <2>1. w \in Nat /\ w = FatEntry(v, dirp.clust)
    BY <1>7, EntryType
  <2>2. GotFat(w)
    BY <1>6, <1>7, <1>15
  <2> HIDE DEF w
  <2>3. Moved(hist.on, dirp, dir_next_fat(dirp, w))
    <3>1. dirp \in DirType /\ fs \in FsType /\ Geometry(fs) /\ Stands(v, dirp) /\ NeedsFat(dirp)
      BY <1>2, <1>7, <1>9
    <3>2. hist.on \in DOMAIN Cards /\ Describes(fs, v)
      BY <1>7
    <3> QED BY <2>1, <3>1, <3>2, NextFatStands
  <2> QED BY <1>12, <2>1, <2>2, <2>3
<1> QED BY <1>3, <1>11, <1>13, <1>14, <1>15 DEF FatGave

-----------------------------------------------------------------------------
(* Between the calls *)

LEMMA IdleFile ==
  ASSUME FileOK, pc = "Idle", pc' = "Idle", fs' = fs, fil' = fil, hist'.on = hist.on,
         hist.missed => hist'.missed, hist.failed => hist'.failed,
         call'.file = call.file, call'.pos = call.pos
  PROVE  FileOK'
<1>1. Valid(fil)' = Valid(fil) /\ Mine' = Mine /\ bcs' = bcs
  BY DEF Valid, Mine, bcs
<1>2. InPlace => InPlace'
  BY <1>1 DEF InPlace
<1>3. Positioned => Positioned'
  BY <1>2 DEF Positioned, ReadSteps
<1>4. pc' \notin ReadSteps
  BY DEF ReadSteps
<1> QED BY <1>1, <1>3, <1>4 DEF FileOK

\* what ListOK says between the calls
LEMMA IdleListed ==
  ASSUME ListOK, pc = "Idle", Valid(dirp), ~hist.missed
  PROVE  /\ Lookup(Mine, call.dir).clust = dirp.sclust
         /\ more /\ dirp.sect = 0 => IsListing(call.names, Mine, dirp.sclust)
         /\ more /\ dirp.sect # 0 =>
              /\ Stands(Mine, dirp)
              /\ \A j \in 0..(dirp.index - 1) : EntryOf(Mine, dirp.sclust, j) # End
              /\ ListedTo(call.names, Mine, dirp.sclust, dirp.index)
<1>1. pc \notin OpenSteps /\ pc \notin ListSteps /\ pc \notin {"FatNext", "FatSkip"}
  BY DEF OpenSteps, ListSteps
<1> QED BY <1>1 DEF ListOK

\* and what makes it hold there
LEMMA ListedIdle ==
  ASSUME pc' = "Idle",
         Valid(dirp)' /\ ~hist'.missed =>
           /\ Lookup(Mine, call.dir)'.clust = dirp'.sclust
           /\ more' /\ dirp'.sect = 0 => IsListing(call.names, Mine, dirp.sclust)'
           /\ more' /\ dirp'.sect # 0 =>
                /\ Stands(Mine, dirp)'
                /\ \A j \in 0..(dirp'.index - 1) : EntryOf(Mine', dirp'.sclust, j) # End
                /\ ListedTo(call.names, Mine, dirp.sclust, dirp.index)'
  PROVE  ListOK'
<1>1. pc' \notin ListSteps /\ pc' \notin {"FatNext", "FatSkip"}
  BY DEF ListSteps
<1> QED BY <1>1 DEF ListOK

LEMMA IdleList ==
  ASSUME ListOK, pc = "Idle", pc' = "Idle", fs' = fs, dirp' = dirp, hist'.on = hist.on,
         hist.missed => hist'.missed, call'.dir = call.dir, call'.names = call.names,
         more' => more
  PROVE  ListOK'
<1>1. Valid(dirp)' = Valid(dirp) /\ Mine' = Mine
  BY DEF Valid, Mine
<1>2. ASSUME Valid(dirp)', ~hist'.missed
      PROVE  /\ Lookup(Mine, call.dir)'.clust = dirp'.sclust
             /\ more' /\ dirp'.sect = 0 => IsListing(call.names, Mine, dirp.sclust)'
             /\ more' /\ dirp'.sect # 0 =>
                  /\ Stands(Mine, dirp)'
                  /\ \A j \in 0..(dirp'.index - 1) : EntryOf(Mine', dirp'.sclust, j) # End
                  /\ ListedTo(call.names, Mine, dirp.sclust, dirp.index)'
  <2>1. Valid(dirp) /\ ~hist.missed
    BY <1>1, <1>2
  <2> QED BY <1>1, <2>1, IdleListed
<1> QED BY <1>2, ListedIdle

\* f_readdir
LEMMA ReaddirTruth ==
  ASSUME IInv, OpenOK, Truth, f_readdir
  PROVE  Truth'
<1>1. /\ pc = "Idle" /\ more /\ op' = "readdir" /\ UNCHANGED <<volume, disk, fil, dirp, call>>
  BY DEF f_readdir
<1>2. fs' = fs /\ hist' = hist /\ Mine' = Mine /\ Valid(dirp)' = Valid(dirp)
  BY <1>1 DEF volume, disk, Mine, Valid
<1>3. CASE Valid(dirp) /\ dirp.sect # 0
  <2>1. pc' = "Entry" /\ more' = more
    BY <1>3 DEF f_readdir, GoOn
  <2>2. ~Valid(fil)'
    BY <1>1, <1>2, <1>3 DEF OpenOK, Valid
  <2>3. FileOK'
    BY <2>2 DEF FileOK
  <2>4. ListOK'
    <3>1. ASSUME ~hist'.missed
          PROVE  /\ Lookup(Mine, call.dir)'.clust = dirp'.sclust /\ dirp'.sect # 0
                 /\ Stands(Mine, dirp)'
                 /\ \A j \in 0..(dirp'.index - 1) : EntryOf(Mine', dirp'.sclust, j) # End
                 /\ ListedTo(call.names, Mine, dirp.sclust, dirp.index)'
      BY <1>1, <1>2, <1>3, <3>1, IdleListed DEF Truth
    <3>2. pc' \notin {"FatNext", "FatSkip"}
      BY <2>1
    <3> QED BY <3>1, <3>2 DEF ListOK
  <2> QED BY <2>1, <2>3, <2>4, NothingSaid DEF FatCallers
<1>4. CASE ~(Valid(dirp) /\ dirp.sect # 0)
  <2>1. /\ pc' = "Idle" /\ ~more' /\ res' = IF Valid(dirp) THEN "OK" ELSE "INVALID_OBJECT"
    BY <1>4 DEF f_readdir, Return
  <2>2. ListOK'
    BY <1>1, <1>2, <2>1, IdleList DEF Truth
  <2>3. FileOK'
    BY <1>1, <1>2, <2>1, IdleFile DEF Truth
  <2>4. FatOK' /\ SearchOK'
    BY <2>1 DEF FatOK, SearchOK, FatCallers
  <2>5. ReadGivesFile' /\ FindsWhatIsThere'
    BY <1>1 DEF ReadGivesFile, FindsWhatIsThere, Done
  <2>6. ListsEachOnce'
    <3>1. ASSUME res' = "OK", ~hist.missed
          PROVE  IsListing(call.names, Mine, Lookup(Mine, call.dir).clust)
      <4>1. Valid(dirp) /\ dirp.sect = 0
        BY <1>4, <2>1, <3>1
      <4> QED BY <1>1, <3>1, <4>1 DEF Truth, ListOK, OpenSteps
    <3> QED BY <1>1, <1>2, <3>1 DEF ListsEachOnce
  <2> QED BY <2>2, <2>3, <2>4, <2>5, <2>6 DEF Truth
<1> QED BY <1>3, <1>4

\* the calls that read nothing: f_mount, f_close, f_closedir
LEMMA QuietTruth ==
  ASSUME op' \in {"mount", "close"}, pc' \in {"Idle", "Check", "Follow"},
         ~Valid(fil)', ~Valid(dirp)'
  PROVE  Truth'
BY NotValid, NothingSaid DEF FatCallers

\* f_open and f_opendir begin.
LEMMA BeginTruth ==
  ASSUME op' \in {"open", "opendir"}, NEW names, FindVolume(names), ~Valid(fil)',
         ~Valid(dirp)' \/ (op' = "opendir" /\ reg')
  PROVE  Truth'
<1>1. FileOK'
  BY DEF FileOK
<1>2. \/ ~reg' /\ pc' = "Idle"
      \/ pc' \in {"Check", "Follow"}
  BY DEF FindVolume, Return, GoOn
<1>3. CASE ~reg' /\ pc' = "Idle"
  <2>1. ListOK'
    BY <1>3 DEF ListOK
  <2>2. FatOK' /\ SearchOK'
    BY <1>3 DEF FatOK, SearchOK, FatCallers
  <2>3. ReadGivesFile' /\ ListsEachOnce' /\ FindsWhatIsThere'
    BY <1>3 DEF ReadGivesFile, ListsEachOnce, FindsWhatIsThere, Done
  <2> QED BY <1>1, <2>1, <2>2, <2>3 DEF Truth
<1>4. CASE pc' \in {"Check", "Follow"}
  <2>1. ListOK'
    BY <1>4 DEF ListOK, OpenSteps
  <2> QED BY <1>1, <1>4, <2>1, NothingSaid DEF FatCallers
<1> QED BY <1>2, <1>3, <1>4

LEMMA CallTruth ==
  ASSUME IInv, OpenOK, Truth,
         \/ f_mount(TRUE, TRUE) \/ f_mount(TRUE, FALSE) \/ f_mount(FALSE, TRUE)
         \/ \E p \in Paths : f_open(p) \/ f_opendir(p)
         \/ f_readdir \/ f_close \/ f_closedir
  PROVE  Truth'
<1>1. fil \in FilType /\ fs \in FsType /\ (~reg => fs.fs_type = "")
  BY DEF IInv, Typed, VolumeOK
<1>2. ASSUME NEW on, NEW now, f_mount(on, now) PROVE Truth'
  <2>1. op' = "mount" /\ fs' = [fs EXCEPT !.fs_type = ""]
    BY <1>2 DEF f_mount
  <2>2. pc' \in {"Idle", "Check", "Follow"}
    BY <1>2, BeginsAt DEF f_mount, Return
  <2>3. fs'.fs_type = ""
    BY <1>1, <2>1 DEF FsType
  <2>4. ~Valid(fil)' /\ ~Valid(dirp)'
    BY <2>3 DEF Valid
  <2> QED BY <2>1, <2>2, <2>4, QuietTruth
<1>3. ASSUME NEW p \in Paths, f_open(p) PROVE Truth'
  <2>1. op' = "open" /\ ~dirp.open /\ dirp' = dirp /\ fil' = Closed(fil) /\ FindVolume(p)
    BY <1>3 DEF f_open
  <2>2. ~fil'.open
    BY <2>1 DEF Closed, NoFile
  <2>3. ~Valid(fil)' /\ ~Valid(dirp)'
    BY <2>1, <2>2 DEF Valid
  <2> QED BY <2>1, <2>3, BeginTruth
<1>4. ASSUME NEW p \in Paths, f_opendir(p) PROVE Truth'
  <2>1. /\ op' = "opendir" /\ ~fil.open /\ fil' = fil /\ dirp' = dirp /\ fs' = fs /\ reg' = reg
        /\ FindVolume(p)
    BY <1>4 DEF f_opendir
  <2>2. ~Valid(fil)'
    BY <2>1 DEF Valid
  <2>3. ~reg' => ~Valid(dirp)'
    BY <1>1, <2>1 DEF Valid
  <2>4. reg \in BOOLEAN
    BY DEF IInv, VolumeOK
  <2> QED BY <2>1, <2>2, <2>3, <2>4, BeginTruth
<1>5. ASSUME f_close PROVE Truth'
  <2>1. /\ op' = "close" /\ pc' = "Idle" /\ Valid(fil) /\ fil' = Closed(fil) /\ dirp' = dirp
    BY <1>5 DEF f_close, Return
  <2>2. ~fil'.open /\ ~dirp.open
    BY <2>1 DEF Closed, NoFile, Valid, OpenOK
  <2>3. ~Valid(fil)' /\ ~Valid(dirp)'
    BY <2>1, <2>2 DEF Valid
  <2> QED BY <2>1, <2>3, QuietTruth
<1>6. ASSUME f_closedir PROVE Truth'
  <2>1. /\ op' = "close" /\ pc' = "Idle" /\ Valid(dirp) /\ fil' = fil /\ dirp' = NoDir
    BY <1>6 DEF f_closedir, Return
  <2>2. ~fil.open /\ ~NoDir.open
    BY <2>1 DEF Valid, OpenOK, NoDir
  <2>3. ~Valid(fil)' /\ ~Valid(dirp)'
    BY <2>1, <2>2 DEF Valid
  <2> QED BY <2>1, <2>3, QuietTruth
<1> QED BY <1>2, <1>3, <1>4, <1>5, <1>6, ReaddirTruth

\* Nothing is said of the card in the slot, or of the window.
LEMMA StillTruth ==
  ASSUME Truth, hist'.on = hist.on, hist'.missed = hist.missed, hist'.failed = hist.failed,
         UNCHANGED <<reg, fs, fil, dirp, pc, op, loc, out, more, res, call>>
  PROVE  Truth'
<1>1. Mine' = Mine /\ Names' = Names /\ name' = name /\ Valid(fil)' = Valid(fil)
      /\ Valid(dirp)' = Valid(dirp)
  BY DEF Mine, Names, name, Valid
<1>2. FatOK'
  BY DEF Truth, FatOK, FatAt
<1>3. SearchOK'
  BY <1>1 DEF Truth, SearchOK
<1>4. ListOK'
  BY <1>1 DEF Truth, ListOK
<1>5. FileOK'
  <2>1. InPlace => InPlace'
    BY <1>1 DEF InPlace, bcs
  <2>2. Positioned => Positioned'
    BY <1>1, <2>1 DEF Positioned, bcs
  <2>3. Given => Given'
    BY <1>1 DEF Given
  <2> QED BY <1>1, <2>2, <2>3 DEF Truth, FileOK
<1>6. ReadGivesFile'
  BY <1>1 DEF Truth, ReadGivesFile, Done
<1>7. ListsEachOnce'
  BY <1>1 DEF Truth, ListsEachOnce, Done
<1>8. FindsWhatIsThere'
  BY <1>1 DEF Truth, FindsWhatIsThere, Done, Trusted
<1> QED BY <1>2, <1>3, <1>4, <1>5, <1>6, <1>7, <1>8 DEF Truth

LEMMA SwapTruth ==
  ASSUME IInv, Truth, SwapCard
  PROVE  Truth'
<1>1. hist' = [hist EXCEPT !.faults = @ + 1] /\ hist \in HistType
  BY DEF SwapCard, IInv, DiskOK
<1>2. hist'.on = hist.on /\ hist'.missed = hist.missed /\ hist'.failed = hist.failed
  BY <1>1 DEF HistType
<1> QED BY <1>2, StillTruth DEF SwapCard, volume

LEMMA InitTruth == Init => Truth
<1> SUFFICES ASSUME Init PROVE Truth
  OBVIOUS
<1>1. pc = "Idle" /\ op = "none" /\ ~fil.open /\ ~dirp.open
  BY DEF Init, NoFile, NoDir
<1>2. FatOK /\ SearchOK /\ ListOK /\ FileOK
  BY <1>1 DEF FatOK, SearchOK, ListOK, FileOK, FatCallers, Valid
<1>3. ReadGivesFile /\ ListsEachOnce /\ FindsWhatIsThere
  BY <1>1 DEF ReadGivesFile, ListsEachOnce, FindsWhatIsThere, Done
<1> QED BY <1>2, <1>3 DEF Truth

-----------------------------------------------------------------------------
(* f_read and f_lseek *)

\* the file that was opened
MyFile == Lookup(Mine, call.file)

\* f_read or f_lseek is at work on a file, and no sector was missed
Transfer ==
  /\ Typed /\ Valid(fil) /\ ~dirp.open /\ fil.err = "OK"
  /\ pc \in ReadSteps \cup SeekSteps /\ (op = "read" <=> pc \in ReadSteps)
  /\ op \in {"read", "lseek"} /\ op' = op /\ call' = call /\ dirp' = dirp
  /\ fs' = fs /\ fs \in FsType /\ Describes(fs, Mine)
  /\ hist.on \in DOMAIN Cards /\ hist'.on = hist.on /\ ~hist'.missed
  /\ hist.failed => hist'.failed
  /\ MyFile.attr = "FILE" /\ fil.sclust = MyFile.clust /\ fil.fsize = MyFile.size
  /\ Mine.dirs # {} => Readable(Mine, MyFile)
  /\ fil.dsect # 0 => fil.buf = <<hist.on, fil.dsect>>
  /\ Positioned /\ (pc \in ReadSteps => Given)

LEMMA TransferIf ==
  ASSUME IInv, MountOK, OpenOK, Truth, pc \in ReadSteps \cup SeekSteps,
         UNCHANGED <<volume, op, call, dirp>>, hist'.on = hist.on, ~hist'.missed, ~hist.missed,
         hist.failed => hist'.failed
  PROVE  Transfer
<1>1. Valid(fil) /\ fil.err = "OK" /\ ~dirp.open
  BY DEF OpenOK, Valid
<1>2. fs.fs_type # ""
  BY <1>1 DEF Valid
<1>3. hist.on \in DOMAIN Cards /\ Describes(fs, Mine) /\ fs \in FsType
  BY <1>2, Mounted1
<1>4. Typed
  BY DEF IInv
<1>5. op \in {"read", "lseek"} /\ (op = "read" <=> pc \in ReadSteps)
  BY DEF IInv, Within, ReadSteps, SeekSteps
<1>6. fs' = fs
  BY DEF volume
<1>7. /\ MyFile.attr = "FILE" /\ fil.sclust = MyFile.clust /\ fil.fsize = MyFile.size
      /\ Mine.dirs # {} => Readable(Mine, MyFile)
      /\ fil.dsect # 0 => fil.buf = <<hist.on, fil.dsect>>
      /\ Positioned /\ (pc \in ReadSteps => Given)
  BY <1>1 DEF Truth, FileOK, MyFile
<1> QED BY <1>1, <1>3, <1>4, <1>5, <1>6, <1>7 DEF Transfer

LEMMA TransferFacts ==
  ASSUME Transfer
  PROVE  /\ Mine' = Mine /\ MyFile' = MyFile /\ bcs' = bcs /\ Mine = Cards[hist.on]
         /\ fil \in FilType /\ loc \in LocType /\ call \in CallType /\ dirp \in DirType
         /\ fil.fptr \in Nat /\ fil.fsize \in Nat /\ fil.sclust \in Nat /\ fil.clust \in Nat
         /\ loc.todo \in Nat
<1>1. Mine' = Mine /\ MyFile' = MyFile /\ bcs' = bcs
  BY DEF Transfer, Mine, MyFile, bcs
<1>2. fil \in FilType /\ loc \in LocType /\ call \in CallType /\ dirp \in DirType
  BY DEF Transfer, Typed
<1> QED BY <1>1, <1>2, FilFields, LocFields DEF Mine

LEMMA LeastType ==
  ASSUME NEW a \in Int, NEW b \in Int
  PROVE  MinOf(a, b) \in Int /\ MinOf(a, b) <= a /\ MinOf(a, b) <= b
BY DEF MinOf

LEMMA GivenLength ==
  ASSUME NEW S, NEW s \in Seq(S), NEW from \in Nat, NEW m \in Int, NEW pos \in Int,
         from + Len(s) = pos, pos = from + m
  PROVE  Len(s) = m
OBVIOUS

\* what f_read has given when it is where it should get to
LEMMA GivenAll ==
  ASSUME Given', fil'.fptr = call'.pos, call' \in CallType, fil' \in FilType,
         fil'.fsize = MyFile'.size
  PROVE  /\ Len(out') = MinOf(call'.size, MyFile'.size - call'.from)
         /\ \A k \in DOMAIN out' : out'[k] = ByteOf(hist'.on, MyFile', call'.from + k - 1)
<1>1. /\ call'.from \in Nat /\ call'.size \in Nat /\ call'.pos \in Nat /\ call'.pos \in Int
      /\ fil'.fsize \in Nat
  BY CallFields, FilFields
<1> DEFINE s == out'
<1> DEFINE m == MinOf(call'.size, fil'.fsize - call'.from)
<1> DEFINE from == call'.from
<1> DEFINE pos == call'.pos
<1> DEFINE S == {ByteOf(hist'.on, MyFile', p) : p \in Nat}
<1>2. s \in Seq(S)
  BY DEF Given, MyFile
<1>4. m \in Int
  <2> DEFINE a == call'.size
  <2> DEFINE b == fil'.fsize - call'.from
  <2>1. a \in Int /\ b \in Int
    BY <1>1
  <2> HIDE DEF a, b
  <2>2. MinOf(a, b) \in Int
    BY <2>1, LeastType
  <2> QED BY <2>2 DEF a, b
<1>5. from + Len(s) = pos /\ pos = from + m /\ from \in Nat /\ pos \in Int
  BY <1>1 DEF Given
<1> HIDE DEF m, s, from, pos, S
<1>6. Len(s) = m
  BY <1>2, <1>4, <1>5, GivenLength
<1> QED BY <1>6 DEF Given, MyFile, m, s

\* what holds after a step of f_read or f_lseek
LEMMA FileTruth ==
  ASSUME Transfer, Same(fil'), fil' \in FilType,
         fil'.dsect # 0 => fil'.buf = <<hist.on, fil'.dsect>>,
         fil'.err # "OK" => hist'.failed \/ Mine.dirs = {},
         fil'.err = "OK" => Positioned',
         FatOK', pc' \in {"Idle"} \cup ReadSteps \cup SeekSteps,
         pc' \in ReadSteps => Given',
         pc' = "Idle" /\ res' # "OK" => hist'.failed \/ Mine.dirs = {},
         pc' = "Idle" /\ op = "read" /\ res' = "OK" => Given' /\ fil'.fptr = call.pos
  PROVE  Truth'
<1>1. Mine' = Mine /\ MyFile' = MyFile
  BY TransferFacts
<1>2. /\ fs' = fs /\ hist'.on = hist.on /\ call' = call /\ op' = op /\ op \in {"read", "lseek"}
      /\ dirp' = dirp /\ ~dirp.open
      /\ MyFile.attr = "FILE" /\ fil.sclust = MyFile.clust /\ fil.fsize = MyFile.size
      /\ Mine.dirs # {} => Readable(Mine, MyFile)
  BY DEF Transfer
<1>3. fil'.sclust = MyFile.clust /\ fil'.fsize = MyFile.size
  BY <1>2 DEF Same
<1>4. SearchOK'
  BY DEF SearchOK, ReadSteps, SeekSteps
<1>5. ListOK'
  BY <1>2 DEF ListOK, Valid
<1>6. FileOK'
  <2>1. MyFile'.attr = "FILE" /\ fil'.sclust = MyFile'.clust /\ fil'.fsize = MyFile'.size
    BY <1>1, <1>2, <1>3
  <2>2. Mine'.dirs # {} => Readable(Mine', MyFile')
    BY <1>1, <1>2
  <2>3. /\ fil'.dsect # 0 => fil'.buf = <<hist'.on, fil'.dsect>>
        /\ fil'.err # "OK" => hist'.failed \/ Mine'.dirs = {}
    BY <1>1, <1>2
  <2> QED BY <2>1, <2>2, <2>3 DEF FileOK, MyFile
<1>7. ListsEachOnce'
  BY <1>2 DEF ListsEachOnce, Done
<1>8. FindsWhatIsThere'
  BY <1>1, <1>2 DEF FindsWhatIsThere, Done, Trusted
<1>9. ReadGivesFile'
  <2>1. ASSUME pc' = "Idle", op = "read", res' = "OK"
        PROVE  /\ Len(out') = MinOf(call'.size, MyFile'.size - call'.from)
               /\ \A k \in DOMAIN out' : out'[k] = ByteOf(hist'.on, MyFile', call'.from + k - 1)
    <3>1. call \in CallType
      BY TransferFacts
    <3>2. Given' /\ fil'.fptr = call'.pos /\ call' \in CallType /\ fil'.fsize = MyFile'.size
      BY <1>1, <1>2, <1>3, <2>1, <3>1
    <3> QED BY <3>2, GivenAll
  <2> QED BY <1>2, <2>1 DEF ReadGivesFile, Done, MyFile
<1> QED BY <1>4, <1>5, <1>6, <1>7, <1>8, <1>9 DEF Truth

\* two divisions in place of one
LEMMA DivDiv ==
  ASSUME NEW a \in Nat, NEW b \in Nat \ {0}, NEW c \in Nat \ {0}, NEW m, m = c * b
  PROVE  a \div m = (a \div b) \div c
<1>1. /\ c * b \in Nat \ {0} /\ a \div (c * b) = (a \div b) \div c
      /\ a % (c * b) = b * ((a \div b) % c) + (a % b)
  BY DivTwice
<1> QED BY <1>1

\* the sector and the place in it of a byte of the file
LEMMA FileByte ==
  ASSUME Transfer, NEW p \in Nat
  PROVE  /\ ByteOf(hist.on, MyFile, p)
              = <<hist.on, FileSector(Mine, fil.sclust, p \div SS), p % SS>>
         /\ p \div bcs = (p \div SS) \div fs.csize /\ ClusterBytes(Mine) = bcs
         /\ Mine.bpb.SecPerClus = fs.csize /\ fs.csize \in Nat \ {0} /\ p \div SS \in Nat
<1>1. fs.csize \in Nat \ {0} /\ SS \in Nat \ {0}
  BY SizeFacts, FsFields DEF Transfer
<1>2. Mine.bpb.SecPerClus = fs.csize
  BY DEF Transfer, Describes
<1>4. ClusterBytes(Mine) = bcs /\ bcs = fs.csize * SS
  BY <1>2 DEF ClusterBytes, bcs
<1>3. p \div bcs = (p \div SS) \div fs.csize
  BY <1>1, <1>4, DivDiv
<1>5. fil.sclust = MyFile.clust /\ Mine = Cards[hist.on]
  BY DEF Transfer, Mine
<1>6. p \div ClusterBytes(Mine) = (p \div SS) \div Mine.bpb.SecPerClus
  BY <1>2, <1>3, <1>4
<1>7. ByteOf(hist.on, MyFile, p)
              = <<hist.on, FileSector(Mine, fil.sclust, p \div SS), p % SS>>
  BY <1>5, <1>6 DEF ByteOf, FileSector
<1> QED BY <1>1, <1>2, <1>3, <1>4, <1>7, DivMod

\* The byte before one that does not begin a sector is in the same sector.
LEMMA SameCluster ==
  ASSUME Transfer, NEW p \in Nat \ {0}, p % SS # 0
  PROVE  (p - 1) \div SS = p \div SS /\ (p - 1) \div bcs = p \div bcs
<1>1. p - 1 \in Nat /\ p \in Nat /\ SS \in Nat \ {0}
  BY SizeFacts
<1>2. (p - 1) \div SS = p \div SS
  BY <1>1, DivPrev
<1> DEFINE q == p - 1
<1>3. q \in Nat /\ q \div SS = p \div SS
  BY <1>1, <1>2
<1> HIDE DEF q
<1>4. q \div bcs = (q \div SS) \div fs.csize /\ p \div bcs = (p \div SS) \div fs.csize
  BY <1>1, <1>3, FileByte
<1>5. q \div bcs = p \div bcs
  BY <1>3, <1>4
<1> QED BY <1>2, <1>5 DEF q

\* A sound volume has the cluster of a byte of the file.
LEMMA ClusterThere ==
  ASSUME Transfer, Mine.dirs # {}, NEW p \in Nat, p < fil.fsize
  PROVE  IsCluster(Mine, Chain(Mine, fil.sclust)[p \div bcs])
<1>1. /\ Readable(Mine, MyFile) /\ fil.sclust = MyFile.clust /\ fil.fsize = MyFile.size
      /\ ClusterBytes(Mine) = bcs
  BY FileByte DEF Transfer
<1>2. fil.fsize \in Nat
  BY TransferFacts
<1>3. p \in 0..(fil.fsize - 1)
  BY <1>2
<1> QED BY <1>1, <1>3 DEF Readable

\* the clusters of the file
LEMMA FileChain ==
  ASSUME Transfer
  PROVE  /\ \A k \in Nat : Chain(Mine, fil.sclust)[k] \in Nat
         /\ Chain(Mine, fil.sclust)[0] = fil.sclust
         /\ \A k \in Nat : Chain(Mine, fil.sclust)[k + 1]
                             = FatEntry(Mine, Chain(Mine, fil.sclust)[k])
<1>1. hist.on \in DOMAIN Cards /\ fil.sclust \in Nat /\ Mine = Cards[hist.on]
  BY TransferFacts DEF Transfer
<1> QED BY <1>1, ChainType

\* when the FIL's cluster is the one of byte p: the sectors there
LEMMA SectorsAt ==
  ASSUME Transfer, NEW p \in Nat, fil.clust = Chain(Mine, fil.sclust)[p \div bcs],
         clust2sect(fs, fil.clust) # 0, NEW j \in Nat, ((p \div SS) % fs.csize) + j < fs.csize
  PROVE  /\ FileSector(Mine, fil.sclust, p \div SS + j)
              = clust2sect(fs, fil.clust) + ((p \div SS) % fs.csize) + j
         /\ (p \div SS + j) \div fs.csize = p \div bcs
         /\ clust2sect(fs, fil.clust) \in Nat \ {0} /\ (p \div SS) % fs.csize \in Nat
<1> DEFINE q == p \div SS
<1> DEFINE k == q % fs.csize
<1>1. fil.clust \in Nat /\ fs \in FsType /\ hist.on \in DOMAIN Cards
      /\ Mine = Cards[hist.on] /\ Describes(fs, Mine) /\ fil \in FilType
  BY TransferFacts DEF Transfer
<1>2. /\ q \in Nat /\ p \div bcs = q \div fs.csize /\ fs.csize \in Nat \ {0}
      /\ Mine.bpb.SecPerClus = fs.csize
  BY <1>1, FileByte
<1>4. k \in Nat /\ k + j < fs.csize
  BY <1>2
<1>3. k = q % fs.csize
  OBVIOUS
<1> HIDE DEF k, q
<1>5. (q + j) \div fs.csize = q \div fs.csize /\ (q + j) % fs.csize = k + j
  BY <1>2, <1>3, <1>4, DivWithin
<1>6. /\ IsCluster(Mine, fil.clust) /\ clust2sect(fs, fil.clust) = SectorOf(Mine, fil.clust)
      /\ clust2sect(fs, fil.clust) \in Nat
  BY <1>1, ClusterSector, ClusterPlace
<1> DEFINE s == clust2sect(fs, fil.clust)
<1>7. FileSector(Mine, fil.sclust, q + j) = s + (k + j)
  BY <1>2, <1>5, <1>6 DEF FileSector, q
<1>8. s \in Nat
  BY <1>6
<1> HIDE DEF s
<1>9. s + (k + j) = s + k + j
  BY <1>4, <1>8
<1> QED BY <1>2, <1>4, <1>5, <1>6, <1>7, <1>9 DEF q, s, k

LEMMA SectorsHere ==
  ASSUME Transfer, fil.clust = Chain(Mine, fil.sclust)[fil.fptr \div bcs],
         clust2sect(fs, fil.clust) # 0, NEW j \in Nat, csect + j < fs.csize
  PROVE  /\ FileSector(Mine, fil.sclust, fil.fptr \div SS + j)
              = clust2sect(fs, fil.clust) + csect + j
         /\ (fil.fptr \div SS + j) \div fs.csize = fil.fptr \div bcs
         /\ clust2sect(fs, fil.clust) \in Nat \ {0} /\ csect \in Nat
<1>1. fil.fptr \in Nat /\ csect = (fil.fptr \div SS) % fs.csize
  BY TransferFacts DEF csect
<1> QED BY <1>1, SectorsAt

\* more bytes of a file after those that are there
LEMMA MoreBytes ==
  ASSUME NEW S, NEW g \in [Nat -> S], NEW s \in Seq(S), NEW from \in Nat, NEW b \in Seq(S),
         \A k \in DOMAIN s : s[k] = g[from + k - 1],
         \A k \in DOMAIN b : b[k] = g[from + Len(s) + k - 1]
  PROVE  /\ s \o b \in Seq(S) /\ Len(s \o b) = Len(s) + Len(b)
         /\ \A k \in DOMAIN (s \o b) : (s \o b)[k] = g[from + k - 1]
<1> DEFINE p == from + Len(s)
<1> DEFINE n == Len(b)
<1>1. Len(s) \in Nat /\ DOMAIN s = 1..Len(s) /\ p \in Nat
  OBVIOUS
<1>4. n \in Nat /\ DOMAIN b = 1..n /\ b \in Seq(S) /\ Len(b) = n
  OBVIOUS
<1>5. s \o b \in Seq(S) /\ Len(s \o b) = Len(s) + n /\ DOMAIN (s \o b) = 1..(Len(s) + n)
  BY <1>4
<1>6. ASSUME NEW k \in 1..(Len(s) + n)
      PROVE  (s \o b)[k] = g[from + k - 1]
  <2>1. CASE k <= Len(s)
    <3>1. (s \o b)[k] = s[k] /\ k \in DOMAIN s
      BY <1>1, <1>4, <2>1
    <3> QED BY <3>1
  <2>2. CASE k > Len(s)
    <3>1. (s \o b)[k] = b[k - Len(s)] /\ k - Len(s) \in 1..n
      BY <1>1, <1>4, <2>2
    <3> DEFINE i == k - Len(s)
    <3>2. b[i] = g[p + i - 1]
      BY <1>4, <3>1
    <3>3. p + i - 1 = from + k - 1
      BY <1>1
    <3> QED BY <3>1, <3>2, <3>3
  <2> QED BY <1>1, <2>1, <2>2
<1> QED BY <1>5, <1>6

LEMMA SequenceIs ==
  ASSUME NEW S, NEW n \in Nat, NEW b \in [1..n -> S]
  PROVE  b \in Seq(S) /\ Len(b) = n /\ DOMAIN b = 1..n
<1>1. b \in Seq(S) /\ DOMAIN b = 1..n
  OBVIOUS
<1> QED BY <1>1

LEMMA SumMoves ==
  ASSUME NEW a \in Nat, NEW t \in Nat, NEW n \in Nat, NEW p, a + t = p
  PROVE  (t = n => a + n = p) /\ (a + n) + (t - n) = p
OBVIOUS

LEMMA SumAfter ==
  ASSUME NEW a \in Nat, NEW l \in Nat, NEW n \in Nat, NEW p, a + l = p
  PROVE  a + (l + n) = p + n /\ p \in Nat
OBVIOUS

\* f_read gives the next n bytes of the file.
LEMMA DeliverTruth ==
  ASSUME Transfer, pc \in ReadSteps, NEW f \in FilType, Same(f), f.err = "OK",
         f.fptr = fil.fptr, f.dsect # 0 => f.buf = <<hist.on, f.dsect>>,
         NEW n \in Nat, n > 0, n <= loc.todo, NEW b, Deliver(f, n, b),
         b = [k \in 1..n |-> ByteOf(hist.on, MyFile, fil.fptr + k - 1)],
         InPlace', fil' \in FilType
  PROVE  Truth'
<1>1. /\ fil.fptr \in Nat /\ loc.todo \in Nat /\ loc \in LocType /\ call \in CallType
      /\ call' = call /\ hist'.on = hist.on /\ MyFile' = MyFile /\ Given /\ Positioned
  BY TransferFacts DEF Transfer
<1>2. /\ fil' = [f EXCEPT !.fptr = @ + n] /\ out' = out \o b
      /\ \/ loc.todo = n /\ pc' = "Idle" /\ res' = "OK"
         \/ GoOn("Read", [loc EXCEPT !.todo = @ - n])
  BY DEF Deliver, Return
<1>3. /\ fil'.open = f.open /\ fil'.id = f.id /\ fil'.sclust = f.sclust
      /\ fil'.fsize = f.fsize /\ fil'.err = f.err /\ fil'.dsect = f.dsect /\ fil'.buf = f.buf
      /\ fil'.fptr = fil.fptr + n
  BY <1>2 DEF FilType
<1>4. Same(fil') /\ fil'.err = "OK" /\ fil'.fsize = fil.fsize
  BY <1>3 DEF Same
<1>5. Given'
  <2> DEFINE g == [p \in Nat |-> ByteOf(hist.on, MyFile, p)]
  <2> DEFINE S == {ByteOf(hist.on, MyFile, p) : p \in Nat}
  <2> DEFINE from == call.from
  <2> DEFINE ptr == fil.fptr
  <2>1. g \in [Nat -> S]
    OBVIOUS
  <2>2. /\ out \in Seq(S) /\ from + Len(out) = ptr /\ from \in Nat
        /\ \A k \in DOMAIN out : out[k] = ByteOf(hist.on, MyFile, from + k - 1)
    BY <1>1, CallFields DEF Given, MyFile
  <2>3. DOMAIN out = 1..Len(out) /\ Len(out) \in Nat
    BY <2>2
  <2>4. \A k \in DOMAIN out : from + k - 1 \in Nat
    BY <2>2, <2>3
  <2>5. \A k \in DOMAIN out : out[k] = g[from + k - 1]
    BY <2>2, <2>4
  <2>6. b = [k \in 1..n |-> g[ptr + k - 1]]
    <3>1. ptr \in Nat
      BY <1>1
    <3> HIDE DEF ptr
    <3>2. \A k \in 1..n : ptr + k - 1 \in Nat
      BY <3>1
    <3>3. \A k \in 1..n : g[ptr + k - 1] = ByteOf(hist.on, MyFile, ptr + k - 1)
      BY <3>2
    <3>4. b = [k \in 1..n |-> ByteOf(hist.on, MyFile, ptr + k - 1)]
      BY DEF ptr
    <3> HIDE DEF g
    <3> QED BY <3>3, <3>4
  <2>7. ptr = from + Len(out)
    BY <2>2
  <2> HIDE DEF g, S, from, ptr
  <2>0. g \in [Nat -> S] /\ out \in Seq(S) /\ from \in Nat
        /\ \A k \in DOMAIN out : out[k] = g[from + k - 1]
    BY <2>1, <2>2, <2>5
  <2>15. b \in Seq(S) /\ Len(b) = n /\ \A k \in DOMAIN b : b[k] = g[from + Len(out) + k - 1]
    <3>1. ptr \in Nat
      BY <1>1 DEF ptr
    <3>2. \A k \in 1..n : ptr + k - 1 \in Nat
      BY <3>1
    <3>3. \A k \in 1..n : g[ptr + k - 1] \in S
      BY <2>1, <3>2
    <3>4. b \in [1..n -> S]
      BY <2>6, <3>3
    <3>5. b \in Seq(S) /\ Len(b) = n /\ DOMAIN b = 1..n
      BY <3>4, SequenceIs
    <3> QED BY <2>6, <2>7, <3>5
  <2>16. /\ out \o b \in Seq(S) /\ Len(out \o b) = Len(out) + Len(b)
         /\ \A k \in DOMAIN (out \o b) : (out \o b)[k] = g[from + k - 1]
    BY <2>0, <2>15, MoreBytes
  <2>8. /\ out' \in Seq(S) /\ Len(out') = Len(out) + n
        /\ \A k \in DOMAIN out' : out'[k] = g[from + k - 1]
    BY <1>2, <2>15, <2>16
  <2>9. from + Len(out') = ptr + n
    BY <2>2, <2>3, <2>8, SumAfter
  <2>10. \A k \in DOMAIN out' : from + k - 1 \in Nat
    <3>1. DOMAIN out' = 1..Len(out') /\ Len(out') \in Nat
      BY <2>8
    <3> QED BY <2>2, <3>1
  <2>11. \A k \in DOMAIN out' : out'[k] = ByteOf(hist.on, MyFile, from + k - 1)
    BY <2>8, <2>10 DEF g
  <2>12. call'.pos = call'.from + MinOf(call'.size, fil'.fsize - call'.from)
    BY <1>1, <1>4 DEF Given
  <2>13. call'.from + Len(out') = fil'.fptr
    BY <1>1, <1>3, <2>9 DEF from, ptr
  <2>14. /\ out' \in Seq({ByteOf(hist'.on, MyFile', p) : p \in Nat})
         /\ \A k \in DOMAIN out' : out'[k] = ByteOf(hist'.on, MyFile', call'.from + k - 1)
    BY <1>1, <2>8, <2>11 DEF from, S
  <2> QED BY <2>12, <2>13, <2>14 DEF Given, MyFile
<1>6. fil.fptr + loc.todo = call.pos
  BY <1>1 DEF Positioned
<1>7. CASE loc.todo = n /\ pc' = "Idle" /\ res' = "OK"
  <2>1. fil'.fptr = call.pos
    BY <1>3, <1>6, <1>7
  <2>2. Positioned'
    BY <1>1, <1>7, <2>1 DEF Positioned, ReadSteps
  <2>3. FatOK'
    BY <1>7 DEF FatOK, FatCallers
  <2> QED BY <1>3, <1>4, <1>5, <1>7, <2>1, <2>2, <2>3, FileTruth DEF ReadSteps
<1>8. CASE GoOn("Read", [loc EXCEPT !.todo = @ - n])
  <2>1. pc' = "Read" /\ loc'.todo = loc.todo - n
    BY <1>1, <1>8 DEF GoOn, LocType
  <2>2. fil'.fptr + loc'.todo = call'.pos
    <3> DEFINE ptr == fil.fptr
    <3> DEFINE todo == loc.todo
    <3> DEFINE pos == call.pos
    <3>1. ptr \in Nat /\ todo \in Nat /\ ptr + todo = pos
      BY <1>1, <1>6
    <3> HIDE DEF ptr, todo, pos
    <3>2. (ptr + n) + (todo - n) = pos
      BY <3>1, SumMoves
    <3> QED BY <1>1, <1>3, <2>1, <3>2 DEF ptr, todo, pos
  <2>3. Positioned'
    BY <2>1, <2>2 DEF Positioned, ReadSteps
  <2>4. FatOK'
    BY <2>1 DEF FatOK, FatCallers
  <2> QED BY <1>3, <1>4, <1>5, <2>1, <2>3, <2>4, FileTruth DEF ReadSteps
<1> QED BY <1>2, <1>7, <1>8

\* f_read or f_lseek gives up.
LEMMA AbortTruth ==
  ASSUME Transfer, NEW r, r # "OK", Abort(r), hist'.failed \/ Mine.dirs = {}, fil' \in FilType
  PROVE  Truth'
<1>1. fil \in FilType /\ (fil.dsect # 0 => fil.buf = <<hist.on, fil.dsect>>)
  BY TransferFacts DEF Transfer
<1>2. /\ FileEnds /\ pc' = "Idle" /\ res' = r /\ fil'.err = r
      /\ fil'.dsect = fil.dsect /\ fil'.buf = fil.buf
  BY <1>1, AbortEnds
<1>3. Same(fil') /\ FatOK'
  BY <1>2 DEF FileEnds, FatOK, FatCallers
<1> QED BY <1>1, <1>2, <1>3, FileTruth DEF ReadSteps

\* the read has not got to the end
LEMMA Unread ==
  ASSUME IInv, pc \in ReadSteps
  PROVE  loc.todo \in Nat /\ loc.todo > 0 /\ fil.fptr < fil.fsize /\ fil.fptr + loc.todo <= fil.fsize
<1>1. /\ loc.todo > 0 /\ fil.fptr + loc.todo <= fil.fsize
  BY DEF IInv, Within
<1>2. loc.todo \in Nat /\ fil.fptr \in Nat /\ fil.fsize \in Nat
  BY LocFields, FilFields DEF IInv, Typed
<1> QED BY <1>1, <1>2

LEMMA RestOf ==
  ASSUME NEW a \in 0..(SS - 1), NEW t \in Nat \ {0}
  PROVE  MinOf(SS - a, t) \in Nat /\ MinOf(SS - a, t) > 0 /\ MinOf(SS - a, t) <= t
         /\ a + (MinOf(SS - a, t) - 1) < SS
BY SizeFacts DEF MinOf

LEMMA LastOne ==
  ASSUME NEW p \in Nat, NEW n \in Nat, n > 0
  PROVE  p + n \in Nat \ {0} /\ (p + n) - 1 = p + (n - 1) /\ n - 1 \in Nat
OBVIOUS

\* f_read copies from the buffer.
LEMMA PartTruth ==
  ASSUME IInv, Transfer, pc \in ReadSteps, NEW f \in FilType, Same(f), f.err = "OK",
         f.fptr = fil.fptr, f.dsect # 0, f.buf = <<hist.on, f.dsect>>,
         f.dsect = FileSector(Mine, fil.sclust, fil.fptr \div SS),
         f.clust = Chain(Mine, fil.sclust)[fil.fptr \div bcs],
         Part(f), fil' \in FilType
  PROVE  Truth'
<1> DEFINE p == fil.fptr
<1> DEFINE at == p % SS
<1> DEFINE n == MinOf(SS - at, loc.todo)
<1> DEFINE b == [k \in 1..n |-> <<f.buf[1], f.buf[2], at + k - 1>>]
<1>1. p \in Nat /\ SS \in Nat \ {0} /\ loc.todo \in Nat \ {0}
  BY TransferFacts, SizeFacts, Unread
<1>2. at \in 0..(SS - 1)
  BY <1>1, DivMod
<1>3. n \in Nat /\ n > 0 /\ n <= loc.todo /\ at + (n - 1) < SS
  <2> HIDE DEF at, p
  <2> QED BY <1>1, <1>2, RestOf
<1>4. Deliver(f, n, b)
  BY DEF Part
<1>5. b = [k \in 1..n |-> <<hist.on, f.dsect, at + k - 1>>]
  <2>1. f.buf[1] = hist.on /\ f.buf[2] = f.dsect
    OBVIOUS
  <2> QED BY <2>1
<1>6. at = p % SS
  OBVIOUS
<1> HIDE DEF n, b, at, p
<1>7. ASSUME NEW i \in Nat, i <= n - 1
      PROVE  (p + i) \div SS = p \div SS /\ (p + i) % SS = at + i
  <2>1. at + i < SS
    BY <1>1, <1>2, <1>3, <1>7
  <2> QED BY <1>1, <1>6, <2>1, DivWithin
<1>8. ASSUME NEW k \in 1..n
      PROVE  ByteOf(hist.on, MyFile, p + k - 1) = <<hist.on, f.dsect, at + k - 1>>
  <2> DEFINE i == k - 1
  <2>1. i \in Nat /\ i <= n - 1 /\ p + k - 1 = p + i /\ at + k - 1 = at + i
    BY <1>1, <1>2, <1>3
  <2> HIDE DEF i
  <2>2. (p + i) \div SS = p \div SS /\ (p + i) % SS = at + i /\ p + i \in Nat
    BY <1>1, <1>7, <2>1
  <2>3. ByteOf(hist.on, MyFile, p + i) = <<hist.on, FileSector(Mine, fil.sclust, (p + i) \div SS), (p + i) % SS>>
    BY <2>2, FileByte
  <2> QED BY <2>1, <2>2, <2>3 DEF p
<1>9. b = [k \in 1..n |-> ByteOf(hist.on, MyFile, p + k - 1)]
  BY <1>5, <1>8
<1>10. fil' = [f EXCEPT !.fptr = @ + n]
  BY <1>4 DEF Deliver
<1>11. /\ fil'.fptr = p + n /\ fil'.clust = f.clust /\ fil'.sclust = f.sclust
       /\ fil'.dsect = f.dsect
  BY <1>10 DEF FilType, p
<1>12. InPlace'
  <2> DEFINE e == p + n
  <2>1. e \in Nat \ {0} /\ e - 1 = p + (n - 1) /\ n - 1 \in Nat
    BY <1>1, <1>3, LastOne
  <2>2. (e - 1) \div SS = p \div SS
    BY <1>3, <1>7, <2>1
  <2>3. (e - 1) \div bcs = p \div bcs
    <3> DEFINE d == e - 1
    <3>1. d \in Nat /\ d \div SS = p \div SS
      BY <1>1, <2>1, <2>2
    <3> HIDE DEF d
    <3>2. d \div bcs = (d \div SS) \div fs.csize /\ p \div bcs = (p \div SS) \div fs.csize
      BY <1>1, <3>1, FileByte
    <3>3. d \div bcs = p \div bcs
      BY <3>1, <3>2
    <3> QED BY <3>3 DEF d
  <2> HIDE DEF e
  <2>4. e % SS # 0 => e \div SS = p \div SS
    BY <2>1, <2>2, SameCluster
  <2>5. fil'.fptr = e /\ fil'.sclust = fil.sclust /\ Mine' = Mine /\ bcs' = bcs
    BY <1>11, TransferFacts DEF Same, e
  <2>6. fil'.clust = Chain(Mine', fil'.sclust)[(fil'.fptr - 1) \div bcs']
    BY <1>11, <2>3, <2>5 DEF p
  <2>7. fil'.fptr % SS # 0 =>
          fil'.dsect # 0 /\ fil'.dsect = FileSector(Mine', fil'.sclust, fil'.fptr \div SS)
    BY <1>11, <2>4, <2>5 DEF p
  <2> QED BY <2>6, <2>7 DEF InPlace
<1> QED BY <1>3, <1>4, <1>9, <1>12, DeliverTruth DEF p

\* the sectors of a cluster
LEMMA ModBcs ==
  ASSUME NEW a \in Nat, NEW b \in Nat \ {0}, NEW c \in Nat \ {0}, NEW m, m = c * b,
         a % b = 0
  PROVE  a % m = 0 <=> (a \div b) % c = 0
<1>1. (a % (c * b) = 0) <=> (a % b = 0 /\ (a \div b) % c = 0)
  BY ModTwice
<1> QED BY <1>1

LEMMA ClusterBegins ==
  ASSUME Transfer, fil.fptr % SS = 0
  PROVE  fil.fptr % bcs = 0 <=> csect = 0
<1>1. /\ fil.fptr \in Nat /\ SS \in Nat \ {0} /\ fs.csize \in Nat \ {0}
      /\ bcs = fs.csize * SS
  BY TransferFacts, SizeFacts, FsFields DEF Transfer, bcs
<1> DEFINE p == fil.fptr
<1> DEFINE b == SS
<1> DEFINE c == fs.csize
<1> DEFINE m == bcs
<1>2. p \in Nat /\ b \in Nat \ {0} /\ c \in Nat \ {0} /\ m = c * b /\ p % b = 0
  BY <1>1
<1> HIDE DEF p, b, c, m
<1>3. p % m = 0 <=> (p \div b) % c = 0
  BY <1>2, ModBcs
<1> QED BY <1>3 DEF csect, p, b, c, m

\* A sector that does not begin a cluster is in the one of the byte before.
LEMMA InsideCluster ==
  ASSUME Transfer, fil.fptr % SS = 0, csect # 0
  PROVE  fil.fptr > 0 /\ (fil.fptr - 1) \div bcs = fil.fptr \div bcs
<1>1. fil.fptr \in Nat /\ bcs \in Nat \ {0}
  BY TransferFacts, BcsFacts DEF Transfer
<1>2. fil.fptr % bcs # 0
  BY ClusterBegins
<1> DEFINE p == fil.fptr
<1> DEFINE b == bcs
<1>3. p \in Nat /\ b \in Nat \ {0} /\ p % b # 0
  BY <1>1, <1>2
<1> HIDE DEF p, b
<1>4. p # 0
  <2>1. 0 < b /\ 0 \in Nat
    BY <1>3
  <2>2. 0 % b = 0
    BY <1>3, <2>1, DivSmall
  <2> QED BY <1>3, <2>2
<1>5. p \in Nat \ {0}
  BY <1>3, <1>4
<1>6. (p - 1) \div b = p \div b
  BY <1>3, <1>5, DivPrev
<1>7. p > 0
  BY <1>5
<1> QED BY <1>6, <1>7 DEF p, b

LEMMA ModParts ==
  ASSUME NEW a \in Nat, NEW b \in Nat \ {0}, NEW c \in Nat \ {0}, NEW m, m = c * b,
         a % m = 0
  PROVE  a % b = 0 /\ (a \div b) % c = 0
<1>1. (a % (c * b) = 0) <=> (a % b = 0 /\ (a \div b) % c = 0)
  BY ModTwice
<1> QED BY <1>1

\* No cluster of a sound volume has the number that get_fat says for an error.
LEMMA SoundCluster ==
  ASSUME NEW n \in DOMAIN Cards, Cards[n].dirs # {}, NEW f \in FsType, Describes(f, Cards[n]),
         NEW c \in Nat, IsCluster(Cards[n], c)
  PROVE  c >= 2 /\ c # Bad
<1> DEFINE m == Clusters(Cards[n].bpb) + 1
<1>1. m < Bad
  BY SoundFacts DEF IsBootRecord
<1>2. m = f.n_fatent - 1 /\ f.n_fatent \in Nat
  BY VolumeNumbers
<1>3. c \in 2..m
  BY DEF IsCluster
<1> HIDE DEF m
<1>4. m \in Int /\ Bad \in Nat
  BY <1>2, FormatAssumption
<1> QED BY <1>1, <1>3, <1>4

\* f_read has the cluster of the next byte.
LEMMA ReadClusterTruth ==
  ASSUME IInv, Transfer, pc \in ReadSteps, NEW v \in Nat, ReadCluster(v), out' = out,
         fil.fptr % SS = 0, fil' \in FilType,
         \/ v = Chain(Mine, fil.sclust)[fil.fptr \div bcs]
         \/ v \in {1, Bad} /\ (hist'.failed \/ Mine.dirs = {})
  PROVE  Truth'
<1>1. CASE v < 2 \/ v = Bad
  <2>1. PICK r \in {"INT_ERR", "DISK_ERR"} : Abort(r)
    BY <1>1 DEF ReadCluster
  <2>2. hist'.failed \/ Mine.dirs = {}
    <3>1. ASSUME Mine.dirs # {}, v = Chain(Mine, fil.sclust)[fil.fptr \div bcs] PROVE FALSE
      <4>1. fil.fptr \in Nat /\ fil.fptr < fil.fsize
        BY TransferFacts, Unread
      <4>2. IsCluster(Mine, v)
        BY <3>1, <4>1, ClusterThere
      <4>3. /\ hist.on \in DOMAIN Cards /\ Mine = Cards[hist.on] /\ fs \in FsType
            /\ Describes(fs, Mine)
        BY TransferFacts DEF Transfer
      <4>4. v >= 2 /\ v # Bad
        BY <3>1, <4>2, <4>3, SoundCluster
      <4> QED BY <1>1, <4>4
    <3> QED BY <3>1
  <2> QED BY <2>1, <2>2, AbortTruth
<1>2. CASE ~(v < 2 \/ v = Bad)
  <2>1. fil' = [fil EXCEPT !.clust = v] /\ GoOn("Data", loc)
    BY <1>2 DEF ReadCluster
  <2>2. v = Chain(Mine, fil.sclust)[fil.fptr \div bcs]
    BY <1>2
  <2>3. /\ Mine' = Mine /\ MyFile' = MyFile /\ bcs' = bcs /\ fil \in FilType /\ loc \in LocType
        /\ call' = call /\ hist'.on = hist.on /\ Given /\ Positioned /\ fil.err = "OK"
        /\ fil.dsect # 0 => fil.buf = <<hist.on, fil.dsect>>
    BY TransferFacts DEF Transfer
  <2>4. /\ fil'.open = fil.open /\ fil'.id = fil.id /\ fil'.sclust = fil.sclust
        /\ fil'.fsize = fil.fsize /\ fil'.err = fil.err /\ fil'.dsect = fil.dsect
        /\ fil'.buf = fil.buf /\ fil'.fptr = fil.fptr /\ fil'.clust = v
    BY <2>1, <2>3 DEF FilType
  <2>5. pc' = "Data" /\ loc'.todo = loc.todo
    BY <2>1, <2>3, GoneOn
  <2>6. Given'
    BY <2>3, <2>4 DEF Given, MyFile
  <2>7. Positioned'
    <3>1. fil'.fptr + loc'.todo = call'.pos
      BY <2>3, <2>4, <2>5 DEF Positioned
    <3>2. fil'.clust = Chain(Mine', fil'.sclust)[fil'.fptr \div bcs'] /\ fil'.fptr % SS = 0
      BY <2>2, <2>3, <2>4
    <3> QED BY <2>5, <3>1, <3>2 DEF Positioned
  <2>8. Same(fil') /\ FatOK'
    BY <2>4, <2>5 DEF Same, FatOK, FatCallers
  <2>9. pc' \in ReadSteps /\ pc' # "Idle" /\ fil'.err = "OK"
    BY <2>3, <2>4, <2>5 DEF ReadSteps
  <2>10. fil'.dsect # 0 => fil'.buf = <<hist.on, fil'.dsect>>
    BY <2>3, <2>4
  <2> QED BY <2>6, <2>7, <2>8, <2>9, <2>10, FileTruth
<1> QED BY <1>1, <1>2

\* a step after which the FIL and what was read are what they were
LEMMA StillReading ==
  ASSUME Transfer, pc \in ReadSteps, pc' \in ReadSteps, fil' = fil, out' = out, Positioned', FatOK'
  PROVE  Truth'
<1>1. /\ MyFile' = MyFile /\ fil \in FilType
      /\ call' = call /\ hist'.on = hist.on /\ Given /\ fil.err = "OK"
      /\ fil.dsect # 0 => fil.buf = <<hist.on, fil.dsect>>
  BY TransferFacts DEF Transfer
<1>2. Given'
  BY <1>1 DEF Given, MyFile
<1>3. Same(fil') /\ fil' \in FilType /\ fil'.err = "OK" /\ pc' # "Idle"
  BY <1>1 DEF Same, ReadSteps
<1>4. fil'.dsect # 0 => fil'.buf = <<hist.on, fil'.dsect>>
  BY <1>1
<1> QED BY <1>2, <1>3, <1>4, FileTruth

\* the loop of f_read
LEMMA ReadTruth ==
  ASSUME IInv, MountOK, OpenOK, Truth, Read, fil' \in FilType, ~hist'.missed
  PROVE  Truth'
<1>1. pc = "Read" /\ hist' = hist /\ UNCHANGED <<volume, op, call, dirp>>
  BY DEF Read, disk
<1>2. Transfer /\ pc \in ReadSteps
  BY <1>1, TransferIf DEF ReadSteps
<1>3. /\ fil.fptr \in Nat /\ fil \in FilType /\ fil.clust \in Nat /\ loc \in LocType
      /\ fil.fptr + loc.todo = call.pos /\ InPlace
      /\ Mine' = Mine /\ bcs' = bcs /\ call' = call /\ hist'.on = hist.on
      /\ fil.err = "OK" /\ (fil.dsect # 0 => fil.buf = <<hist.on, fil.dsect>>)
  BY <1>1, <1>2, TransferFacts DEF Transfer, Positioned
<1>4. CASE fil.fptr % SS # 0 /\ Part(fil)
  <2>1. fil.fptr \in Nat \ {0}
    <3>1. 0 % SS = 0
      BY SizeFacts
    <3> QED BY <1>3, <1>4, <3>1
  <2>2. fil.fptr > 0
    BY <2>1
  <2>3. fil.clust = Chain(Mine, fil.sclust)[fil.fptr \div bcs]
    BY <1>2, <1>3, <1>4, <2>1, <2>2, SameCluster DEF InPlace
  <2>4. fil.dsect # 0 /\ fil.dsect = FileSector(Mine, fil.sclust, fil.fptr \div SS)
    BY <1>3, <1>4 DEF InPlace
  <2>5. Same(fil)
    BY DEF Same
  <2>6. fil.buf = <<hist.on, fil.dsect>>
    BY <1>3, <2>4
  <2> QED BY <1>2, <1>3, <1>4, <2>3, <2>4, <2>5, <2>6, PartTruth
<1>5. CASE fil.fptr % SS = 0 /\ csect # 0 /\ GoOn("Data", loc) /\ UNCHANGED <<fil, out>>
  <2>1. pc' = "Data" /\ loc'.todo = loc.todo
    BY <1>3, <1>5, GoneOn
  <2>2. fil.fptr > 0 /\ (fil.fptr - 1) \div bcs = fil.fptr \div bcs
    BY <1>2, <1>3, <1>5, InsideCluster
  <2>3. fil.clust = Chain(Mine, fil.sclust)[fil.fptr \div bcs]
    BY <1>3, <2>2 DEF InPlace
  <2>4. Positioned'
    BY <1>3, <1>5, <2>1, <2>3 DEF Positioned
  <2>5. FatOK' /\ pc' \in ReadSteps
    BY <2>1 DEF FatOK, FatCallers, ReadSteps
  <2> QED BY <1>2, <1>5, <2>4, <2>5, StillReading
<1>6. CASE fil.fptr = 0 /\ ReadCluster(fil.sclust) /\ out' = out
  <2>1. fil.sclust \in Nat /\ 0 % SS = 0 /\ 0 \div bcs = 0
    <3>1. SS \in Nat \ {0} /\ bcs \in Nat \ {0}
      BY <1>2, SizeFacts, BcsFacts DEF Transfer
    <3>2. 0 < SS /\ 0 < bcs /\ 0 \in Nat
      BY <3>1
    <3>3. 0 % SS = 0 /\ 0 \div bcs = 0
      BY <3>1, <3>2, DivSmall
    <3> QED BY <1>2, <3>3, TransferFacts
  <2>2. fil.sclust = Chain(Mine, fil.sclust)[fil.fptr \div bcs]
    BY <1>2, <1>6, <2>1, FileChain
  <2>3. fil.fptr % SS = 0
    BY <1>6, <2>1
  <2> QED BY <1>2, <1>6, <2>1, <2>2, <2>3, ReadClusterTruth
<1>7. CASE /\ fil.fptr % SS = 0 /\ csect = 0 /\ fil.fptr # 0
           /\ Ask_fat(fil.clust, "FatRead") /\ UNCHANGED <<fil, out>>
  <2>1. pc' = "FatRead" /\ loc'.todo = loc.todo /\ loc'.clst = fil.clust /\ loc'.lo = Zeros
    BY <1>3, <1>7, AskedFat
  <2>2. fil.fptr > 0
    BY <1>3, <1>7
  <2>3. fil.fptr % bcs = 0
    BY <1>2, <1>3, <1>7, ClusterBegins
  <2>4. Positioned'
    BY <1>3, <1>7, <2>1, <2>2, <2>3 DEF Positioned, ReadSteps, InPlace
  <2>5. FatOK' /\ pc' \in ReadSteps
    BY <2>1 DEF FatOK, ReadSteps
  <2> QED BY <1>2, <1>7, <2>4, <2>5, StillReading
<1> QED BY <1>1, <1>4, <1>5, <1>6, <1>7 DEF Read

\* the parts of Data, with the bytes that are read at once
SectorBytes(sect, n, lost) ==
  [k \in 1..n |-> IF (k - 1) \div SS \in lost THEN <<0, 0, 0>>
                  ELSE <<card, sect + (k - 1) \div SS, (k - 1) % SS>>]
Filled(sect, o) ==
  [fil EXCEPT !.dsect = sect, !.buf = IF o = "read" THEN <<card, sect>> ELSE @]

LEMMA DataCases ==
  ASSUME NEW o \in Outcomes, NEW lost, Data(o, lost),
         NEW first, first = clust2sect(fs, fil.clust), NEW sect, sect = first + csect,
         NEW cc, cc = Clip(loc.todo \div SS)
  PROVE  \/ first = 0 /\ Abort("INT_ERR") /\ hist' = hist
         \/ first # 0 /\ Ask(sect, cc, o) /\ o = "error" /\ Abort("DISK_ERR")
         \/ /\ first # 0 /\ cc > 0 /\ Ask(sect, cc, o) /\ o # "error"
            /\ (o = "read" => lost = {})
            /\ Deliver(fil, cc * SS, SectorBytes(sect, cc * SS, lost))
         \/ first # 0 /\ fil.dsect = sect /\ Part(fil) /\ hist' = hist
         \/ first # 0 /\ Ask(sect, 1, o) /\ o = "error" /\ Abort("DISK_ERR")
         \/ first # 0 /\ Ask(sect, 1, o) /\ o # "error" /\ Part(Filled(sect, o))
<1>1. /\ (lost # {}) = (o = "missed" /\ first # 0 /\ cc > 0)
      /\ CASE first = 0 -> o = "read" /\ Abort("INT_ERR") /\ UNCHANGED <<hist, out>>
           [] first # 0 /\ cc > 0 ->
                /\ lost \subseteq 0..(cc - 1)
                /\ ~ready /\ o = "missed" => lost = 0..(cc - 1)
                /\ Ask(sect, cc, o)
                /\ IF o = "error" THEN Abort("DISK_ERR") /\ UNCHANGED out
                   ELSE Deliver(fil, cc * SS, SectorBytes(sect, cc * SS, lost))
           [] first # 0 /\ cc = 0 /\ fil.dsect = sect ->
                o = "read" /\ Part(fil) /\ UNCHANGED hist
           [] OTHER ->
                /\ Ask(sect, 1, o)
                /\ IF o = "error" THEN Abort("DISK_ERR") /\ UNCHANGED out
                   ELSE Part(Filled(sect, o))
  BY DEF Data, SectorBytes, Filled
<1>2. o = "read" => lost = {}
  BY <1>1
<1> QED BY <1>1, <1>2

LEMMA ClipFacts ==
  ASSUME NEW t \in Nat, NEW c \in Nat, NEW k \in 0..(c - 1)
  PROVE  /\ MinOf(t, c - k) \in Nat /\ MinOf(t, c - k) <= t
         /\ \A j \in Nat : j < MinOf(t, c - k) => k + j < c
BY DEF MinOf

\* the sector of byte k of some whole sectors
LEMMA ByteOfSectors ==
  ASSUME NEW k \in Nat, NEW c \in Nat, k < c * SS
  PROVE  k \div SS \in Nat /\ k \div SS < c
<1>1. SS \in Nat \ {0} /\ c * SS = SS * c
  BY SizeFacts
<1>2. k < SS * c
  BY <1>1
<1> QED BY <1>1, <1>2, DivLess, DivMod

\* f_read takes whole sectors.
LEMMA LastOfSum ==
  ASSUME NEW p \in Nat, NEW n \in Nat, n > 0
  PROVE  n - 1 \in Nat /\ n - 1 < n /\ (p + n) - 1 = p + (n - 1)
OBVIOUS

LEMMA SectorsTruth ==
  ASSUME IInv, Transfer, pc = "Data", fil' \in FilType, clust2sect(fs, fil.clust) # 0,
         card = hist.on,
         NEW cc \in Nat, cc > 0, cc <= loc.todo \div SS,
         \A j \in Nat : j < cc => csect + j < fs.csize,
         NEW b, b = [k \in 1..(cc * SS) |->
                       <<card, clust2sect(fs, fil.clust) + csect + (k - 1) \div SS, (k - 1) % SS>>],
         Deliver(fil, cc * SS, b)
  PROVE  Truth'
<1> DEFINE p == fil.fptr
<1> DEFINE n == cc * SS
<1> DEFINE first == clust2sect(fs, fil.clust)
<1>1. /\ p \in Nat /\ SS \in Nat \ {0} /\ loc.todo \in Nat /\ fil \in FilType /\ fil.err = "OK"
      /\ fil.dsect # 0 => fil.buf = <<hist.on, fil.dsect>>
  BY TransferFacts, SizeFacts DEF Transfer
<1>2. /\ fil.clust = Chain(Mine, fil.sclust)[p \div bcs] /\ p % SS = 0
  BY DEF Transfer, Positioned
<1>3. n \in Nat /\ n > 0 /\ n <= loc.todo
  BY <1>1, TimesSS
<1>4. first \in Nat \ {0} /\ csect \in Nat
  <2>1. csect + 0 < fs.csize /\ 0 \in Nat
    OBVIOUS
  <2> QED BY <1>2, <2>1, SectorsHere
<1>5. ASSUME NEW j \in Nat, j < cc
      PROVE  /\ FileSector(Mine, fil.sclust, p \div SS + j) = first + csect + j
             /\ (p \div SS + j) \div fs.csize = p \div bcs
  BY <1>2, <1>5, SectorsHere
<1>6. p \div SS \in Nat
  BY <1>1, DivMod
<1> HIDE DEF n, first
<1>7. ASSUME NEW i \in Nat, i < n
      PROVE  /\ i \div SS \in Nat /\ i \div SS < cc /\ p + i \in Nat
             /\ (p + i) \div SS = p \div SS + i \div SS /\ (p + i) % SS = i % SS
  <2>1. i \div SS \in Nat /\ i \div SS < cc
    BY <1>7, ByteOfSectors DEF n
  <2> HIDE DEF p
  <2>2. (p + i) \div SS = (p \div SS) + (i \div SS) /\ (p + i) % SS = i % SS
    BY <1>1, <1>2, DivAfter
  <2>3. p + i \in Nat
    BY <1>1
  <2> QED BY <2>1, <2>2, <2>3
<1>8. ASSUME NEW k \in 1..n
      PROVE  ByteOf(hist.on, MyFile, p + k - 1) = <<card, first + csect + (k - 1) \div SS, (k - 1) % SS>>
  <2> DEFINE i == k - 1
  <2>1. i \in Nat /\ i < n /\ p + k - 1 = p + i
    BY <1>1, <1>3
  <2> HIDE DEF i
  <2>2. /\ i \div SS \in Nat /\ i \div SS < cc /\ p + i \in Nat
        /\ (p + i) \div SS = p \div SS + i \div SS /\ (p + i) % SS = i % SS
    BY <1>7, <2>1
  <2>3. FileSector(Mine, fil.sclust, p \div SS + i \div SS) = first + csect + i \div SS
    BY <1>5, <2>2
  <2>4. ByteOf(hist.on, MyFile, p + i)
          = <<hist.on, FileSector(Mine, fil.sclust, (p + i) \div SS), (p + i) % SS>>
    BY <2>2, FileByte
  <2>5. ByteOf(hist.on, MyFile, p + i) = <<card, first + csect + i \div SS, i % SS>>
    BY <2>2, <2>3, <2>4
  <2> QED BY <2>1, <2>5 DEF i
<1>9. b = [k \in 1..n |-> ByteOf(hist.on, MyFile, p + k - 1)]
  BY <1>8 DEF n, first
<1>10. fil' = [fil EXCEPT !.fptr = @ + n]
  BY DEF Deliver, n
<1>11. /\ fil'.fptr = p + n /\ fil'.clust = fil.clust /\ fil'.sclust = fil.sclust
  BY <1>1, <1>10 DEF FilType
<1>12. InPlace'
  <2> HIDE DEF p
  <2> DEFINE i == n - 1
  <2>1. i \in Nat /\ i < n /\ (p + n) - 1 = p + i
    BY <1>1, <1>3, LastOfSum
  <2> HIDE DEF i
  <2>2. /\ i \div SS \in Nat /\ i \div SS < cc /\ p + i \in Nat
        /\ (p + i) \div SS = p \div SS + i \div SS
    BY <1>7, <2>1
  <2>3. (p \div SS + i \div SS) \div fs.csize = p \div bcs
    BY <1>5, <2>2
  <2>4. (p + i) \div bcs = ((p + i) \div SS) \div fs.csize
    BY <2>2, FileByte
  <2>5. (p + i) \div bcs = p \div bcs
    BY <2>2, <2>3, <2>4
  <2>6. (p + n) % SS = 0
    <3>1. n % SS = 0
      <4>1. n = SS * cc + 0 /\ cc \in Int /\ 0 \in 0..(SS - 1)
        BY <1>1 DEF n
      <4> QED BY <1>1, <1>3, <4>1, DivUnique
    <3>2. (p + n) % SS = n % SS
      BY <1>1, <1>2, <1>3, DivAfter
    <3> QED BY <3>1, <3>2
  <2>7. Mine' = Mine /\ bcs' = bcs
    BY TransferFacts
  <2>8. fil'.clust = Chain(Mine', fil'.sclust)[(fil'.fptr - 1) \div bcs']
    BY <1>2, <1>11, <2>1, <2>5, <2>7
  <2>9. fil'.fptr % SS = 0
    BY <1>11, <2>6
  <2> QED BY <2>8, <2>9 DEF InPlace
<1>13. Same(fil) /\ pc \in ReadSteps /\ Deliver(fil, n, b)
  BY DEF Same, ReadSteps, n
<1> QED BY <1>1, <1>3, <1>9, <1>12, <1>13, DeliverTruth

LEMMA DataTruth ==
  ASSUME IInv, MountOK, OpenOK, Truth, NEW o \in Outcomes, NEW lost, Data(o, lost),
         fil' \in FilType, ~hist'.missed
  PROVE  Truth'
<1> DEFINE first == clust2sect(fs, fil.clust)
<1> DEFINE sect == first + csect
<1> DEFINE cc == Clip(loc.todo \div SS)
<1>1. pc = "Data" /\ pc \in ReadSteps /\ UNCHANGED <<volume, op, call, dirp>>
  BY DEF Data, ReadSteps
<1>2. /\ fs \in FsType /\ fil \in FilType /\ loc \in LocType /\ hist \in HistType
  BY <1>1, Steady DEF IInv, DiskOK
<1>3. /\ first \in Nat /\ csect \in Nat /\ csect \in 0..(fs.csize - 1) /\ fs.csize \in Nat
      /\ loc.todo \in Nat
  <2>1. fil.clust \in Nat /\ loc.todo \in Nat /\ fs.csize \in Nat
    BY <1>2, FilFields, LocFields, FsFields
  <2>2. csect \in 0..(fs.csize - 1)
    BY <1>2, CsectFacts
  <2>3. first \in Nat
    BY <1>2, <2>1, ClusterPlace
  <2>4. csect \in Nat
    BY <2>1, <2>2
  <2> QED BY <2>1, <2>2, <2>3, <2>4
<1>4. sect \in Nat
  <2> HIDE DEF first
  <2> QED BY <1>3
<1>5. \/ first = 0 /\ Abort("INT_ERR") /\ hist' = hist
      \/ first # 0 /\ Ask(sect, cc, o) /\ o = "error" /\ Abort("DISK_ERR")
      \/ /\ first # 0 /\ cc > 0 /\ Ask(sect, cc, o) /\ o # "error"
         /\ (o = "read" => lost = {})
         /\ Deliver(fil, cc * SS, SectorBytes(sect, cc * SS, lost))
      \/ first # 0 /\ fil.dsect = sect /\ Part(fil) /\ hist' = hist
      \/ first # 0 /\ Ask(sect, 1, o) /\ o = "error" /\ Abort("DISK_ERR")
      \/ first # 0 /\ Ask(sect, 1, o) /\ o # "error" /\ Part(Filled(sect, o))
  BY DataCases
<1> HIDE DEF first, sect, cc
<1>6. ASSUME NEW n, Ask(sect, n, o)
      PROVE  /\ ~hist.missed /\ hist'.on = hist.on /\ (hist.failed => hist'.failed)
             /\ o = "error" => hist'.failed
             /\ o # "error" => o = "read" /\ card = hist.on
  BY <1>2, <1>4, <1>6, Asked
<1>7. ~hist.missed /\ hist'.on = hist.on /\ (hist.failed => hist'.failed)
  BY <1>5, <1>6
<1>8. Transfer
  BY <1>1, <1>7, TransferIf
<1>9. /\ fil.clust = Chain(Mine, fil.sclust)[fil.fptr \div bcs] /\ fil.fptr \in Nat
      /\ fil.err = "OK" /\ (fil.dsect # 0 => fil.buf = <<hist.on, fil.dsect>>)
      /\ hist.on \in DOMAIN Cards /\ Describes(fs, Mine) /\ Mine = Cards[hist.on]
      /\ fil.clust \in Nat /\ Same(fil)
  BY <1>1, <1>8, TransferFacts DEF Transfer, Positioned, Same
<1>10. CASE first = 0 /\ Abort("INT_ERR")
  <2>1. Mine.dirs = {}
    <3>1. SUFFICES ASSUME Mine.dirs # {} PROVE FALSE
      OBVIOUS
    <3>2. IsCluster(Mine, fil.clust)
      BY <1>1, <1>8, <1>9, <3>1, Unread, ClusterThere
    <3>3. first # 0
      BY <1>2, <1>9, <3>2, ClusterSector DEF first
    <3> QED BY <1>10, <3>3
  <2> QED BY <1>8, <1>10, <2>1, AbortTruth
<1>11. ASSUME NEW n, Ask(sect, n, o), o = "error", Abort("DISK_ERR")
       PROVE  Truth'
  BY <1>6, <1>8, <1>11, AbortTruth
<1>12. CASE /\ first # 0 /\ cc > 0 /\ Ask(sect, cc, o) /\ o # "error"
            /\ (o = "read" => lost = {})
            /\ Deliver(fil, cc * SS, SectorBytes(sect, cc * SS, lost))
  <2> DEFINE q == loc.todo \div SS
  <2>1. q \in Nat
    BY <1>3, SizeFacts, DivMod
  <2>2. cc \in Nat /\ cc <= q /\ \A j \in Nat : j < cc => csect + j < fs.csize
    <3>1. cc = MinOf(q, fs.csize - csect)
      BY DEF cc, Clip
    <3> DEFINE k == csect
    <3> DEFINE c == fs.csize
    <3>2. k \in 0..(c - 1) /\ c \in Nat
      BY <1>3
    <3> HIDE DEF q, k, c
    <3>3. /\ MinOf(q, c - k) \in Nat /\ MinOf(q, c - k) <= q
          /\ \A j \in Nat : j < MinOf(q, c - k) => k + j < c
      BY <2>1, <3>2, ClipFacts
    <3> QED BY <3>1, <3>3 DEF k, c
  <2>3. lost = {} /\ card = hist.on
    BY <1>6, <1>12
  <2> DEFINE b == [k \in 1..(cc * SS) |-> <<card, sect + (k - 1) \div SS, (k - 1) % SS>>]
  <2>4. SectorBytes(sect, cc * SS, lost) = b
    BY <2>3 DEF SectorBytes
  <2>5. b = [k \in 1..(cc * SS) |->
               <<card, clust2sect(fs, fil.clust) + csect + (k - 1) \div SS, (k - 1) % SS>>]
    BY DEF sect, first
  <2>6. Deliver(fil, cc * SS, b)
    BY <1>12, <2>4
  <2>7. clust2sect(fs, fil.clust) # 0
    BY <1>12 DEF first
  <2> HIDE DEF b
  <2> QED BY <1>1, <1>8, <1>12, <2>2, <2>3, <2>5, <2>6, <2>7, SectorsTruth
<1>13. ASSUME first # 0
       PROVE  sect = FileSector(Mine, fil.sclust, fil.fptr \div SS) /\ sect # 0
  <2>1. csect + 0 < fs.csize /\ 0 \in Nat
    BY <1>3
  <2>2. clust2sect(fs, fil.clust) # 0
    BY <1>13 DEF first
  <2> DEFINE i == fil.fptr \div SS
  <2>3. /\ FileSector(Mine, fil.sclust, i + 0) = first + csect + 0
        /\ first \in Nat \ {0} /\ csect \in Nat
    BY <1>8, <1>9, <2>1, <2>2, SectorsHere DEF first
  <2>4. i \in Nat
    BY <1>9, SizeFacts, DivMod
  <2> HIDE DEF i
  <2>5. i + 0 = i /\ first + csect + 0 = first + csect /\ first + csect # 0
    BY <2>3, <2>4
  <2> QED BY <2>3, <2>5 DEF sect, i
<1>14. CASE first # 0 /\ fil.dsect = sect /\ Part(fil)
  <2>1. /\ fil.dsect # 0 /\ fil.buf = <<hist.on, fil.dsect>>
        /\ fil.dsect = FileSector(Mine, fil.sclust, fil.fptr \div SS)
    BY <1>9, <1>13, <1>14
  <2> QED BY <1>1, <1>2, <1>8, <1>9, <1>14, <2>1, PartTruth
<1>15. CASE first # 0 /\ Ask(sect, 1, o) /\ o # "error" /\ Part(Filled(sect, o))
  <2> DEFINE f == Filled(sect, o)
  <2>1. o = "read" /\ card = hist.on
    BY <1>6, <1>15
  <2>2. f = [fil EXCEPT !.dsect = sect, !.buf = <<hist.on, sect>>]
    BY <2>1 DEF Filled
  <2>3. <<hist.on, sect>> \in Buffers
    BY <1>4, <1>9, SectorRead
  <2> HIDE DEF f
  <2>4. /\ f \in FilType /\ f.dsect = sect /\ f.buf = <<hist.on, sect>>
        /\ f.open = fil.open /\ f.id = fil.id /\ f.sclust = fil.sclust /\ f.fsize = fil.fsize
        /\ f.err = fil.err /\ f.fptr = fil.fptr /\ f.clust = fil.clust
    BY <1>2, <1>4, <2>2, <2>3 DEF FilType
  <2>5. /\ Same(f) /\ f.err = "OK" /\ f.dsect # 0 /\ f.buf = <<hist.on, f.dsect>>
        /\ f.dsect = FileSector(Mine, fil.sclust, fil.fptr \div SS)
        /\ f.clust = Chain(Mine, fil.sclust)[fil.fptr \div bcs]
    BY <1>9, <1>13, <1>15, <2>4 DEF Same
  <2>6. Part(f)
    BY <1>15 DEF f
  <2> QED BY <1>1, <1>8, <2>4, <2>5, <2>6, PartTruth
<1> QED BY <1>5, <1>10, <1>11, <1>12, <1>14, <1>15

LEMMA NextBlock ==
  ASSUME NEW a \in Nat, NEW b \in Nat \ {0}, a % b = 0
  PROVE  (a + b) \div b = (a \div b) + 1 /\ (a + b) % b = 0
<1> DEFINE q == a \div b
<1>1. q \in Nat /\ a = b * q + (a % b)
  BY DivMod
<1>2. q \in Nat /\ a = b * q
  BY <1>1
<1> HIDE DEF q
<1> DEFINE c == a + b
<1> DEFINE r == q + 1
<1>3. c = b * r + 0 /\ r \in Int /\ c \in Nat /\ 0 \in 0..(b - 1)
  BY <1>2
<1> HIDE DEF c, r
<1>4. c \div b = r /\ c % b = 0
  BY <1>3, DivUnique
<1> QED BY <1>4 DEF q, c, r

LEMMA SumShifts ==
  ASSUME NEW a \in Nat, NEW t \in Nat, NEW b \in Nat, NEW p, a + t = p
  PROVE  (a + b) + (t - b) = p
OBVIOUS

LEMMA BeforeEnd ==
  ASSUME NEW a \in Nat, NEW t \in Nat, NEW b \in Nat, NEW s \in Nat, a + t <= s, t > b
  PROVE  a + b \in Nat /\ a + b < s /\ a < s
OBVIOUS

\* the seek has not got to its last cluster
LEMMA Unsought ==
  ASSUME IInv, Transfer, pc \in {"Seek", "FatSeek"}, loc.todo > bcs
  PROVE  fil.fptr + bcs \in Nat /\ fil.fptr + bcs < fil.fsize /\ fil.fptr < fil.fsize
<1>1. fil.fptr \in Nat /\ loc.todo \in Nat /\ fil.fsize \in Nat /\ bcs \in Nat
  BY TransferFacts, BcsFacts DEF Transfer
<1>2. fil.fptr + loc.todo <= fil.fsize
  BY DEF IInv, Within
<1> DEFINE a == fil.fptr
<1> DEFINE t == loc.todo
<1> DEFINE b == bcs
<1> DEFINE s == fil.fsize
<1>3. a \in Nat /\ t \in Nat /\ b \in Nat /\ s \in Nat /\ a + t <= s /\ t > b
  BY <1>1, <1>2
<1> HIDE DEF a, b, s, t
<1>4. a + b \in Nat /\ a + b < s /\ a < s
  BY <1>3, BeforeEnd
<1> QED BY <1>4 DEF a, b, s

\* f_lseek has the next cluster.
LEMMA SeekClusterTruth ==
  ASSUME IInv, Transfer, pc = "FatSeek", NEW v \in Nat, SeekCluster(v), fil' \in FilType,
         \/ v = Chain(Mine, fil.sclust)[fil.fptr \div bcs + 1]
         \/ v \in {1, Bad} /\ (hist'.failed \/ Mine.dirs = {})
  PROVE  Truth'
<1>1. /\ Mine' = Mine /\ bcs' = bcs /\ fil \in FilType /\ loc \in LocType
      /\ fil.fptr \in Nat /\ loc.todo \in Nat /\ bcs \in Nat \ {0}
      /\ call' = call /\ hist'.on = hist.on /\ Positioned /\ fil.err = "OK"
      /\ fil.dsect # 0 => fil.buf = <<hist.on, fil.dsect>>
      /\ hist.on \in DOMAIN Cards /\ Mine = Cards[hist.on] /\ fs \in FsType
      /\ Describes(fs, Mine)
  BY TransferFacts, BcsFacts DEF Transfer
<1>2. loc.todo > bcs
  BY DEF IInv, Within
<1>3. /\ fil.fptr % bcs = 0 /\ fil.fptr + loc.todo = call.pos
  BY <1>1 DEF Positioned
<1>4. /\ (fil.fptr + bcs) \div bcs = fil.fptr \div bcs + 1 /\ (fil.fptr + bcs) % bcs = 0
  <2> DEFINE a == fil.fptr
  <2> DEFINE b == bcs
  <2>1. a \in Nat /\ b \in Nat \ {0} /\ a % b = 0
    BY <1>1, <1>3
  <2> HIDE DEF a, b
  <2>2. (a + b) \div b = (a \div b) + 1 /\ (a + b) % b = 0
    BY <2>1, NextBlock
  <2> QED BY <2>2 DEF a, b
<1>5. CASE v = Bad \/ ~InFat(v)
  <2>1. PICK r \in {"INT_ERR", "DISK_ERR"} : Abort(r)
    BY <1>5 DEF SeekCluster
  <2>2. hist'.failed \/ Mine.dirs = {}
    <3>1. ASSUME Mine.dirs # {}, v = Chain(Mine, fil.sclust)[fil.fptr \div bcs + 1] PROVE FALSE
      <4>1. fil.fptr + bcs \in Nat /\ fil.fptr + bcs < fil.fsize
        BY <1>2, Unsought
      <4>2. IsCluster(Mine, Chain(Mine, fil.sclust)[(fil.fptr + bcs) \div bcs])
        BY <3>1, <4>1, ClusterThere
      <4>3. IsCluster(Mine, v)
        BY <1>4, <3>1, <4>2
      <4>4. v # Bad /\ InFat(v)
        BY <1>1, <3>1, <4>3, SoundCluster, ClusterInFat
      <4> QED BY <1>5, <4>4
    <3> QED BY <3>1
  <2> QED BY <2>1, <2>2, AbortTruth
<1>6. CASE ~(v = Bad \/ ~InFat(v))
  <2>1. /\ fil' = [fil EXCEPT !.clust = v, !.fptr = @ + bcs]
        /\ GoOn("Seek", [loc EXCEPT !.todo = @ - bcs])
    BY <1>6 DEF SeekCluster
  <2>2. v = Chain(Mine, fil.sclust)[fil.fptr \div bcs + 1]
    <3>1. ~InFat(1)
      BY DEF InFat
    <3> QED BY <1>6, <3>1
  <2>3. /\ fil'.open = fil.open /\ fil'.id = fil.id /\ fil'.sclust = fil.sclust
        /\ fil'.fsize = fil.fsize /\ fil'.err = fil.err /\ fil'.dsect = fil.dsect
        /\ fil'.buf = fil.buf /\ fil'.fptr = fil.fptr + bcs /\ fil'.clust = v
    BY <1>1, <2>1 DEF FilType
  <2>4. pc' = "Seek" /\ loc'.todo = loc.todo - bcs
    BY <1>1, <2>1 DEF GoOn, LocType
  <2>5. fil'.fptr + loc'.todo = call'.pos
    <3> DEFINE a == fil.fptr
    <3> DEFINE t == loc.todo
    <3> DEFINE b == bcs
    <3> DEFINE p == call.pos
    <3>1. a \in Nat /\ t \in Nat /\ b \in Nat /\ a + t = p
      BY <1>1, <1>3
    <3> HIDE DEF a, t, b, p
    <3>2. (a + b) + (t - b) = p
      BY <3>1, SumShifts
    <3> QED BY <1>1, <2>3, <2>4, <3>2 DEF a, t, b, p
  <2>6. Positioned'
    <3>1. fil'.fptr % bcs' = 0 /\ fil'.clust = Chain(Mine', fil'.sclust)[fil'.fptr \div bcs']
      BY <1>1, <1>4, <2>2, <2>3
    <3> QED BY <2>4, <2>5, <3>1 DEF Positioned
  <2>7. Same(fil') /\ FatOK'
    BY <2>3, <2>4 DEF Same, FatOK, FatCallers
  <2>8. pc' \in SeekSteps /\ pc' \notin ReadSteps /\ pc' # "Idle" /\ fil'.err = "OK"
    BY <1>1, <2>3, <2>4 DEF SeekSteps, ReadSteps
  <2>9. fil'.dsect # 0 => fil'.buf = <<hist.on, fil'.dsect>>
    BY <1>1, <2>3
  <2> QED BY <2>6, <2>7, <2>8, <2>9, FileTruth
<1> QED BY <1>5, <1>6

\* get_fat for f_read and f_lseek
LEMMA FatFileTruth ==
  ASSUME IInv, MountOK, OpenOK, Truth, pc \in {"FatRead", "FatSeek"}, NEW o \in Outcomes,
         GetFat(o), fil' \in FilType, ~hist'.missed
  PROVE  Truth'
<1>1. ~hist.missed /\ hist'.on = hist.on /\ FatGave /\ (hist.failed => hist'.failed)
  BY FatGiven DEF Truth
<1>2. /\ UNCHANGED <<volume, op, call, out>>
      /\ \A v : GotFat(v) => /\ dirp' = dirp
                             /\ pc = "FatRead" => ReadCluster(v)
                             /\ pc = "FatSeek" => SeekCluster(v)
  BY DEF GetFat, GotFat
<1>3. dirp' = dirp
  BY <1>1, <1>2 DEF FatGave
<1>4. Transfer
  BY <1>1, <1>2, <1>3, TransferIf DEF ReadSteps, SeekSteps
<1>5. /\ Mine' = Mine /\ MyFile' = MyFile /\ bcs' = bcs /\ fil \in FilType /\ loc \in LocType
      /\ fil.fptr \in Nat /\ bcs \in Nat \ {0} /\ fil.err = "OK"
      /\ fil.dsect # 0 => fil.buf = <<hist.on, fil.dsect>>
      /\ call' = call /\ hist'.on = hist.on /\ Positioned /\ hist.on \in DOMAIN Cards
      /\ Mine = Cards[hist.on] /\ fs \in FsType /\ Describes(fs, Mine) /\ fil.clust \in Nat
      /\ pc \in ReadSteps => Given
  BY <1>4, TransferFacts, BcsFacts DEF Transfer
<1>6. loc.clst = fil.clust /\ fil.fptr % bcs = 0
  BY <1>5 DEF Positioned

\* the cluster it is at, of byte p, and the next one
<1> DEFINE p == IF pc = "FatRead" THEN fil.fptr - 1 ELSE fil.fptr
<1>7. /\ p \in Nat /\ p < fil.fsize /\ fil.clust = Chain(Mine, fil.sclust)[p \div bcs]
      /\ pc = "FatRead" => p \div bcs + 1 = fil.fptr \div bcs
  <2>1. CASE pc = "FatRead"
    <3>1. fil.fptr > 0 /\ fil.clust = Chain(Mine, fil.sclust)[(fil.fptr - 1) \div bcs]
      BY <1>5, <2>1 DEF Positioned
    <3>2. fil.fptr < fil.fsize /\ fil.fsize \in Nat
      BY <1>4, <2>1, Unread, TransferFacts DEF ReadSteps
    <3> DEFINE a == fil.fptr
    <3> DEFINE b == bcs
    <3>3. a \in Nat \ {0} /\ b \in Nat \ {0} /\ a % b = 0
      BY <1>5, <1>6, <3>1
    <3> HIDE DEF a, b
    <3>4. (a - 1) \div b = (a \div b) - 1 /\ a \div b \in Nat
      BY <3>3, DivPrev, DivMod
    <3>5. (a - 1) \div b + 1 = a \div b
      BY <3>4
    <3>6. a - 1 \in Nat /\ a - 1 < fil.fsize
      BY <3>2, <3>3 DEF a
    <3> QED BY <2>1, <3>1, <3>5, <3>6 DEF a, b
  <2>2. CASE pc = "FatSeek"
    <3>1. loc.todo > bcs
      BY <2>2 DEF IInv, Within
    <3>2. fil.fptr < fil.fsize
      BY <1>4, <2>2, <3>1, Unsought
    <3>3. fil.clust = Chain(Mine, fil.sclust)[fil.fptr \div bcs]
      BY <1>5, <2>2 DEF Positioned
    <3> QED BY <1>5, <2>2, <3>2, <3>3
  <2> QED BY <2>1, <2>2
<1>8. p \div bcs \in Nat
  BY <1>5, <1>7, DivMod
<1>9. FatEntry(Mine, loc.clst) = Chain(Mine, fil.sclust)[p \div bcs + 1]
  BY <1>4, <1>6, <1>7, <1>8, FileChain
<1>10. ~InFat(loc.clst) => Mine.dirs = {}
  <2>1. ASSUME Mine.dirs # {} PROVE InFat(loc.clst)
    <3>1. IsCluster(Mine, fil.clust)
      BY <1>4, <1>7, <2>1, ClusterThere
    <3> QED BY <1>5, <1>6, <3>1, ClusterInFat
  <2> QED BY <2>1
<1>11. ASSUME NEW v \in Nat, GotFat(v),
              \/ v = FatEntry(Mine, loc.clst)
              \/ v \in {1, Bad} /\ (hist'.failed \/ Mine.dirs = {})
       PROVE  Truth'
  <2>1. CASE pc = "FatRead"
    <3>1. ReadCluster(v) /\ out' = out /\ pc \in ReadSteps
      BY <1>2, <1>11, <2>1 DEF ReadSteps
    <3>2. \/ v = Chain(Mine, fil.sclust)[fil.fptr \div bcs]
          \/ v \in {1, Bad} /\ (hist'.failed \/ Mine.dirs = {})
      BY <1>7, <1>9, <1>11, <2>1
    <3>3. fil.fptr % SS = 0
      <4>1. SS \in Nat \ {0} /\ fs.csize \in Nat \ {0} /\ bcs = fs.csize * SS
        BY <1>5, SizeFacts, FsFields DEF bcs
      <4> QED BY <1>5, <1>6, <4>1, ModParts
    <3> QED BY <1>4, <3>1, <3>2, <3>3, ReadClusterTruth
  <2>2. CASE pc = "FatSeek"
    <3>1. SeekCluster(v)
      BY <1>2, <1>11, <2>2
    <3>2. p = fil.fptr
      BY <2>2
    <3>3. \/ v = Chain(Mine, fil.sclust)[fil.fptr \div bcs + 1]
          \/ v \in {1, Bad} /\ (hist'.failed \/ Mine.dirs = {})
      BY <1>9, <1>11, <3>2
    <3> QED BY <1>4, <2>2, <3>1, <3>3, SeekClusterTruth
  <2> QED BY <2>1, <2>2
<1>12. CASE /\ fs.fs_type = "FAT12" /\ pc' = pc
            /\ loc' = [loc EXCEPT !.lo = <<hist.on, FatAt(loc.clst, 0)>>, !.steps = @ + 1]
            /\ UNCHANGED <<fil, dirp, more, res>>
  <2>1. /\ loc'.lo = <<hist.on, FatAt(loc.clst, 0)>> /\ loc'.clst = loc.clst
        /\ loc'.todo = loc.todo
    BY <1>5, <1>12 DEF LocType
  <2>2. fs' = fs
    BY <1>2 DEF volume
  <2>3. FatOK'
    BY <1>1, <1>12, <2>1, <2>2 DEF FatOK, FatAt
  <2>4. Positioned'
    <3>1. InPlace => InPlace'
      BY <1>5, <1>12 DEF InPlace
    <3> QED BY <1>5, <1>12, <2>1, <3>1 DEF Positioned
  <2>5. pc' \in ReadSteps => Given'
    BY <1>2, <1>5, <1>12 DEF Given, MyFile
  <2>6. Same(fil') /\ fil'.err = "OK" /\ (fil'.dsect # 0 => fil'.buf = <<hist.on, fil'.dsect>>)
    BY <1>5, <1>12 DEF Same
  <2>7. pc' \in ReadSteps \cup SeekSteps /\ pc' # "Idle"
    BY <1>12 DEF ReadSteps, SeekSteps
  <2> QED BY <1>4, <2>3, <2>4, <2>5, <2>6, <2>7, FileTruth
<1> HIDE DEF p
<1>13. 1 \in Nat /\ Bad \in Nat /\ FatEntry(Mine, loc.clst) \in Nat
  BY <1>5, FormatAssumption, EntryType
<1> QED BY <1>1, <1>10, <1>11, <1>12, <1>13 DEF FatGave

\* the last cluster of a seek, from base on
LEMMA LastCluster ==
  ASSUME Transfer, NEW base \in Nat, NEW t \in Nat, t > 0, t <= bcs, base % bcs = 0
  PROVE  /\ base + t \in Nat \ {0} /\ (base + t - 1) \div bcs = base \div bcs
         /\ (base + t) % SS = t % SS /\ (base + t) \div SS = base \div SS + t \div SS
         /\ (base \div SS) % fs.csize = 0
<1> DEFINE b == bcs
<1>1. b \in Nat \ {0} /\ t <= b /\ base % b = 0
  BY BcsFacts DEF Transfer
<1>2. SS \in Nat \ {0} /\ fs.csize \in Nat \ {0} /\ b = fs.csize * SS
  BY SizeFacts, FsFields DEF Transfer, bcs
<1>3. base % SS = 0 /\ (base \div SS) % fs.csize = 0
  <2> DEFINE c == fs.csize
  <2>1. c \in Nat \ {0} /\ b = c * SS /\ SS \in Nat \ {0} /\ base % b = 0
    BY <1>1, <1>2
  <2> HIDE DEF b, c
  <2>2. base % SS = 0 /\ (base \div SS) % c = 0
    BY <2>1, ModParts
  <2> QED BY <2>2 DEF c
<1> HIDE DEF b
<1>4. base + t \in Nat \ {0} /\ base + t - 1 = base + (t - 1) /\ t - 1 \in Nat /\ 0 + (t - 1) < b
  BY <1>1
<1>5. (base + (t - 1)) \div b = base \div b
  BY <1>1, <1>4, DivWithin
<1>6. (base + t) \div SS = (base \div SS) + (t \div SS) /\ (base + t) % SS = t % SS
  BY <1>2, <1>3, DivAfter
<1> QED BY <1>3, <1>4, <1>5, <1>6 DEF b

\* the sector of the byte it leads to
LEMMA LastFileSector ==
  ASSUME Transfer, NEW base \in Nat, loc.todo > 0, loc.todo <= bcs, base % bcs = 0,
         fil.clust = Chain(Mine, fil.sclust)[base \div bcs],
         clust2sect(fs, fil.clust) # 0, loc.todo \div SS < fs.csize
  PROVE  FileSector(Mine, fil.sclust, (base + loc.todo) \div SS) = nsect /\ nsect # 0
         /\ nsect \in Nat
<1> DEFINE t == loc.todo
<1> DEFINE j == t \div SS
<1> DEFINE s == clust2sect(fs, fil.clust)
<1>1. t \in Nat
  BY TransferFacts
<1>2. j \in Nat
  BY <1>1, SizeFacts, DivMod
<1>3. (base \div SS) % fs.csize = 0 /\ (base + t) \div SS = base \div SS + j
  BY <1>1, LastCluster
<1>4. 0 + j < fs.csize
  BY <1>2
<1>7. ((base \div SS) % fs.csize) + j < fs.csize
  BY <1>3, <1>4
<1> HIDE DEF j
<1>5. /\ FileSector(Mine, fil.sclust, base \div SS + j)
            = s + ((base \div SS) % fs.csize) + j
      /\ s \in Nat \ {0}
  BY <1>2, <1>7, SectorsAt
<1>8. FileSector(Mine, fil.sclust, base \div SS + j) = s + 0 + j
  BY <1>3, <1>5
<1> HIDE DEF s
<1>6. s + 0 + j = s + j /\ s + j # 0 /\ s + j \in Nat
  BY <1>2, <1>5
<1> QED BY <1>3, <1>6, <1>8 DEF nsect, s, j

\* f_lseek ends at byte base + todo.
LEMMA SeekPlace ==
  ASSUME Transfer, NEW base \in Nat, NEW t \in Nat, t > 0, t <= bcs, base % bcs = 0,
         fil.clust = Chain(Mine, fil.sclust)[base \div bcs],
         fil'.clust = fil.clust, fil'.sclust = fil.sclust, fil'.fptr = base + t,
         t % SS # 0 =>
           fil'.dsect # 0 /\ fil'.dsect = FileSector(Mine, fil.sclust, (base + t) \div SS)
  PROVE  InPlace' /\ fil'.fptr > 0
         /\ fil'.clust = Chain(Mine', fil'.sclust)[(fil'.fptr - 1) \div bcs']
<1>1. Mine' = Mine /\ bcs' = bcs
  BY TransferFacts
<1>2. /\ base + t \in Nat \ {0} /\ (base + t - 1) \div bcs = base \div bcs
      /\ (base + t) % SS = t % SS
  BY LastCluster
<1>3. fil'.fptr > 0
  BY <1>2
<1>4. fil'.clust = Chain(Mine', fil'.sclust)[(fil'.fptr - 1) \div bcs']
  BY <1>1, <1>2
<1>5. fil'.fptr % SS # 0 =>
        fil'.dsect # 0 /\ fil'.dsect = FileSector(Mine', fil'.sclust, fil'.fptr \div SS)
  BY <1>1, <1>2
<1> QED BY <1>3, <1>4, <1>5 DEF InPlace

LEMMA ToTheEnd ==
  ASSUME NEW a \in Nat, NEW t \in Nat, NEW p \in Nat, a + t = p, t > 0
  PROVE  (a + t) - t = a /\ t <= a + t
OBVIOUS

LEMMA NotWhole ==
  ASSUME NEW t \in Nat, t <= bcs, t % SS # 0, fs \in FsType
  PROVE  t < bcs
<1> DEFINE b == bcs
<1>1. SS \in Nat \ {0} /\ fs.csize \in Nat \ {0} /\ b = fs.csize * SS /\ b \in Nat \ {0}
  BY SizeFacts, FsFields, BcsFacts DEF bcs
<1>2. b % SS = 0
  <2> DEFINE c == fs.csize
  <2>1. c \in Nat \ {0} /\ b = c * SS
    BY <1>1
  <2> HIDE DEF b, c
  <2>2. b = SS * c + 0 /\ c \in Int /\ 0 \in 0..(SS - 1)
    BY <1>1, <2>1
  <2> QED BY <1>1, <2>2, DivUnique
<1>3. t <= b /\ t # b
  BY <1>2
<1> HIDE DEF b
<1>4. t < b
  BY <1>1, <1>3
<1> QED BY <1>4 DEF b

\* f_lseek moves in the file.
LEMMA SeekTruth ==
  ASSUME IInv, MountOK, OpenOK, Truth, Seek, fil' \in FilType, ~hist'.missed
  PROVE  Truth'
<1> DEFINE there == [fil EXCEPT !.fptr = @ + loc.todo]
<1> DEFINE inside == loc.todo % SS # 0
<1> DEFINE first == clust2sect(fs, fil.clust)
<1>1. pc = "Seek" /\ hist' = hist /\ UNCHANGED <<volume, op, call, dirp>>
  BY DEF Seek, disk
<1>2. Transfer /\ op = "lseek" /\ pc \notin ReadSteps
  BY <1>1, TransferIf DEF ReadSteps, SeekSteps, Transfer
<1>3. /\ fil \in FilType /\ loc \in LocType /\ fil.fptr \in Nat /\ loc.todo \in Nat
      /\ fil.clust \in Nat /\ Mine' = Mine /\ bcs' = bcs /\ bcs \in Nat \ {0}
      /\ call' = call /\ hist'.on = hist.on /\ Positioned /\ fil.err = "OK"
      /\ fil.dsect # 0 => fil.buf = <<hist.on, fil.dsect>>
      /\ hist.on \in DOMAIN Cards /\ Mine = Cards[hist.on] /\ fs \in FsType
      /\ Describes(fs, Mine)
  BY <1>2, TransferFacts, BcsFacts DEF Transfer
<1>4. /\ fil.fptr + loc.todo = call.pos /\ fil.fptr % bcs = 0
      /\ fil.clust = Chain(Mine, fil.sclust)[fil.fptr \div bcs]
  BY <1>1, <1>3 DEF Positioned
<1>5. loc.todo > 0 /\ fil.fptr + loc.todo <= fil.fsize
  BY <1>1 DEF IInv, Within, SeekSteps
<1>6. /\ there \in FilType
      /\ there.open = fil.open /\ there.id = fil.id /\ there.sclust = fil.sclust
      /\ there.fsize = fil.fsize /\ there.err = fil.err /\ there.dsect = fil.dsect
      /\ there.buf = fil.buf /\ there.clust = fil.clust /\ there.fptr = fil.fptr + loc.todo
  BY <1>3 DEF FilType
<1>7. \/ loc.todo > bcs /\ Ask_fat(fil.clust, "FatSeek") /\ fil' = fil
      \/ /\ first = 0 /\ fil' = [there EXCEPT !.err = "INT_ERR"] /\ Return("INT_ERR")
      \/ /\ loc.todo <= bcs /\ inside /\ first # 0 /\ fil' = there /\ GoOn("Fill", loc)
      \/ /\ ~(loc.todo > bcs) /\ (inside => first # 0 /\ fil.dsect = nsect)
         /\ fil' = there /\ Return("OK")
  <2>1. /\ pc = "Seek"
        /\ CASE loc.todo > bcs -> Ask_fat(fil.clust, "FatSeek") /\ UNCHANGED fil
               [] loc.todo <= bcs /\ inside /\ first = 0 ->
                    fil' = [there EXCEPT !.err = "INT_ERR"] /\ Return("INT_ERR")
               [] loc.todo <= bcs /\ inside /\ first # 0 /\ nsect # fil.dsect ->
                    fil' = there /\ GoOn("Fill", loc)
               [] OTHER -> fil' = there /\ Return("OK")
    BY DEF Seek
  <2>2. loc.todo <= bcs \/ loc.todo > bcs
    BY <1>3
  <2> HIDE DEF there, inside, first
  <2> QED BY <2>1, <2>2
<1> HIDE DEF there
<1>8. CASE loc.todo > bcs /\ Ask_fat(fil.clust, "FatSeek") /\ fil' = fil
  <2>1. pc' = "FatSeek" /\ loc'.todo = loc.todo /\ loc'.clst = fil.clust /\ loc'.lo = Zeros
    BY <1>3, <1>8, AskedFat
  <2>2. Positioned'
    BY <1>3, <1>4, <1>8, <2>1 DEF Positioned, ReadSteps
  <2>3. FatOK' /\ pc' \in SeekSteps /\ pc' \notin ReadSteps /\ pc' # "Idle"
    BY <2>1 DEF FatOK, SeekSteps, ReadSteps
  <2>4. Same(fil')
    BY <1>8 DEF Same
  <2> QED BY <1>2, <1>3, <1>8, <2>2, <2>3, <2>4, FileTruth
<1>9. CASE /\ first = 0 /\ fil' = [there EXCEPT !.err = "INT_ERR"] /\ Return("INT_ERR")
  <2>1. Mine.dirs = {}
    <3>1. SUFFICES ASSUME Mine.dirs # {} PROVE FALSE
      OBVIOUS
    <3>2. fil.fptr < fil.fsize
      <4>1. fil.fsize \in Nat
        BY <1>2, TransferFacts
      <4> QED BY <1>3, <1>5, <4>1
    <3>3. IsCluster(Mine, fil.clust)
      BY <1>2, <1>3, <1>4, <3>1, <3>2, ClusterThere
    <3>4. first # 0
      BY <1>3, <3>3, ClusterSector
    <3> QED BY <1>9, <3>4
  <2>2. /\ fil'.open = there.open /\ fil'.id = there.id /\ fil'.sclust = there.sclust
        /\ fil'.fsize = there.fsize /\ fil'.err = "INT_ERR"
        /\ fil'.dsect = there.dsect /\ fil'.buf = there.buf
    BY <1>6, <1>9 DEF FilType
  <2>3. pc' = "Idle" /\ res' = "INT_ERR"
    BY <1>9 DEF Return
  <2>4. Same(fil') /\ FatOK' /\ pc' \notin ReadSteps
    BY <1>6, <2>2, <2>3 DEF Same, FatOK, FatCallers, ReadSteps
  <2>5. fil'.dsect # 0 => fil'.buf = <<hist.on, fil'.dsect>>
    BY <1>3, <1>6, <2>2
  <2> QED BY <1>2, <2>1, <2>2, <2>3, <2>4, <2>5, FileTruth
<1>10. CASE /\ loc.todo <= bcs /\ inside /\ first # 0 /\ fil' = there /\ GoOn("Fill", loc)
  <2>1. pc' = "Fill" /\ loc'.todo = loc.todo
    BY <1>3, <1>10, GoneOn
  <2>2. loc.todo \div SS < fs.csize
    BY <1>3, <1>10, LastSector
  <2>3. fil'.fptr > 0 /\ fil'.clust = Chain(Mine', fil'.sclust)[(fil'.fptr - 1) \div bcs']
    <3>1. /\ fil'.clust = fil.clust /\ fil'.sclust = fil.sclust
          /\ fil'.fptr = fil.fptr + loc.todo
      BY <1>6, <1>10
    <3>2. /\ fil.fptr + loc.todo \in Nat \ {0}
          /\ (fil.fptr + loc.todo - 1) \div bcs = fil.fptr \div bcs
      BY <1>2, <1>3, <1>4, <1>5, <1>10, LastCluster
    <3>3. fil'.fptr > 0
      BY <3>1, <3>2
    <3> QED BY <1>3, <1>4, <3>1, <3>2, <3>3
  <2>4. loc.todo < bcs
    BY <1>3, <1>10, NotWhole
  <2>5. (fil'.fptr - loc'.todo) % bcs' = 0 /\ loc'.todo < bcs' /\ loc'.todo <= fil'.fptr
    <3>1. call.pos \in Nat
      BY <1>2, TransferFacts, CallFields
    <3> DEFINE a == fil.fptr
    <3> DEFINE t == loc.todo
    <3> DEFINE p == call.pos
    <3>2. a \in Nat /\ t \in Nat /\ p \in Nat /\ a + t = p /\ t > 0
      BY <1>3, <1>4, <1>5, <3>1
    <3> HIDE DEF a, t, p
    <3>3. (a + t) - t = a /\ t <= a + t
      BY <3>2, ToTheEnd
    <3>4. fil'.fptr = a + t /\ loc'.todo = t
      BY <1>6, <1>10, <2>1 DEF a, t
    <3> QED BY <1>3, <1>4, <2>1, <2>4, <3>3, <3>4 DEF a
  <2>6. fil'.fptr = call'.pos
    BY <1>3, <1>4, <1>6, <1>10
  <2>7. Positioned'
    BY <2>1, <2>3, <2>5, <2>6 DEF Positioned, ReadSteps
  <2>8. FatOK' /\ pc' \in SeekSteps /\ pc' \notin ReadSteps /\ pc' # "Idle" /\ Same(fil')
    BY <1>6, <1>10, <2>1 DEF FatOK, FatCallers, SeekSteps, ReadSteps, Same
  <2>9. fil'.err = "OK" /\ (fil'.dsect # 0 => fil'.buf = <<hist.on, fil'.dsect>>)
    BY <1>3, <1>6, <1>10
  <2> QED BY <1>2, <2>7, <2>8, <2>9, FileTruth
<1>11. CASE /\ ~(loc.todo > bcs) /\ (inside => first # 0 /\ fil.dsect = nsect)
            /\ fil' = there /\ Return("OK")
  <2>1. pc' = "Idle" /\ res' = "OK"
    BY <1>11 DEF Return
  <2>2. loc.todo <= bcs
    BY <1>3, <1>11
  <2>3. inside => /\ fil'.dsect # 0
                  /\ fil'.dsect = FileSector(Mine, fil.sclust, (fil.fptr + loc.todo) \div SS)
    <3>1. ASSUME inside
          PROVE  nsect # 0 /\ nsect = FileSector(Mine, fil.sclust, (fil.fptr + loc.todo) \div SS)
      <4>1. loc.todo \div SS < fs.csize /\ clust2sect(fs, fil.clust) # 0
        BY <1>3, <1>11, <2>2, <3>1, LastSector
      <4> QED BY <1>2, <1>3, <1>4, <1>5, <2>2, <4>1, LastFileSector
    <3> QED BY <1>6, <1>11, <3>1
  <2>4. InPlace'
    <3>1. /\ fil'.clust = fil.clust /\ fil'.sclust = fil.sclust
          /\ fil'.fptr = fil.fptr + loc.todo
      BY <1>6, <1>11
    <3>2. loc.todo % SS # 0 =>
            /\ fil'.dsect # 0
            /\ fil'.dsect = FileSector(Mine, fil.sclust, (fil.fptr + loc.todo) \div SS)
      BY <2>3
    <3> QED BY <1>2, <1>3, <1>4, <1>5, <2>2, <3>1, <3>2, SeekPlace
  <2>5. fil'.fptr = call'.pos
    BY <1>3, <1>4, <1>6, <1>11
  <2>6. Positioned'
    BY <2>1, <2>4, <2>5 DEF Positioned, ReadSteps
  <2>7. FatOK' /\ pc' \notin ReadSteps /\ Same(fil')
    BY <1>6, <1>11, <2>1 DEF FatOK, FatCallers, ReadSteps, Same
  <2>8. fil'.err = "OK" /\ (fil'.dsect # 0 => fil'.buf = <<hist.on, fil'.dsect>>)
    BY <1>3, <1>6, <1>11
  <2> QED BY <1>2, <2>1, <2>6, <2>7, <2>8, FileTruth
<1> QED BY <1>7, <1>8, <1>9, <1>10, <1>11

\* f_lseek reads the sector of the byte it leads to.
LEMMA FillTruth ==
  ASSUME IInv, MountOK, OpenOK, Truth, NEW o \in Outcomes, Fill(o), fil' \in FilType,
         ~hist'.missed
  PROVE  Truth'
<1>1. pc = "Fill" /\ UNCHANGED <<volume, op, call, dirp>> /\ Ask(nsect, 1, o)
  BY DEF Fill
<1>2. /\ clust2sect(fs, fil.clust) # 0 /\ loc.todo \div SS < fs.csize /\ loc.todo > 0
  BY <1>1 DEF IInv, Within, SeekSteps
<1>3. /\ fs \in FsType /\ fil \in FilType /\ loc \in LocType /\ hist \in HistType
  BY <1>1, Steady DEF IInv, DiskOK
<1>4. nsect \in Nat
  <2> DEFINE s == clust2sect(fs, fil.clust)
  <2> DEFINE j == loc.todo \div SS
  <2>1. fil.clust \in Nat /\ loc.todo \in Nat
    BY <1>3, FilFields, LocFields
  <2>2. s \in Nat /\ j \in Nat
    BY <1>3, <2>1, ClusterPlace, SizeFacts, DivMod
  <2> HIDE DEF s, j
  <2>3. s + j \in Nat
    BY <2>2
  <2> QED BY <2>3 DEF nsect, s, j
<1>5. /\ ~hist.missed /\ hist'.on = hist.on /\ (hist.failed => hist'.failed)
      /\ o = "error" => hist'.failed
      /\ o # "error" => o = "read" /\ card = hist.on
  BY <1>1, <1>3, <1>4, Asked
<1>6. Transfer /\ op = "lseek" /\ pc \notin ReadSteps
  BY <1>1, <1>5, TransferIf DEF ReadSteps, SeekSteps, Transfer
<1>7. CASE o = "error"
  <2>1. Abort("DISK_ERR")
    BY <1>7 DEF Fill
  <2> QED BY <1>5, <1>6, <1>7, <2>1, AbortTruth
<1>8. CASE o # "error"
  <2>1. fil' = [fil EXCEPT !.dsect = nsect, !.buf = <<hist.on, nsect>>] /\ pc' = "Idle" /\ res' = "OK"
    BY <1>5, <1>8 DEF Fill, Return
  <2>2. /\ fil'.open = fil.open /\ fil'.id = fil.id /\ fil'.sclust = fil.sclust
        /\ fil'.fsize = fil.fsize /\ fil'.err = fil.err /\ fil'.dsect = nsect
        /\ fil'.buf = <<hist.on, nsect>> /\ fil'.fptr = fil.fptr /\ fil'.clust = fil.clust
    BY <1>3, <2>1 DEF FilType
  <2>3. /\ fil.fptr \in Nat /\ loc.todo \in Nat /\ bcs \in Nat \ {0} /\ Positioned
        /\ Mine' = Mine /\ bcs' = bcs /\ call' = call /\ fil.err = "OK"
    BY <1>3, <1>6, TransferFacts, BcsFacts DEF Transfer
  <2>4. /\ fil.fptr = call.pos /\ fil.clust = Chain(Mine, fil.sclust)[(fil.fptr - 1) \div bcs]
        /\ (fil.fptr - loc.todo) % bcs = 0 /\ loc.todo < bcs /\ loc.todo <= fil.fptr
    BY <1>1, <2>3 DEF Positioned
  <2> DEFINE base == fil.fptr - loc.todo
  <2>5. base \in Nat /\ base + loc.todo = fil.fptr /\ base % bcs = 0 /\ loc.todo <= bcs
    BY <2>3, <2>4
  <2> HIDE DEF base
  <2>6. (fil.fptr - 1) \div bcs = base \div bcs
    <3> DEFINE x == fil.fptr
    <3> DEFINE t == loc.todo
    <3>1. (base + t - 1) \div bcs = base \div bcs
      BY <1>2, <1>6, <2>3, <2>5, LastCluster
    <3>2. base + t = x /\ base \in Nat /\ t \in Nat
      BY <2>3, <2>5
    <3> HIDE DEF x, t
    <3>4. base + t - 1 = x - 1
      BY <3>2
    <3>3. (x - 1) \div bcs = base \div bcs
      BY <3>1, <3>4
    <3> QED BY <3>3 DEF x
  <2>7. fil.clust = Chain(Mine, fil.sclust)[base \div bcs]
    BY <2>4, <2>6
  <2>8. /\ FileSector(Mine, fil.sclust, (base + loc.todo) \div SS) = nsect /\ nsect # 0
    BY <1>2, <1>6, <2>5, <2>7, LastFileSector
  <2>9. InPlace'
    <3>1. /\ fil'.clust = fil.clust /\ fil'.sclust = fil.sclust
          /\ fil'.fptr = base + loc.todo
      BY <2>2, <2>5
    <3>2. loc.todo % SS # 0 =>
            /\ fil'.dsect # 0
            /\ fil'.dsect = FileSector(Mine, fil.sclust, (base + loc.todo) \div SS)
      BY <2>2, <2>8
    <3> QED BY <1>2, <1>6, <2>3, <2>5, <2>7, <3>1, <3>2, SeekPlace
  <2>10. Positioned'
    <3>1. fil'.fptr = call'.pos
      BY <2>2, <2>3, <2>4
    <3> QED BY <2>1, <2>9, <3>1 DEF Positioned, ReadSteps
  <2>11. FatOK' /\ pc' \notin ReadSteps /\ Same(fil') /\ fil'.err = "OK"
    BY <2>1, <2>2, <2>3 DEF FatOK, FatCallers, ReadSteps, Same
  <2> QED BY <1>6, <2>1, <2>2, <2>10, <2>11, FileTruth
<1> QED BY <1>7, <1>8

-----------------------------------------------------------------------------
(* f_read and f_lseek begin *)

\* Neither does anything with a file that is not valid, or that had an error.
LEMMA RefusedTruth ==
  ASSUME Truth, Refusal # "OK", op' \in {"read", "lseek"}, pc = "Idle", pc' = "Idle",
         res' = Refusal, fs' = fs, fil' = fil, dirp' = dirp, hist' = hist, call' = call,
         more' = more
  PROVE  Truth'
<1>1. Mine' = Mine /\ Valid(fil)' = Valid(fil)
  BY DEF Mine, Valid
<1>2. FileOK'
  BY IdleFile DEF Truth
<1>3. ListOK'
  BY IdleList DEF Truth
<1>4. FatOK' /\ SearchOK'
  BY DEF FatOK, SearchOK, FatCallers
<1>5. ReadGivesFile' /\ ListsEachOnce'
  BY DEF ReadGivesFile, ListsEachOnce, Done
<1>6. FindsWhatIsThere'
  <2>1. ASSUME Valid(fil), Mine.dirs # {}, ~hist.missed PROVE hist.failed
    <3>1. fil.err # "OK"
      BY <2>1 DEF Refusal
    <3> QED BY <2>1, <3>1 DEF Truth, FileOK
  <2> QED BY <1>1, <2>1 DEF FindsWhatIsThere, Done, Trusted
<1> QED BY <1>2, <1>3, <1>4, <1>5, <1>6 DEF Truth

\* what holds when they do
LEMMA BeginsTruth ==
  ASSUME Truth, OpenOK, Valid(fil), ~hist.missed, fs' = fs, hist' = hist, dirp' = dirp,
         call'.file = call.file, op' \in {"read", "lseek"}, pc' \in {"Idle", "Read", "Seek"},
         Same(fil'), fil'.err = "OK", fil'.dsect = fil.dsect, fil'.buf = fil.buf,
         pc' = "Idle" => res' = "OK", Positioned', pc' = "Read" => Given', ReadGivesFile'
  PROVE  Truth'
<1>1. Mine' = Mine /\ MyFile' = MyFile /\ ~dirp.open
  BY DEF Mine, MyFile, OpenOK, Valid
<1>2. /\ MyFile.attr = "FILE" /\ fil.sclust = MyFile.clust /\ fil.fsize = MyFile.size
      /\ Mine.dirs # {} => Readable(Mine, MyFile)
      /\ fil.dsect # 0 => fil.buf = <<hist.on, fil.dsect>>
  BY DEF Truth, FileOK, MyFile
<1>3. FileOK'
  <2>1. MyFile'.attr = "FILE" /\ fil'.sclust = MyFile'.clust /\ fil'.fsize = MyFile'.size
    BY <1>1, <1>2 DEF Same
  <2>2. Mine'.dirs # {} => Readable(Mine', MyFile')
    BY <1>1, <1>2
  <2>3. fil'.dsect # 0 => fil'.buf = <<hist'.on, fil'.dsect>>
    BY <1>2
  <2>4. pc' \in ReadSteps => Given'
    BY DEF ReadSteps
  <2> QED BY <2>1, <2>2, <2>3, <2>4 DEF FileOK, MyFile
<1>4. ListOK'
  BY <1>1 DEF ListOK, Valid
<1>5. FatOK' /\ SearchOK'
  BY DEF FatOK, SearchOK, FatCallers
<1>6. ListsEachOnce' /\ FindsWhatIsThere'
  BY DEF ListsEachOnce, FindsWhatIsThere, Done, Trusted
<1> QED BY <1>3, <1>4, <1>5, <1>6 DEF Truth

LEMMA NothingRead ==
  ASSUME NEW S
  PROVE  <<>> \in Seq(S) /\ Len(<<>>) = 0 /\ DOMAIN <<>> = {}
OBVIOUS

LEMMA ReadCallTruth ==
  ASSUME IInv, OpenOK, Truth, NEW n \in Nat, f_read(n), hist.missed => Truth'
  PROVE  Truth'
<1> DEFINE btr == Truncated(n)
<1>1. /\ pc = "Idle" /\ op' = "read" /\ out' = <<>>
      /\ UNCHANGED <<disk, volume, fil, dirp, more>>
      /\ IF Refusal # "OK" THEN Return(Refusal) /\ UNCHANGED call
         ELSE /\ call' = [call EXCEPT !.from = call.pos, !.size = n, !.pos = @ + btr]
              /\ IF btr = 0 THEN Return("OK") ELSE GoOn("Read", [loc EXCEPT !.todo = btr])
  BY DEF f_read
<1>2. hist' = hist /\ fs' = fs
  BY <1>1 DEF disk, volume
<1>3. CASE Refusal # "OK"
  <2>1. pc' = "Idle" /\ res' = Refusal /\ call' = call
    BY <1>1, <1>3 DEF Return
  <2> QED BY <1>1, <1>2, <1>3, <2>1, RefusedTruth
<1>4. CASE Refusal = "OK" /\ ~hist.missed
  <2>1. Valid(fil) /\ fil.err = "OK"
    BY <1>4 DEF Refusal
  <2>2. fil \in FilType /\ call \in CallType /\ loc \in LocType
    BY <1>1, IdleFacts
  <2>3. fil.fptr \in Nat /\ fil.fsize \in Nat /\ call.pos \in Nat
    BY <2>2, FilFields, CallFields
  <2>4. /\ fil.fptr = call.pos /\ InPlace /\ fil.fsize = MyFile.size
    BY <1>1, <1>4, <2>1 DEF Truth, FileOK, Positioned, MyFile
  <2>5. btr = MinOf(n, fil.fsize - fil.fptr) /\ btr \in Int
    <3> DEFINE d == fil.fsize - fil.fptr
    <3>1. d \in Int /\ btr = MinOf(n, d)
      BY <2>3 DEF Truncated
    <3> HIDE DEF d
    <3>2. MinOf(n, d) \in Int
      BY <3>1, LeastType
    <3> QED BY <3>1, <3>2 DEF d
  <2> HIDE DEF btr
  <2>6. /\ call'.from = call.pos /\ call'.size = n /\ call'.pos = call.pos + btr
        /\ call'.file = call.file
    BY <1>1, <1>4, <2>2 DEF CallType
  <2>7. Mine' = Mine /\ bcs' = bcs /\ MyFile' = MyFile /\ InPlace' /\ Same(fil')
    <3>1. Mine' = Mine /\ bcs' = bcs
      BY <1>2 DEF Mine, bcs
    <3> QED BY <1>1, <2>4, <2>6, <3>1 DEF MyFile, InPlace, Same
  <2>8. call'.pos = call'.from + MinOf(call'.size, fil'.fsize - call'.from)
    BY <1>1, <2>4, <2>5, <2>6
  <2>9. CASE btr = 0
    <3>1. pc' = "Idle" /\ res' = "OK"
      BY <1>1, <1>4, <2>9 DEF Return
    <3>2. fil'.fptr = call'.pos
      BY <1>1, <2>3, <2>4, <2>6, <2>9
    <3>3. Positioned'
      BY <2>7, <3>1, <3>2 DEF Positioned, ReadSteps
    <3>4. ReadGivesFile'
      <4>1. Len(out') = MinOf(call'.size, MyFile'.size - call'.from)
        BY <1>1, <2>4, <2>5, <2>6, <2>7, <2>9, NothingRead
      <4>2. \A k \in DOMAIN out' : out'[k] = ByteOf(hist'.on, MyFile', call'.from + k - 1)
        BY <1>1, NothingRead
      <4> QED BY <4>1, <4>2 DEF ReadGivesFile, MyFile
    <3> QED BY <1>1, <1>2, <1>4, <2>1, <2>6, <2>7, <3>1, <3>3, <3>4, BeginsTruth
  <2>10. CASE btr # 0
    <3>1. GoOn("Read", [loc EXCEPT !.todo = btr])
      BY <1>1, <1>4, <2>10
    <3>2. pc' = "Read" /\ loc'.todo = btr
      BY <2>2, <3>1 DEF GoOn, LocType
    <3>3. fil'.fptr + loc'.todo = call'.pos
      BY <1>1, <2>4, <2>6, <3>2
    <3>4. Positioned'
      BY <2>7, <3>2, <3>3 DEF Positioned, ReadSteps
    <3>5. Given'
      <4>1. call'.from + Len(out') = fil'.fptr
        BY <1>1, <2>3, <2>4, <2>6, NothingRead
      <4>2. /\ out' \in Seq({ByteOf(hist'.on, MyFile', p) : p \in Nat})
            /\ \A k \in DOMAIN out' : out'[k] = ByteOf(hist'.on, MyFile', call'.from + k - 1)
        BY <1>1, NothingRead
      <4> QED BY <2>8, <4>1, <4>2 DEF Given, MyFile
    <3>6. ReadGivesFile'
      BY <3>2 DEF ReadGivesFile, Done
    <3> QED BY <1>1, <1>2, <1>4, <2>1, <2>6, <2>7, <3>2, <3>4, <3>5, <3>6, BeginsTruth
  <2> QED BY <2>9, <2>10
<1> QED BY <1>3, <1>4

LEMMA Rounded ==
  ASSUME NEW p \in Nat \ {0}, NEW b \in Nat \ {0}
  PROVE  LET base == ((p - 1) \div b) * b IN
         base \in Nat /\ base \div b = (p - 1) \div b /\ base % b = 0
<1> DEFINE q == (p - 1) \div b
<1>1. p - 1 \in Nat
  OBVIOUS
<1>2. q \in Nat
  BY <1>1, DivMod
<1> HIDE DEF q
<1>3. q * b = b * q + 0 /\ q * b \in Nat /\ q \in Int /\ 0 \in 0..(b - 1)
  BY <1>2
<1>4. (q * b) \div b = q /\ (q * b) % b = 0
  BY <1>3, DivUnique
<1> QED BY <1>3, <1>4 DEF q

LEMMA SeekCallTruth ==
  ASSUME IInv, OpenOK, MountOK, Truth, NEW n \in Nat, f_lseek(n), hist.missed => Truth'
  PROVE  Truth'
<1> DEFINE ofs == MinOf(n, fil.fsize)
<1> DEFINE base == ((fil.fptr - 1) \div bcs) * bcs
<1>1. /\ pc = "Idle" /\ op' = "lseek" /\ out' = <<>>
      /\ UNCHANGED <<disk, volume, dirp, more>>
      /\ call' = IF Refusal = "OK" THEN [call EXCEPT !.pos = ofs] ELSE call
      /\ \/ Refusal # "OK" /\ Return(Refusal) /\ fil' = fil
         \/ Refusal = "OK" /\ fil' = [fil EXCEPT !.fptr = 0] /\ Return("OK") /\ ofs = 0
         \/ /\ Refusal = "OK" /\ Forward(ofs, fil.fptr)
            /\ fil' = [fil EXCEPT !.fptr = base]
            /\ GoOn("Seek", [loc EXCEPT !.todo = ofs - base])
         \/ /\ Refusal = "OK" /\ fil' = [fil EXCEPT !.fptr = 0, !.clust = fil.sclust]
            /\ GoOn("Seek", [loc EXCEPT !.todo = ofs])
  <2>1. /\ pc = "Idle"
        /\ CASE Refusal # "OK" -> Return(Refusal) /\ UNCHANGED fil
             [] Refusal = "OK" /\ ofs = 0 -> fil' = [fil EXCEPT !.fptr = 0] /\ Return("OK")
             [] Refusal = "OK" /\ ofs # 0 /\ Forward(ofs, fil.fptr) ->
                  /\ fil' = [fil EXCEPT !.fptr = base]
                  /\ GoOn("Seek", [loc EXCEPT !.todo = ofs - base])
             [] OTHER ->
                  /\ fil.sclust # 0
                  /\ fil' = [fil EXCEPT !.fptr = 0, !.clust = fil.sclust]
                  /\ GoOn("Seek", [loc EXCEPT !.todo = ofs])
    BY DEF f_lseek
  <2>2. /\ pc = "Idle" /\ op' = "lseek" /\ out' = <<>>
        /\ UNCHANGED <<disk, volume, dirp, more>>
        /\ call' = IF Refusal = "OK" THEN [call EXCEPT !.pos = ofs] ELSE call
    BY DEF f_lseek
  <2> HIDE DEF ofs, base
  <2> QED BY <2>1, <2>2
<1>2. hist' = hist /\ fs' = fs
  BY <1>1 DEF disk, volume
<1>3. CASE Refusal # "OK"
  <2>1. pc' = "Idle" /\ res' = Refusal /\ call' = call /\ fil' = fil
    BY <1>1, <1>3 DEF Return
  <2> QED BY <1>1, <1>2, <1>3, <2>1, RefusedTruth
<1>4. CASE Refusal = "OK" /\ ~hist.missed
  <2>1. Valid(fil) /\ fil.err = "OK" /\ fs.fs_type # ""
    BY <1>4 DEF Refusal, Valid
  <2>2. fil \in FilType /\ call \in CallType /\ loc \in LocType /\ fs \in FsType
    BY <1>1, IdleFacts
  <2>3. /\ fil.fptr \in Nat /\ fil.fsize \in Nat /\ fil.sclust \in Nat /\ bcs \in Nat \ {0}
    BY <2>2, FilFields, BcsFacts
  <2>4. InPlace
    BY <1>1, <1>4, <2>1 DEF Truth, FileOK, Positioned
  <2>5. hist.on \in DOMAIN Cards /\ Mine = Cards[hist.on]
    BY <1>4, <2>1, Mounted1 DEF Mine
  <2>6. Mine' = Mine /\ bcs' = bcs
    BY <1>2 DEF Mine, bcs
  <2>7. ofs \in Int /\ ofs \in Nat
    BY <2>3 DEF MinOf
  <2>13. 0 % SS = 0 /\ 0 % bcs = 0 /\ 0 \div bcs = 0
    <3>1. SS \in Nat \ {0} /\ 0 < SS /\ 0 < bcs /\ 0 \in Nat
      BY <2>3, SizeFacts
    <3> QED BY <2>3, <3>1, DivSmall
  <2> HIDE DEF ofs
  <2>8. call'.pos = ofs /\ call'.file = call.file
    BY <1>1, <1>4, <2>2 DEF CallType
  <2>9. ASSUME NEW p \in Nat, NEW c, fil' = [fil EXCEPT !.fptr = p, !.clust = c]
        PROVE  /\ Same(fil') /\ fil'.err = "OK" /\ fil'.dsect = fil.dsect /\ fil'.buf = fil.buf
               /\ fil'.fptr = p /\ fil'.clust = c /\ fil'.sclust = fil.sclust
    BY <2>1, <2>2, <2>9 DEF FilType, Same
  <2>10. CASE fil' = [fil EXCEPT !.fptr = 0] /\ Return("OK") /\ ofs = 0
    <3>1. pc' = "Idle" /\ res' = "OK"
      BY <2>10 DEF Return
    <3>2. /\ Same(fil') /\ fil'.err = "OK" /\ fil'.dsect = fil.dsect /\ fil'.buf = fil.buf
          /\ fil'.fptr = 0
      BY <2>1, <2>2, <2>10 DEF FilType, Same
    <3>3. InPlace'
      BY <2>13, <3>2 DEF InPlace
    <3>4. Positioned'
      BY <2>8, <2>10, <3>1, <3>2, <3>3 DEF Positioned, ReadSteps
    <3>5. ReadGivesFile'
      BY <1>1 DEF ReadGivesFile, Done
    <3> QED BY <1>1, <1>2, <1>4, <2>1, <2>8, <3>1, <3>2, <3>4, <3>5, BeginsTruth
  <2>11. ASSUME NEW p \in Nat, NEW c, p % bcs = 0, c = Chain(Mine, fil.sclust)[p \div bcs],
                fil' = [fil EXCEPT !.fptr = p, !.clust = c],
                GoOn("Seek", [loc EXCEPT !.todo = ofs - p])
         PROVE  Truth'
    <3>1. pc' = "Seek" /\ loc'.todo = ofs - p
      BY <2>2, <2>11 DEF GoOn, LocType
    <3>2. /\ Same(fil') /\ fil'.err = "OK" /\ fil'.dsect = fil.dsect /\ fil'.buf = fil.buf
          /\ fil'.fptr = p /\ fil'.clust = c /\ fil'.sclust = fil.sclust
      BY <2>9, <2>11
    <3>3. fil'.fptr + loc'.todo = call'.pos
      <4>1. p + (ofs - p) = ofs
        BY <2>7
      <4> QED BY <2>8, <3>1, <3>2, <4>1
    <3>4. fil'.fptr % bcs' = 0 /\ fil'.clust = Chain(Mine', fil'.sclust)[fil'.fptr \div bcs']
      BY <2>6, <2>11, <3>2
    <3>5. Positioned'
      BY <3>1, <3>3, <3>4 DEF Positioned, ReadSteps
    <3>6. ReadGivesFile'
      BY <3>1 DEF ReadGivesFile, Done
    <3> QED BY <1>1, <1>2, <1>4, <2>1, <2>8, <3>1, <3>2, <3>5, <3>6, BeginsTruth
  <2>12. CASE /\ Forward(ofs, fil.fptr) /\ fil' = [fil EXCEPT !.fptr = base]
              /\ GoOn("Seek", [loc EXCEPT !.todo = ofs - base])
    <3>1. fil.fptr > 0
      BY <2>12 DEF Forward
    <3>2. base \in Nat /\ base \div bcs = (fil.fptr - 1) \div bcs /\ base % bcs = 0
      <4> DEFINE p == fil.fptr
      <4> DEFINE b == bcs
      <4>1. p \in Nat \ {0} /\ b \in Nat \ {0}
        BY <2>3, <3>1
      <4> HIDE DEF p, b
      <4>2. LET x == ((p - 1) \div b) * b IN
            x \in Nat /\ x \div b = (p - 1) \div b /\ x % b = 0
        BY <4>1, Rounded
      <4> QED BY <4>2 DEF p, b
    <3> HIDE DEF base
    <3>3. fil.clust = Chain(Mine, fil.sclust)[base \div bcs]
      BY <2>4, <3>1, <3>2 DEF InPlace
    <3>4. [fil EXCEPT !.fptr = base] = [fil EXCEPT !.fptr = base, !.clust = fil.clust]
      BY <2>2 DEF FilType
    <3>5. fil' = [fil EXCEPT !.fptr = base, !.clust = fil.clust]
      BY <2>12, <3>4
    <3> QED BY <2>11, <2>12, <3>2, <3>3, <3>5
  <2>14. CASE /\ fil' = [fil EXCEPT !.fptr = 0, !.clust = fil.sclust]
              /\ GoOn("Seek", [loc EXCEPT !.todo = ofs])
    <3>1. fil.sclust = Chain(Mine, fil.sclust)[0 \div bcs]
      BY <2>3, <2>5, <2>13, ChainType
    <3>2. ofs - 0 = ofs
      BY <2>7
    <3>3. GoOn("Seek", [loc EXCEPT !.todo = ofs - 0])
      BY <2>14, <3>2
    <3> QED BY <2>11, <2>13, <2>14, <3>1, <3>3
  <2> HIDE DEF base
  <2> QED BY <1>1, <1>4, <2>10, <2>12, <2>14
<1> QED BY <1>3, <1>4

-----------------------------------------------------------------------------
(* The theorems *)

LEMMA MissedThen ==
  ASSUME hist'.missed
  PROVE  Truth'
<1>1. FatOK' /\ SearchOK' /\ ListOK'
  BY DEF FatOK, SearchOK, ListOK
<1>2. FileOK' /\ ReadGivesFile' /\ ListsEachOnce'
  BY DEF FileOK, ReadGivesFile, ListsEachOnce
<1>3. FindsWhatIsThere'
  BY DEF FindsWhatIsThere, Trusted
<1> QED BY <1>1, <1>2, <1>3 DEF Truth

\* every call that begins
LEMMA CallsTruth ==
  ASSUME IInv, MountOK, OpenOK, Truth, Call
  PROVE  Truth'
<1>1. /\ ReadSizes \subseteq Nat
      /\ SeekTo \subseteq Nat
  BY VolumeAssumption
<1>2. CASE \/ f_mount(TRUE, TRUE) \/ f_mount(TRUE, FALSE) \/ f_mount(FALSE, TRUE)
           \/ \E p \in Paths : f_open(p) \/ f_opendir(p)
           \/ f_readdir \/ f_close \/ f_closedir
  BY <1>2, CallTruth
<1>3. ASSUME NEW n \in ReadSizes, f_read(n)
      PROVE  Truth'
  <2>1. hist' = hist
    BY <1>3 DEF f_read, disk
  <2>2. hist.missed => Truth'
    BY <2>1, MissedThen
  <2> QED BY <1>1, <1>3, <2>2, ReadCallTruth
<1>4. ASSUME NEW n \in SeekTo, f_lseek(n)
      PROVE  Truth'
  <2>1. hist' = hist
    BY <1>4 DEF f_lseek, disk
  <2>2. hist.missed => Truth'
    BY <2>1, MissedThen
  <2> QED BY <1>1, <1>4, <2>2, SeekCallTruth
<1> QED BY <1>2, <1>3, <1>4 DEF Call

\* every turn of the loops of ff.c
LEMMA StepsTruth ==
  ASSUME IInv, MountOK, OpenOK, Truth, Step, fil' \in FilType, ~hist'.missed
  PROVE  Truth'
<1>1. CASE Follow
  BY <1>1, FollowTruth
<1>2. CASE Read
  BY <1>2, ReadTruth
<1>3. CASE Seek
  BY <1>3, SeekTruth
<1>4. ASSUME NEW o \in Outcomes, CheckFs(o) \/ FsInfo(o) \/ Find(o) \/ Entry(o)
      PROVE  Truth'
  BY <1>4, CheckTruth, InfoTruth, FindTruth, EntryTruth
<1>5. ASSUME NEW o \in Outcomes, GetFat(o)
      PROVE  Truth'
  <2>1. pc \in FatCallers
    BY <1>5 DEF GetFat
  <2>2. CASE pc = "FatFind"
    BY <1>5, <2>2, FatFindTruth
  <2>3. CASE pc \in {"FatSkip", "FatNext"}
    BY <1>5, <2>3, FatListTruth
  <2>4. CASE pc \in {"FatRead", "FatSeek"}
    BY <1>5, <2>4, FatFileTruth
  <2> QED BY <2>1, <2>2, <2>3, <2>4 DEF FatCallers
<1>6. ASSUME NEW o \in Outcomes, Fill(o)
      PROVE  Truth'
  BY <1>6, FillTruth
<1>7. ASSUME NEW o \in Outcomes, NEW lost, Data(o, lost)
      PROVE  Truth'
  BY <1>7, DataTruth
<1> QED BY <1>1, <1>2, <1>3, <1>4, <1>5, <1>6, <1>7 DEF Step

LEMMA NextTruth ==
  ASSUME IInv, IInv', MountOK, OpenOK, Truth, [Next]_vars
  PROVE  Truth'
<1>1. fil' \in FilType
  BY DEF IInv, Typed
<1>2. CASE hist'.missed
  BY <1>2, MissedThen
<1>3. CASE ~hist'.missed /\ Call
  BY <1>3, CallsTruth
<1>4. CASE ~hist'.missed /\ Step
  BY <1>1, <1>4, StepsTruth
<1>5. CASE SwapCard
  BY <1>5, SwapTruth
<1>6. CASE UNCHANGED vars
  <2>1. /\ hist'.on = hist.on /\ hist'.missed = hist.missed /\ hist'.failed = hist.failed
        /\ UNCHANGED <<reg, fs, fil, dirp, pc, op, loc, out, more, res, call>>
    BY <1>6 DEF vars, volume, disk, slot
  <2> QED BY <2>1, StillTruth
<1> QED BY <1>2, <1>3, <1>4, <1>5, <1>6 DEF Next

LEMMA TruthHolds == Spec => []Truth
<1>1. Init => OpenOK /\ MountOK /\ Truth
  BY InitOpen, InitMount, InitTruth
<1>2. IInv /\ IInv' /\ OpenOK /\ MountOK /\ Truth /\ [Next]_vars => OpenOK' /\ MountOK' /\ Truth'
  BY NextOpen, NextMount, NextTruth
<1> QED BY Invariance, <1>1, <1>2, PTL DEF Spec

\* On every card, sound or damaged: f_read that says FR_OK has given the caller the
\* bytes of the file that f_open found, as the FAT chains it, each from the sector
\* and the offset where the volume keeps it, from where the last f_open, f_read or
\* f_lseek left off, whatever the lengths and offsets of the calls before, unless a
\* sector was missed since the volume was mounted.
THEOREM ReadsTheFile == Spec => []ReadGivesFile
<1>1. Truth => ReadGivesFile
  BY DEF Truth
<1> QED BY TruthHolds, <1>1, PTL

\* On every card, sound or damaged: a listing (displaydir) that ends well has shown
\* the name of each file and directory of the directory that f_opendir found exactly
\* once, in the order of the entries, across every sector and cluster of it.
THEOREM ListsTheDirectory == Spec => []ListsEachOnce
<1>1. Truth => ListsEachOnce
  BY DEF Truth
<1> QED BY TruthHolds, <1>1, PTL

\* On every card: what f_open and f_opendir say FR_OK of is what the path leads to,
\* with the first cluster and the size of its entry; and on a sound volume, with no
\* fault since the mount, they find everything that is there, and f_read and f_lseek
\* of the open file never fail.
THEOREM FindsThePath == Spec => []FindsWhatIsThere
<1>1. Truth => FindsWhatIsThere
  BY DEF Truth
<1> QED BY TruthHolds, <1>1, PTL
=============================================================================
