---------------------------- MODULE MCFatVolume -----------------------------
(* Cards for FatVolume: sectors of 4 bytes, directory entries of 2, clusters of two
   sectors or of sixteen. *)
EXTENDS FatVolume, TLC

Eoc == 98   \* a FAT value beyond every cluster

E(n, a, c, s) == [name |-> n, attr |-> a, clust |-> c, size |-> s]
File(n, c, s) == E(n, "FILE", c, s)
Dir(n, c) == E(n, "DIR", c, 0)
Gone == E("?", "DEL", 0, 0)
Long == E("A", "LFN", 0, 0)
Label == E("D", "VOL", 0, 0)

Bpb(rsv, fats, fatsz, root, tot, clus, info) ==
  [BytsPerSec |-> SS, RsvdSecCnt |-> rsv, NumFATs |-> fats, FATSz |-> fatsz,
   SecPerClus |-> 2, RootEntCnt |-> root, TotSec |-> tot, RootClus |-> clus,
   FSInfo |-> info]

\* the whole card a FAT12 volume with 3 clusters; the FAT entry of cluster 2
\* lies across two sectors; the root directory is full
Floppy ==
  [base |-> 0, parts |-> <<0, 0, 0, 0>>, bpb |-> Bpb(1, 1, 2, 4, 11, 0, 0),
   fat |-> 2 :> 4 @@ 3 :> Eoc @@ 4 :> Eoc,
   ent |-> 3 :> <<Gone, Dir("D", 3)>> @@ 4 :> <<File("A", 2, 10), Label>>
        @@ 9 :> <<End, End>> @@ 10 :> <<End, End>>
        @@ 7 :> <<Dir(".", 3), Dir("..", 0)>> @@ 8 :> <<File("B", 0, 0), End>>,
   dirs |-> {0, 3}]

\* a FAT16 volume in the third partition, behind one with something else; a
\* directory of two clusters with as many entries as have an index
Disk ==
  [base |-> 2, parts |-> <<1, 0, 2, 0>>, bpb |-> Bpb(1, 2, 3, 2, 16, 0, 0),
   fat |-> 2 :> 5 @@ 3 :> 0 @@ 4 :> Eoc @@ 5 :> Eoc,
   ent |-> 9 :> <<Dir("D", 2), File("A", 4, 7)>>
        @@ 10 :> <<Dir(".", 2), Dir("..", 0)>> @@ 11 :> <<Gone, Long>>
        @@ 16 :> <<Long, File("B", 0, 0)>> @@ 17 :> <<Gone, File("C", 0, 0)>>,
   dirs |-> {0, 2}]

\* a FAT32 volume whose root is in the clusters 3, 2
Stick ==
  [base |-> 0, parts |-> <<0, 0, 0, 0>>, bpb |-> Bpb(2, 1, 7, 0, 19, 3, 1),
   fat |-> 2 :> Eoc @@ 3 :> 2 @@ 4 :> 6 @@ 5 :> Eoc @@ 6 :> Eoc,
   ent |-> 11 :> <<Label, Dir("D", 5)>> @@ 12 :> <<Gone, Gone>>
        @@ 9 :> <<File("A", 4, 12), End>> @@ 10 :> <<End, End>>
        @@ 15 :> <<Dir(".", 5), Dir("..", 0)>> @@ 16 :> <<End, End>>,
   dirs |-> {0, 5}]

\* the same with a circular root directory, and chains that end too early, in
\* a cluster one too high, and in a free one
Damaged ==
  [Stick EXCEPT !.dirs = {},
     !.fat = 2 :> 3 @@ 3 :> 2 @@ 4 :> 7 @@ 5 :> 0 @@ 6 :> Eoc,
     !.ent = 11 :> <<Label, Dir("D", 5)>> @@ 12 :> <<Gone, Gone>>
          @@ 9 :> <<File("A", 4, 12), Dir("E", 7)>> @@ 10 :> <<Gone, Gone>>
          @@ 15 :> <<Dir("..", 0), Gone>> @@ 16 :> <<Gone, Gone>>]

\* a boot record with no place for the root directory
Unusable == [Stick EXCEPT !.dirs = {}, !.bpb.RootClus = 0]

\* a FAT12 volume with one cluster, of 16 sectors
Large ==
  [base |-> 0, parts |-> <<0, 0, 0, 0>>,
   bpb |-> [Bpb(1, 1, 2, 2, 20, 0, 0) EXCEPT !.SecPerClus = 16],
   fat |-> 2 :> Eoc, ent |-> 3 :> <<File("D", 2, 44), Label>>, dirs |-> {0}]

MCCards == <<Floppy, Disk, Stick, Damaged, Unusable, Large>>
MCStrays == {End, File("A", Eoc, 1)}
MCPaths == {<<>>, <<"D">>, <<"D", "..", "A">>}
=============================================================================
