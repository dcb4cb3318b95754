------------------------------ MODULE MCFat32 ------------------------------
(* Disks laid out as a formatter does it: the entries of the files in the  *)
(* clusters of the root directory, their chains in the FAT.                *)
EXTENDS Fat32

Nul == 0
(* The long entries of a name, last part first, and the short one.         *)
Part(ucs2, order) ==
  [i \in 1 .. Units |->
     LET at == (order - 1) * Units + i
     IN IF at <= Len(ucs2) THEN ucs2[at] ELSE IF at = Len(ucs2) + 1 THEN Nul ELSE Pad]
Parts(ucs2) == (Len(ucs2) + Units - 1) \div Units
LongEntries(short, ucs2) ==
  [k \in 1 .. Parts(ucs2) |->
     [kind |-> "long", last |-> k = 1, order |-> Parts(ucs2) - k + 1,
      sum |-> lfn_checksum(short), units |-> Part(ucs2, Parts(ucs2) - k + 1)]]
ShortEntry(short, cluster, size) ==
  <<[kind |-> "file", name |-> short, cluster |-> cluster, size |-> size]>>

Deleted == <<[kind |-> "deleted"]>>
Label == <<[kind |-> "label"]>>
End == [kind |-> "end"]

First(clusters) == IF clusters = <<>> THEN 0 ELSE Head(clusters)
EntriesOf(f) == LongEntries(f.short, f.long) \o ShortEntry(f.short, First(f.clusters), Len(f.bytes))
Stale == LongEntries(<<88, 89, 90>>, <<120, 121>>) \o Deleted   \* what a deleted file left

Chained(clusters) ==
  [c \in Range(clusters) |->
     LET i == CHOOSE i \in DOMAIN clusters : clusters[i] = c
     IN IF i = Len(clusters) THEN FAT32_EOF ELSE clusters[i + 1]]

(* A disk whose second partition is the file system, from sector 1 on.     *)
DiskOf(spc, root, files, entries) ==
  LET fatsize == 2
      layout == [bytes_per_sector |-> SectorBytes, reserved |-> 1, num_fats |-> 2,
                 fat_size |-> fatsize, spc |-> spc, root |-> Head(root)]
      first == 1 + layout.reserved + layout.num_fats * fatsize
      chains == FoldLeft(LAMBDA a, b : a @@ b, Chained(root), [i \in DOMAIN files |-> Chained(files[i].clusters)])
      fat == [n \in 0 .. fatsize * FatEntries - 1 |-> IF n \in DOMAIN chains THEN chains[n] ELSE 0]
      place == [lba \in first .. first + 6 * spc - 1 |-> <<((lba - first) \div spc) + 2, (lba - first) % spc>>]
      Index(clusters, lba) ==
        ((CHOOSE i \in DOMAIN clusters : clusters[i] = place[lba][1]) - 1) * spc + place[lba][2]
      Has(clusters, lba) == place[lba][1] \in Range(clusters)
      Sector(lba) ==
        IF Has(root, lba)
        THEN [i \in 1 .. DirEntries |->
                LET n == Index(root, lba) * DirEntries + i
                IN IF n <= Len(entries) THEN entries[n] ELSE End]
        ELSE IF \E f \in Range(files) : Has(f.clusters, lba)
        THEN LET f == CHOOSE f \in Range(files) : Has(f.clusters, lba)
             IN [i \in 1 .. SectorBytes |->
                   LET n == Index(f.clusters, lba) * SectorBytes + i
                   IN IF n <= Len(f.bytes) THEN f.bytes[n] ELSE 0]
        ELSE [i \in 1 .. SectorBytes |-> 99]
  IN [mbr |-> <<[type |-> "83", lba |-> first], [type |-> "empty", lba |-> 0], [type |-> "0C", lba |-> 1]>>,
      sectors |-> [lba \in 0 .. first + 6 * spc - 1 |->
                     IF lba = 0 THEN <<>>
                     ELSE IF lba = 1 THEN layout
                     ELSE IF lba < first
                     THEN [i \in 1 .. FatEntries |-> fat[((lba - 2) % fatsize) * FatEntries + i - 1]]
                     ELSE Sector(lba)],
      files |-> [i \in DOMAIN files |->
                   [name |-> IF files[i].long = <<>> THEN ShortName(files[i].short)
                             ELSE FlattenSeq([j \in DOMAIN files[i].long |-> ucs2_to_utf8(files[i].long[j])]),
                    cluster |-> First(files[i].clusters), size |-> Len(files[i].bytes),
                    bytes |-> files[i].bytes]]]

(* "A.T", "longer" and a name of two letters of the Cyrillic alphabet.     *)
Plain == [short |-> <<65, 32, 84>>, long |-> <<>>, clusters |-> <<4, 3, 6>>, bytes |-> <<1, 2, 3, 4, 5>>]
Elsewhere == [Plain EXCEPT !.clusters = <<6, 3>>]
Long == [short |-> <<76, 126, 32>>, long |-> <<108, 111, 110, 103, 101, 114>>, clusters |-> <<5>>, bytes |-> <<6>>]
Cyrillic == [short |-> <<67, 126, 32>>, long |-> <<1078, 1091>>, clusters |-> <<>>, bytes |-> <<>>]
TwoParts == [Cyrillic EXCEPT !.long = <<1078, 1091, 1082, 1080>>]   \* it takes two entries

MCDisk ==
  {DiskOf(1, <<2, 7, 5>>, <<Plain, Cyrillic>>, Stale \o EntriesOf(Plain) \o EntriesOf(Cyrillic)),
   DiskOf(2, <<2, 7, 4>>, <<Elsewhere, Long, Cyrillic>>,
          Label \o Stale \o EntriesOf(Elsewhere) \o EntriesOf(Long) \o Deleted \o EntriesOf(Cyrillic))}
WideDisk == {DiskOf(1, <<2, 7>>, <<TwoParts>>, EntriesOf(TwoParts))}
=============================================================================
