------------------------------- MODULE Fat32 -------------------------------
(***************************************************************************)
(* The read-only FAT32 of the x86 kernel (fat32.c) on its ATA disk (ata.c):*)
(* finding the partition, following cluster chains through the one-sector  *)
(* cache of the FAT, reading files, and listing and searching directories  *)
(* whose long names are spread over several entries.  Any sector may fail  *)
(* to be read at any call (a timeout or a drive error, ata_wait_drq).      *)
(*                                                                         *)
(* Sectors, clusters, names and entries are a few units long.  Offsets and *)
(* sizes are such that their sum does not wrap at 2^32.                    *)
(***************************************************************************)
EXTENDS Integers, Sequences, SequencesExt, FiniteSetsExt, TLC

CONSTANTS
  SectorBytes,             \* 512
  FatEntries,              \* entries of a sector of the FAT, 128
  DirEntries,              \* entries of a sector of a directory, 16
  Units,                   \* characters of a name in a long entry, 13
  StemLength, ExtLength,   \* of a short name, 8 and 3
  Disk,                    \* disks: [mbr, layout, sectors, files, root, chain]
  Offset, Size             \* what is asked of fat32_read

Fat32Assumption == \A n \in {SectorBytes, FatEntries, DirEntries, Units} : n \in Nat \ {0}
ASSUME Fat32Assumption

VARIABLES
  disk,                    \* the disk in the drive; it never changes
  fs,                      \* what fat32_init found, or NoFs
  fat_buffer_sector, fat_sector_buffer,   \* the cached sector of the FAT
  answer                   \* what the last call returned

dvars == <<disk, fs, fat_buffer_sector, fat_sector_buffer, answer>>

NoFs == [mounted |-> FALSE]
FAT32_EOF == 1000                              \* 0x0FFFFFF8 and above
NoAnswer == [call |-> "none"]

-----------------------------------------------------------------------------
(* partition_scan and fat32_init: the first partition of a FAT32 type.     *)
Registered(mbr) == SelectSeq(mbr, LAMBDA p : p.type # "empty")
FatPartitions(mbr) == SelectSeq(Registered(mbr), LAMBDA p : p.type \in {"0B", "0C"})

(* The layout is that of the boot sector of the partition.                 *)
Mounted(lba, layout) ==
  [mounted |-> TRUE, partition_lba |-> lba, fat1_lba |-> lba + layout.reserved,
   first_data |-> layout.reserved + layout.num_fats * layout.fat_size,
   spc |-> layout.spc, root |-> layout.root]

fat32_init(bad) ==
  LET parts == FatPartitions(disk.mbr)
      lba == Head(parts).lba
  IN /\ ~fs.mounted
     /\ fs' = IF \/ 0 \in bad \/ parts = <<>> \/ lba \in bad
                 \/ disk.sectors[lba].bytes_per_sector # SectorBytes
              THEN NoFs ELSE Mounted(lba, disk.sectors[lba])
     /\ UNCHANGED <<disk, fat_buffer_sector, fat_sector_buffer, answer>>

cluster_to_lba(cluster) == fs.partition_lba + fs.first_data + (cluster - 2) * fs.spc

-----------------------------------------------------------------------------
(* A walk along a chain carries the cluster it is at and the cache.        *)
Walk(cluster) ==
  [cluster |-> cluster, sector |-> fat_buffer_sector, buffer |-> fat_sector_buffer]
CachedAs(w) == fat_buffer_sector' = w.sector /\ fat_sector_buffer' = w.buffer

Loaded(w, sector, bad) ==
  IF sector = w.sector THEN w
  ELSE IF sector \in bad THEN [w EXCEPT !.cluster = FAT32_EOF]
  ELSE [w EXCEPT !.sector = sector, !.buffer = disk.sectors[sector]]

fat32_next_cluster(w, bad) ==
  LET loaded == Loaded(w, fs.fat1_lba + (w.cluster \div FatEntries), bad)
  IN IF loaded.cluster = FAT32_EOF THEN loaded
     ELSE [loaded EXCEPT !.cluster = loaded.buffer[(w.cluster % FatEntries) + 1]]

Skipped(w, n, bad) ==                          \* the clusters before the offset
  FoldLeft(LAMBDA v, i : IF v.cluster >= FAT32_EOF THEN v ELSE fat32_next_cluster(v, bad),
           w, [i \in 1 .. n |-> i])

(* The sectors of a cluster from sector `from` on, up to one that fails.   *)
Readable(cluster, from, bad) ==
  LET lba == cluster_to_lba(cluster)
      failed == {s \in from .. fs.spc - 1 : lba + s \in bad}
      to == Min(failed \cup {fs.spc})
  IN [sectors |-> [i \in 1 .. to - from |-> disk.sectors[lba + from + i - 1]],
      failed |-> failed # {}]

-----------------------------------------------------------------------------
(* fat32_read.                                                             *)
ClusterBytes == fs.spc * SectorBytes

Cut(file, offset, size) == IF offset + size > file.size THEN file.size - offset ELSE size

(* One turn of the loop: the sectors of a cluster, as far as they are      *)
(* needed; sectors behind the end are not read.                            *)
CopiedFrom(w, start, wanted, bad) ==
  LET first == start \div SectorBytes
      left == wanted - Len(w.bytes)
      last == Min({fs.spc, (start + left + SectorBytes - 1) \div SectorBytes})
      beyond == {cluster_to_lba(w.cluster) + s : s \in last .. fs.spc - 1}
      got == Readable(w.cluster, first, bad \ beyond)
      bytes == SubSeq(FlattenSeq(got.sectors), (start % SectorBytes) + 1,
                      Min({(start % SectorBytes) + left, SectorBytes * Len(got.sectors)}))
      read == [w EXCEPT !.bytes = @ \o bytes, !.done = got.failed]
  IN IF read.done \/ Len(read.bytes) >= wanted THEN [read EXCEPT !.done = TRUE]
     ELSE fat32_next_cluster(read, bad)

OffsetKept(i, offset) == offset % ClusterBytes \* fault: cluster_offset is not cleared
OffsetInCluster(i, offset) == IF i = 1 THEN offset % ClusterBytes ELSE 0

fat32_read(file, offset, size, bad) ==
  LET wanted == Cut(file, offset, size)
      start == Skipped(Walk(file.cluster), offset \div ClusterBytes, bad)
      walk == FoldLeft(LAMBDA w, i :
                         IF w.done \/ w.cluster >= FAT32_EOF THEN w
                         ELSE CopiedFrom(w, OffsetInCluster(i, offset), wanted, bad),
                       start @@ [bytes |-> <<>>, done |-> FALSE],
                       [i \in 1 .. wanted + 1 |-> i])
      nothing == Walk(file.cluster) @@ [bytes |-> <<>>]
      end == IF offset >= file.size THEN nothing ELSE walk
  IN /\ answer' = [call |-> "read", file |-> file, offset |-> offset, size |-> size,
                   bytes |-> end.bytes, bad |-> bad]
     /\ CachedAs(end) /\ UNCHANGED <<disk, fs>>

-----------------------------------------------------------------------------
(* Names.                                                                  *)
ucs2_to_utf8(c) ==
  IF c < 128 THEN <<c>>
  ELSE IF c < 2048 THEN <<192 + (c \div 64), 128 + (c % 64)>>
  ELSE <<224 + (c \div 4096), 128 + ((c \div 64) % 64), 128 + (c % 64)>>

lfn_checksum(name) ==
  FoldLeft(LAMBDA sum, c : (128 * (sum % 2) + (sum \div 2) + c) % 256, 0, name)

Space == 32
Pad == 65535
UpToSpace(s) == SubSeq(s, 1, Min({i \in DOMAIN s : s[i] = Space} \cup {Len(s) + 1}) - 1)
ShortName(name) ==
  LET ext == SubSeq(name, StemLength + 1, StemLength + ExtLength)
  IN UpToSpace(SubSeq(name, 1, StemLength)) \o
     IF Head(ext) = Space THEN <<>> ELSE <<46>> \o UpToSpace(ext)

(* lfn_buffer is a string at fixed places, filled with 0 before.  Each     *)
(* entry writes its characters from its own place on, over what is there.  *)
Blank == [i \in 1 .. 6 * Units |-> 0]
PlaceOf(order) == (order - 1) * Units
StoredAt(buffer, place, bytes) ==
  [i \in DOMAIN buffer |-> IF place < i /\ i <= place + Len(bytes) THEN bytes[i - place] ELSE buffer[i]]
Encoded(units) == FlattenSeq([i \in DOMAIN units |->
                                IF units[i] = Pad THEN <<>> ELSE ucs2_to_utf8(units[i])])
Text(buffer) == SubSeq(buffer, 1, Min({i \in DOMAIN buffer : buffer[i] = 0}) - 1)

NoName == [buffer |-> Blank, sum |-> 0, active |-> FALSE]

WithLongEntry(n, e) ==
  LET begun == IF e.last THEN [buffer |-> Blank, sum |-> e.sum, active |-> TRUE] ELSE n
  IN IF begun.active /\ e.sum = begun.sum
     THEN [begun EXCEPT !.buffer = StoredAt(@, PlaceOf(e.order), Encoded(e.units))]
     ELSE begun

AnyChecksum(n, e) == n.active                  \* fault: no checksum verification
Belongs(n, e) == n.active /\ lfn_checksum(e.name) = n.sum
NameOf(n, e) ==
  IF Belongs(n, e) /\ Head(n.buffer) # 0 THEN Text(n.buffer) ELSE ShortName(e.name)

(* A pass over the entries: those that readdir counts and finddir compares,*)
(* with their names, up to the end mark.                                   *)
Entries(entries) ==
  FoldLeft(LAMBDA d, e :
             IF d.ended THEN d
             ELSE IF e.kind = "end" THEN [d EXCEPT !.ended = TRUE]
             ELSE IF e.kind = "deleted" THEN d
             ELSE IF e.kind = "long" THEN [d EXCEPT !.lfn = WithLongEntry(@, e)]
             ELSE IF e.kind = "label" THEN [d EXCEPT !.lfn.active = FALSE]
             ELSE [d EXCEPT !.found = Append(@, [name |-> NameOf(d.lfn, e), cluster |-> e.cluster,
                                                 size |-> e.size]),
                            !.lfn.active = FALSE],
           [ended |-> FALSE, lfn |-> NoName, found |-> <<>>], entries)

(* fat32_readdir asks for a number of an entry, fat32_finddir for a name.  *)
Wanted(found, want) ==
  {i \in DOMAIN found : IF want.by = "index" THEN i = want.index + 1 ELSE found[i].name = want.name}

(* The walk through a directory: on to the next cluster until the entry is *)
(* there, the end mark is, or a sector fails.                              *)
Search(cluster, want, bad) ==
  FoldLeft(LAMBDA w, i :
             IF w.done \/ w.cluster >= FAT32_EOF THEN w
             ELSE LET got == Readable(w.cluster, 0, bad)
                      entries == w.entries \o FlattenSeq(got.sectors)
                      seen == Entries(entries)
                      read == [w EXCEPT !.entries = entries]
                  IN IF Wanted(seen.found, want) # {} \/ got.failed \/ seen.ended
                     THEN [read EXCEPT !.done = TRUE]
                     ELSE fat32_next_cluster(read, bad),
           Walk(cluster) @@ [entries |-> <<>>, done |-> FALSE],
           [i \in 1 .. Max(DOMAIN disk.sectors) |-> i])

NoDirEntry == [name |-> <<>>, cluster |-> 0, size |-> 0]
Look(want, bad) ==
  LET walk == Search(fs.root, want, bad)
      found == Entries(walk.entries).found
      hits == Wanted(found, want)
  IN /\ answer' = [call |-> "look", want |-> want, bad |-> bad,
                   hit |-> IF hits = {} THEN NoDirEntry ELSE found[Min(hits)]]
     /\ CachedAs(walk) /\ UNCHANGED <<disk, fs>>

readdir(index, bad) == Look([by |-> "index", index |-> index], bad)
finddir(name, bad) == Look([by |-> "name", name |-> name], bad)

-----------------------------------------------------------------------------
Fat32Init ==
  /\ disk \in Disk /\ fs = NoFs /\ answer = NoAnswer
  /\ fat_buffer_sector = 0 /\ fat_sector_buffer = [i \in 1 .. FatEntries |-> 0]

Returned ==                                    \* the caller has used the answer
  /\ answer # NoAnswer /\ answer' = NoAnswer
  /\ UNCHANGED <<disk, fs, fat_buffer_sector, fat_sector_buffer>>

Failures == {{}} \cup {{lba} : lba \in DOMAIN disk.sectors}

Fat32Next ==
  \/ Returned
  \/ \E bad \in Failures :
    \/ fat32_init(bad)
    \/ /\ fs.mounted /\ answer = NoAnswer
       /\ \/ \E f \in Range(disk.files), offset \in Offset, size \in Size :
               fat32_read(f, offset, size, bad)
          \/ \E i \in 0 .. Len(disk.files) : readdir(i, bad)
          \/ \E f \in Range(disk.files) : finddir(f.name, bad)

Fat32Spec == Fat32Init /\ [][Fat32Next]_dvars

-----------------------------------------------------------------------------
(* What a read returns is the file's own bytes from the offset on, in      *)
(* spite of fragmented chains, sectors that fail half way and a FAT sector *)
(* cached by another call; and all that was asked for if no sector failed. *)
ReadsAreExact ==
  answer.call = "read" =>
    LET n == Len(answer.bytes)
        whole == IF answer.offset + answer.size <= answer.file.size THEN answer.size
                 ELSE Max({0, answer.file.size - answer.offset})
    IN /\ n <= whole /\ (answer.bad = {} => n = whole)
       /\ answer.bytes = SubSeq(answer.file.bytes, answer.offset + 1, answer.offset + n)

(* The directory tells the names that are stored in it, each with its own  *)
(* file, and a stored name is found, though the parts of long names are    *)
(* stored apart and those of deleted files lie among them                  *)
(* (os-os.txt:1375: UCS-2 to UTF-8, Cyrillic, checksum verification).       *)
Stored(want) ==
  LET hits == Wanted(disk.files, want)
  IN IF hits = {} THEN NoDirEntry
     ELSE LET f == disk.files[Min(hits)]
          IN [name |-> f.name, cluster |-> f.cluster, size |-> f.size]
NamesAreStored ==
  answer.call = "look" =>
    answer.hit = Stored(answer.want) \/ (answer.bad # {} /\ answer.hit = NoDirEntry)
=============================================================================
