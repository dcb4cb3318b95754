----------------------------- MODULE MCServices -----------------------------
(* What the kernel offers behind its system calls, in one run: descriptors *)
(* and inodes (Files), the file systems - a tmpfs file (TmpFile), the      *)
(* FAT32 reader on small disks (Fat32), the tree that boot builds from the *)
(* archive and mounts (Namespace) - and the kernel heap (Buddy).  They     *)
(* share no state: a behaviour moves one of them and leaves the others at  *)
(* rest.                                                                   *)
EXTENDS MCFiles, TmpFile, MCFat32, Namespace, Buddy

VARIABLE part

FatAtRest ==
  /\ disk = NoFs /\ fs = NoFs /\ answer = NoAnswer
  /\ fat_buffer_sector = 0 /\ fat_sector_buffer = <<>>
NamespaceAtRest ==
  node = <<NewNode("/", "dir")>> /\ step = "vfs" /\ archive = <<>> /\ mounts = {}

ServicesInit ==
  /\ part \in {"files", "tmpfs", "fat", "tree", "kmalloc"}
  /\ Init /\ TmpInit /\ BuddyInit
  /\ IF part = "fat" THEN Fat32Init ELSE FatAtRest
  /\ IF part = "tree" THEN NamespaceInit ELSE NamespaceAtRest

ServicesNext ==
  /\ UNCHANGED part
  /\ \/ part = "files"   /\ Next          /\ UNCHANGED <<tvars, dvars, nvars, bvars>>
     \/ part = "tmpfs"   /\ TmpNext       /\ UNCHANGED <<vars, dvars, nvars, bvars>>
     \/ part = "fat"     /\ Fat32Next     /\ UNCHANGED <<vars, tvars, nvars, bvars>>
     \/ part = "tree"    /\ NamespaceNext /\ UNCHANGED <<vars, tvars, dvars, bvars>>
     \/ part = "kmalloc" /\ BuddyNext     /\ UNCHANGED <<vars, tvars, dvars, nvars>>

ServicesSpec == ServicesInit /\ [][ServicesNext]_<<part, vars, tvars, dvars, nvars, bvars>>

-----------------------------------------------------------------------------
(* Heap blocks are alike, and so are the descriptions of a file and the    *)
(* threads: only one part moves, so these are the same values again.       *)
Alike == HeapBlocks

(* Archives: paths with "." and empty names, a file that ends in a block,  *)
(* one whose path is split into prefix and name, one that a mount hides, a *)
(* link, an archive behind a block of its own and one without an end.      *)
TarHeader(name, type, size) ==
  [magic |-> "ustar", prefix |-> <<>>, name |-> name, type |-> type, size |-> size]
Block(a, b) == [bytes |-> <<a, b>>]
NoTarHeader == [TarHeader(<<>>, "file", 0) EXCEPT !.magic = ""]
Tar(more) ==
  <<TarHeader(<<".", "">>, "dir", 0), TarHeader(<<".", "boot", "">>, "dir", 0),
    TarHeader(<<".", "boot", "c">>, "file", 3), Block(1, 2), Block(3, 0),
    TarHeader(<<".", "mnt", "">>, "dir", 0), TarHeader(<<".", "mnt", "c", "">>, "dir", 0),
    [TarHeader(<<"a">>, "file", 2) EXCEPT !.prefix = <<"mnt">>], Block(4, 5),
    TarHeader(<<".", "a">>, "file", 0)>> \o more \o <<NoTarHeader, NoTarHeader>>
MCTar ==
  {Tar(<<>>),
   <<NoTarHeader>> \o Tar(<<TarHeader(<<".", "tmp", "">>, "dir", 0),
                         TarHeader(<<".", "tmp", "a">>, "file", 2), Block(6, 7)>>),
   <<TarHeader(<<"boot", "">>, "dir", 0), TarHeader(<<"boot", "a">>, "link", 0),
     TarHeader(<<"mnt", "c">>, "file", 4), Block(1, 2), Block(3, 4), NoTarHeader>>}
MCAsked ==
  {<<>>, <<"tmp">>, <<"tmp", "">>, <<"tmp", "a">>, <<"tmp", "c">>, <<"tmp", "c", "", "a">>,
   <<"mnt", "c">>, <<"mnt", "", "c", "a">>, <<"dev", "console">>, <<"dev", "a">>,
   <<"boot", "a">>, <<"", "tmp", "a", "c">>}
=============================================================================
