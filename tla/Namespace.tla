----------------------------- MODULE Namespace -----------------------------
(***************************************************************************)
(* The tree of names (vfs.c) as the boot builds it: /dev (devfs.c), the    *)
(* archive of the initial RAM disk (initrd.c), the FAT partition at /mnt/c *)
(* (fat32.c) and tmpfs at /tmp (tmpfs.c); then the lookups by path that    *)
(* the calls make, and the files that open creates.                        *)
(*                                                                         *)
(* A path is the sequence of what stands between its slashes; "" stands    *)
(* for doubled and closing ones.  The names of an archive are such that no *)
(* file is in it twice and a directory precedes what it contains, as tar   *)
(* writes them.                                                            *)
(***************************************************************************)
EXTENDS Integers, Sequences, SequencesExt, FiniteSets, FiniteSetsExt

CONSTANTS
  PathName,                \* names; "dev", "console", "tmp", "mnt", "c", "boot" among them
  Asked,                   \* paths of the calls
  TarImage,                \* the modules: sequences of blocks of 512 bytes
  BlockBytes,              \* 512
  SearchBlocks,            \* 16: headers are looked for in the first 8 KiB
  HasFat,                  \* whether fat32_init found a partition
  MaxHops,                 \* MAX_MOUNT_HOPS
  MaxNodes                 \* bound on the nodes

NamespaceAssumption ==
  /\ {"dev", "console", "tmp", "mnt", "c", "boot"} \subseteq PathName /\ "" \notin PathName
  /\ MaxHops \in Nat /\ MaxNodes \in Nat /\ BlockBytes \in Nat \ {0}
ASSUME NamespaceAssumption

VARIABLES
  node,                    \* the nodes made so far; the first is vfs_root
  step,                    \* how far init_subsystems is
  archive,                 \* the module
  mounts                   \* what was mounted where: pairs of a path and a node

nvars == <<node, step, archive, mounts>>

VfsRoot == 1
NewNode(name, kind) ==
  [name |-> name, kind |-> kind, children |-> <<>>, system |-> FALSE, creates |-> FALSE,
   mountpoint |-> 0, size |-> 0, data |-> 0]

-----------------------------------------------------------------------------
(* Lookups in a tree t of nodes; 0 stands for NULL.                        *)
vfs_generic_finddir(t, n, name) ==
  LET hits == {i \in DOMAIN t[n].children : t[t[n].children[i]].name = name}
  IN IF hits = {} THEN 0 ELSE t[n].children[Min(hits)]

(* A node that something is mounted on gives way to it, and so on.  The    *)
(* hops of one lookup are counted together.                                *)
NoTeleport(t, at) == at                        \* fault: the mountpoint itself is searched
Teleported(t, at) ==
  FoldLeft(LAMBDA w, i :
             IF w.node = 0 \/ t[w.node].mountpoint = 0 THEN w
             ELSE IF w.hops >= MaxHops THEN [w EXCEPT !.node = 0]
             ELSE [node |-> t[w.node].mountpoint, hops |-> w.hops + 1],
           at, [i \in 1 .. MaxHops + 1 |-> i])

Stepped(t, at, name) ==
  LET w == Teleported(t, at)
  IN IF w.node = 0 THEN w
     ELSE [w EXCEPT !.node = IF t[w.node].kind = "dir" THEN vfs_generic_finddir(t, w.node, name) ELSE 0]

Tokens(path) == SelectSeq(path, LAMBDA s : s # "")

vfs_findnode(t, path) ==
  IF path = <<>> THEN VfsRoot
  ELSE Teleported(t, FoldLeft(LAMBDA w, name : IF w.node = 0 THEN w ELSE Stepped(t, w, name),
                              [node |-> VfsRoot, hops |-> 0], Tokens(path))).node

-----------------------------------------------------------------------------
(* vfs_create_node and vfs_add_child: the new node is the last child.      *)
Grown(t, parent, new) ==
  [i \in 1 .. Len(t) + 1 |->
     IF i = Len(t) + 1 THEN new
     ELSE IF i = parent THEN [t[i] EXCEPT !.children = Append(@, Len(t) + 1)] ELSE t[i]]

get_or_create_dir(t, parent, name) ==
  IF vfs_generic_finddir(t, parent, name) # 0 THEN t
  ELSE Grown(t, parent, [NewNode(name, "dir") EXCEPT !.system = t[parent].system])

(* vfs_mkdir_recursive goes through finddir, not through mountpoints.      *)
vfs_mkdir_recursive(t, path) ==
  FoldLeft(LAMBDA w, name :
             LET next == vfs_generic_finddir(w.tree, w.node, name)
             IN IF next # 0 THEN [w EXCEPT !.node = next]
                ELSE [tree |-> Grown(w.tree, w.node, NewNode(name, "dir")), node |-> Len(w.tree) + 1],
           [tree |-> t, node |-> VfsRoot], Tokens(path))

MountedOn(t, n, target) == [t EXCEPT ![n].mountpoint = target]

-----------------------------------------------------------------------------
(* initrd_init.  A header is a block [magic, prefix, name, type, size]; a  *)
(* block of data is any other value.  The header of a file tells where the *)
(* next one is.                                                            *)
IsHeader(b) == "magic" \in DOMAIN b /\ b.magic = "ustar"
IsBlank(b) == "magic" \in DOMAIN b /\ b.magic = "" /\ b.name = <<>>

DataBlocks(size) == (size + BlockBytes - 1) \div BlockBytes

(* prefix/name, without "./" in front and "/" behind.                      *)
CleanPath(h) ==
  LET full == h.prefix \o h.name
      rest == IF full # <<>> /\ Head(full) = "." /\ Len(full) > 1 THEN Tail(full) ELSE full
  IN IF rest # <<>> /\ Last(rest) = "" THEN Front(rest) ELSE rest

WithEntry(t, h, at) ==
  LET path == CleanPath(h)
      way == FoldLeft(LAMBDA w, name :
                        IF name = "" THEN w
                        ELSE LET tree == get_or_create_dir(w.tree, w.node, name)
                             IN [tree |-> tree, node |-> vfs_generic_finddir(tree, w.node, name)],
                      [tree |-> t, node |-> VfsRoot], Front(path))
      made == get_or_create_dir(way.tree, way.node, Last(path))
      dir == vfs_generic_finddir(made, way.node, Last(path))
  IN IF h.type = "dir"
     THEN IF way.node = VfsRoot /\ Last(path) = "boot" THEN [made EXCEPT ![dir].system = TRUE] ELSE made
     ELSE IF h.type = "file"
     THEN Grown(way.tree, way.node,
                [NewNode(Last(path), "file") EXCEPT !.system = way.tree[way.node].system,
                                                    !.size = h.size, !.data = at + 1])
     ELSE way.tree

(* The loop: at is the block of the header, 0 once it has ended.           *)
NextHeader(w, h, blocks) ==
  [w EXCEPT !.at = @ + 1 + (IF h.name = <<>> THEN 0 ELSE DataBlocks(h.size)),
            !.tree = IF h.name = <<>> \/ CleanPath(h) = <<>> THEN @ ELSE WithEntry(@, h, w.at)]

Unpacked(t, blocks) ==
  LET starts == {i \in 1 .. Min({SearchBlocks, Len(blocks)}) : IsHeader(blocks[i])}
      Ended(w) == \/ w.at = 0 \/ w.at > Len(blocks) \/ IsBlank(blocks[w.at])
                  \/ ~IsHeader(blocks[w.at])
  IN IF starts = {} THEN t
     ELSE FoldLeft(LAMBDA w, i : IF Ended(w) THEN [w EXCEPT !.at = 0]
                                 ELSE NextHeader(w, blocks[w.at], blocks),
                   [tree |-> t, at |-> Min(starts)], blocks).tree

(* initrd_read: from the file's blocks in the module.                      *)
initrd_read(n, offset, size) ==
  IF offset >= node[n].size THEN <<>>
  ELSE LET to_read == IF offset + size > node[n].size THEN node[n].size - offset ELSE size
       IN [i \in 1 .. to_read |->
             LET at == offset + i - 1
             IN archive[node[n].data + (at \div BlockBytes)].bytes[(at % BlockBytes) + 1]]

-----------------------------------------------------------------------------
(* init_subsystems, in its order.                                          *)
Then(now, next) == step = now /\ step' = next

DevfsInit ==
  LET dev == vfs_mkdir_recursive(node, <<"dev">>)
  IN /\ Then("vfs", "devfs")
     /\ node' = Grown(dev.tree, dev.node, NewNode("console", "device"))
     /\ UNCHANGED <<archive, mounts>>

InitrdInit ==
  /\ Then("devfs", "initrd") /\ node' = Unpacked(node, archive) /\ UNCHANGED <<archive, mounts>>

(* The root of the FAT stands for all that is below it (Fat32).  Without a *)
(* directory /mnt/c it is not mounted.                                     *)
Fat32Mount ==
  LET mnt_c == vfs_findnode(node, <<"mnt", "c">>)
      with == Append(node, NewNode("fat32_root", "dir"))
  IN /\ Then("initrd", "fat32")
     /\ IF ~HasFat THEN UNCHANGED <<node, mounts>>
        ELSE IF mnt_c = 0 THEN node' = with /\ UNCHANGED mounts
        ELSE /\ node' = MountedOn(with, mnt_c, Len(with))
             /\ mounts' = mounts \cup {<<<<"mnt", "c">>, Len(with)>>}
     /\ UNCHANGED archive

WithTmp(t) == IF vfs_findnode(t, <<"tmp">>) # 0 THEN t ELSE Grown(t, VfsRoot, NewNode("tmp", "dir"))

TmpfsInit ==
  LET t == WithTmp(node)
      at == vfs_findnode(t, <<"tmp">>)
      with == Append(t, [NewNode("tmpfs_root", "dir") EXCEPT !.creates = TRUE])
  IN /\ Then("fat32", "user")
     /\ IF at # 0 /\ with[at].kind = "dir"
        THEN /\ node' = MountedOn(with, at, Len(with))
             /\ mounts' = mounts \cup {<<<<"tmp">>, Len(with)>>}
        ELSE node' = with /\ UNCHANGED mounts
     /\ UNCHANGED archive

-----------------------------------------------------------------------------
(* sys_open with O_CREAT and sys_mkdir: the parent is what precedes the    *)
(* last slash.  Only tmpfs creates.                                        *)
ParentPath(path) == Front(path)

CreateNode(path, kind) ==
  LET parent == vfs_findnode(node, ParentPath(path))
  IN /\ step = "user" /\ path # <<>> /\ Last(path) # "" /\ Len(node) < MaxNodes
     /\ vfs_findnode(node, path) = 0
     /\ parent # 0 /\ node[parent].kind = "dir" /\ node[parent].creates
     /\ node' = Grown(node, parent, [NewNode(Last(path), kind) EXCEPT !.creates = kind = "dir"])
     /\ UNCHANGED <<step, archive, mounts>>

NamespaceInit ==                               \* vfs_init
  /\ node = <<NewNode("/", "dir")>> /\ step = "vfs" /\ archive \in TarImage /\ mounts = {}

NamespaceNext ==
  \/ DevfsInit \/ InitrdInit \/ Fat32Mount \/ TmpfsInit
  \/ \E path \in Asked, kind \in {"file", "dir"} : CreateNode(path, kind)

NamespaceSpec == NamespaceInit /\ [][NamespaceNext]_nvars

-----------------------------------------------------------------------------
(* What the archive holds, by a reading of its own: the headers are those  *)
(* blocks that say so and are not inside the data of an earlier one.       *)
Headers ==
  {i \in DOMAIN archive :
     /\ IsHeader(archive[i])
     /\ \A j \in 1 .. i - 1 :
          IsHeader(archive[j]) => j + (archive[j].size + BlockBytes - 1) \div BlockBytes < i}
FilesIn == {i \in Headers : archive[i].type = "file"}
PathIn(i) == SelectSeq(archive[i].prefix \o archive[i].name, LAMBDA s : s \notin {"", "."})
Hidden(path) == \E m \in mounts : IsPrefix(m[1], path)

(* Once the RAM disk is unpacked, each file of the archive is found at its *)
(* path with its bytes, whole or cut, unless a mount hides it; and what is *)
(* in /boot is kept from programs (initrd.c:218).                          *)
ArchiveIsMounted ==
  step \notin {"vfs", "devfs"} =>
    \A i \in FilesIn : ~Hidden(PathIn(i)) =>
      LET n == vfs_findnode(node, PathIn(i))
          blocks == (archive[i].size + BlockBytes - 1) \div BlockBytes
          all == FlattenSeq([k \in 1 .. blocks |-> archive[i + k].bytes])
      IN /\ n # 0 /\ node[n].kind = "file" /\ node[n].size = archive[i].size
         /\ node[n].system <=> Head(PathIn(i)) = "boot"
         /\ \A offset, size \in 0 .. archive[i].size + 1 :
              initrd_read(n, offset, size) =
                SubSeq(all, offset + 1, Min({offset + size, archive[i].size}))

(* A path leads into what is mounted at its longest mounted prefix, and    *)
(* from there down by names; a closing slash changes nothing.  What open   *)
(* creates is what the next lookup of the path finds, each directory has   *)
(* one entry of a name, and after the boot /tmp takes files, whatever the  *)
(* archive holds.                                                          *)
Below(n, names) ==
  FoldLeft(LAMBDA m, name : IF m = 0 THEN 0 ELSE vfs_generic_finddir(node, m, name), n, names)
PathsLeadThroughMounts ==
  /\ \A path \in Asked :
       LET names == Tokens(path)
           here == {m \in mounts : IsPrefix(m[1], names)}
       IN path # <<>> =>
            vfs_findnode(node, path) =
              IF here = {} THEN Below(VfsRoot, names)
              ELSE LET m == CHOOSE m \in here : \A o \in here : Len(o[1]) <= Len(m[1])
                   IN Below(m[2], SubSeq(names, Len(m[1]) + 1, Len(names)))
  /\ \A n \in DOMAIN node :
       IsInjective([i \in DOMAIN node[n].children |-> node[node[n].children[i]].name])
  /\ step = "user" => LET tmp == vfs_findnode(node, <<"tmp">>) IN tmp # 0 /\ node[tmp].creates

(* The tree that boot builds holds the archive, and vfs_findnode leads     *)
(* every path to what is mounted or created there.                         *)
NamespaceIsExact == ArchiveIsMounted /\ PathsLeadThroughMounts
=============================================================================
