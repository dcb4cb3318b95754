------------------------------- MODULE Files -------------------------------
(***************************************************************************)
(* The three levels of an open file in Enclave: the descriptor table of a  *)
(* task points to open file descriptions (open_file_t), and these point to *)
(* inodes (vfs_node_t) of the tmpfs tree or to /dev/console.  Both levels   *)
(* are counted, and an unlinked inode lives on until its count is 0.       *)
(*                                                                         *)
(* A system call runs with interrupts off, with two exceptions: sys_open   *)
(* (and the open callback of the console) executes `sti` half way, and a   *)
(* console read yields while no key was pressed.  pc[t] names where t can  *)
(* lose the CPU; each action is the code between two such points.          *)
(***************************************************************************)
EXTENDS Integers, FiniteSets, Family

CONSTANTS
  Task, Root,        \* PCB pages; the first task, which descends from nobody
  Fd,                \* indices of fd_table (0..31 in task.h)
  OpenFile,          \* heap blocks for open_file_t
  Inode, Tmp, Console,  \* heap blocks for tmpfs nodes; tmpfs_root; /dev/console
  Name,              \* names of directory entries
  MaxRefs,           \* bound: no new reference to a node that has MaxRefs
  NULL

ASSUME FilesAssumption ==
  /\ Root \in Task /\ IsFiniteSet(Task) /\ IsFiniteSet(OpenFile)
  /\ Fd \in SUBSET Nat /\ IsFiniteSet(Fd)
  /\ Tmp \notin Inode /\ Console \notin Inode \cup {Tmp} /\ NULL \notin Task
  /\ NULL \notin OpenFile \cup Inode \cup {Tmp, Console}
  /\ MaxRefs \in Nat

VfsNode == Inode \cup {Tmp, Console}

VARIABLES
  alive, parent,             \* the tasks that live, and who forked them
  fd_table,                  \* task_t: fd_table[t][i]
  of_node, of_refs,          \* open_file_t: node and ref_count, 0 when free
  kind, node_refs, is_unlinked,   \* vfs_node_t: what it is, ref_count, orphan
  entries,                   \* vfs_node_t: the children of a directory by name
  console_open_count,        \* devfs.c
  pc, hand                   \* where a task is in a call, and what it holds

refs == <<of_node, of_refs>>
inodes == <<kind, is_unlinked, entries>>
where == <<pc, hand>>
tasks == <<alive, parent>>
vars == <<alive, parent, fd_table, of_node, of_refs, kind, node_refs,
          is_unlinked, entries, console_open_count, pc, hand>>

NoEntry == [x \in Name |-> NULL]

Init ==
  /\ alive = {Root} /\ parent = [t \in Task |-> NULL]
  /\ fd_table = [t \in Task |-> [i \in Fd |-> NULL]]
  /\ of_node = [f \in OpenFile |-> NULL] /\ of_refs = [f \in OpenFile |-> 0]
  /\ kind = [n \in VfsNode |-> IF n = Tmp THEN "dir"
                            ELSE IF n = Console THEN "device" ELSE "free"]
  /\ node_refs = [n \in VfsNode |-> 0]
  /\ is_unlinked = [n \in VfsNode |-> FALSE]
  /\ entries = [n \in VfsNode |-> NoEntry]
  /\ console_open_count = 0
  /\ pc = [t \in Task |-> "user"] /\ hand = [t \in Task |-> NULL]

Calls(t) == t \in alive /\ pc[t] = "user"
Goes(t, at, what) == pc' = [pc EXCEPT ![t] = at] /\ hand' = [hand EXCEPT ![t] = what]

(* The directories a path can lead to.                                     *)
Directory == {n \in VfsNode : kind[n] = "dir" /\ ~is_unlinked[n]}

(* node->ref_count++                                                       *)
Grabbed(n) == [node_refs EXCEPT ![n] = @ + 1]

-----------------------------------------------------------------------------
(* sys_open.  tmpfs_create makes a node for a path that leads nowhere, and *)
(* sys_mkdir a directory, which it does not open.                          *)
Create(d, x, k, n) ==
  /\ kind[n] = "free" /\ entries[d][x] = NULL
  /\ kind' = [kind EXCEPT ![n] = k]
  /\ entries' = [entries EXCEPT ![d][x] = n]
  /\ UNCHANGED is_unlinked

OpenNode(t) ==
  /\ Calls(t)
  /\ \E d \in Directory, x \in Name, n \in Inode :
       /\ \/ entries[d][x] = n /\ UNCHANGED inodes
          \/ Create(d, x, "file", n)                    \* O_CREAT
       /\ node_refs[n] < MaxRefs
       /\ node_refs' = Grabbed(n)
       /\ Goes(t, "alloc", n)
  /\ UNCHANGED <<tasks, fd_table, refs, console_open_count>>

Mkdir(t) ==
  /\ Calls(t)
  /\ \E d \in Directory, x \in Name, n \in Inode : Create(d, x, "dir", n)
  /\ UNCHANGED <<tasks, fd_table, refs, node_refs, console_open_count, where>>

(* devfs_console_open sets IF again before sys_open counts the reference.  *)
ConsoleIsFree == TRUE                         \* fault: no exclusion
ConsoleCloses == console_open_count = 0

OpenConsole(t) ==
  /\ Calls(t) /\ ConsoleCloses
  /\ console_open_count' = console_open_count + 1
  /\ Goes(t, "opening", Console)
  /\ UNCHANGED <<tasks, fd_table, refs, inodes, node_refs>>

CountConsole(t) ==
  /\ t \in alive /\ pc[t] = "opening"
  /\ node_refs[Console] < MaxRefs
  /\ node_refs' = Grabbed(Console)
  /\ Goes(t, "alloc", Console)
  /\ UNCHANGED <<tasks, fd_table, refs, inodes, console_open_count>>

(* kmalloc(sizeof(open_file_t)); without memory the count is taken back.   *)
OpenAlloc(t) ==
  /\ t \in alive /\ pc[t] = "alloc"
  /\ \/ \E f \in OpenFile :
          /\ of_refs[f] = 0
          /\ of_refs' = [of_refs EXCEPT ![f] = 1]
          /\ of_node' = [of_node EXCEPT ![f] = hand[t]]
          /\ Goes(t, "install", f)
     \/ Goes(t, "undo", hand[t]) /\ UNCHANGED refs
  /\ UNCHANGED <<tasks, fd_table, inodes, node_refs, console_open_count>>

(* The lowest free descriptor, or EMFILE.                                  *)
FreeFd(t) == {i \in Fd : fd_table[t][i] = NULL}
Lowest(S) == CHOOSE i \in S : \A j \in S : i <= j

OpenInstall(t) ==
  /\ t \in alive /\ pc[t] = "install"
  /\ \/ /\ FreeFd(t) # {}
        /\ fd_table' = [fd_table EXCEPT ![t][Lowest(FreeFd(t))] = hand[t]]
        /\ Goes(t, "user", NULL)
        /\ UNCHANGED refs
     \/ /\ FreeFd(t) = {}
        /\ of_refs' = [of_refs EXCEPT ![hand[t]] = 0]
        /\ of_node' = [of_node EXCEPT ![hand[t]] = NULL]
        /\ Goes(t, "undo", of_node[hand[t]])
        /\ UNCHANGED fd_table
  /\ UNCHANGED <<tasks, inodes, node_refs, console_open_count>>

OpenUndo(t) ==
  /\ t \in alive /\ pc[t] = "undo"
  /\ node_refs' = [node_refs EXCEPT ![hand[t]] = @ - 1]
  /\ Goes(t, "user", NULL)
  /\ UNCHANGED <<tasks, fd_table, refs, inodes, console_open_count>>

-----------------------------------------------------------------------------
(* vfs_close_fd for each descriptor in H, a set of pairs <<task, index>>.  *)
(* The last reference to an open file drops one reference to its inode,    *)
(* and an unlinked inode goes with its last reference.  (Only then is the  *)
(* close callback called, so the console, which is never unlinked, keeps   *)
(* its console_open_count.)                                                *)
Dropped(f, H) == Cardinality({h \in H : fd_table[h[1]][h[2]] = f})
Closed(H) == {f \in OpenFile : Dropped(f, H) > 0 /\ of_refs[f] = Dropped(f, H)}
Released(n, H) == Cardinality({f \in Closed(H) : of_node[f] = n})
Orphan(n, H) ==
  Released(n, H) > 0 /\ node_refs[n] = Released(n, H) /\ is_unlinked[n]

(* Close H, then count one more reference to g (none if g is NULL).        *)
CloseAndCount(H, g) ==
  LET one(test) == IF test THEN 1 ELSE 0
  IN /\ of_refs' = [f \in OpenFile |-> of_refs[f] - Dropped(f, H) + one(f = g)]
     /\ of_node' = [f \in OpenFile |-> IF f \in Closed(H) THEN NULL ELSE of_node[f]]
     /\ node_refs' = [n \in VfsNode |-> node_refs[n] - Released(n, H)
                                     + one(g # NULL /\ n = of_node[g])]
     /\ kind' = [n \in VfsNode |-> IF Orphan(n, H) THEN "free" ELSE kind[n]]
     /\ is_unlinked' = [n \in VfsNode |-> is_unlinked[n] /\ ~Orphan(n, H)]
     /\ UNCHANGED <<entries, console_open_count>>

Close(H) ==
  /\ fd_table' = [t \in Task |-> [i \in Fd |->
                    IF <<t, i>> \in H THEN NULL ELSE fd_table[t][i]]]
  /\ CloseAndCount(H, NULL)

InUse(T) == {h \in T \X Fd : fd_table[h[1]][h[2]] # NULL}

SysClose(t) ==
  /\ Calls(t)
  /\ \E h \in InUse({t}) : Close({h})
  /\ UNCHANGED <<tasks, where>>

(* sys_dup and sys_dup2: one more descriptor for an open file.  sys_dup    *)
(* takes the lowest that is free; sys_dup2 closes the one it is given.     *)
Duplicate(t, i, j) ==
  LET f == fd_table[t][i]
  IN /\ i # j /\ f # NULL /\ node_refs[of_node[f]] < MaxRefs
     /\ fd_table' = [fd_table EXCEPT ![t][j] = f]
     /\ CloseAndCount(InUse({t}) \cap {<<t, j>>}, f)

Dup(t) ==
  /\ Calls(t) /\ FreeFd(t) # {}
  /\ \E i \in Fd : Duplicate(t, i, Lowest(FreeFd(t)))
  /\ UNCHANGED <<tasks, where>>

Dup2(t) ==
  /\ Calls(t)
  /\ \E i, j \in Fd : Duplicate(t, i, j)
  /\ UNCHANGED <<tasks, where>>

(* sys_unlink: tmpfs_unlink takes the entry out, unless it is a directory  *)
(* that is not empty; a node that nobody has open is freed at once.        *)
MayRemove(n) == TRUE                          \* fault: no ENOTEMPTY
Removable(n) == entries[n] = NoEntry

Needless(n) == TRUE                           \* fault: freed while open
Unreferenced(n) == node_refs[n] = 0

Unlink(t) ==
  /\ Calls(t)
  /\ \E d \in Directory, x \in Name :
       LET n == entries[d][x]
       IN /\ n # NULL /\ Removable(n)
          /\ entries' = [entries EXCEPT ![d][x] = NULL]
          /\ is_unlinked' = [is_unlinked EXCEPT ![n] = ~Unreferenced(n)]
          /\ kind' = [kind EXCEPT ![n] = IF Unreferenced(n) THEN "free" ELSE @]
  /\ UNCHANGED <<tasks, fd_table, refs, node_refs, console_open_count, where>>

-----------------------------------------------------------------------------
(* A read of the console waits for a key and yields; it goes on with the   *)
(* open_file_t it looked up at the start (of->offset += bytes).            *)
ReadConsole(t) ==
  /\ Calls(t)
  /\ \E i \in Fd :
       /\ fd_table[t][i] # NULL /\ of_node[fd_table[t][i]] = Console
       /\ Goes(t, "reading", fd_table[t][i])
  /\ UNCHANGED <<tasks, fd_table, refs, inodes, node_refs, console_open_count>>

ReadReturns(t) ==
  /\ t \in alive /\ pc[t] = "reading"
  /\ Goes(t, "user", NULL)
  /\ UNCHANGED <<tasks, fd_table, refs, inodes, node_refs, console_open_count>>

(* task_fork: the child gets every descriptor of the parent.               *)
Uncounted(f, t) == 0                          \* fault: open files not counted
Copies(f, t) == Cardinality({i \in Fd : fd_table[t][i] = f})

Fork(t) ==
  LET more(n) == Cardinality({i \in Fd : /\ fd_table[t][i] # NULL
                                         /\ of_node[fd_table[t][i]] = n})
  IN /\ Calls(t)
     /\ \A n \in VfsNode : node_refs[n] + more(n) <= MaxRefs
     /\ \E c \in Task \ alive :
          /\ alive' = alive \cup {c}
          /\ parent' = [parent EXCEPT ![c] = t]
          /\ fd_table' = [fd_table EXCEPT ![c] = fd_table[t]]
     /\ of_refs' = [f \in OpenFile |-> of_refs[f] + Copies(f, t)]
     /\ node_refs' = [n \in VfsNode |-> node_refs[n] + more(n)]
     /\ UNCHANGED <<of_node, inodes, console_open_count, where>>

(* The death of t: task_cleanup_children_on_exit takes its subtree along,  *)
(* wherever those tasks lost the CPU, and every descriptor is closed.      *)
Exit(t) ==
  LET D == Subtree(t, alive, parent)
  IN /\ Calls(t)
     /\ Close(InUse(D))
     /\ alive' = alive \ D
     /\ parent' = [c \in Task |-> IF c \in D THEN NULL ELSE parent[c]]
     /\ pc' = [c \in Task |-> IF c \in D THEN "user" ELSE pc[c]]
     /\ hand' = [c \in Task |-> IF c \in D THEN NULL ELSE hand[c]]

-----------------------------------------------------------------------------
Next ==
  \E t \in Task :
    \/ OpenNode(t) \/ Mkdir(t) \/ OpenConsole(t) \/ CountConsole(t)
    \/ OpenAlloc(t) \/ OpenInstall(t) \/ OpenUndo(t)
    \/ SysClose(t) \/ Dup(t) \/ Dup2(t) \/ Unlink(t)
    \/ ReadConsole(t) \/ ReadReturns(t) \/ Fork(t) \/ Exit(t)

Spec == Init /\ [][Next]_vars

-----------------------------------------------------------------------------
FTypeOK ==
  /\ alive \in SUBSET Task /\ parent \in [Task -> Task \cup {NULL}]
  /\ fd_table \in [Task -> [Fd -> OpenFile \cup {NULL}]]
  /\ of_node \in [OpenFile -> VfsNode \cup {NULL}] /\ of_refs \in [OpenFile -> Nat]
  /\ kind \in [VfsNode -> {"free", "file", "dir", "device"}]
  /\ node_refs \in [VfsNode -> Nat] /\ is_unlinked \in [VfsNode -> BOOLEAN]
  /\ entries \in [VfsNode -> [Name -> Inode \cup {NULL}]]
  /\ console_open_count \in 0..1
  /\ pc \in [Task -> {"user", "opening", "alloc", "install", "undo", "reading"}]
  /\ hand \in [Task -> OpenFile \cup VfsNode \cup {NULL}]

Holders(f) == {h \in Task \X Fd : fd_table[h[1]][h[2]] = f}
Opens(n) == {f \in OpenFile : of_refs[f] > 0 /\ of_node[f] = n}
Opening(n) == {t \in Task : pc[t] \in {"alloc", "undo"} /\ hand[t] = n}

(* dup, dup2, fork, close and the death of a task keep the count of an open *)
(* file equal to the number of descriptors that hold it, in every task.    *)
OpenFilesAreCounted ==
  \A f \in OpenFile :
    Holders(f) # {} => of_refs[f] = Cardinality(Holders(f))

(* No descriptor leads to an open file that was freed, no open file to a   *)
(* freed inode, and a task that lost the CPU in sys_open or in a console   *)
(* read still holds what it looked up, whatever the others closed,         *)
(* unlinked or killed in the meantime.                                     *)
NoUseAfterFree ==
  /\ \A f \in OpenFile : of_refs[f] > 0 => of_node[f] # NULL /\ kind[of_node[f]] # "free"
  /\ \A f \in OpenFile : Holders(f) # {} => of_refs[f] > 0
  /\ \A t \in Task :
       /\ pc[t] \in {"install", "reading"} => of_refs[hand[t]] > 0
       /\ pc[t] \in {"opening", "alloc", "undo"} => kind[hand[t]] # "free"

(* The count of an inode covers every open file and every sys_open on its  *)
(* way, which is what keeps unlink and close from freeing it under them.   *)
NodeRefsCoverOpens ==
  \A n \in VfsNode :
    node_refs[n] >= Cardinality(Opens(n)) + Cardinality(Opening(n))

(* The tree holds each node that is not unlinked exactly once, and a node  *)
(* that is gone or unlinked has no children left: no subtree gets lost.    *)
TreeHoldsLiveNodes ==
  LET places(n) == {p \in VfsNode \X Name : entries[p[1]][p[2]] = n}
  IN /\ \A n \in Inode : IF kind[n] # "free" /\ ~is_unlinked[n]
                          THEN Cardinality(places(n)) = 1 ELSE places(n) = {}
     /\ \A n \in VfsNode : n \notin Directory => entries[n] = NoEntry

(* devfs.c: /dev/console is an "exclusive resource": one open file of it,  *)
(* or one sys_open that will make it.                                      *)
ConsoleIsExclusive ==
  LET opening == {t \in Task : pc[t] = "opening"} \cup Opening(Console)
  IN Cardinality(Opens(Console)) + Cardinality(opening) <= 1

(* What the repository says of the program and the code does not do.       *)
(* vfs.h says of vfs_node_t.ref_count: the number of open_file_t that       *)
(* point to this node.                                                     *)
NodeRefsAreOpenFiles ==
  \A n \in VfsNode : Opening(n) = {} => node_refs[n] = Cardinality(Opens(n))

(* os-os.txt: a new Init can "open /dev/console again" once the tasks that  *)
(* had it open are gone.                                                   *)
ConsoleReopens ==
  Opens(Console) = {} /\ (\A t \in Task : pc[t] = "user")
    => console_open_count = 0

(* Both levels of counting of vfs.c: descriptors per open file, and opens  *)
(* per inode.                                                              *)
OpensAreCounted == FTypeOK /\ OpenFilesAreCounted /\ NodeRefsCoverOpens
=============================================================================
